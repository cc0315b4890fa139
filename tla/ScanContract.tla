---------------------------- MODULE ScanContract ----------------------------
(***************************************************************************)
(* What a caller of RunScan may rely on, whatever the cluster and the LLM  *)
(* do: the scan returns once, with a report or with an error, and it is    *)
(* only able to complete a report while its context is live.  (The caller  *)
(* may read a completed report after the context has ended: ReturnReport   *)
(* is the moment the last call completes.)  ScanPipeline, the detailed     *)
(* module, implements this one; AgentWatch relies on it.                   *)
(***************************************************************************)

VARIABLES ctx,      \* "live" or "done"
          outcome   \* "running", "report" or "error"

vars == <<ctx, outcome>>

Init == ctx \in {"live", "done"} /\ outcome = "running"

CtxEnds == ctx = "live" /\ ctx' = "done" /\ UNCHANGED outcome

ReturnReport == outcome = "running" /\ ctx = "live" /\ outcome' = "report" /\ UNCHANGED ctx

ReturnError == outcome = "running" /\ outcome' = "error" /\ UNCHANGED ctx

Return == ReturnReport \/ ReturnError

Next == CtxEnds \/ Return

Spec == Init /\ [][Next]_vars

\* A scan comes to an end.
FairSpec == Spec /\ WF_vars(Return)
=============================================================================
