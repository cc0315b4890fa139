------------------------------ MODULE CliWatch ------------------------------
(***************************************************************************)
(* One clarctl process that scans: the commands scan and watch with their  *)
(* contexts, the pipeline they run, and the cluster snapshot that watch    *)
(* takes after a report (clarctl-go/cmd, internal/ai/pipeline.go,          *)
(* internal/k8s/client.go, internal/db).                                   *)
(* clarctl's RunScan has the control flow of the agent's, so the pipeline  *)
(* is an instance of ScanPipeline with clarctl's stages and reads.         *)
(*                                                                         *)
(* Ctrl+C cancels ctx (signal.NotifyContext); scanCtx adds a deadline to   *)
(* it, CollectSnapshot has none of its own, and neither the prompt nor the *)
(* remediation looks at it.  What remediation does is in CliRemediation,   *)
(* where the settings come from is in CliConfig.                           *)
(***************************************************************************)
EXTENDS Integers, Sequences, FiniteSets, SequencesExt

CONSTANTS
  MaxRetries,  \* attempts of RunScan
  Backoffs,    \* retryBackoffs, in seconds
  Namespaces,  \* cfg.Namespaces
  Node,        \* nodes of the cluster
  Pod,         \* pods of the cluster
  Worlds       \* states that the cluster may be in when a snapshot is taken

ASSUME NamespacesAssumption == Namespaces \in Seq(STRING) /\ Len(Namespaces) >= 1
\* An empty name, which stands for all namespaces in the Kubernetes API, is left out.
ASSUME NamesAssumption == \A k \in 1 .. Len(Namespaces) : Namespaces[k] # ""

ASSUME RetriesAssumption  == MaxRetries \in Nat \ {0}
ASSUME BackoffsAssumption == Backoffs \in Seq(Nat) /\ Len(Backoffs) >= MaxRetries
ASSUME ClusterAssumption  == IsFiniteSet(Node) /\ IsFiniteSet(Pod)

\* Conditions of a node that may be True; a pod's phase, and the reason of its last
\* waiting container, as summarisePod keeps them.
Conditions == {"Ready", "DiskPressure"}
Phases     == {"Running", "Pending", "Failed", "Succeeded"}
Waiting    == {"none", "CrashLoopBackOff", "ContainerCreating"}

\* A state of the cluster: its nodes with the conditions that are True, its pods.
World ==
  [nodes : [Node -> SUBSET Conditions],
   pods : [Pod -> [ns : ToSet(Namespaces), phase : Phases, waiting : Waiting]]]

ASSUME WorldsAssumption == Worlds \subseteq World /\ Worlds # {}

-----------------------------------------------------------------------------
(* The pipeline.  Triage is two steps here: reading the cluster, and the   *)
(* first LLM call.                                                         *)

CliStages == <<"collect", "triage", "metrics", "logs", "infra", "runbook", "commander">>

\* collectTriageData: the pods of every namespace must be listed ...
PodReads == [k \in 1 .. Len(Namespaces) |-> "required"]

\* ... warning events, nodes and namespace summaries may fail.  (So may the pod logs that
\* stage "logs" reads with collectLogData: they add to its prompt or not.)
ContextReads == <<"extra", "extra", "extra">>

CliReads == PodReads \o ContextReads

\* The earlier stages whose output the prompt of each stage quotes.
PromptInputs == <<{}, {1}, {2}, {2, 3}, {2, 3, 4}, {2, 3, 4, 5}, {2, 3, 4, 5, 6}>>

\* Every prompt after triage quotes the triage report and all that came between, so it
\* rests on the same readings as a prompt of ScanPipeline, which quotes all outputs.
ASSUME PromptsAssumption ==
  \A s \in 3 .. Len(CliStages) : PromptInputs[s] = 2 .. s - 1

VARIABLES
  ctx, pc, attempt, stage, read, derived, result, calls, waited,  \* of ScanPipeline
  at,           \* where the process is
  cmd,          \* "scan" or "watch"
  interrupted,  \* ctx is cancelled
  report,       \* the report in hand: none, or whether it has a plan
  cluster,      \* the state of the cluster
  changed,      \* it has changed since the snapshot was begun
  got,          \* the locals of CollectSnapshot
  stored        \* the snapshot this round has written

pipe == <<ctx, pc, attempt, stage, read, derived, result, calls, waited>>
vars == <<pipe, at, cmd, interrupted, report, cluster, changed, got, stored>>

Pipe == INSTANCE ScanPipeline WITH Stages <- CliStages, Reads <- CliReads

Places == {"off",       \* not running
           "top",       \* the head of watch's loop
           "scan",      \* in RunScan
           "snapshot",  \* in CollectSnapshot
           "store",     \* before SaveSnapshot
           "prompt",    \* in PromptRemediation
           "apply",     \* in applyRemediation
           "wait"}      \* in watch's select

Figures ==
  [nodes : Nat, ready : Nat, pods : Nat, running : Nat, pending : Nat, failed : Nat,
   crashloop : Nat]

NoSnapshot == [nodes |-> 0, ready |-> 0, pods |-> 0, running |-> 0, pending |-> 0,
               failed |-> 0, crashloop |-> 0]

\* next is the namespace to list next, 0 as long as the nodes have not been read.
Nothing == [next |-> 0, figures |-> NoSnapshot]

Consistent(f) == /\ f.ready <= f.nodes
                 /\ f.running + f.pending + f.failed <= f.pods
                 /\ f.crashloop <= f.pods

TypeOK ==
  /\ Pipe!TypeOK
  /\ at \in Places
  /\ cmd \in {"scan", "watch"}
  /\ interrupted \in BOOLEAN
  /\ report \in {"none", "plan", "no plan"}
  /\ cluster \in Worlds
  /\ changed \in BOOLEAN
  /\ got.next \in 0 .. Len(Namespaces) + 1
  /\ got.figures \in Figures /\ Consistent(got.figures)
  /\ stored \in Figures /\ Consistent(stored)

\* No scan is going on.
PipeIdle(context) ==
  /\ ctx = context
  /\ pc = "stage" /\ attempt = 0 /\ stage = 1 /\ read = 1
  /\ derived = Pipe!NoOutputs /\ result = "none" /\ calls = 0 /\ waited = 0

Init ==
  /\ PipeIdle("live")
  /\ at = "off"
  /\ cmd \in {"scan", "watch"}
  /\ interrupted = FALSE
  /\ report = "none"
  /\ cluster \in Worlds
  /\ changed = FALSE
  /\ got = Nothing
  /\ stored = NoSnapshot

-----------------------------------------------------------------------------
(* Starting, scanning, and what comes of a scan.                           *)

ResetPipe(context) ==
  /\ ctx' = context
  /\ pc' = "stage" /\ attempt' = 0 /\ stage' = 1 /\ read' = 1
  /\ derived' = Pipe!NoOutputs /\ result' = "none" /\ calls' = 0 /\ waited' = 0

\* A command is started; when setup or ai.New fails it ends at once, and nothing changes.
Start ==
  /\ at = "off"
  /\ cmd' \in {"scan", "watch"}
  /\ at' = "top"
  /\ interrupted' = FALSE
  /\ UNCHANGED <<pipe, report, cluster, changed, got, stored>>

\* RunScan is called with scanCtx, which is done at once if AGENT_TIMEOUT_SECONDS is not
\* positive.  Only watch looks at ctx first.
BeginScan ==
  /\ at = "top"
  /\ cmd = "watch" => ~interrupted
  /\ at' = "scan"
  /\ \E context \in IF interrupted THEN {"done"} ELSE {"live", "done"} : ResetPipe(context)
  /\ stored' = NoSnapshot
  /\ UNCHANGED <<cmd, interrupted, report, cluster, changed, got>>

StopAtTop ==
  /\ at = "top"
  /\ cmd = "watch" /\ interrupted
  /\ at' = "off"
  /\ UNCHANGED <<pipe, cmd, interrupted, report, cluster, changed, got, stored>>

Scan ==
  /\ at = "scan"
  /\ Pipe!Step
  /\ UNCHANGED <<at, cmd, interrupted, report, cluster, changed, got, stored>>

Deadline ==
  /\ at = "scan"
  /\ Pipe!CtxEnds
  /\ UNCHANGED <<at, cmd, interrupted, report, cluster, changed, got, stored>>

\* Mutant: watch returns every error of RunScan, as scan does.
FailedEndsWatch ==
  /\ at = "scan" /\ pc = "returned" /\ ~Pipe!Reported
  /\ at' = "off"
  /\ ResetPipe("live")
  /\ UNCHANGED <<cmd, interrupted, report, cluster, changed, got, stored>>

\* An error ends scan; it ends watch only after Ctrl+C.
ScanFailed ==
  /\ at = "scan" /\ pc = "returned" /\ ~Pipe!Reported
  /\ at' = IF cmd = "scan" \/ interrupted THEN "off" ELSE "wait"
  /\ ResetPipe("live")
  /\ UNCHANGED <<cmd, interrupted, report, cluster, changed, got, stored>>

\* The places a round may go to when all is stored: the prompt, if there is a plan and
\* --apply was given (and, in watch, the severity is SEV1 or SEV2), or on.
AfterReport(r) ==
  LET on == IF cmd = "watch" THEN "wait" ELSE "off" IN
  IF r = "plan" THEN {"prompt", on} ELSE {on}

\* SaveIncident, whose error does not matter; a report that was made of an answer that
\* did not parse has no plan.  watch then takes a snapshot of the cluster, whatever state
\* that is in by now.
ScanReported ==
  /\ at = "scan" /\ pc = "returned" /\ Pipe!Reported
  /\ \E r \in IF result = "report" THEN {"plan", "no plan"} ELSE {"no plan"} :
       IF cmd = "watch" THEN at' = "snapshot" /\ report' = r
                        ELSE at' \in AfterReport(r) /\ report' = "none"
  /\ ResetPipe("live")
  /\ cluster' \in Worlds
  /\ changed' = FALSE
  /\ UNCHANGED <<cmd, interrupted, got, stored>>

-----------------------------------------------------------------------------
(* CollectSnapshot: the nodes, then the pods of one namespace after the    *)
(* other, while the cluster may change.  A read without a deadline need    *)
(* not ever return.                                                        *)

\* Mutant: every condition that is True counts as Ready.
ReadyByAnyCondition(w) == {x \in Node \X Conditions : x[2] \in w.nodes[x[1]]}

ReadyNodes(w) == {n \in Node : "Ready" \in w.nodes[n]}

PodsIn(w, names) == {p \in Pod : w.pods[p].ns \in names}

InPhase(w, pods, phase) == Cardinality({p \in pods : w.pods[p].phase = phase})

Crashing(w, pods) == Cardinality({p \in pods : w.pods[p].waiting = "CrashLoopBackOff"})

CountNodes(w) ==
  [NoSnapshot EXCEPT !.nodes = Cardinality(Node), !.ready = Cardinality(ReadyNodes(w))]

CountPods(w, pods, f) ==
  [f EXCEPT !.pods = @ + Cardinality(pods),
            !.running = @ + InPhase(w, pods, "Running"),
            !.pending = @ + InPhase(w, pods, "Pending"),
            !.failed = @ + InPhase(w, pods, "Failed"),
            !.crashloop = @ + Crashing(w, pods)]

GetNodeHealth ==
  /\ at = "snapshot" /\ got.next = 0
  /\ ~interrupted
  /\ got' = [next |-> 1, figures |-> CountNodes(cluster)]
  /\ UNCHANGED <<pipe, at, cmd, interrupted, report, cluster, changed, stored>>

ListPods ==
  /\ at = "snapshot" /\ got.next >= 1
  /\ ~interrupted
  /\ got' = [next |-> got.next + 1,
             figures |-> CountPods(cluster, PodsIn(cluster, {Namespaces[got.next]}), got.figures)]
  /\ at' = IF got.next = Len(Namespaces) THEN "store" ELSE at
  /\ UNCHANGED <<pipe, cmd, interrupted, report, cluster, changed, stored>>

EndRound ==
  /\ at' \in AfterReport(report)
  /\ report' = "none"
  /\ got' = Nothing

\* Mutants: a failed read ends the collection and what there is gets stored; the reads
\* are not given ctx.
ReadSkipped ==
  /\ at = "snapshot"
  /\ at' = "store"
  /\ UNCHANGED <<pipe, cmd, interrupted, report, cluster, changed, got, stored>>

ReadWithoutContext ==
  /\ at = "snapshot"
  /\ ~interrupted
  /\ EndRound
  /\ UNCHANGED <<pipe, cmd, interrupted, cluster, changed, stored>>

\* A read fails, as every read does once ctx is cancelled: there is no snapshot.
ReadFails ==
  /\ at = "snapshot"
  /\ EndRound
  /\ UNCHANGED <<pipe, cmd, interrupted, cluster, changed, stored>>

\* SaveSnapshot, whose error does not matter.
SaveSnapshot ==
  /\ at = "store"
  /\ stored' \in {got.figures, stored}
  /\ EndRound
  /\ UNCHANGED <<pipe, cmd, interrupted, cluster, changed>>

-----------------------------------------------------------------------------
(* The prompt, the remediation and the wait for the next round.            *)

Answer ==
  /\ at = "prompt"
  /\ at' \in {"apply"} \cup AfterReport("no plan")
  /\ UNCHANGED <<pipe, cmd, interrupted, report, cluster, changed, got, stored>>

Remediated ==
  /\ at = "apply"
  /\ at' \in AfterReport("no plan")
  /\ UNCHANGED <<pipe, cmd, interrupted, report, cluster, changed, got, stored>>

\* The select may take either when both are ready.
TimerFires ==
  /\ at = "wait"
  /\ at' = "top"
  /\ UNCHANGED <<pipe, cmd, interrupted, report, cluster, changed, got, stored>>

SeesDone ==
  /\ at = "wait"
  /\ interrupted
  /\ at' = "off"
  /\ UNCHANGED <<pipe, cmd, interrupted, report, cluster, changed, got, stored>>

-----------------------------------------------------------------------------
(* The environment.                                                        *)

\* Ctrl+C or SIGTERM; all but the first are swallowed.
Interrupt ==
  /\ at # "off"
  /\ ~interrupted
  /\ interrupted' = TRUE
  /\ ctx' = IF at = "scan" THEN "done" ELSE ctx
  /\ UNCHANGED <<pc, attempt, stage, read, derived, result, calls, waited,
                 at, cmd, report, cluster, changed, got, stored>>

ClusterChanges ==
  /\ at = "snapshot"
  /\ changed' = TRUE
  /\ cluster' \in Worlds
  /\ UNCHANGED <<pipe, at, cmd, interrupted, report, got, stored>>

Round == BeginScan \/ StopAtTop \/ Scan \/ ScanFailed \/ ScanReported

Next ==
  \/ Start \/ Round \/ Deadline
  \/ GetNodeHealth \/ ListPods \/ ReadFails \/ SaveSnapshot
  \/ Answer \/ Remediated
  \/ TimerFires \/ SeesDone
  \/ Interrupt \/ ClusterChanges

Spec == Init /\ [][Next]_vars

\* The process runs on; calls of the pipeline honour scanCtx, which has a deadline, and
\* timers fire.  A read of the snapshot is sure to return only when ctx is cancelled;
\* nobody is sure to answer the prompt, and kubectl has no deadline either.
Fairness ==
  /\ WF_vars(Round)
  /\ WF_vars(SaveSnapshot)
  /\ WF_vars(TimerFires \/ SeesDone)
  /\ WF_vars(interrupted /\ ReadFails)

FairSpec == Spec /\ Fairness

-----------------------------------------------------------------------------
(* Properties.                                                             *)

\* The figures that a cluster in state w would be given by one single look at it.
Reference(w) ==
  CountPods(w, PodsIn(w, ToSet(Namespaces)), CountNodes(w))

\* No partial snapshot is ever stored: it covers the nodes and every namespace, each
\* once, so that on a cluster that stays as it is the figures are those of the cluster,
\* whichever reads fail, in this round or an earlier one.
SnapshotIsExact ==
  [][stored' # stored /\ stored' # NoSnapshot /\ ~changed => stored' = Reference(cluster)]_vars

\* watch.go:34 "Ctrl+C to stop": the process ends, unless it is waiting for an answer
\* or for kubectl.
InterruptStops == interrupted ~> at \in {"off", "prompt", "apply"}

\* No failure ends a watch, or holds it up in a scan: it gets to its next round, unless
\* a read of the snapshot or the prompt never returns.
WatchKeepsScanning ==
  /\ cmd = "watch" /\ at = "scan" ~> at \in {"snapshot", "wait"} \/ interrupted
  /\ at \in {"store", "wait"} ~> at \in {"scan", "prompt"} \/ interrupted
=============================================================================
