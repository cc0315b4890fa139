---------------------------- MODULE ScanPipeline ----------------------------
(***************************************************************************)
(* One scan of the agent: RunScan, its retries, and the six-stage          *)
(* runPipeline it restarts from the beginning                              *)
(* (sre-agent/agent/internal/ai/pipeline.go).  Stage 1 collects the state  *)
(* of the cluster in a series of reads of the Kubernetes API               *)
(* (internal/k8s/collector.go), of which some may fail without ending it;  *)
(* every later stage is one LLM call whose prompt is built from the        *)
(* outputs of the stages before it; the last one's answer is parsed into   *)
(* the report.  Prompt wording and truncation are abstracted: an output is *)
(* known by the readings of the cluster it was derived from.               *)
(*                                                                         *)
(* A call is one step, at the moment the context is checked: a call begun  *)
(* on a finished context fails, and one during which the context ends is   *)
(* a call that either completed just before or failed just after.  The     *)
(* calls are those of the real providers' clients (external), which honour *)
(* the context; the mock provider of the tests, which answers whatever its *)
(* context says, is left out.                                              *)
(***************************************************************************)
EXTENDS Integers, Sequences

CONSTANTS Stages,      \* the names of the stages, in order
          Reads,       \* the reads of stage 1, in order, by what their failure does
          MaxRetries,  \* attempts in all
          Backoffs     \* seconds waited before each further attempt

\* A stage is known by its place: its name may be anything.
ASSUME StagesAssumption   == Len(Stages) \in Nat /\ Len(Stages) >= 2
ASSUME ReadsAssumption    == Reads \in Seq({"required", "pods", "extra"}) /\ Len(Reads) >= 1
ASSUME RetriesAssumption  == MaxRetries \in Nat \ {0}
ASSUME BackoffsAssumption == Backoffs \in Seq(Nat) /\ Len(Backoffs) >= MaxRetries

VARIABLES
  ctx,       \* the scan's context: "live" or "done"
  pc,        \* "stage", "backoff" or "returned"
  attempt,   \* the loop variable of RunScan
  stage,     \* the stage runPipeline is at
  read,      \* in stage 1, the read that is next
  derived,   \* the locals of runPipeline: the readings behind each output
  result,    \* what RunScan returned
  calls,     \* LLM calls made so far
  waited     \* seconds of backoff so far

vars == <<ctx, pc, attempt, stage, read, derived, result, calls, waited>>

StageIx  == 1 .. Len(Stages)
ReadIx   == 1 .. Len(Reads)
Attempts == 0 .. MaxRetries - 1

\* A read that succeeded: which one, and in which attempt.
Reading == [attempt : Attempts, read : ReadIx]

\* The errors RunScan tells apart: isRateLimit, ctx.Err(), and all others.
Errors == {"rate limit", "ctx", "other"}

\* "fallback" is the SEV3 report parseReport makes of an answer it cannot parse.
Results == Errors \cup {"none", "report", "fallback"}

NoOutputs == [s \in StageIx |-> {}]

\* The readings that the outputs of the stages before s describe.
Inputs(s) == UNION {derived[i] : i \in 1 .. s - 1}

TypeOK ==
  /\ ctx \in {"live", "done"}
  /\ pc \in {"stage", "backoff", "returned"}
  /\ attempt \in Attempts
  /\ stage \in StageIx
  /\ read \in ReadIx
  /\ derived \in [StageIx -> SUBSET Reading]
  /\ result \in Results
  /\ calls \in Nat
  /\ waited \in Nat

\* A scan may be started with a context that is done already (a cancelled watch).
Init ==
  /\ ctx \in {"live", "done"}
  /\ pc = "stage"
  /\ attempt = 0
  /\ stage = 1
  /\ read = 1
  /\ derived = NoOutputs
  /\ result = "none"
  /\ calls = 0
  /\ waited = 0

-----------------------------------------------------------------------------
\* Only stages after the first talk to the LLM.
CountCall(s) == calls' = IF s > 1 THEN calls + 1 ELSE calls

Return(r) == pc' = "returned" /\ result' = r

\* Stage 1, collectTriage: nodes and namespaces (required), the pods of each namespace,
\* logs and events (extra).
NextRead ==
  IF read = Len(Reads) THEN stage' = 2 /\ read' = 1
                       ELSE stage' = stage /\ read' = read + 1

ReadCluster ==
  /\ pc = "stage" /\ stage = 1 /\ ctx = "live"
  /\ derived' = [derived EXCEPT ![1] = @ \cup {[attempt |-> attempt, read |-> read]}]
  /\ NextRead
  /\ UNCHANGED <<ctx, pc, attempt, result, calls, waited>>

\* Pods of a namespace, logs or events that cannot be listed are left out, even
\* when the reason is a finished context.
SkipRead ==
  /\ pc = "stage" /\ stage = 1
  /\ Reads[read] # "required"
  /\ NextRead
  /\ UNCHANGED <<ctx, pc, attempt, derived, result, calls, waited>>

\* An analysis stage: metrics, logs, infra, runbook.
Analyse ==
  /\ pc = "stage" /\ stage > 1 /\ stage < Len(Stages) /\ ctx = "live"
  /\ derived' = [derived EXCEPT ![stage] = Inputs(stage)]
  /\ stage' = stage + 1
  /\ CountCall(stage)
  /\ UNCHANGED <<ctx, pc, attempt, read, result, waited>>

\* Mutant: a report is made up even when the last call had no context left.
CommandAnyContext ==
  /\ pc = "stage" /\ stage = Len(Stages)
  /\ derived' = [derived EXCEPT ![stage] = Inputs(stage)]
  /\ CountCall(stage)
  /\ \E r \in {"report", "fallback"} : Return(r)
  /\ UNCHANGED <<ctx, attempt, stage, read, waited>>

\* The commander stage: its answer is parsed, or wrapped when it does not parse.
Command ==
  /\ pc = "stage" /\ stage = Len(Stages) /\ ctx = "live"
  /\ derived' = [derived EXCEPT ![stage] = Inputs(stage)]
  /\ CountCall(stage)
  /\ \E r \in {"report", "fallback"} : Return(r)
  /\ UNCHANGED <<ctx, attempt, stage, read, waited>>

\* Mutant: a call does not look at its context and hangs when that is done.
CallErrorsIgnoringCtx == IF ctx = "done" THEN {} ELSE {"rate limit", "other"}

\* The errors a call may end with.  On a finished context an LLM call fails with the
\* context's error; a read of the cluster may also fail with the Kubernetes client's
\* "client rate limiter Wait returned an error", which isRateLimit takes for a rate limit.
CallErrors ==
  IF ctx = "live" THEN {"rate limit", "other"}
  ELSE IF stage = 1 THEN {"rate limit", "ctx"} ELSE {"ctx"}

\* A read that may be skipped does not fail its stage.
MayFail == stage = 1 => Reads[read] = "required"

\* Mutants: one retry too many, one too few.
StageFailsRetriesLast ==
  /\ pc = "stage" /\ MayFail
  /\ CountCall(stage)
  /\ \E e \in CallErrors :
       IF e = "rate limit" /\ attempt < MaxRetries
         THEN pc' = "backoff" /\ UNCHANGED result
         ELSE Return(e)
  /\ UNCHANGED <<ctx, attempt, stage, read, derived, waited>>

StageFailsGivesUpEarly ==
  /\ pc = "stage" /\ MayFail
  /\ CountCall(stage)
  /\ \E e \in CallErrors :
       IF e = "rate limit" /\ attempt < MaxRetries - 2
         THEN pc' = "backoff" /\ UNCHANGED result
         ELSE Return(e)
  /\ UNCHANGED <<ctx, attempt, stage, read, derived, waited>>

\* Any error ends the attempt.  A rate limit is retried while attempts are left,
\* after a backoff; every other error, and the last rate limit, ends the scan.
StageFails ==
  /\ pc = "stage" /\ MayFail
  /\ CountCall(stage)
  /\ \E e \in CallErrors :
       IF e = "rate limit" /\ attempt < MaxRetries - 1
         THEN pc' = "backoff" /\ UNCHANGED result
         ELSE Return(e)
  /\ UNCHANGED <<ctx, attempt, stage, read, derived, waited>>

\* Mutants: the attempt is not counted; outputs kept from the failed attempt.
RetryUncounted ==
  /\ pc = "backoff"
  /\ pc' = "stage"
  /\ stage' = 1
  /\ read' = 1
  /\ derived' = NoOutputs
  /\ waited' = waited + Backoffs[attempt + 1]
  /\ UNCHANGED <<ctx, attempt, result, calls>>

RetryKeepsOutputs ==
  /\ pc = "backoff"
  /\ pc' = "stage"
  /\ attempt' = attempt + 1
  /\ stage' = 1
  /\ read' = 1
  /\ waited' = waited + Backoffs[attempt + 1]
  /\ UNCHANGED <<ctx, derived, result, calls>>

\* time.After fired: the pipeline starts over with fresh locals.
Retry ==
  /\ pc = "backoff"
  /\ pc' = "stage"
  /\ attempt' = attempt + 1
  /\ stage' = 1
  /\ read' = 1
  /\ derived' = NoOutputs
  /\ waited' = waited + Backoffs[attempt + 1]
  /\ UNCHANGED <<ctx, result, calls>>

\* The context ended during the backoff.
GiveUp ==
  /\ pc = "backoff"
  /\ ctx = "done"
  /\ Return("ctx")
  /\ UNCHANGED <<ctx, attempt, stage, read, derived, calls, waited>>

-----------------------------------------------------------------------------
(* The environment: the 10-minute deadline or DELETE /watch.               *)

CtxEnds ==
  /\ ctx = "live"
  /\ ctx' = "done"
  /\ UNCHANGED <<pc, attempt, stage, read, derived, result, calls, waited>>

Step == ReadCluster \/ SkipRead \/ Analyse \/ Command \/ StageFails \/ Retry \/ GiveUp

Next == Step \/ CtxEnds

Spec == Init /\ [][Next]_vars

\* Calls return (they honour the context, which has a deadline) and timers fire.
FairSpec == Spec /\ WF_vars(Step)

-----------------------------------------------------------------------------
(* Properties.                                                             *)

Reported == result \in {"report", "fallback"}

\* The stages whose output the current attempt has.
Complete(s) == s < stage \/ Reported

\* Every prompt of one attempt, and so its report, rests on one and the same
\* collection: a retry reads the cluster again and mixes nothing in from an attempt
\* that failed half way, and no report is made without the reads that must succeed.
OneCollectionPerReport ==
  /\ \A s, t \in StageIx : Complete(s) /\ Complete(t) => derived[s] = derived[t]
  /\ \A s \in StageIx : \A x \in derived[s] : x.attempt = attempt
  /\ Reported =>
       \A k \in ReadIx : Reads[k] = "required" =>
         [attempt |-> attempt, read |-> k] \in derived[Len(Stages)]

\* The LLM is called at most once per stage and attempt, however the failures fall.
CallsBounded == calls <= (attempt + 1) * (Len(Stages) - 1)

\* A rate limit is reported to the caller only when every attempt has met one; any
\* other error ends the scan in the attempt that met it.
RateLimitExhausted == result = "rate limit" => attempt = MaxRetries - 1

\* RunScan returns.
ScanReturns == <>(pc = "returned")

\* The contract that callers see.
outcomeOf == IF pc # "returned" THEN "running" ELSE IF Reported THEN "report" ELSE "error"

Contract == INSTANCE ScanContract WITH outcome <- outcomeOf

ImplementsContract     == Contract!Spec
ImplementsFairContract == Contract!FairSpec
=============================================================================
