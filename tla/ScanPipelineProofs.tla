------------------------- MODULE ScanPipelineProofs -------------------------
(***************************************************************************)
(* Theorems of ScanPipeline for every list of stages, number of attempts   *)
(* and backoff table.  ScanInv says where in the attempt the outputs stand *)
(* and how many calls that took; the properties follow from it.            *)
(***************************************************************************)
EXTENDS ScanPipeline, TLAPS

M == Len(Stages) - 1

\* The outputs that are not empty: of stage 1 already while it collects.
Filled == IF Reported THEN Len(Stages) ELSE IF stage = 1 THEN 1 ELSE stage - 1

\* They all are what stage 1 collected, in this attempt, and none of the required
\* reads that are behind is missing.
OutputsInv ==
  /\ \A s \in StageIx : derived[s] = IF s <= Filled THEN derived[1] ELSE {}
  /\ \A x \in derived[1] : x.attempt = attempt
  /\ \A k \in ReadIx : Reads[k] = "required" /\ (stage > 1 \/ k < read) =>
       [attempt |-> attempt, read |-> k] \in derived[1]

\* Calls of the failed attempts, and those of the current one.
CallsInv ==
  IF pc = "stage"
    THEN calls <= attempt * M + (IF stage = 1 THEN 0 ELSE stage - 2)
    ELSE calls <= attempt * M + M

\* A result is there exactly when RunScan has returned; a backoff is only entered
\* with an attempt left; a report is made in the last stage only.
ControlInv ==
  /\ Reported => stage = Len(Stages)
  /\ pc = "returned" <=> result # "none"
  /\ pc = "backoff" => attempt < MaxRetries - 1

TypeInv == TypeOK /\ ControlInv

ScanInv == TypeInv /\ OutputsInv /\ CallsInv /\ RateLimitExhausted

LEMMA StageCount == M \in Nat /\ M >= 1 /\ Len(Stages) = M + 1 /\ StageIx = 1 .. M + 1
  BY StagesAssumption DEF M, StageIx

LEMMA ReadCount == Len(Reads) \in Nat /\ Len(Reads) >= 1 /\ ReadIx = 1 .. Len(Reads)
  BY ReadsAssumption DEF ReadIx

LEMMA BackoffIsNat == \A n \in Attempts : Backoffs[n + 1] \in Nat
  BY BackoffsAssumption, RetriesAssumption DEF Attempts

LEMMA InputsType ==
  ASSUME TypeOK, NEW s \in StageIx
  PROVE  Inputs(s) \in SUBSET Reading
<1>1. \A i \in 1 .. s - 1 : derived[i] \in SUBSET Reading
  BY StageCount DEF TypeOK
<1> QED
  BY <1>1 DEF Inputs

-----------------------------------------------------------------------------
\* Types, step by step: what each action does to the numbers, then the rest.
LEMMA NumberTypes ==
  ASSUME TypeInv, [Next]_vars
  PROVE  /\ attempt' \in Attempts
         /\ stage' \in StageIx
         /\ read' \in ReadIx
         /\ calls' \in Nat
         /\ waited' \in Nat
<1>0. /\ attempt \in Attempts /\ stage \in StageIx /\ read \in ReadIx
      /\ calls \in Nat /\ waited \in Nat
      /\ pc = "backoff" => attempt < MaxRetries - 1
  BY DEF TypeInv, TypeOK, ControlInv
<1>1. CASE ReadCluster \/ SkipRead
  <2>1. NextRead /\ UNCHANGED <<attempt, calls, waited>>
    BY <1>1 DEF ReadCluster, SkipRead
  <2> QED
    BY <1>0, <2>1, StageCount, ReadCount DEF NextRead
<1>2. CASE Analyse
  BY <1>0, <1>2, StageCount DEF Analyse, CountCall
<1>3. CASE Command
  BY <1>0, <1>3 DEF Command, CountCall
<1>4. CASE StageFails
  <2>1. CountCall(stage) /\ UNCHANGED <<attempt, stage, read, waited>>
    BY <1>4 DEF StageFails
  <2> QED
    BY <1>0, <2>1 DEF CountCall
<1>5. CASE Retry
  <2>1. attempt + 1 \in Attempts
    BY <1>0, <1>5, RetriesAssumption DEF Retry, Attempts
  <2>2. Backoffs[attempt + 1] \in Nat
    BY <1>0, BackoffIsNat
  <2> QED
    BY <1>0, <1>5, <2>1, <2>2, StageCount, ReadCount DEF Retry
<1>6. CASE GiveUp \/ CtxEnds \/ UNCHANGED vars
  BY <1>0, <1>6 DEF GiveUp, CtxEnds, vars
<1> QED
  BY <1>1, <1>2, <1>3, <1>4, <1>5, <1>6 DEF Next, Step

LEMMA OutputTypes ==
  ASSUME TypeInv, [Next]_vars
  PROVE  derived' \in [StageIx -> SUBSET Reading]
<1>0. /\ derived \in [StageIx -> SUBSET Reading]
      /\ stage \in StageIx /\ attempt \in Attempts /\ read \in ReadIx
  BY DEF TypeInv, TypeOK
<1>1. Inputs(stage) \in SUBSET Reading
  BY <1>0, InputsType DEF TypeInv
<1>2. CASE ReadCluster
  <2>1. [attempt |-> attempt, read |-> read] \in Reading
    BY <1>0 DEF Reading
  <2>2. derived' = [derived EXCEPT ![1] = derived[1] \cup {[attempt |-> attempt, read |-> read]}]
    BY <1>2 DEF ReadCluster
  <2>3. 1 \in StageIx
    BY StageCount
  <2> QED
    BY <1>0, <2>1, <2>2, <2>3
<1>3. CASE Analyse
  BY <1>0, <1>1, <1>3 DEF Analyse
<1>4. CASE Command
  BY <1>0, <1>1, <1>4 DEF Command
<1>5. CASE Retry
  BY <1>5 DEF Retry, NoOutputs
<1>6. CASE SkipRead \/ StageFails \/ GiveUp \/ CtxEnds \/ UNCHANGED vars
  BY <1>0, <1>6 DEF SkipRead, StageFails, GiveUp, CtxEnds, vars
<1> QED
  BY <1>2, <1>3, <1>4, <1>5, <1>6 DEF Next, Step

LEMMA ControlTypes ==
  ASSUME TypeInv, [Next]_vars
  PROVE  /\ ctx' \in {"live", "done"}
         /\ pc' \in {"stage", "backoff", "returned"}
         /\ result' \in Results
         /\ ControlInv'
<1>0. /\ ctx \in {"live", "done"}
      /\ pc \in {"stage", "backoff", "returned"}
      /\ result \in Results
      /\ pc = "returned" <=> result # "none"
      /\ pc = "backoff" => attempt < MaxRetries - 1
      /\ Reported => stage = Len(Stages)
  BY DEF TypeInv, TypeOK, ControlInv
<1> USE DEF ControlInv, Results, Errors, Reported
<1>1. CASE ReadCluster \/ SkipRead \/ Analyse
  BY <1>0, <1>1 DEF ReadCluster, SkipRead, Analyse
<1>2. CASE Command
  BY <1>0, <1>2 DEF Command, Return
<1>3. CASE StageFails
  <2>1. PICK e \in Errors : IF e = "rate limit" /\ attempt < MaxRetries - 1
                              THEN pc' = "backoff" /\ UNCHANGED result
                              ELSE Return(e)
    BY <1>3 DEF StageFails, CallErrors
  <2> QED
    BY <1>0, <1>3, <2>1 DEF StageFails, Return
<1>4. CASE Retry \/ GiveUp
  BY <1>0, <1>4 DEF Retry, GiveUp, Return
<1>5. CASE CtxEnds \/ UNCHANGED vars
  BY <1>0, <1>5 DEF CtxEnds, vars
<1> QED
  BY <1>1, <1>2, <1>3, <1>4, <1>5 DEF Next, Step

LEMMA InitTypes == Init => TypeInv
  BY StageCount, ReadCount, RetriesAssumption
     DEF Init, TypeInv, TypeOK, ControlInv, Attempts, Results, Reported, NoOutputs

LEMMA TypesKept == TypeInv /\ [Next]_vars => TypeInv'
  BY NumberTypes, OutputTypes, ControlTypes DEF TypeInv, TypeOK

LEMMA TypeInvariant == Spec => []TypeInv
  BY InitTypes, TypesKept, PTL DEF Spec

\* Every variable keeps its type.
THEOREM TypeCorrect == Spec => []TypeOK
<1>1. TypeInv => TypeOK
  BY DEF TypeInv
<1> QED
  BY <1>1, TypeInvariant, PTL

-----------------------------------------------------------------------------
(* One collection behind all outputs.                                      *)

LEMMA InputsAreOne ==
  ASSUME TypeInv, OutputsInv, pc = "stage", stage > 1
  PROVE  Inputs(stage) = derived[1]
<1>1. stage \in 1 .. M + 1 /\ ~Reported
  BY StageCount DEF TypeInv, TypeOK, ControlInv, Reported
<1>2. \A i \in 1 .. stage - 1 : derived[i] = derived[1]
  BY <1>1, StageCount DEF OutputsInv, Filled
<1>3. 1 \in 1 .. stage - 1
  BY <1>1
<1> QED
  BY <1>2, <1>3 DEF Inputs

\* With nothing collected and no read behind there is nothing to show.
LEMMA NothingCollected ==
  /\ 1 \in StageIx
  /\ \A k \in ReadIx : ~(k < 1)
  /\ ~(1 > 1)
  BY StageCount, ReadCount

LEMMA OnlyFirst == \A s \in StageIx : s <= 1 <=> s = 1
  BY StageCount

\* A step that makes no output and stays in its attempt and at its read.
LEMMA SameOutputs ==
  ASSUME OutputsInv, UNCHANGED <<derived, stage, attempt, read>>, Reported' <=> Reported
  PROVE  OutputsInv'
  BY DEF OutputsInv, Filled

LEMMA OutputsKept ==
  ASSUME TypeInv, OutputsInv, [Next]_vars
  PROVE  OutputsInv'
<1>1. /\ \A s \in StageIx : derived[s] = IF s <= Filled THEN derived[1] ELSE {}
      /\ \A x \in derived[1] : x.attempt = attempt
      /\ \A k \in ReadIx : Reads[k] = "required" /\ (stage > 1 \/ k < read) =>
           [attempt |-> attempt, read |-> k] \in derived[1]
  BY DEF OutputsInv
<1>2. /\ stage \in 1 .. M + 1 /\ M >= 1 /\ M \in Nat /\ StageIx = 1 .. M + 1
      /\ Len(Stages) = M + 1
      /\ DOMAIN derived = StageIx /\ read \in 1 .. Len(Reads) /\ ReadIx = 1 .. Len(Reads)
      /\ Len(Reads) \in Nat
  BY StageCount, ReadCount DEF TypeInv, TypeOK
<1>3. pc # "returned" => ~Reported
  BY DEF TypeInv, ControlInv, Reported
<1>4. CASE ReadCluster \/ SkipRead
  <2>1. /\ stage = 1 /\ NextRead /\ attempt' = attempt /\ ~Reported /\ ~Reported'
        /\ Filled = 1
    BY <1>3, <1>4 DEF ReadCluster, SkipRead, Reported, Filled
  <2>2. (stage' = 1 /\ read' = read + 1) \/ (stage' = 2 /\ read = Len(Reads))
    BY <2>1 DEF NextRead
  <2>3. Filled' = 1
    BY <2>1, <2>2 DEF Filled
  <2>4. \A s \in StageIx : s # 1 => derived'[s] = {}
    <3>1. \A s \in StageIx : s # 1 => derived[s] = {}
      BY <1>1, <1>2, <2>1
    <3>2. \A s \in StageIx : s # 1 => derived'[s] = derived[s]
      BY <1>2, <1>4 DEF ReadCluster, SkipRead
    <3> QED
      BY <3>1, <3>2
  <2>5. \/ derived'[1] = derived[1] \cup {[attempt |-> attempt, read |-> read]}
        \/ derived'[1] = derived[1] /\ Reads[read] # "required"
    <3>1. CASE ReadCluster
      <4>1. derived' = [derived EXCEPT ![1] =
                          derived[1] \cup {[attempt |-> attempt, read |-> read]}]
        BY <3>1 DEF ReadCluster
      <4>2. 1 \in DOMAIN derived
        BY <1>2
      <4>3. derived'[1] = derived[1] \cup {[attempt |-> attempt, read |-> read]}
        BY <4>1, <4>2, Zenon
      <4> QED
        BY <4>3
    <3>2. CASE SkipRead
      BY <3>2 DEF SkipRead
    <3> QED
      BY <1>4, <3>1, <3>2
  <2>6. \A x \in derived'[1] : x.attempt = attempt
    BY <1>1, <2>5
  <2>7. \A k \in ReadIx : Reads[k] = "required" /\ k <= read =>
          [attempt |-> attempt, read |-> k] \in derived'[1]
    <3> SUFFICES ASSUME NEW k \in ReadIx, Reads[k] = "required", k <= read
                 PROVE  [attempt |-> attempt, read |-> k] \in derived'[1]
      OBVIOUS
    <3>1. CASE k = read
      BY <2>5, <3>1
    <3>2. CASE k < read
      BY <1>1, <2>5, <3>2
    <3> QED
      BY <1>2, <3>1, <3>2
  <2>8. \A k \in ReadIx : (stage' > 1 \/ k < read') => k <= read
    BY <1>2, <2>2
  <2>9. \A s \in StageIx : derived'[s] = IF s <= Filled' THEN derived'[1] ELSE {}
    BY <1>2, <2>3, <2>4, OnlyFirst
  <2> QED
    BY <2>1, <2>6, <2>7, <2>8, <2>9 DEF OutputsInv
<1>5. CASE Analyse
  <2>1. Inputs(stage) = derived[1]
    BY <1>5, InputsAreOne DEF Analyse
  <2>2. /\ ~Reported /\ ~Reported' /\ stage > 1 /\ stage' = stage + 1
        /\ UNCHANGED <<attempt, read>> /\ derived' = [derived EXCEPT ![stage] = derived[1]]
    BY <1>3, <1>5, <2>1 DEF Analyse, Reported
  <2>3. Filled = stage - 1 /\ Filled' = stage
    BY <1>2, <2>2 DEF Filled
  <2>4. \A s \in StageIx : derived'[s] = IF s = stage THEN derived[1] ELSE derived[s]
    BY <1>2, <2>2
  <2>5. derived'[1] = derived[1]
    BY <1>2, <2>4
  <2>6. \A s \in StageIx : derived'[s] = IF s <= Filled' THEN derived'[1] ELSE {}
    <3> SUFFICES ASSUME NEW s \in StageIx
                 PROVE  derived'[s] = IF s <= Filled' THEN derived'[1] ELSE {}
      OBVIOUS
    <3>1. CASE s = stage
      BY <1>2, <2>3, <2>4, <2>5, <3>1
    <3>2. CASE s # stage
      <4>1. s <= Filled' <=> s <= Filled
        BY <1>2, <2>3, <3>2
      <4>2. derived'[s] = derived[s]
        BY <2>4, <3>2
      <4> QED
        BY <1>1, <2>5, <4>1, <4>2
    <3> QED
      BY <3>1, <3>2
  <2> QED
    BY <1>1, <2>2, <2>5, <2>6 DEF OutputsInv
<1>6. CASE Command
  <2>0. stage = M + 1 /\ stage > 1
    BY <1>2, <1>6 DEF Command
  <2>1. Inputs(stage) = derived[1]
    BY <1>6, <2>0, InputsAreOne DEF Command
  <2>2. /\ ~Reported /\ Reported' /\ stage' = stage
        /\ UNCHANGED <<attempt, read>> /\ derived' = [derived EXCEPT ![stage] = derived[1]]
    BY <1>3, <1>6, <2>1 DEF Command, Return, Reported
  <2>3. Filled = stage - 1 /\ Filled' = stage
    BY <1>2, <2>0, <2>2 DEF Filled
  <2>4. \A s \in StageIx : derived'[s] = IF s = stage THEN derived[1] ELSE derived[s]
    BY <1>2, <2>2
  <2>5. derived'[1] = derived[1]
    BY <1>2, <2>4
  <2>6. \A s \in StageIx : derived'[s] = IF s <= Filled' THEN derived'[1] ELSE {}
    <3> SUFFICES ASSUME NEW s \in StageIx
                 PROVE  derived'[s] = IF s <= Filled' THEN derived'[1] ELSE {}
      OBVIOUS
    <3>1. CASE s = stage
      BY <1>2, <2>3, <2>4, <2>5, <3>1
    <3>2. CASE s # stage
      <4>1. s <= Filled' <=> s <= Filled
        BY <1>2, <2>3, <3>2
      <4>2. derived'[s] = derived[s]
        BY <2>4, <3>2
      <4> QED
        BY <1>1, <2>5, <4>1, <4>2
    <3> QED
      BY <3>1, <3>2
  <2> QED
    BY <1>1, <2>2, <2>5, <2>6 DEF OutputsInv
<1>7. CASE StageFails \/ GiveUp
  <2>1. ~Reported /\ ~Reported'
    BY <1>3, <1>7 DEF StageFails, CallErrors, GiveUp, Return, Reported
  <2> QED
    BY <1>7, <2>1, SameOutputs DEF StageFails, GiveUp
<1>8. CASE Retry
  <2>1. /\ ~Reported' /\ stage' = 1 /\ read' = 1
        /\ \A s \in StageIx : derived'[s] = {}
    BY <1>3, <1>8 DEF Retry, Reported, NoOutputs
  <2> QED
    BY <2>1, NothingCollected DEF OutputsInv
<1>9. CASE CtxEnds \/ UNCHANGED vars
  BY <1>9, SameOutputs DEF CtxEnds, vars, Reported
<1> QED
  BY <1>4, <1>5, <1>6, <1>7, <1>8, <1>9 DEF Next, Step

-----------------------------------------------------------------------------
(* The number of LLM calls.                                                *)

LEMMA CallsKept ==
  ASSUME TypeInv, CallsInv, [Next]_vars
  PROVE  CallsInv'
<1>1. /\ M \in Nat /\ M >= 1 /\ stage \in 1 .. M + 1 /\ Len(Stages) = M + 1
      /\ attempt \in Nat /\ calls \in Nat
      /\ pc = "returned" <=> result # "none"
  BY StageCount, RetriesAssumption DEF TypeInv, TypeOK, ControlInv, Attempts
<1> DEFINE N == attempt * M
<1>2. N \in Nat /\ (attempt + 1) * M = N + M
  BY <1>1, SMT
<1>3. IF pc = "stage" THEN calls <= N + (IF stage = 1 THEN 0 ELSE stage - 2)
                      ELSE calls <= N + M
  BY DEF CallsInv
<1>4. CASE ReadCluster \/ SkipRead
  <2>1. /\ pc = "stage" /\ pc' = "stage" /\ stage = 1 /\ UNCHANGED <<attempt, calls>>
        /\ stage' \in {1, 2}
    BY <1>4 DEF ReadCluster, SkipRead, NextRead
  <2>2. (IF stage' = 1 THEN 0 ELSE stage' - 2) = 0
    BY <2>1
  <2>3. calls <= N + 0
    BY <1>3, <2>1
  <2> QED
    BY <2>1, <2>2, <2>3 DEF CallsInv
<1>5. CASE Analyse
  <2>1. /\ pc = "stage" /\ pc' = "stage" /\ stage > 1 /\ stage' = stage + 1
        /\ attempt' = attempt /\ calls' = calls + 1
    BY <1>5 DEF Analyse, CountCall
  <2>2. calls' <= N + (stage' - 2) /\ stage' # 1
    BY <1>1, <1>2, <1>3, <2>1
  <2> QED
    BY <2>1, <2>2 DEF CallsInv
<1>6. CASE Command \/ StageFails
  <2>1. /\ pc = "stage" /\ pc' # "stage" /\ attempt' = attempt
        /\ calls' = IF stage > 1 THEN calls + 1 ELSE calls
    BY <1>6 DEF Command, StageFails, CountCall, Return, CallErrors
  <2>2. calls' <= N + M
    BY <1>1, <1>2, <1>3, <2>1
  <2> QED
    BY <2>1, <2>2 DEF CallsInv
<1>7. CASE Retry
  <2>1. /\ pc = "backoff" /\ pc' = "stage" /\ stage' = 1 /\ attempt' = attempt + 1
        /\ calls' = calls
    BY <1>7 DEF Retry
  <2>2. calls' <= N + M + 0
    BY <1>1, <1>2, <1>3, <2>1
  <2>3. attempt' * M = N + M
    BY <1>2, <2>1
  <2>4. calls' <= attempt' * M + 0
    BY <2>2, <2>3
  <2> QED
    BY <2>1, <2>4 DEF CallsInv
<1>8. CASE GiveUp \/ CtxEnds \/ UNCHANGED vars
  <2>1. (pc' = pc \/ (pc # "stage" /\ pc' # "stage")) /\ UNCHANGED <<attempt, stage, calls>>
    BY <1>8 DEF GiveUp, Return, CtxEnds, vars
  <2> QED
    BY <2>1 DEF CallsInv
<1> QED
  BY <1>4, <1>5, <1>6, <1>7, <1>8 DEF Next, Step

LEMMA RateLimitKept ==
  ASSUME TypeInv, RateLimitExhausted, [Next]_vars
  PROVE  RateLimitExhausted'
<1>1. attempt \in 0 .. MaxRetries - 1 /\ (pc = "returned" <=> result # "none")
  BY DEF TypeInv, TypeOK, ControlInv, Attempts
<1>2. CASE StageFails
  <2>1. PICK e \in CallErrors : IF e = "rate limit" /\ attempt < MaxRetries - 1
                                  THEN pc' = "backoff" /\ UNCHANGED result
                                  ELSE Return(e)
    BY <1>2 DEF StageFails
  <2>2. pc = "stage" /\ attempt' = attempt
    BY <1>2 DEF StageFails
  <2>3. CASE e = "rate limit" /\ attempt < MaxRetries - 1
    BY <1>1, <2>1, <2>2, <2>3 DEF RateLimitExhausted
  <2>4. CASE ~(e = "rate limit" /\ attempt < MaxRetries - 1)
    <3>1. result' = e
      BY <2>1, <2>4 DEF Return
    <3>2. attempt \in Int /\ MaxRetries \in Int /\ attempt <= MaxRetries - 1
      BY <1>1, RetriesAssumption
    <3>3. ~(attempt < MaxRetries - 1) => attempt = MaxRetries - 1
      BY <3>2
    <3> QED
      BY <2>2, <2>4, <3>1, <3>3 DEF RateLimitExhausted
  <2> QED
    BY <2>3, <2>4
<1>3. CASE Command \/ GiveUp \/ Retry
  BY <1>1, <1>3 DEF Command, GiveUp, Retry, Return, RateLimitExhausted
<1>4. CASE ReadCluster \/ SkipRead \/ Analyse \/ CtxEnds \/ UNCHANGED vars
  BY <1>4 DEF ReadCluster, SkipRead, Analyse, CtxEnds, vars, RateLimitExhausted
<1> QED
  BY <1>2, <1>3, <1>4 DEF Next, Step

\* The inductive step as formulas, for a module whose steps are those of a scan and others.
LEMMA ScanInit == Init => ScanInv
<1> SUFFICES ASSUME Init PROVE ScanInv
  OBVIOUS
<1>1. stage = 1 /\ read = 1 /\ \A s \in StageIx : derived[s] = {}
  BY DEF Init, NoOutputs
<1>2. OutputsInv
  BY <1>1, NothingCollected DEF OutputsInv
<1>3. 0 * M = 0
  BY StageCount
<1> QED
  BY <1>2, <1>3, InitTypes DEF Init, ScanInv, CallsInv, RateLimitExhausted

LEMMA ScanStep == ScanInv /\ [Next]_vars => ScanInv'
<1>1. ScanInv /\ [Next]_vars => OutputsInv' /\ CallsInv' /\ RateLimitExhausted'
  BY OutputsKept, CallsKept, RateLimitKept DEF ScanInv
<1> QED
  BY <1>1, TypesKept DEF ScanInv

LEMMA ScanInvariant == Spec => []ScanInv
  BY ScanInit, ScanStep, PTL DEF Spec

-----------------------------------------------------------------------------
LEMMA OneCollection == ScanInv => OneCollectionPerReport
<1> SUFFICES ASSUME ScanInv PROVE OneCollectionPerReport
  OBVIOUS
<1>1. /\ stage \in 1 .. M + 1 /\ M >= 1 /\ M \in Nat /\ StageIx = 1 .. M + 1
      /\ Len(Stages) = M + 1
      /\ Reported => stage = Len(Stages)
      /\ OutputsInv
  BY StageCount DEF ScanInv, TypeInv, TypeOK, ControlInv
<1>2. \A s \in StageIx : Complete(s) => derived[s] = derived[1]
  BY <1>1 DEF Complete, OutputsInv, Filled
<1>3. \A s \in StageIx : \A x \in derived[s] : x.attempt = attempt
  BY <1>1 DEF OutputsInv
<1>4. Reported => derived[Len(Stages)] = derived[1] /\ stage > 1
  BY <1>1, <1>2 DEF Complete
<1> QED
  BY <1>1, <1>2, <1>3, <1>4 DEF OutputsInv, OneCollectionPerReport

LEMMA FewCalls == ScanInv => CallsBounded
<1> SUFFICES ASSUME ScanInv PROVE CallsBounded
  OBVIOUS
<1>1. /\ M \in Nat /\ M >= 1 /\ stage \in 1 .. M + 1 /\ Len(Stages) - 1 = M
      /\ attempt \in Nat /\ calls \in Nat
  BY StageCount, RetriesAssumption DEF ScanInv, TypeInv, TypeOK, Attempts, M
<1> DEFINE N == attempt * M
<1>2. N \in Nat /\ (attempt + 1) * M = N + M
  BY <1>1, SMT
<1>3. IF pc = "stage" THEN calls <= N + (IF stage = 1 THEN 0 ELSE stage - 2)
                      ELSE calls <= N + M
  BY DEF ScanInv, CallsInv
<1>4. calls <= N + M
  BY <1>1, <1>2, <1>3
<1> QED
  BY <1>1, <1>2, <1>4 DEF CallsBounded

\* A report, and every prompt on the way to it, rests on one collection.
THEOREM ReportsAreConsistent == Spec => []OneCollectionPerReport
  BY OneCollection, ScanInvariant, PTL

\* The calls of a scan are bounded by the attempts begun.
THEOREM BoundedCalls == Spec => []CallsBounded
  BY FewCalls, ScanInvariant, PTL

\* Only the last attempt's rate limit reaches the caller.
THEOREM RateLimitTheorem == Spec => []RateLimitExhausted
<1>1. ScanInv => RateLimitExhausted
  BY DEF ScanInv
<1> QED
  BY <1>1, ScanInvariant, PTL

\* Every scan keeps the contract AgentWatch relies on.
THEOREM PipelineKeepsContract == Spec => ImplementsContract
<1> USE DEF outcomeOf
<1>1. Init => Contract!Init
  BY DEF Init, Contract!Init
<1>2. TypeInv /\ [Next]_vars => [Contract!Next]_(Contract!vars)
  <2> SUFFICES ASSUME TypeInv, [Next]_vars PROVE [Contract!Next]_(Contract!vars)
    OBVIOUS
  <2> USE DEF Contract!Next, Contract!vars, Contract!Return, Reported
  <2>1. CASE ReadCluster \/ SkipRead \/ Analyse \/ Retry \/ UNCHANGED vars
    BY <2>1 DEF ReadCluster, SkipRead, Analyse, Retry, vars
  <2>2. CASE Command
    <3>1. Contract!ReturnReport
      BY <2>2 DEF Command, Return, Contract!ReturnReport
    <3> QED
      BY <3>1
  <2>3. CASE StageFails
    <3>1. pc = "stage" /\ ctx' = ctx
      BY <2>3 DEF StageFails
    <3>2. PICK e \in Errors : IF e = "rate limit" /\ attempt < MaxRetries - 1
                                THEN pc' = "backoff" /\ UNCHANGED result
                                ELSE Return(e)
      BY <2>3 DEF StageFails, CallErrors, Errors
    <3>3. CASE pc' = "backoff" /\ UNCHANGED result
      BY <3>1, <3>3
    <3>4. CASE Return(e)
      <4>1. Contract!ReturnError
        BY <3>1, <3>4 DEF Return, Errors, Contract!ReturnError
      <4> QED
        BY <4>1
    <3> QED
      BY <3>2, <3>3, <3>4
  <2>4. CASE GiveUp
    <3>1. Contract!ReturnError
      BY <2>4 DEF GiveUp, Return, Contract!ReturnError
    <3> QED
      BY <3>1
  <2>5. CASE CtxEnds
    <3>1. Contract!CtxEnds
      BY <2>5 DEF CtxEnds, Contract!CtxEnds
    <3> QED
      BY <3>1
  <2> QED
    BY <2>1, <2>2, <2>3, <2>4, <2>5 DEF Next, Step
<1> QED
  BY <1>1, <1>2, TypeInvariant, PTL DEF Spec, ImplementsContract, Contract!Spec
=============================================================================
