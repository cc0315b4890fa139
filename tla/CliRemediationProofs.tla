------------------------- MODULE CliRemediationProofs -------------------------
(***************************************************************************)
(* Theorems of CliRemediation for any number of incidents and processes,   *)
(* any plans and any number of faults.                                     *)
(***************************************************************************)
EXTENDS CliRemediation, FiniteSetTheorems, TLAPS

-----------------------------------------------------------------------------
(* Types.                                                                  *)

Busy(s) == session[s].pc # "idle"

\* The statuses of an incident that has a plan: with one, it was never OPEN or RESOLVED.
Planned == {"INVESTIGATING", "MITIGATED"}

\* A session that deals with an incident deals with one that a scan found, whose plan
\* has steps; its loop has reached some step, or is past the last one.
SessionInv ==
  \A s \in Session :
    /\ session[s].k >= 1
    /\ ~Busy(s) => session[s].id = NoIncident
    /\ Busy(s) => /\ session[s].id \in born
                  /\ session[s].report.plan # <<>>
                  /\ session[s].report.status \in Planned

\* A row is one of an incident that a scan found; with a plan it is one of those above.
RowInv ==
  \A i \in Incident :
    db[i] # NoRow =>
      /\ i \in born
      /\ db[i].payload.plan # <<>> => db[i].status \in Planned /\ db[i].payload.status \in Planned
      /\ Len(db[i].payload.steps) = Len(db[i].payload.plan)

\* Nothing was run for an incident before a scan found it.
FreshInv ==
  \A i \in Incident \ born : done[i] = {} /\ \A k \in StepIx : ran[i][k] = 0

TypeInv == TypeOK /\ SessionInv /\ RowInv /\ FreshInv

LEMMA NewReportType ==
  \A r \in NewReports :
    /\ r \in Report
    /\ Len(r.steps) = Len(r.plan)
    /\ r.plan # <<>> => r.status = "INVESTIGATING"
    /\ Applied(r) = {}
    /\ r.status # "MITIGATED"
<1> SUFFICES ASSUME NEW r \in NewReports
             PROVE  /\ r \in Report
                    /\ Len(r.steps) = Len(r.plan)
                    /\ r.plan # <<>> => r.status = "INVESTIGATING"
                    /\ Applied(r) = {}
                    /\ r.status # "MITIGATED"
  OBVIOUS
<1>1. CASE r \in {Unparsed, Healthy}
  <2>1. r.plan = <<>> /\ r.steps = <<>> /\ r.status \in {"OPEN", "RESOLVED"}
    BY <1>1 DEF Unparsed, Healthy
  <2>2. <<>> \in Seq(StepStatuses) /\ "OPEN" \in Statuses /\ "RESOLVED" \in Statuses
    BY DEF Statuses
  <2>3. Unparsed \in Report
    BY <2>2 DEF Unparsed, Report
  <2>4. Healthy \in Report
    BY <2>2 DEF Healthy, Report
  <2>5. Applied(r) = {}
    BY <2>1, DOMAIN <<>> = {} DEF Applied
  <2> QED
    BY <1>1, <2>1, <2>3, <2>4, <2>5
<1>2. CASE \E u \in BOOLEAN, p \in Plans : r = Issue(u, p)
  <2>1. PICK u \in BOOLEAN, p \in Plans : r = Issue(u, p)
    BY <1>2
  <2>2. p \in Seq(Kind) /\ Len(p) \in Nat
    BY PlansAssumption
  <2> DEFINE pending == [k \in 1 .. Len(p) |-> "PENDING"]
  <2>3. pending \in Seq(StepStatuses) /\ Len(pending) = Len(p)
    BY <2>2 DEF StepStatuses
  <2>4. r = [status |-> "INVESTIGATING", urgent |-> u, plan |-> p, steps |-> pending]
    BY <2>1 DEF Issue
  <2>5. r.steps = pending /\ DOMAIN pending = 1 .. Len(p) /\ \A k \in DOMAIN pending : pending[k] = "PENDING"
    BY <2>4
  <2>6. Applied(r) = {}
    BY <2>5 DEF Applied
  <2> QED
    BY <2>3, <2>4, <2>6 DEF Report, Statuses
<1> QED
  BY <1>1, <1>2 DEF NewReports

LEMMA IdleType ==
  /\ Idle \in SessionType
  /\ Idle.pc = "idle" /\ Idle.id = NoIncident /\ Idle.k = 1
  /\ Len(Idle.report.steps) = Len(Idle.report.plan)
<1>1. Unparsed \in Report /\ Unparsed.steps = <<>> /\ Unparsed.plan = <<>>
  BY NewReportType DEF NewReports, Unparsed
<1>2. 1 \in Nat /\ FALSE \in BOOLEAN /\ "idle" \in Phases
  BY DEF Phases
<1> QED
  BY <1>1, <1>2 DEF Idle, SessionType

LEMMA PromptingType ==
  ASSUME NEW i \in Incident, NEW r \in Report, NEW flag \in BOOLEAN
  PROVE  LET p == Prompting(i, r, flag) IN
         p \in SessionType /\ p.pc = "prompt" /\ p.id = i /\ p.report = r /\ p.k = 1
<1>1. 1 \in Nat /\ FALSE \in BOOLEAN /\ "prompt" \in Phases
  BY DEF Phases
<1> QED
  BY <1>1 DEF Prompting, SessionType

\* INSERT ... ON CONFLICT: the row is the given report, or a statement failed.
LEMMA SaveEffect ==
  ASSUME TypeOK, NEW i \in Incident, NEW r \in Report, SaveIncident(i, r)
  PROVE  /\ db' \in [Incident -> Row \cup {NoRow}]
         /\ faults' \in 0 .. MaxFaults /\ faults' >= faults
         /\ \A j \in Incident \ {i} : db'[j] = db[j]
         /\ \/ faults' > 0 /\ db'[i] = db[i]
            \/ faults' = faults /\ db'[i] # NoRow /\ db'[i].status = r.status /\ db'[i].payload = r
<1> DEFINE row == [status |-> r.status, payload |-> r]
<1>1. row \in Row /\ row.status = r.status /\ row.payload = r /\ row # NoRow
  BY NoRowAssumption DEF Row, Report
<1>2. CASE Works /\ db' = [db EXCEPT ![i] = row]
  BY <1>1, <1>2 DEF TypeOK, Works
<1>3. CASE Breaks /\ UNCHANGED db
  BY <1>3, BoundsAssumption DEF TypeOK, Breaks
<1> QED
  BY <1>2, <1>3 DEF SaveIncident

\* UPDATE: the column is the given status, of the row if there is one, or a statement failed.
LEMMA UpdateEffect ==
  ASSUME TypeOK, NEW i \in Incident, NEW st \in Statuses, UpdateStatus(i, st)
  PROVE  /\ db' \in [Incident -> Row \cup {NoRow}]
         /\ faults' \in 0 .. MaxFaults /\ faults' >= faults
         /\ \A j \in Incident \ {i} : db'[j] = db[j]
         /\ \/ faults' > 0 /\ db'[i] = db[i]
            \/ faults' = faults /\ db[i] = NoRow /\ db'[i] = NoRow
            \/ /\ faults' = faults /\ db[i] # NoRow /\ db'[i] # NoRow
               /\ db'[i].status = st /\ db'[i].payload = db[i].payload
<1>1. CASE Works /\ db[i] = NoRow /\ db' = db
  BY <1>1 DEF TypeOK, Works
<1>2. CASE Works /\ db[i] # NoRow /\ db' = [db EXCEPT ![i].status = st]
  <2>1. db[i] \in Row
    BY <1>2 DEF TypeOK
  <2>2. /\ [db[i] EXCEPT !.status = st] \in Row
        /\ [db[i] EXCEPT !.status = st].status = st
        /\ [db[i] EXCEPT !.status = st].payload = db[i].payload
    BY <2>1 DEF Row
  <2>3. db' = [db EXCEPT ![i] = [db[i] EXCEPT !.status = st]]
    BY <1>2
  <2>4. /\ db' \in [Incident -> Row \cup {NoRow}] /\ db'[i] = [db[i] EXCEPT !.status = st]
        /\ \A j \in Incident \ {i} : db'[j] = db[j]
    BY <2>2, <2>3 DEF TypeOK
  <2>5. faults' = faults /\ faults' \in 0 .. MaxFaults /\ faults' >= faults
    BY <1>2, BoundsAssumption DEF TypeOK, Works
  <2> QED
    BY <1>2, <2>2, <2>4, <2>5, NoRowAssumption
<1>3. CASE Breaks /\ UNCHANGED db
  BY <1>3, BoundsAssumption DEF TypeOK, Breaks
<1> QED
  BY <1>1, <1>2, <1>3 DEF UpdateStatus

\* Writing the outcome of the step that the loop is at changes that step, and the loop
\* goes on to the next one.
LEMMA StepDoneEffect ==
  ASSUME TypeInv, NEW s \in Session, NEW st \in StepStatuses, AtStep(s), StepDone(s, st)
  PROVE  LET k == session[s].k IN
         /\ session' \in [Session -> SessionType]
         /\ k \in StepIx /\ k \in DOMAIN session[s].report.plan
         /\ DOMAIN session[s].report.steps = DOMAIN session[s].report.plan
         /\ \A t \in Session \ {s} : session'[t] = session[t]
         /\ session'[s].pc = "running" /\ session'[s].id = session[s].id
         /\ session'[s].dry = session[s].dry /\ session'[s].k = k + 1
         /\ session'[s].report.plan = session[s].report.plan
         /\ session'[s].report.status = session[s].report.status
         /\ session'[s].report.steps = [session[s].report.steps EXCEPT ![k] = st]
         /\ Len(session'[s].report.steps) = Len(session[s].report.steps)
<1> DEFINE k == session[s].k
           r == session[s].report
           written == [r EXCEPT !.steps = [r.steps EXCEPT ![k] = st]]
           next == [session[s] EXCEPT !.report = written, !.k = k + 1]
<1>1. session[s] \in SessionType /\ r \in Report /\ k \in Nat /\ k >= 1 /\ Len(r.steps) = Len(r.plan)
  BY DEF TypeInv, TypeOK, SessionInv, SessionType
<1>2. r.plan \in Seq(Kind) /\ Len(r.plan) \in Nat /\ Len(r.plan) <= MaxSteps
  <2>1. Len(<<>>) = 0 /\ <<>> \in Seq(Kind)
    OBVIOUS
  <2> QED
    BY <1>1, <2>1, PlansAssumption, BoundsAssumption DEF Report
<1>3. k \in StepIx /\ k \in 1 .. Len(r.plan)
  BY <1>1, <1>2, BoundsAssumption DEF AtStep, StepIx
<1>4. r.steps \in Seq(StepStatuses)
  BY <1>1 DEF Report
<1>5. /\ [r.steps EXCEPT ![k] = st] \in Seq(StepStatuses)
      /\ Len([r.steps EXCEPT ![k] = st]) = Len(r.steps)
  BY <1>3, <1>4, <1>1
<1>6. session' = [session EXCEPT ![s] = next]
  BY <1>1 DEF StepDone, TypeInv, TypeOK
<1>7. written \in Report /\ written.plan = r.plan /\ written.status = r.status
      /\ written.steps = [r.steps EXCEPT ![k] = st]
  BY <1>1, <1>5 DEF Report
<1>8. /\ next \in SessionType /\ next.pc = "running" /\ next.id = session[s].id
      /\ next.dry = session[s].dry /\ next.k = k + 1 /\ next.report = written
  <2> HIDE DEF written
  <2>1. session[s].pc = "running"
    BY DEF AtStep
  <2>2. k + 1 \in Nat /\ written \in Report
    BY <1>1, <1>7
  <2>3. next \in SessionType
    BY <1>1, <2>2 DEF SessionType
  <2> QED
    BY <1>1, <2>1, <2>3 DEF SessionType
<1>9. session' \in [Session -> SessionType] /\ session'[s] = next
      /\ \A t \in Session \ {s} : session'[t] = session[t]
  BY <1>6, <1>8 DEF TypeInv, TypeOK
<1>10. DOMAIN r.steps = DOMAIN r.plan /\ DOMAIN r.plan = 1 .. Len(r.plan)
  BY <1>1, <1>2, <1>4
<1> QED
  BY <1>3, <1>5, <1>7, <1>8, <1>9, <1>10
\* What each action does to the session that takes it; the other sessions stay as they are.
Others(s) ==
  session' \in [Session -> SessionType] /\ \A t \in Session \ {s} : session'[t] = session[t]

LEMMA SetSession ==
  ASSUME TypeOK, NEW s \in Session, NEW x \in SessionType, session' = [session EXCEPT ![s] = x]
  PROVE  Others(s) /\ session'[s] = x
  BY DEF TypeOK, Others

LEMMA ScanEffect ==
  ASSUME TypeInv, NEW s \in Session, NEW i \in Incident, Scan(s, i)
  PROVE  \E r \in NewReports :
           /\ SaveIncident(i, r)
           /\ Others(s)
           /\ \/ session'[s] = Idle
              \/ r.plan # <<>> /\ \E flag \in BOOLEAN : session'[s] = Prompting(i, r, flag)
<1>1. PICK r \in NewReports, flag \in BOOLEAN, apply \in BOOLEAN, watch \in BOOLEAN :
        /\ SaveIncident(i, r)
        /\ session' =
            [session EXCEPT ![s] =
               IF apply /\ r.plan # <<>> /\ (watch => r.urgent) THEN Prompting(i, r, flag) ELSE Idle]
  BY DEF Scan
<1>2. CASE session' = [session EXCEPT ![s] = Idle]
  BY <1>1, <1>2, IdleType, SetSession DEF TypeInv
<1>3. CASE r.plan # <<>> /\ session' = [session EXCEPT ![s] = Prompting(i, r, flag)]
  <2>1. Prompting(i, r, flag) \in SessionType
    BY NewReportType, PromptingType
  <2> QED
    BY <1>1, <1>3, <2>1, SetSession DEF TypeInv
<1> QED
  BY <1>1, <1>2, <1>3

LEMMA ApplyEffect ==
  ASSUME TypeInv, NEW s \in Session, NEW i \in Incident, Apply(s, i)
  PROVE  /\ Others(s)
         /\ db[i] \in Row
         /\ \E flag \in BOOLEAN : session'[s] = Prompting(i, db[i].payload, flag)
<1>1. db[i] \in Row /\ db[i].payload \in Report
  BY DEF Apply, TypeInv, TypeOK, Row
<1>2. PICK flag \in BOOLEAN : session' = [session EXCEPT ![s] = Prompting(i, db[i].payload, flag)]
  BY DEF Apply
<1>3. Prompting(i, db[i].payload, flag) \in SessionType
  BY <1>1, PromptingType
<1> QED
  BY <1>1, <1>2, <1>3, SetSession DEF TypeInv

\* The fields of a session that stay as they are until it is over.
SameIncident(s) ==
  /\ session'[s].id = session[s].id
  /\ session'[s].report = session[s].report
  /\ session'[s].k = session[s].k

LEMMA AnswerEffect ==
  ASSUME TypeInv, NEW s \in Session, AnswerExecute(s) \/ AnswerDry(s)
  PROVE  /\ Others(s) /\ SameIncident(s)
         /\ session'[s].pc = "running"
         /\ AnswerExecute(s) => session'[s].dry = FALSE
         /\ AnswerDry(s) => session'[s].dry = TRUE
<1>1. session[s] \in SessionType
  BY DEF TypeInv, TypeOK
<1>2. ASSUME NEW d \in BOOLEAN, session' = [session EXCEPT ![s].pc = "running", ![s].dry = d]
      PROVE  Others(s) /\ SameIncident(s) /\ session'[s].pc = "running" /\ session'[s].dry = d
  <2> DEFINE x == [session[s] EXCEPT !.pc = "running", !.dry = d]
  <2>1. x \in SessionType /\ x.pc = "running" /\ x.dry = d
        /\ x.id = session[s].id /\ x.report = session[s].report /\ x.k = session[s].k
    BY <1>1 DEF SessionType, Phases
  <2>2. session' = [session EXCEPT ![s] = x]
    BY <1>2
  <2> QED
    BY <2>1, <2>2, SetSession DEF TypeInv, SameIncident
<1>3. CASE AnswerExecute(s)
  <2>1. session' = [session EXCEPT ![s].pc = "running", ![s].dry = FALSE]
    BY <1>3 DEF AnswerExecute
  <2>2. session'[s].dry = FALSE
    BY <1>2, <2>1
  <2>3. ~AnswerDry(s) \/ session'[s].dry = TRUE
    <3>1. ASSUME AnswerDry(s) PROVE session'[s].dry = TRUE
      BY <1>2, <3>1 DEF AnswerDry
    <3> QED
      BY <3>1
  <2> QED
    BY <1>2, <2>1, <2>2, <2>3
<1>4. CASE ~AnswerExecute(s) /\ AnswerDry(s)
  BY <1>2, <1>4 DEF AnswerDry
<1> QED
  BY <1>3, <1>4

LEMMA EndLoopEffect ==
  ASSUME TypeInv, NEW s \in Session, EndLoop(s)
  PROVE  /\ Others(s)
         /\ \/ Applied(session[s].report) = {} /\ session'[s] = Idle
            \/ /\ Applied(session[s].report) # {}
               /\ session'[s].pc = "saving"
               /\ session'[s].id = session[s].id
               /\ session'[s].k = session[s].k
               /\ session'[s].report.plan = session[s].report.plan
               /\ session'[s].report.steps = session[s].report.steps
               /\ session'[s].report.status = "MITIGATED"
<1>1. session[s] \in SessionType /\ session[s].report \in Report
  BY DEF TypeInv, TypeOK, SessionType
<1> DEFINE r == [session[s].report EXCEPT !.status = "MITIGATED"]
           x == [session[s] EXCEPT !.pc = "saving", !.report = r]
<1>2. CASE Applied(session[s].report) = {} /\ session' = [session EXCEPT ![s] = Idle]
  BY <1>2, IdleType, SetSession DEF TypeInv
<1>3. CASE Applied(session[s].report) # {} /\ session' = [session EXCEPT ![s] = x]
  <2>1. r \in Report /\ r.plan = session[s].report.plan /\ r.steps = session[s].report.steps
        /\ r.status = "MITIGATED"
    BY <1>1 DEF Report, Statuses
  <2>2. x \in SessionType /\ x.pc = "saving" /\ x.id = session[s].id /\ x.k = session[s].k /\ x.report = r
    <3> HIDE DEF r
    <3> QED
      BY <1>1, <2>1 DEF SessionType, Phases
  <2> QED
    BY <1>3, <2>1, <2>2, SetSession DEF TypeInv
<1>4. session' = [session EXCEPT ![s] = IF Applied(session[s].report) # {} THEN x ELSE Idle]
  BY DEF EndLoop
<1> QED
  BY <1>2, <1>3, <1>4

LEMMA SaveMitigatedEffect ==
  ASSUME TypeInv, NEW s \in Session, SaveMitigated(s)
  PROVE  /\ Others(s) /\ SameIncident(s)
         /\ session'[s].pc = "updating"
         /\ session'[s].dry = session[s].dry
<1> DEFINE x == [session[s] EXCEPT !.pc = "updating"]
<1>1. x \in SessionType /\ x.pc = "updating" /\ x.dry = session[s].dry
      /\ x.id = session[s].id /\ x.report = session[s].report /\ x.k = session[s].k
  BY DEF SessionType, Phases, TypeInv, TypeOK
<1>2. session' = [session EXCEPT ![s] = x]
  BY DEF SaveMitigated
<1> QED
  BY <1>1, <1>2, SetSession DEF TypeInv, SameIncident

\* A session that is over.
LEMMA OverEffect ==
  ASSUME TypeInv, NEW s \in Session, AnswerSkip(s) \/ MarkMitigated(s) \/ Kill(s)
  PROVE  Others(s) /\ session'[s] = Idle
  BY IdleType, SetSession DEF TypeInv, AnswerSkip, MarkMitigated, Kill
\* The actions of a session that deals with an incident.
WorkOn(s) == AnswerExecute(s) \/ AnswerDry(s) \/ AnswerSkip(s) \/ Remediate(s) \/ Kill(s)

\* Such a session goes on with its incident and the plan it has, or is over.
LEMMA WorkEffect ==
  ASSUME TypeInv, NEW s \in Session, WorkOn(s)
  PROVE  /\ Busy(s) /\ session[s].id \in Incident /\ UNCHANGED born /\ Others(s)
         /\ \/ session'[s] = Idle
            \/ /\ Busy(s)'
               /\ session'[s].id = session[s].id
               /\ session'[s].report.plan = session[s].report.plan
               /\ session'[s].k >= session[s].k
               /\ session'[s].report.status \in {session[s].report.status, "MITIGATED"}
               /\ Len(session'[s].report.steps) = Len(session[s].report.steps)
<1>1. Busy(s) /\ UNCHANGED born
  BY DEF WorkOn, Remediate, AnswerExecute, AnswerDry, AnswerSkip, SkipStep, BlockStep, RunStep,
         EndLoop, SaveMitigated, MarkMitigated, Kill, AtStep, Busy
<1>2. session[s].id \in Incident /\ session[s].k \in Nat
  BY <1>1 DEF TypeInv, TypeOK, SessionInv, SessionType
<1>3. CASE AnswerExecute(s) \/ AnswerDry(s)
  <2>1. Others(s) /\ SameIncident(s) /\ session'[s].pc = "running"
    BY <1>3, AnswerEffect
  <2> QED
    BY <1>1, <1>2, <2>1 DEF SameIncident, Busy
<1>4. CASE \E st \in StepStatuses : AtStep(s) /\ StepDone(s, st)
  <2>1. PICK st \in StepStatuses : AtStep(s) /\ StepDone(s, st)
    BY <1>4
  <2>2. /\ Others(s) /\ session'[s].pc = "running" /\ session'[s].id = session[s].id
        /\ session'[s].k = session[s].k + 1
        /\ session'[s].report.plan = session[s].report.plan
        /\ session'[s].report.status = session[s].report.status
        /\ Len(session'[s].report.steps) = Len(session[s].report.steps)
    BY <2>1, StepDoneEffect DEF Others
  <2> QED
    BY <1>1, <1>2, <2>2 DEF Busy
<1>5. CASE EndLoop(s)
  BY <1>1, <1>2, <1>5, EndLoopEffect DEF Busy
<1>6. CASE SaveMitigated(s)
  BY <1>1, <1>2, <1>6, SaveMitigatedEffect DEF SameIncident, Busy
<1>7. CASE AnswerSkip(s) \/ MarkMitigated(s) \/ Kill(s)
  BY <1>1, <1>2, <1>7, OverEffect
<1>8. SkipStep(s) \/ BlockStep(s) \/ RunStep(s) => \E st \in StepStatuses : AtStep(s) /\ StepDone(s, st)
  BY DEF SkipStep, BlockStep, RunStep, StepStatuses
<1> QED
  BY <1>3, <1>4, <1>5, <1>6, <1>7, <1>8 DEF WorkOn, Remediate

\* The table changes in the row of that incident only, by the two statements.
LEMMA WorkRow ==
  ASSUME TypeInv, NEW s \in Session, WorkOn(s)
  PROVE  LET i == session[s].id IN
         /\ db' \in [Incident -> Row \cup {NoRow}]
         /\ faults' \in 0 .. MaxFaults /\ faults' >= faults
         /\ \A j \in Incident \ {i} : db'[j] = db[j]
         /\ \/ db'[i] = db[i]
            \/ /\ SaveMitigated(s) /\ db'[i] # NoRow
               /\ db'[i].status = session[s].report.status /\ db'[i].payload = session[s].report
            \/ /\ MarkMitigated(s) /\ db[i] # NoRow /\ db'[i] # NoRow
               /\ db'[i].status = "MITIGATED" /\ db'[i].payload = db[i].payload
<1>1. session[s].id \in Incident /\ session[s].report \in Report /\ TypeOK
  BY WorkEffect DEF TypeInv, TypeOK, SessionType
<1>2. CASE SaveMitigated(s)
  <2>1. SaveIncident(session[s].id, session[s].report)
    BY <1>2 DEF SaveMitigated
  <2> QED
    BY <1>1, <1>2, <2>1, SaveEffect
<1>3. CASE MarkMitigated(s)
  <2>1. UpdateStatus(session[s].id, "MITIGATED") /\ "MITIGATED" \in Statuses
    BY <1>3 DEF MarkMitigated, Statuses
  <2> QED
    BY <1>1, <1>3, <2>1, UpdateEffect
<1>4. CASE ~SaveMitigated(s) /\ ~MarkMitigated(s)
  <2>1. UNCHANGED db /\ (UNCHANGED faults \/ Breaks)
    BY <1>4 DEF WorkOn, Remediate, AnswerExecute, AnswerDry, AnswerSkip, SkipStep, BlockStep, RunStep,
           EndLoop, Kill
  <2> QED
    BY <1>1, <2>1, BoundsAssumption DEF TypeOK, Breaks
<1> QED
  BY <1>2, <1>3, <1>4

-----------------------------------------------------------------------------
(* The inductive invariants.                                               *)

\* All copies of one incident's report have the same plan.
PlanInv ==
  \A s \in Session, i \in Incident :
    session[s].id = i =>
      /\ \A t \in Session : session[t].id = i => session[t].report.plan = session[s].report.plan
      /\ db[i] # NoRow => db[i].payload.plan = session[s].report.plan

\* A step that was run is one that the allowlist lets through, in every copy of the plan.
RanInv ==
  \A i \in Incident, k \in StepIx :
    ran[i][k] > 0 =>
      /\ \A s \in Session : session[s].id = i => session[s].report.plan[k] = "safe"
      /\ db[i] # NoRow => db[i].payload.plan[k] = "safe"

\* The sessions that may still run step k of an incident: those that were told "y" and
\* have not come to it.
Armed(i, k) ==
  {s \in Session : /\ session[s].pc = "running" /\ ~session[s].dry
                   /\ session[s].id = i /\ session[s].k <= k}

\* A "y" is used up by the session's own run of the step.
CountInv ==
  \A i \in Incident, k \in StepIx :
    /\ IsFiniteSet(Armed(i, k))
    /\ ran[i][k] + Cardinality(Armed(i, k)) <= consents[i]

\* What any copy says was applied did succeed; a copy on its way into the table says so.
TruthInv ==
  /\ \A i \in Incident :
       db[i] # NoRow =>
         /\ Applied(db[i].payload) \subseteq done[i]
         /\ db[i].status = "MITIGATED" \/ db[i].payload.status = "MITIGATED" => done[i] # {}
  /\ \A s \in Session :
       Busy(s) =>
         /\ Applied(session[s].report) \subseteq done[session[s].id]
         /\ session[s].report.status = "MITIGATED" => done[session[s].id] # {}
         /\ session[s].pc \in {"saving", "updating"} =>
              session[s].report.status = "MITIGATED" /\ Applied(session[s].report) # {}

\* Without a fault, the two statements of applyRemediation leave one status behind.
ColumnInv ==
  faults = 0 =>
    /\ \A i \in Incident : db[i] # NoRow => db[i].status = db[i].payload.status
    /\ \A s \in Session :
         session[s].pc = "updating" =>
           db[session[s].id] # NoRow /\ db[session[s].id].payload.status = "MITIGATED"

\* The session has applied a step itself, and not only read that one was.
HasWorked(s) ==
  \/ /\ session[s].pc = "running"
     /\ \E j \in DOMAIN session[s].report.steps :
          j < session[s].k /\ session[s].report.steps[j] = "APPLIED"
  \/ session[s].pc \in {"saving", "updating"}

\* Without a fault, work that is not on record yet is in the hands of a session.
RecordedInv ==
  faults = 0 =>
    \A i \in Incident :
      done[i] # {} => \/ db[i] # NoRow /\ db[i].status = "MITIGATED"
                      \/ \E s \in Session : session[s].id = i /\ HasWorked(s)

Inv == TypeInv /\ PlanInv /\ RanInv /\ CountInv /\ TruthInv /\ ColumnInv /\ RecordedInv
-----------------------------------------------------------------------------
(* Initially, and by each action.                                          *)

LEMMA InitTypeInv == Init => TypeInv
<1> SUFFICES ASSUME Init PROVE TypeInv
  OBVIOUS
<1>1. session \in [Session -> SessionType] /\ \A s \in Session : session[s] = Idle
  BY IdleType DEF Init
<1>2. TypeOK
  BY <1>1, IdleType, BoundsAssumption DEF Init, TypeOK
<1>3. SessionInv
  BY <1>1, IdleType DEF SessionInv, Busy
<1> QED
  BY <1>2, <1>3 DEF Init, TypeInv, RowInv, FreshInv

\* What a session is told and runs has the types it should have.
LEMMA WorkCounts ==
  ASSUME TypeInv, NEW s \in Session, WorkOn(s)
  PROVE  LET i == session[s].id
             k == session[s].k
         IN
         /\ consents' \in [Incident -> 0 .. MaxConsents]
         /\ ran' \in [Incident -> [StepIx -> Nat]]
         /\ done' \in [Incident -> SUBSET StepIx]
         /\ \A j \in Incident \ {i} : consents'[j] = consents[j] /\ ran'[j] = ran[j] /\ done'[j] = done[j]
         /\ done[i] \subseteq done'[i]
         /\ \/ AnswerExecute(s) /\ consents'[i] = consents[i] + 1
            \/ ~AnswerExecute(s) /\ consents'[i] = consents[i]
         /\ \/ /\ RunStep(s)
               /\ ran'[i][k] = ran[i][k] + 1
               /\ \A j \in StepIx \ {k} : ran'[i][j] = ran[i][j]
            \/ ~RunStep(s) /\ ran'[i] = ran[i] /\ done'[i] = done[i]
<1> DEFINE i == session[s].id
           k == session[s].k
<1>1. i \in Incident
  BY WorkEffect
<1>2. /\ consents \in [Incident -> 0 .. MaxConsents] /\ ran \in [Incident -> [StepIx -> Nat]]
      /\ done \in [Incident -> SUBSET StepIx]
  BY DEF TypeInv, TypeOK
<1>3. CASE AnswerExecute(s)
  <2>1. /\ consents[i] < MaxConsents /\ consents' = [consents EXCEPT ![i] = @ + 1]
        /\ UNCHANGED <<ran, done>> /\ session[s].pc = "prompt"
    BY <1>3 DEF AnswerExecute
  <2>2. consents[i] \in 0 .. MaxConsents /\ consents[i] + 1 \in 0 .. MaxConsents
    BY <1>1, <1>2, <2>1, BoundsAssumption
  <2>3. ~RunStep(s)
    BY <2>1 DEF RunStep, AtStep
  <2> QED
    BY <1>1, <1>2, <1>3, <2>1, <2>2, <2>3
<1>4. CASE RunStep(s)
  <2>1. /\ AtStep(s) /\ ran' = [ran EXCEPT ![i][k] = @ + 1] /\ UNCHANGED consents
        /\ session[s].pc = "running"
        /\ done' = [done EXCEPT ![i] = @ \cup {k}] \/ UNCHANGED done
        /\ \E st \in StepStatuses : StepDone(s, st)
    BY <1>4 DEF RunStep, AtStep, StepStatuses
  <2>2. k \in StepIx
    BY <2>1, StepDoneEffect
  <2>3. ~AnswerExecute(s)
    BY <2>1 DEF AnswerExecute
  <2>4. /\ ran' \in [Incident -> [StepIx -> Nat]] /\ ran'[i][k] = ran[i][k] + 1
        /\ \A j \in StepIx \ {k} : ran'[i][j] = ran[i][j]
        /\ \A j \in Incident \ {i} : ran'[j] = ran[j]
    BY <1>1, <1>2, <2>1, <2>2
  <2>5. /\ done' \in [Incident -> SUBSET StepIx] /\ done[i] \subseteq done'[i]
        /\ \A j \in Incident \ {i} : done'[j] = done[j]
    BY <1>1, <1>2, <2>1, <2>2
  <2> QED
    BY <1>2, <1>4, <2>1, <2>3, <2>4, <2>5
<1>5. CASE ~AnswerExecute(s) /\ ~RunStep(s)
  <2>1. UNCHANGED <<consents, ran, done>>
    BY <1>5 DEF WorkOn, Remediate, AnswerDry, AnswerSkip, SkipStep, BlockStep,
           EndLoop, SaveMitigated, MarkMitigated, Kill
  <2> QED
    BY <1>1, <1>2, <1>5, <2>1
<1> QED
  BY <1>3, <1>4, <1>5

LEMMA WorkTypeInv ==
  ASSUME TypeInv, NEW s \in Session, WorkOn(s)
  PROVE  TypeInv'
<1>1. TypeOK'
  <2>1. \A t \in Session : Len(session'[t].report.steps) = Len(session'[t].report.plan)
    BY WorkEffect, IdleType DEF TypeInv, TypeOK, Others
  <2>2. session' \in [Session -> SessionType] /\ born' \subseteq Incident
    BY WorkEffect DEF TypeInv, TypeOK, Others
  <2> QED
    BY <2>1, <2>2, WorkRow, WorkCounts DEF TypeOK
<1>2. SessionInv'
  <2>1. ASSUME NEW t \in Session, t # s
        PROVE  session'[t] = session[t] /\ born' = born
    BY <2>1, WorkEffect DEF Others
  <2>2. CASE session'[s] = Idle
    BY <2>1, <2>2, IdleType DEF TypeInv, SessionInv, Busy
  <2>3. CASE session'[s] # Idle
    <3>1. /\ Busy(s) /\ Busy(s)' /\ born' = born /\ session'[s].id = session[s].id
          /\ session'[s].report.plan = session[s].report.plan
          /\ session'[s].k >= session[s].k
          /\ session'[s].report.status \in {session[s].report.status, "MITIGATED"}
      BY <2>3, WorkEffect
    <3>2. session'[s].k >= 1
      <4>1. session'[s].k \in Nat /\ session[s].k \in Nat /\ session[s].k >= 1
        BY WorkEffect DEF TypeInv, TypeOK, SessionInv, SessionType, Others
      <4> QED
        BY <3>1, <4>1
    <3> QED
      BY <2>1, <3>1, <3>2 DEF TypeInv, SessionInv, Busy, Planned
  <2> QED
    BY <2>2, <2>3
<1>3. RowInv'
  <2> SUFFICES ASSUME NEW j \in Incident, db'[j] # NoRow
               PROVE  /\ j \in born'
                      /\ db'[j].payload.plan # <<>> =>
                           db'[j].status \in Planned /\ db'[j].payload.status \in Planned
                      /\ Len(db'[j].payload.steps) = Len(db'[j].payload.plan)
    BY DEF RowInv
  <2>1. CASE db'[j] = db[j]
    BY <2>1, WorkEffect DEF TypeInv, RowInv
  <2>2. CASE j = session[s].id /\ db'[j].status = session[s].report.status /\ db'[j].payload = session[s].report
    BY <2>2, WorkEffect DEF TypeInv, TypeOK, SessionInv, Busy
  <2>3. CASE /\ db[j] # NoRow /\ db'[j].status = "MITIGATED" /\ db'[j].payload = db[j].payload
    BY <2>3, WorkEffect DEF TypeInv, RowInv, Planned
  <2> QED
    BY <2>1, <2>2, <2>3, WorkRow
<1>4. FreshInv'
  <2>1. session[s].id \in born /\ born' = born
    BY WorkEffect DEF TypeInv, SessionInv
  <2> QED
    BY <2>1, WorkCounts DEF TypeInv, FreshInv
<1> QED
  BY <1>1, <1>2, <1>3, <1>4 DEF TypeInv
\* A scan gives an incident that nobody knows yet a row, unless the statement fails, and
\* perhaps a session.
LEMMA ScanFresh ==
  ASSUME TypeInv, NEW s \in Session, NEW i \in Incident, Scan(s, i)
  PROVE  /\ ~Busy(s) /\ i \notin born /\ born' = born \cup {i}
         /\ db[i] = NoRow /\ done[i] = {} /\ \A k \in StepIx : ran[i][k] = 0
         /\ \A t \in Session : session[t].id # i
         /\ UNCHANGED <<consents, ran, done>>
         /\ Others(s)
         /\ db' \in [Incident -> Row \cup {NoRow}]
         /\ faults' \in 0 .. MaxFaults /\ faults' >= faults
         /\ \A j \in Incident \ {i} : db'[j] = db[j]
         /\ \E r \in NewReports :
              /\ \/ faults' > 0 /\ db'[i] = NoRow
                 \/ faults' = faults /\ db'[i].status = r.status /\ db'[i].payload = r
              /\ \/ session'[s] = Idle
                 \/ /\ session'[s].pc = "prompt" /\ session'[s].id = i /\ session'[s].k = 1
                    /\ session'[s].report = r /\ r.plan # <<>>
<1>1. ~Busy(s) /\ i \notin born /\ born' = born \cup {i} /\ UNCHANGED <<consents, ran, done>>
  BY DEF Scan, Busy
<1>2. db[i] = NoRow /\ done[i] = {} /\ \A k \in StepIx : ran[i][k] = 0
  BY <1>1 DEF TypeInv, RowInv, FreshInv
<1>3. \A t \in Session : session[t].id # i
  BY <1>1, NoIncidentAssumption DEF TypeInv, SessionInv
<1>4. PICK r \in NewReports :
        /\ SaveIncident(i, r)
        /\ Others(s)
        /\ \/ session'[s] = Idle
           \/ r.plan # <<>> /\ \E flag \in BOOLEAN : session'[s] = Prompting(i, r, flag)
  BY ScanEffect
<1>5. r \in Report
  BY NewReportType
<1>6. /\ db' \in [Incident -> Row \cup {NoRow}]
      /\ faults' \in 0 .. MaxFaults /\ faults' >= faults
      /\ \A j \in Incident \ {i} : db'[j] = db[j]
      /\ \/ faults' > 0 /\ db'[i] = NoRow
         \/ faults' = faults /\ db'[i].status = r.status /\ db'[i].payload = r
  BY <1>2, <1>4, <1>5, SaveEffect DEF TypeInv
<1>7. \/ session'[s] = Idle
      \/ /\ session'[s].pc = "prompt" /\ session'[s].id = i /\ session'[s].k = 1
         /\ session'[s].report = r /\ r.plan # <<>>
  BY <1>4, <1>5, PromptingType
<1> QED
  BY <1>1, <1>2, <1>3, <1>4, <1>6, <1>7

\* apply takes its report from the row.
LEMMA ApplyRead ==
  ASSUME TypeInv, NEW s \in Session, NEW i \in Incident, Apply(s, i)
  PROVE  /\ ~Busy(s) /\ i \in born /\ db[i] # NoRow /\ db[i].payload.plan # <<>>
         /\ UNCHANGED <<db, born, consents, ran, done, faults>>
         /\ Others(s)
         /\ session'[s].pc = "prompt" /\ session'[s].id = i /\ session'[s].k = 1
         /\ session'[s].report = db[i].payload
<1>1. /\ ~Busy(s) /\ db[i] # NoRow /\ db[i].payload.plan # <<>>
      /\ UNCHANGED <<db, born, consents, ran, done, faults>>
  BY DEF Apply, Busy
<1>2. i \in born
  BY <1>1 DEF TypeInv, RowInv
<1>3. Others(s) /\ db[i].payload \in Report
      /\ \E flag \in BOOLEAN : session'[s] = Prompting(i, db[i].payload, flag)
  BY ApplyEffect DEF Row
<1>4. session'[s].pc = "prompt" /\ session'[s].id = i /\ session'[s].k = 1
      /\ session'[s].report = db[i].payload
  BY <1>3, PromptingType
<1> QED
  BY <1>1, <1>2, <1>3, <1>4

LEMMA ScanTypeInv ==
  ASSUME TypeInv, NEW s \in Session, NEW i \in Incident, Scan(s, i)
  PROVE  TypeInv'
<1>1. PICK r \in NewReports :
        /\ \/ db'[i] = NoRow
           \/ db'[i].status = r.status /\ db'[i].payload = r
        /\ \/ session'[s] = Idle
           \/ /\ session'[s].pc = "prompt" /\ session'[s].id = i /\ session'[s].k = 1
              /\ session'[s].report = r /\ r.plan # <<>>
  BY ScanFresh
<1>2. Len(r.steps) = Len(r.plan) /\ (r.plan # <<>> => r.status \in Planned)
  BY NewReportType DEF Planned
<1>3. born' = born \cup {i} /\ UNCHANGED <<consents, ran, done>> /\ Others(s)
      /\ db' \in [Incident -> Row \cup {NoRow}] /\ faults' \in 0 .. MaxFaults
      /\ \A j \in Incident \ {i} : db'[j] = db[j]
  BY ScanFresh
<1>4. TypeOK'
  <2>1. \A t \in Session : Len(session'[t].report.steps) = Len(session'[t].report.plan)
    BY <1>1, <1>2, <1>3, IdleType DEF TypeInv, TypeOK, Others
  <2> QED
    BY <1>3, <2>1 DEF TypeInv, TypeOK, Others
<1>5. SessionInv'
  BY <1>1, <1>2, <1>3, IdleType DEF TypeInv, SessionInv, Busy, Others
<1>6. RowInv'
  BY <1>1, <1>2, <1>3 DEF TypeInv, RowInv
<1>7. FreshInv'
  BY <1>3 DEF TypeInv, FreshInv
<1> QED
  BY <1>4, <1>5, <1>6, <1>7 DEF TypeInv

LEMMA ApplyTypeInv ==
  ASSUME TypeInv, NEW s \in Session, NEW i \in Incident, Apply(s, i)
  PROVE  TypeInv'
<1>1. TypeOK'
  <2>1. Len(session'[s].report.steps) = Len(session'[s].report.plan)
    <3>1. db[i] # NoRow /\ session'[s].report = db[i].payload
      BY ApplyRead
    <3> QED
      BY <3>1 DEF TypeInv, RowInv
  <2>2. \A t \in Session \ {s} : Len(session'[t].report.steps) = Len(session'[t].report.plan)
    BY ApplyRead DEF TypeInv, TypeOK, Others
  <2> QED
    BY <2>1, <2>2, ApplyRead DEF TypeInv, TypeOK, Others
<1>2. SessionInv'
  BY ApplyRead DEF TypeInv, SessionInv, RowInv, Busy, Others
<1>3. RowInv' /\ FreshInv'
  BY ApplyRead DEF TypeInv, RowInv, FreshInv
<1> QED
  BY <1>1, <1>2, <1>3 DEF TypeInv

\* Every step is one of these.
LEMMA NextCases ==
  ASSUME Next
  PROVE  \E s \in Session : WorkOn(s) \/ \E i \in Incident : Scan(s, i) \/ Apply(s, i)
  BY DEF Next, WorkOn

LEMMA StutterTypeInv == TypeInv /\ UNCHANGED vars => TypeInv'
  BY DEF TypeInv, TypeOK, SessionInv, RowInv, FreshInv, Busy, vars

LEMMA NextTypeInv == TypeInv /\ [Next]_vars => TypeInv'
  BY NextCases, WorkTypeInv, ScanTypeInv, ApplyTypeInv, StutterTypeInv

\* The variables stay in their types: with them, a report keeps one status for each step
\* of its plan, and no index leaves the plan.
THEOREM TypeCorrect == Spec => []TypeOK
<1>1. TypeInv => TypeOK
  BY DEF TypeInv
<1> QED
  BY <1>1, InitTypeInv, NextTypeInv, PTL DEF Spec
-----------------------------------------------------------------------------
(* One plan, of which only what the allowlist lets through is run.         *)

LEMMA NextPlanInv == TypeInv /\ PlanInv /\ [Next]_vars => PlanInv'
<1> SUFFICES ASSUME TypeInv, PlanInv, [Next]_vars PROVE PlanInv'
  OBVIOUS
<1>1. ASSUME NEW s \in Session, WorkOn(s) PROVE PlanInv'
  <2> DEFINE i == session[s].id
  <2>1. \A t \in Session, j \in Incident :
          session'[t].id = j => session[t].id = j /\ session'[t].report.plan = session[t].report.plan
    BY <1>1, WorkEffect, IdleType, NoIncidentAssumption DEF Others
  <2>2. \A j \in Incident, t \in Session :
          db'[j] # NoRow /\ session[t].id = j => db'[j].payload.plan = session[t].report.plan
    BY <1>1, WorkRow DEF PlanInv
  <2> QED
    BY <2>1, <2>2 DEF PlanInv
<1>2. ASSUME NEW s \in Session, NEW i \in Incident, Scan(s, i) PROVE PlanInv'
  <2>1. PICK r \in NewReports :
          /\ \/ db'[i] = NoRow
             \/ db'[i].payload = r
          /\ \/ session'[s] = Idle
             \/ session'[s].id = i /\ session'[s].report = r
    BY <1>2, ScanFresh
  <2>2. /\ \A t \in Session : session[t].id # i
        /\ \A t \in Session \ {s} : session'[t] = session[t]
        /\ \A j \in Incident \ {i} : db'[j] = db[j]
    BY <1>2, ScanFresh DEF Others
  <2>3. \A t \in Session : session'[t].id = i => t = s /\ session'[t].report = r
    BY <2>1, <2>2, IdleType, NoIncidentAssumption
  <2>4. \A t \in Session, j \in Incident \ {i} : session'[t].id = j => t # s
    BY <2>1, <2>2, IdleType, NoIncidentAssumption
  <2> QED
    BY <2>1, <2>2, <2>3, <2>4 DEF PlanInv
<1>3. ASSUME NEW s \in Session, NEW i \in Incident, Apply(s, i) PROVE PlanInv'
  <2>1. /\ db' = db /\ db[i] # NoRow
        /\ session'[s].id = i /\ session'[s].report = db[i].payload
        /\ \A t \in Session \ {s} : session'[t] = session[t]
    BY <1>3, ApplyRead DEF Others
  <2> QED
    BY <2>1 DEF PlanInv
<1>4. CASE UNCHANGED vars
  BY <1>4 DEF PlanInv, vars
<1> QED
  BY <1>1, <1>2, <1>3, <1>4, NextCases

LEMMA NextRanInv == TypeInv /\ PlanInv /\ RanInv /\ [Next]_vars => RanInv'
<1> SUFFICES ASSUME TypeInv, PlanInv, RanInv, [Next]_vars PROVE RanInv'
  OBVIOUS
<1>1. ASSUME NEW s \in Session, WorkOn(s) PROVE RanInv'
  <2> DEFINE i == session[s].id
  <2>1. \A t \in Session, j \in Incident :
          session'[t].id = j => session[t].id = j /\ session'[t].report.plan = session[t].report.plan
    BY <1>1, WorkEffect, IdleType, NoIncidentAssumption DEF Others
  <2>2. \A j \in Incident :
          db'[j] # NoRow => \/ db[j] # NoRow /\ db'[j].payload.plan = db[j].payload.plan
                            \/ j = i /\ db'[j].payload.plan = session[s].report.plan
    <3>1. \A j \in Incident \ {i} : db'[j] = db[j]
      BY <1>1, WorkRow
    <3>2. \/ db'[i] = db[i]
          \/ db'[i].payload = session[s].report
          \/ db[i] # NoRow /\ db'[i].payload = db[i].payload
      BY <1>1, WorkRow
    <3> QED
      BY <3>1, <3>2
  <2>3. ASSUME NEW j \in Incident, NEW n \in StepIx, ran'[j][n] > 0
        PROVE  \/ ran[j][n] > 0
               \/ j = i /\ session[s].report.plan[n] = "safe"
    <3>1. CASE RunStep(s)
      <4>1. session[s].report.plan[session[s].k] = "safe"
        BY <3>1 DEF RunStep
      <4>2. \/ j = i /\ n = session[s].k
            \/ ran'[j][n] = ran[j][n]
        BY <1>1, <2>3, <3>1, WorkCounts
      <4> QED
        BY <2>3, <4>1, <4>2
    <3>2. CASE ~RunStep(s)
      BY <1>1, <2>3, <3>2, WorkCounts
    <3> QED
      BY <3>1, <3>2
  <2>4. ASSUME NEW j \in Incident, NEW n \in StepIx, ran'[j][n] > 0
        PROVE  /\ \A t \in Session : session[t].id = j => session[t].report.plan[n] = "safe"
               /\ db[j] # NoRow => db[j].payload.plan[n] = "safe"
    BY <2>3, <2>4 DEF RanInv, PlanInv
  <2> QED
    BY <2>1, <2>2, <2>4 DEF RanInv
<1>2. ASSUME NEW s \in Session, NEW i \in Incident, Scan(s, i) PROVE RanInv'
  <2>1. /\ \A n \in StepIx : ran[i][n] = 0
        /\ \A t \in Session \ {s} : session'[t] = session[t]
        /\ \A j \in Incident \ {i} : db'[j] = db[j]
        /\ ran' = ran
        /\ session'[s].id \in {i, NoIncident}
    BY <1>2, ScanFresh, IdleType DEF Others
  <2> QED
    BY <2>1, NoIncidentAssumption DEF RanInv
<1>3. ASSUME NEW s \in Session, NEW i \in Incident, Apply(s, i) PROVE RanInv'
  <2>1. /\ db' = db /\ ran' = ran /\ db[i] # NoRow
        /\ session'[s].id = i /\ session'[s].report = db[i].payload
        /\ \A t \in Session \ {s} : session'[t] = session[t]
    BY <1>3, ApplyRead DEF Others
  <2> QED
    BY <2>1 DEF RanInv
<1>4. CASE UNCHANGED vars
  BY <1>4 DEF RanInv, vars
<1> QED
  BY <1>1, <1>2, <1>3, <1>4, NextCases
\* Only a "y" arms a session, and a run of the step moves it on.
LEMMA StaysArmed ==
  ASSUME TypeInv, NEW s \in Session, WorkOn(s), ~AnswerExecute(s),
         session'[s].pc = "running", ~session'[s].dry
  PROVE  /\ session[s].pc = "running" /\ ~session[s].dry
         /\ RunStep(s) => session'[s].k = session[s].k + 1
<1>1. CASE AnswerDry(s)
  <2>1. session'[s].dry = TRUE
    BY <1>1, AnswerEffect
  <2> QED
    BY <2>1
<1>2. CASE SkipStep(s) \/ BlockStep(s) \/ RunStep(s)
  <2>1. PICK st \in StepStatuses : AtStep(s) /\ StepDone(s, st)
    BY <1>2 DEF SkipStep, BlockStep, RunStep, StepStatuses
  <2>2. session'[s].dry = session[s].dry /\ session'[s].k = session[s].k + 1
    BY <2>1, StepDoneEffect
  <2> QED
    BY <2>1, <2>2 DEF AtStep
<1>3. CASE EndLoop(s) \/ SaveMitigated(s) \/ AnswerSkip(s) \/ MarkMitigated(s) \/ Kill(s)
  <2>1. session'[s].pc \in {"idle", "saving", "updating"}
    BY <1>3, EndLoopEffect, SaveMitigatedEffect, OverEffect, IdleType
  <2> QED
    BY <2>1
<1> QED
  BY <1>1, <1>2, <1>3 DEF WorkOn, Remediate

LEMMA NextCountInv == TypeInv /\ CountInv /\ [Next]_vars => CountInv'
<1> SUFFICES ASSUME TypeInv, CountInv, [Next]_vars PROVE CountInv'
  OBVIOUS
<1> SUFFICES ASSUME NEW j \in Incident, NEW n \in StepIx
             PROVE  /\ IsFiniteSet(Armed(j, n)')
                    /\ ran'[j][n] + Cardinality(Armed(j, n)') <= consents'[j]
  BY DEF CountInv
<1>1. IsFiniteSet(Armed(j, n)) /\ ran[j][n] + Cardinality(Armed(j, n)) <= consents[j]
  BY DEF CountInv
<1>2. ran[j][n] \in Nat /\ consents[j] \in Nat /\ Cardinality(Armed(j, n)) \in Nat
  BY <1>1, FS_CardinalityType, BoundsAssumption DEF TypeInv, TypeOK
<1>3. ASSUME Armed(j, n)' \subseteq Armed(j, n), ran'[j][n] = ran[j][n], consents'[j] >= consents[j],
             consents'[j] \in Nat
      PROVE  /\ IsFiniteSet(Armed(j, n)')
             /\ ran'[j][n] + Cardinality(Armed(j, n)') <= consents'[j]
  <2>1. /\ IsFiniteSet(Armed(j, n)') /\ Cardinality(Armed(j, n)') <= Cardinality(Armed(j, n))
        /\ Cardinality(Armed(j, n)') \in Nat
    BY <1>1, <1>3, FS_Subset, FS_CardinalityType
  <2> QED
    BY <1>1, <1>2, <1>3, <2>1
<1>4. ASSUME NEW s \in Session, WorkOn(s)
      PROVE  /\ IsFiniteSet(Armed(j, n)')
             /\ ran'[j][n] + Cardinality(Armed(j, n)') <= consents'[j]
  <2>1. /\ \A t \in Session \ {s} : session'[t] = session[t]
        /\ session'[s].id \in {session[s].id, NoIncident}
        /\ session'[s].pc = "running" => session'[s].id = session[s].id /\ session'[s].k >= session[s].k
    BY <1>4, WorkEffect, IdleType DEF Others
  <2>2. session[s].k \in Nat /\ session'[s].k \in Nat /\ n \in Nat
    BY <1>4, WorkEffect DEF TypeInv, TypeOK, SessionType, Others, StepIx
  <2>3. consents'[j] \in Nat /\ consents'[j] >= consents[j]
    BY <1>2, <1>4, WorkCounts, BoundsAssumption
  <2>4. ASSUME ~AnswerExecute(s)
        PROVE  Armed(j, n)' \subseteq Armed(j, n)
    <3>1. ASSUME s \in Armed(j, n)' PROVE s \in Armed(j, n)
      <4>1. session'[s].pc = "running" /\ ~session'[s].dry /\ session'[s].id = j /\ session'[s].k <= n
        BY <3>1 DEF Armed
      <4>2. session[s].pc = "running" /\ ~session[s].dry
        BY <1>4, <2>4, <4>1, StaysArmed
      <4>3. session[s].id = j /\ session[s].k <= n
        BY <2>1, <2>2, <4>1
      <4> QED
        BY <4>2, <4>3 DEF Armed
    <3>2. ASSUME NEW t \in Session \ {s}, t \in Armed(j, n)' PROVE t \in Armed(j, n)
      BY <2>1, <3>2 DEF Armed
    <3> QED
      BY <3>1, <3>2 DEF Armed
  <2>5. CASE AnswerExecute(s)
    <3>1. Armed(j, n)' \subseteq Armed(j, n) \cup {s} /\ (j # session[s].id => Armed(j, n)' \subseteq Armed(j, n))
      BY <2>1, NoIncidentAssumption DEF Armed
    <3>2. /\ ran'[j][n] = ran[j][n]
          /\ j = session[s].id => consents'[j] = consents[j] + 1
      <4>1. session[s].pc = "prompt" /\ UNCHANGED ran
        BY <2>5 DEF AnswerExecute
      <4>2. j = session[s].id => consents'[j] = consents[j] + 1
        BY <1>4, <2>5, WorkCounts
      <4> QED
        BY <4>1, <4>2
    <3>3. CASE j # session[s].id
      BY <1>3, <2>3, <3>1, <3>2, <3>3
    <3>4. CASE j = session[s].id
      <4>1. /\ IsFiniteSet(Armed(j, n) \cup {s})
            /\ Cardinality(Armed(j, n) \cup {s}) <= Cardinality(Armed(j, n)) + 1
        <5>1. /\ IsFiniteSet(Armed(j, n) \cup {s})
              /\ Cardinality(Armed(j, n) \cup {s}) =
                   IF s \in Armed(j, n) THEN Cardinality(Armed(j, n)) ELSE Cardinality(Armed(j, n)) + 1
          <6>1. IsFiniteSet(Armed(j, n))
            BY <1>1
          <6> QED
            BY <6>1, FS_AddElement
        <5>2. Cardinality(Armed(j, n)) \in Nat
          BY <1>2
        <5> QED
          BY <5>1, <5>2
      <4>2. /\ IsFiniteSet(Armed(j, n)')
            /\ Cardinality(Armed(j, n)') <= Cardinality(Armed(j, n) \cup {s})
        BY <3>1, <4>1, FS_Subset
      <4>3. Cardinality(Armed(j, n)') \in Nat /\ Cardinality(Armed(j, n) \cup {s}) \in Nat
        BY <4>1, <4>2, FS_CardinalityType
      <4> QED
        BY <1>1, <1>2, <3>2, <3>4, <4>1, <4>2, <4>3
    <3> QED
      BY <3>3, <3>4
  <2>6. CASE RunStep(s) /\ j = session[s].id /\ n = session[s].k
    <3>1. session[s].pc = "running" /\ ~session[s].dry
      BY <2>6 DEF RunStep, AtStep
    <3>2. s \in Armed(j, n)
      BY <2>2, <2>6, <3>1 DEF Armed
    <3>3. ~AnswerExecute(s)
      BY <3>1 DEF AnswerExecute
    <3>4. s \notin Armed(j, n)'
      <4> SUFFICES ASSUME s \in Armed(j, n)' PROVE FALSE
        OBVIOUS
      <4>1. session'[s].pc = "running" /\ ~session'[s].dry /\ session'[s].k <= n
        BY DEF Armed
      <4>2. session'[s].k = session[s].k + 1
        BY <1>4, <2>6, <3>3, <4>1, StaysArmed
      <4> QED
        BY <2>2, <2>6, <4>1, <4>2
    <3>5. Armed(j, n)' \subseteq Armed(j, n) \ {s}
      BY <2>4, <3>3, <3>4
    <3>6. /\ IsFiniteSet(Armed(j, n) \ {s})
          /\ Cardinality(Armed(j, n) \ {s}) = Cardinality(Armed(j, n)) - 1
      BY <1>1, <3>2, FS_RemoveElement
    <3>7. /\ IsFiniteSet(Armed(j, n)')
          /\ Cardinality(Armed(j, n)') <= Cardinality(Armed(j, n)) - 1
          /\ Cardinality(Armed(j, n)') \in Nat
      BY <3>5, <3>6, FS_Subset, FS_CardinalityType
    <3>8. ran'[j][n] = ran[j][n] + 1
      BY <1>4, <2>6, WorkCounts
    <3> QED
      BY <1>1, <1>2, <2>3, <3>7, <3>8
  <2>7. CASE ~AnswerExecute(s) /\ ~(RunStep(s) /\ j = session[s].id /\ n = session[s].k)
    <3>1. ran'[j][n] = ran[j][n]
      BY <1>4, <2>7, WorkCounts
    <3> QED
      BY <1>3, <2>3, <2>4, <2>7, <3>1
  <2> QED
    BY <2>5, <2>6, <2>7
<1>5. ASSUME NEW s \in Session, NEW i \in Incident, Scan(s, i) \/ Apply(s, i)
      PROVE  /\ IsFiniteSet(Armed(j, n)')
             /\ ran'[j][n] + Cardinality(Armed(j, n)') <= consents'[j]
  <2>1. /\ UNCHANGED <<ran, consents>>
        /\ \A t \in Session \ {s} : session'[t] = session[t]
        /\ session'[s].pc # "running"
    BY <1>5, ScanFresh, ApplyRead, IdleType DEF Others
  <2>2. Armed(j, n)' \subseteq Armed(j, n)
    BY <2>1 DEF Armed
  <2> QED
    BY <1>2, <1>3, <2>1, <2>2
<1>6. CASE UNCHANGED vars
  <2>1. Armed(j, n)' = Armed(j, n) /\ UNCHANGED <<ran, consents>>
    BY <1>6 DEF Armed, vars
  <2> QED
    BY <1>1, <2>1
<1> QED
  BY <1>4, <1>5, <1>6, NextCases
-----------------------------------------------------------------------------
(* What a report says was applied.                                         *)

\* What a loop writes down as applied in its copy succeeded.
LEMMA StepApplied ==
  ASSUME TypeInv, NEW s \in Session, SkipStep(s) \/ BlockStep(s) \/ RunStep(s)
  PROVE  LET k == session[s].k IN
         /\ Applied(session'[s].report) \subseteq Applied(session[s].report) \cup {k}
         /\ k \in Applied(session'[s].report) => RunStep(s) /\ k \in done'[session[s].id]
         /\ done'[session[s].id] # done[session[s].id] => k \in Applied(session'[s].report)
<1> DEFINE k == session[s].k
           i == session[s].id
<1>1. ASSUME NEW st \in StepStatuses, AtStep(s), StepDone(s, st)
      PROVE  /\ Applied(session'[s].report) \subseteq Applied(session[s].report) \cup {k}
             /\ k \in Applied(session'[s].report) <=> st = "APPLIED"
  <2>1. /\ session'[s].report.steps = [session[s].report.steps EXCEPT ![k] = st]
        /\ k \in DOMAIN session[s].report.steps
    BY <1>1, StepDoneEffect
  <2> QED
    BY <2>1 DEF Applied
<1>2. i \in Incident /\ done \in [Incident -> SUBSET StepIx]
  BY WorkEffect DEF WorkOn, Remediate, TypeInv, TypeOK
<1>3. CASE SkipStep(s)
  <2>1. AtStep(s) /\ StepDone(s, "SKIPPED") /\ "SKIPPED" \in StepStatuses /\ UNCHANGED done
    BY <1>3 DEF SkipStep, StepStatuses
  <2> QED
    BY <1>1, <2>1
<1>4. CASE BlockStep(s)
  <2>1. AtStep(s) /\ StepDone(s, "FAILED") /\ "FAILED" \in StepStatuses /\ UNCHANGED done
    BY <1>4 DEF BlockStep, StepStatuses
  <2> QED
    BY <1>1, <2>1
<1>5. CASE RunStep(s)
  <2>1. AtStep(s) /\ "FAILED" \in StepStatuses /\ "APPLIED" \in StepStatuses
    BY <1>5 DEF RunStep, StepStatuses
  <2>2. CASE StepDone(s, "APPLIED") /\ done' = [done EXCEPT ![i] = @ \cup {k}]
    BY <1>1, <1>2, <1>5, <2>1, <2>2
  <2>3. CASE StepDone(s, "FAILED") /\ UNCHANGED done
    BY <1>1, <2>1, <2>3
  <2> QED
    BY <1>5, <2>2, <2>3 DEF RunStep
<1> QED
  BY <1>3, <1>4, <1>5

LEMMA WorkTruth ==
  ASSUME TypeInv, TruthInv, NEW s \in Session, WorkOn(s), Busy(s)'
  PROVE  LET i == session[s].id IN
         /\ Applied(session'[s].report) \subseteq done'[i]
         /\ session'[s].report.status = "MITIGATED" => done'[i] # {}
         /\ session'[s].pc \in {"saving", "updating"} =>
              session'[s].report.status = "MITIGATED" /\ Applied(session'[s].report) # {}
<1> DEFINE i == session[s].id
<1>1. /\ i \in Incident /\ done[i] \subseteq done'[i]
      /\ Applied(session[s].report) \subseteq done[i]
      /\ session[s].report.status = "MITIGATED" => done[i] # {}
      /\ session[s].pc \in {"saving", "updating"} =>
           session[s].report.status = "MITIGATED" /\ Applied(session[s].report) # {}
  BY WorkEffect, WorkCounts DEF TruthInv
<1>2. CASE AnswerExecute(s) \/ AnswerDry(s)
  <2>1. session'[s].report = session[s].report /\ session'[s].pc = "running"
    BY <1>2, AnswerEffect DEF SameIncident
  <2> QED
    BY <1>1, <2>1
<1>3. CASE SkipStep(s) \/ BlockStep(s) \/ RunStep(s)
  <2>1. Applied(session'[s].report) \subseteq done'[i]
    BY <1>1, <1>3, StepApplied
  <2>2. session'[s].report.status = session[s].report.status /\ session'[s].pc = "running"
    <3>1. PICK st \in StepStatuses : AtStep(s) /\ StepDone(s, st)
      BY <1>3 DEF SkipStep, BlockStep, RunStep, StepStatuses
    <3> QED
      BY <3>1, StepDoneEffect
  <2> QED
    BY <1>1, <2>1, <2>2
<1>4. CASE EndLoop(s)
  <2>1. /\ Applied(session[s].report) # {}
        /\ session'[s].report.steps = session[s].report.steps
        /\ session'[s].report.status = "MITIGATED"
    BY <1>4, EndLoopEffect, IdleType DEF Busy
  <2>2. Applied(session'[s].report) = Applied(session[s].report)
    BY <2>1 DEF Applied
  <2> QED
    BY <1>1, <2>1, <2>2
<1>5. CASE SaveMitigated(s)
  <2>1. session'[s].report = session[s].report /\ session[s].pc = "saving"
    BY <1>5, SaveMitigatedEffect DEF SameIncident, SaveMitigated
  <2> QED
    BY <1>1, <2>1
<1>6. CASE AnswerSkip(s) \/ MarkMitigated(s) \/ Kill(s)
  BY <1>6, OverEffect, IdleType DEF Busy
<1> QED
  BY <1>2, <1>3, <1>4, <1>5, <1>6 DEF WorkOn, Remediate

LEMMA NextTruthInv == TypeInv /\ TruthInv /\ [Next]_vars => TruthInv'
<1> SUFFICES ASSUME TypeInv, TruthInv, [Next]_vars PROVE TruthInv'
  OBVIOUS
<1> DEFINE RowTrue(i) ==
      db[i] # NoRow =>
         /\ Applied(db[i].payload) \subseteq done[i]
         /\ db[i].status = "MITIGATED" \/ db[i].payload.status = "MITIGATED" => done[i] # {}
    SessionTrue(s) ==
      Busy(s) =>
         /\ Applied(session[s].report) \subseteq done[session[s].id]
         /\ session[s].report.status = "MITIGATED" => done[session[s].id] # {}
         /\ session[s].pc \in {"saving", "updating"} =>
              session[s].report.status = "MITIGATED" /\ Applied(session[s].report) # {}
<1>1. ASSUME NEW s \in Session, WorkOn(s)
      PROVE  (\A i \in Incident : RowTrue(i)') /\ (\A t \in Session : SessionTrue(t)')
  <2>1. /\ \A i \in Incident : done[i] \subseteq done'[i]
        /\ \A t \in Session \ {s} : session'[t] = session[t]
        /\ \A t \in Session : Busy(t) => session[t].id \in Incident
    <3>1. \A i \in Incident : done[i] \subseteq done'[i]
      BY <1>1, WorkEffect, WorkCounts
    <3>2. \A t \in Session : Busy(t) => session[t].id \in Incident
      BY DEF TypeInv, TypeOK, SessionInv
    <3> QED
      BY <1>1, <3>1, <3>2, WorkEffect DEF Others
  <2>2. ASSUME NEW i \in Incident PROVE RowTrue(i)'
    <3>1. CASE db'[i] = db[i]
      BY <2>1, <3>1 DEF TruthInv
    <3>2. CASE SaveMitigated(s) /\ i = session[s].id /\ db'[i].status = session[s].report.status
               /\ db'[i].payload = session[s].report
      BY <1>1, <2>1, <3>2, WorkEffect DEF TruthInv
    <3>3. CASE MarkMitigated(s) /\ i = session[s].id /\ db[i] # NoRow /\ db'[i].payload = db[i].payload
      <4>1. session[s].pc = "updating" /\ Busy(s)
        BY <3>3 DEF MarkMitigated, Busy
      <4>2. done[i] # {}
        BY <3>3, <4>1 DEF TruthInv
      <4> QED
        BY <2>1, <3>3, <4>2 DEF TruthInv
    <3> QED
      BY <1>1, <3>1, <3>2, <3>3, WorkRow
  <2>3. SessionTrue(s)'
    <3>1. CASE Busy(s)'
      <4>1. session'[s].id = session[s].id
        BY <1>1, <3>1, WorkEffect, IdleType DEF Busy
      <4> QED
        BY <1>1, <3>1, <4>1, WorkTruth
    <3> QED
      BY <3>1
  <2>4. ASSUME NEW t \in Session \ {s} PROVE SessionTrue(t)'
    BY <2>1, <2>4 DEF TruthInv, Busy
  <2> QED
    BY <2>2, <2>3, <2>4
<1>2. ASSUME NEW s \in Session, NEW i \in Incident, Scan(s, i)
      PROVE  (\A j \in Incident : RowTrue(j)') /\ (\A t \in Session : SessionTrue(t)')
  <2>1. PICK r \in NewReports :
          /\ \/ db'[i] = NoRow
             \/ db'[i].status = r.status /\ db'[i].payload = r
          /\ \/ session'[s].pc = "idle"
             \/ session'[s].pc = "prompt" /\ session'[s].id = i /\ session'[s].report = r
    BY <1>2, ScanFresh, IdleType
  <2>2. Applied(r) = {} /\ r.status # "MITIGATED"
    BY NewReportType
  <2>3. /\ done' = done
        /\ \A t \in Session \ {s} : session'[t] = session[t]
        /\ \A j \in Incident \ {i} : db'[j] = db[j]
    BY <1>2, ScanFresh DEF Others
  <2>4. \A j \in Incident : RowTrue(j)'
    BY <2>1, <2>2, <2>3 DEF TruthInv
  <2>5. SessionTrue(s)'
    BY <2>1, <2>2 DEF Busy
  <2>6. \A t \in Session \ {s} : SessionTrue(t)'
    BY <2>3 DEF TruthInv, Busy
  <2> QED
    BY <2>4, <2>5, <2>6
<1>3. ASSUME NEW s \in Session, NEW i \in Incident, Apply(s, i)
      PROVE  (\A j \in Incident : RowTrue(j)') /\ (\A t \in Session : SessionTrue(t)')
  <2>1. /\ done' = done /\ db' = db /\ db[i] # NoRow
        /\ \A t \in Session \ {s} : session'[t] = session[t]
        /\ session'[s].pc = "prompt" /\ session'[s].id = i /\ session'[s].report = db[i].payload
    BY <1>3, ApplyRead DEF Others
  <2>2. \A j \in Incident : RowTrue(j)'
    BY <2>1 DEF TruthInv
  <2>3. SessionTrue(s)'
    BY <2>1 DEF TruthInv, Busy
  <2>4. \A t \in Session \ {s} : SessionTrue(t)'
    BY <2>1 DEF TruthInv, Busy
  <2> QED
    BY <2>2, <2>3, <2>4
<1>4. CASE UNCHANGED vars
  BY <1>4 DEF TruthInv, vars, Busy
<1>5. (\A i \in Incident : RowTrue(i)') /\ (\A t \in Session : SessionTrue(t)') => TruthInv'
  BY DEF TruthInv
<1> HIDE DEF RowTrue, SessionTrue
<1> QED
  BY <1>1, <1>2, <1>3, <1>4, <1>5, NextCases
-----------------------------------------------------------------------------
(* Without a fault.                                                        *)

LEMMA FaultsStay ==
  ASSUME TypeInv, [Next]_vars, faults' = 0
  PROVE  faults = 0
<1>1. faults \in Nat /\ faults' \in Nat
  BY NextTypeInv, BoundsAssumption DEF TypeInv, TypeOK
<1>2. faults' >= faults
  BY <1>1, NextCases, WorkRow, ScanFresh, ApplyRead DEF vars
<1> QED
  BY <1>1, <1>2

\* A copy on its way into the table reaches it.
LEMMA SaveReaches ==
  ASSUME TypeInv, NEW s \in Session, SaveMitigated(s), faults' = 0
  PROVE  LET i == session[s].id IN
         db'[i] # NoRow /\ db'[i].status = session[s].report.status /\ db'[i].payload = session[s].report
<1>1. /\ session[s].id \in Incident /\ session[s].report \in Report
      /\ SaveIncident(session[s].id, session[s].report)
  BY WorkEffect DEF WorkOn, Remediate, SaveMitigated, TypeInv, TypeOK, SessionType
<1> QED
  BY <1>1, SaveEffect DEF TypeInv

LEMMA BecomesUpdating ==
  ASSUME TypeInv, NEW s \in Session, WorkOn(s), session'[s].pc = "updating"
  PROVE  SaveMitigated(s)
<1>1. ~(AnswerExecute(s) \/ AnswerDry(s))
  BY AnswerEffect
<1>2. ASSUME SkipStep(s) \/ BlockStep(s) \/ RunStep(s) PROVE FALSE
  <2>1. PICK st \in StepStatuses : AtStep(s) /\ StepDone(s, st)
    BY <1>2 DEF SkipStep, BlockStep, RunStep, StepStatuses
  <2> QED
    BY <2>1, StepDoneEffect
<1>3. ~(EndLoop(s) \/ AnswerSkip(s) \/ MarkMitigated(s) \/ Kill(s))
  BY EndLoopEffect, OverEffect, IdleType
<1> QED
  BY <1>1, <1>2, <1>3 DEF WorkOn, Remediate

LEMMA NextColumnInv == TypeInv /\ TruthInv /\ ColumnInv /\ [Next]_vars => ColumnInv'
<1> SUFFICES ASSUME TypeInv, TruthInv, ColumnInv, [Next]_vars, faults' = 0
             PROVE  /\ \A i \in Incident : db'[i] # NoRow => db'[i].status = db'[i].payload.status
                    /\ \A s \in Session :
                         session'[s].pc = "updating" =>
                           /\ db'[session'[s].id] # NoRow
                           /\ db'[session'[s].id].payload.status = "MITIGATED"
  BY DEF ColumnInv
<1>1. /\ \A i \in Incident : db[i] # NoRow => db[i].status = db[i].payload.status
      /\ \A s \in Session :
           session[s].pc = "updating" =>
             /\ session[s].id \in Incident
             /\ db[session[s].id] # NoRow
             /\ db[session[s].id].payload.status = "MITIGATED"
  BY FaultsStay DEF ColumnInv, TypeInv, TypeOK, SessionInv, Busy
<1>2. ASSUME NEW s \in Session, WorkOn(s)
      PROVE  /\ \A i \in Incident : db'[i] # NoRow => db'[i].status = db'[i].payload.status
             /\ \A t \in Session :
                  session'[t].pc = "updating" =>
                    /\ db'[session'[t].id] # NoRow
                    /\ db'[session'[t].id].payload.status = "MITIGATED"
  <2> DEFINE i == session[s].id
  <2>1. /\ i \in Incident
        /\ \A j \in Incident \ {i} : db'[j] = db[j]
        /\ \A t \in Session \ {s} : session'[t] = session[t]
    BY <1>2, WorkEffect, WorkRow DEF Others
  <2>2. SaveMitigated(s) => session[s].report.status = "MITIGATED"
    BY <1>2, WorkEffect DEF TruthInv, SaveMitigated
  <2>3. MarkMitigated(s) => db[i].payload.status = "MITIGATED"
    BY <1>1 DEF MarkMitigated
  <2>4. \/ db'[i] = db[i]
        \/ /\ db'[i] # NoRow /\ db'[i].status = "MITIGATED" /\ db'[i].payload.status = "MITIGATED"
    <3>1. CASE SaveMitigated(s) /\ db'[i] # NoRow
               /\ db'[i].status = session[s].report.status /\ db'[i].payload = session[s].report
      BY <2>2, <3>1
    <3>2. CASE MarkMitigated(s) /\ db[i] # NoRow /\ db'[i] # NoRow
               /\ db'[i].status = "MITIGATED" /\ db'[i].payload = db[i].payload
      BY <2>3, <3>2
    <3> QED
      BY <1>2, <3>1, <3>2, WorkRow
  <2>5. ASSUME NEW t \in Session, t # s, session'[t].pc = "updating"
        PROVE  db'[session'[t].id] # NoRow /\ db'[session'[t].id].payload.status = "MITIGATED"
    <3>1. /\ session'[t].id = session[t].id /\ session[t].id \in Incident
          /\ db[session[t].id] # NoRow /\ db[session[t].id].payload.status = "MITIGATED"
      BY <1>1, <2>1, <2>5
    <3> QED
      BY <2>1, <2>4, <3>1
  <2>6. ASSUME session'[s].pc = "updating"
        PROVE  db'[session'[s].id] # NoRow /\ db'[session'[s].id].payload.status = "MITIGATED"
    <3>1. SaveMitigated(s)
      BY <1>2, <2>6, BecomesUpdating
    <3>2. session'[s].id = i
      BY <3>1, SaveMitigatedEffect DEF SameIncident
    <3> QED
      BY <2>2, <3>1, <3>2, SaveReaches
  <2>7. \A j \in Incident : db'[j] # NoRow => db'[j].status = db'[j].payload.status
    BY <1>1, <2>1, <2>4
  <2> QED
    BY <2>5, <2>6, <2>7
<1>3. ASSUME NEW s \in Session, NEW i \in Incident, Scan(s, i) \/ Apply(s, i)
      PROVE  /\ \A j \in Incident : db'[j] # NoRow => db'[j].status = db'[j].payload.status
             /\ \A t \in Session :
                  session'[t].pc = "updating" =>
                    /\ db'[session'[t].id] # NoRow
                    /\ db'[session'[t].id].payload.status = "MITIGATED"
  <2>1. /\ \A t \in Session \ {s} : session'[t] = session[t]
        /\ session'[s].pc # "updating"
        /\ \A j \in Incident \ {i} : db'[j] = db[j]
        /\ \/ db'[i] = db[i]
           \/ db'[i].status = db'[i].payload.status /\ \A t \in Session : session[t].id # i
    <3>1. CASE Scan(s, i)
      BY <3>1, ScanFresh, IdleType DEF Others
    <3>2. CASE Apply(s, i)
      BY <3>2, ApplyRead DEF Others
    <3> QED
      BY <1>3, <3>1, <3>2
  <2> QED
    BY <1>1, <2>1
<1>4. CASE UNCHANGED vars
  BY <1>1, <1>4 DEF vars
<1> QED
  BY <1>2, <1>3, <1>4, NextCases
\* A session that has applied a step itself goes on holding it until it is on record.
LEMMA KeepsHolding ==
  ASSUME TypeInv, TruthInv, ColumnInv, NEW s \in Session, WorkOn(s), HasWorked(s), faults = 0, faults' = 0
  PROVE  LET i == session[s].id IN
         \/ session'[s].id = i /\ HasWorked(s)'
         \/ db'[i] # NoRow /\ db'[i].status = "MITIGATED"
<1> DEFINE i == session[s].id
<1>1. CASE SkipStep(s) \/ BlockStep(s) \/ RunStep(s)
  <2>1. PICK st \in StepStatuses : AtStep(s) /\ StepDone(s, st)
    BY <1>1 DEF SkipStep, BlockStep, RunStep, StepStatuses
  <2>2. session[s].k \in Nat /\ session[s].report.steps \in Seq(StepStatuses)
    BY DEF TypeInv, TypeOK, SessionType, Report
  <2>3. PICK j \in DOMAIN session[s].report.steps :
          j < session[s].k /\ session[s].report.steps[j] = "APPLIED"
    BY <2>1 DEF AtStep, HasWorked
  <2>4. j \in Nat
    BY <2>2, <2>3
  <2>5. /\ session'[s].pc = "running" /\ session'[s].id = i
        /\ session'[s].k = session[s].k + 1
        /\ session'[s].report.steps = [session[s].report.steps EXCEPT ![session[s].k] = st]
    BY <2>1, StepDoneEffect
  <2>6. /\ j \in DOMAIN session'[s].report.steps
        /\ j < session'[s].k /\ session'[s].report.steps[j] = "APPLIED"
    BY <2>2, <2>3, <2>4, <2>5
  <2> QED
    BY <2>5, <2>6 DEF HasWorked
<1>2. CASE EndLoop(s)
  <2>1. Applied(session[s].report) # {}
    BY <1>2 DEF HasWorked, EndLoop, Applied
  <2> QED
    BY <1>2, <2>1, EndLoopEffect DEF HasWorked
<1>3. CASE SaveMitigated(s)
  <2>1. session[s].report.status = "MITIGATED"
    BY <1>3 DEF TruthInv, SaveMitigated, Busy
  <2> QED
    BY <1>3, <2>1, SaveReaches
<1>4. CASE MarkMitigated(s)
  <2>1. db[i] # NoRow /\ i \in Incident
    BY <1>4, WorkEffect DEF ColumnInv, MarkMitigated, WorkOn, Remediate
  <2>2. UpdateStatus(i, "MITIGATED") /\ "MITIGATED" \in Statuses
    BY <1>4 DEF MarkMitigated, Statuses
  <2> QED
    BY <2>1, <2>2, UpdateEffect DEF TypeInv
<1>5. ~(AnswerExecute(s) \/ AnswerDry(s) \/ AnswerSkip(s))
  BY DEF HasWorked, AnswerExecute, AnswerDry, AnswerSkip
<1>6. ~Kill(s)
  BY DEF Kill, Breaks
<1> QED
  BY <1>1, <1>2, <1>3, <1>4, <1>5, <1>6 DEF WorkOn, Remediate

\* Nobody overwrites a row that says mitigated.
LEMMA StaysMitigated ==
  ASSUME TypeInv, TruthInv, NEW s \in Session, WorkOn(s),
         NEW j \in Incident, db[j] # NoRow, db[j].status = "MITIGATED"
  PROVE  db'[j] # NoRow /\ db'[j].status = "MITIGATED"
<1>1. SaveMitigated(s) => session[s].report.status = "MITIGATED"
  BY WorkEffect DEF TruthInv, SaveMitigated
<1>2. CASE j = session[s].id /\ SaveMitigated(s) /\ db'[j] # NoRow /\ db'[j].status = session[s].report.status
  BY <1>1, <1>2
<1>3. CASE db'[j] = db[j] \/ (db'[j] # NoRow /\ db'[j].status = "MITIGATED")
  BY <1>3
<1> QED
  BY <1>2, <1>3, WorkRow

LEMMA NextRecordedInv == TypeInv /\ TruthInv /\ ColumnInv /\ RecordedInv /\ [Next]_vars => RecordedInv'
<1> SUFFICES ASSUME TypeInv, TruthInv, ColumnInv, RecordedInv, [Next]_vars, faults' = 0,
                    NEW j \in Incident, done'[j] # {}
             PROVE  \/ db'[j] # NoRow /\ db'[j].status = "MITIGATED"
                    \/ \E t \in Session : session'[t].id = j /\ HasWorked(t)'
  BY DEF RecordedInv
<1>1. /\ faults = 0
      /\ done[j] # {} => \/ db[j] # NoRow /\ db[j].status = "MITIGATED"
                         \/ \E t \in Session : session[t].id = j /\ HasWorked(t)
  BY FaultsStay DEF RecordedInv
<1>2. ASSUME NEW s \in Session, WorkOn(s)
      PROVE  \/ db'[j] # NoRow /\ db'[j].status = "MITIGATED"
             \/ \E t \in Session : session'[t].id = j /\ HasWorked(t)'
  <2>1. CASE done[j] = {}
    <3>1. RunStep(s) /\ j = session[s].id
      BY <1>2, <2>1, WorkCounts
    <3>2. session[s].k \in Applied(session'[s].report)
      BY <2>1, <3>1, StepApplied
    <3>3. PICK st \in StepStatuses : AtStep(s) /\ StepDone(s, st)
      BY <3>1 DEF RunStep, StepStatuses
    <3>4. /\ session'[s].pc = "running" /\ session'[s].id = j
          /\ session'[s].k = session[s].k + 1 /\ session[s].k \in StepIx
      BY <3>1, <3>3, StepDoneEffect
    <3>5. session[s].k < session'[s].k
      BY <3>4 DEF StepIx
    <3> QED
      BY <3>2, <3>4, <3>5 DEF HasWorked, Applied
  <2>2. CASE db[j] # NoRow /\ db[j].status = "MITIGATED"
    BY <1>2, <2>2, StaysMitigated
  <2>3. CASE \E t \in Session : session[t].id = j /\ HasWorked(t)
    <3>1. PICK t \in Session : session[t].id = j /\ HasWorked(t)
      BY <2>3
    <3>2. CASE t = s
      BY <1>1, <1>2, <3>1, <3>2, KeepsHolding
    <3>3. CASE t # s
      <4>1. session'[t] = session[t]
        BY <1>2, <3>3, WorkEffect DEF Others
      <4> QED
        BY <3>1, <4>1 DEF HasWorked
    <3> QED
      BY <3>2, <3>3
  <2> QED
    BY <1>1, <2>1, <2>2, <2>3
<1>3. ASSUME NEW s \in Session, NEW i \in Incident, Scan(s, i) \/ Apply(s, i)
      PROVE  \/ db'[j] # NoRow /\ db'[j].status = "MITIGATED"
             \/ \E t \in Session : session'[t].id = j /\ HasWorked(t)'
  <2>1. /\ done' = done /\ ~Busy(s) /\ db'[j] = db[j]
        /\ \A t \in Session \ {s} : session'[t] = session[t]
    <3>1. CASE Scan(s, i)
      BY <3>1, ScanFresh DEF Others
    <3>2. CASE Apply(s, i)
      BY <3>2, ApplyRead DEF Others
    <3> QED
      BY <1>3, <3>1, <3>2
  <2>2. ~HasWorked(s)
    BY <2>1 DEF HasWorked, Busy
  <2>3. CASE \E t \in Session : session[t].id = j /\ HasWorked(t)
    <3>1. PICK t \in Session : session[t].id = j /\ HasWorked(t)
      BY <2>3
    <3>2. session'[t] = session[t]
      BY <2>1, <2>2, <3>1
    <3> QED
      BY <3>1, <3>2 DEF HasWorked
  <2> QED
    BY <1>1, <2>1, <2>3
<1>4. CASE UNCHANGED vars
  BY <1>1, <1>4 DEF vars, HasWorked
<1> QED
  BY <1>2, <1>3, <1>4, NextCases
\* In a step, the status of a row stays or becomes MITIGATED, and is not RESOLVED then.
LEMMA StatusStep ==
  ASSUME TypeInv, PlanInv, TruthInv, [Next]_vars, NEW i \in Incident, db[i] # NoRow
  PROVE  \/ db'[i].status = db[i].status
         \/ db'[i].status = "MITIGATED" /\ db[i].status # "RESOLVED"
<1>1. ASSUME NEW s \in Session, WorkOn(s)
      PROVE  \/ db'[i].status = db[i].status
             \/ db'[i].status = "MITIGATED" /\ db[i].status # "RESOLVED"
  <2>1. CASE session[s].id = i
    <3>1. db[i].payload.plan = session[s].report.plan /\ session[s].report.plan # <<>>
      BY <1>1, <2>1, WorkEffect DEF PlanInv, TypeInv, SessionInv
    <3>2. db[i].status # "RESOLVED"
      BY <3>1 DEF TypeInv, RowInv, Planned
    <3>3. SaveMitigated(s) => session[s].report.status = "MITIGATED"
      BY <1>1, WorkEffect DEF TruthInv, SaveMitigated
    <3> QED
      BY <1>1, <2>1, <3>2, <3>3, WorkRow
  <2>2. CASE session[s].id # i
    BY <1>1, <2>2, WorkRow
  <2> QED
    BY <2>1, <2>2
<1>2. ASSUME NEW s \in Session, NEW j \in Incident, Scan(s, j) \/ Apply(s, j)
      PROVE  db'[i] = db[i]
  BY <1>2, ScanFresh, ApplyRead
<1>3. CASE UNCHANGED vars
  BY <1>3 DEF vars
<1> QED
  BY <1>1, <1>2, <1>3, NextCases

-----------------------------------------------------------------------------
(* The theorems.                                                           *)

LEMMA InitInv == Init => Inv
<1> SUFFICES ASSUME Init PROVE Inv
  OBVIOUS
<1>1. TypeInv
  BY InitTypeInv
<1>2. /\ \A s \in Session : session[s] = Idle
      /\ \A i \in Incident : /\ db[i] = NoRow /\ consents[i] = 0 /\ done[i] = {}
                             /\ \A k \in StepIx : ran[i][k] = 0
  BY DEF Init
<1>3. \A s \in Session : session[s].pc = "idle" /\ session[s].id \notin Incident
  BY <1>2, IdleType, NoIncidentAssumption
<1>4. PlanInv /\ RanInv
  BY <1>2, <1>3 DEF PlanInv, RanInv
<1>5. CountInv
  <2> SUFFICES ASSUME NEW i \in Incident, NEW k \in StepIx
               PROVE  IsFiniteSet(Armed(i, k)) /\ ran[i][k] + Cardinality(Armed(i, k)) <= consents[i]
    BY DEF CountInv
  <2>1. Armed(i, k) = {}
    BY <1>3 DEF Armed
  <2> QED
    BY <1>2, <2>1, FS_EmptySet
<1>6. TruthInv /\ ColumnInv /\ RecordedInv
  BY <1>2, <1>3 DEF TruthInv, ColumnInv, RecordedInv, Busy
<1> QED
  BY <1>1, <1>4, <1>5, <1>6 DEF Inv

LEMMA NextInv == Inv /\ [Next]_vars => Inv'
  BY NextTypeInv, NextPlanInv, NextRanInv, NextCountInv, NextTruthInv, NextColumnInv, NextRecordedInv
     DEF Inv

\* The invariant that the theorems below rest on: the copies of a report agree on the plan,
\* every session still to run a step has a "y" of its own left for it, no copy claims more
\* than was done, and without a fault what was done is in the table or on its way.
THEOREM InvHolds == Spec => []Inv
  BY InitInv, NextInv, PTL DEF Spec

\* For any number of processes and of answers, a command runs at most once for each "y"
\* its incident was given, and is one that the allowlist lets through.
THEOREM RunsAreConsented == Spec => []RunsNeedConsent
<1>1. Inv => RunsNeedConsent
  <2> SUFFICES ASSUME Inv, NEW i \in Incident, NEW k \in StepIx
               PROVE  /\ ran[i][k] <= consents[i]
                      /\ ran[i][k] > 0 /\ db[i] # NoRow => db[i].payload.plan[k] = "safe"
    BY DEF RunsNeedConsent
  <2>1. /\ Cardinality(Armed(i, k)) \in Nat /\ ran[i][k] \in Nat /\ consents[i] \in Nat
        /\ ran[i][k] + Cardinality(Armed(i, k)) <= consents[i]
    BY FS_CardinalityType, BoundsAssumption DEF Inv, CountInv, TypeInv, TypeOK
  <2>2. ran[i][k] <= consents[i]
    BY <2>1
  <2> QED
    BY <2>2 DEF Inv, RanInv
<1> QED
  BY <1>1, InvHolds, PTL

\* The table never says that a step was applied whose command did not succeed, and calls
\* no incident mitigated for which nothing was done, whichever copy was saved last.
THEOREM RecordsAreTrue == Spec => []RecordIsTrue
<1>1. Inv => RecordIsTrue
  BY DEF Inv, TruthInv, RecordIsTrue
<1> QED
  BY <1>1, InvHolds, PTL

\* Unless a statement failed or a process was killed, the status column and the payload of
\* a row agree between any two statements of any sessions.
THEOREM ColumnsMatch == Spec => []ColumnMatchesPayload
<1>1. Inv => ColumnMatchesPayload
  <2>1. Inv => faults \in Nat
    BY BoundsAssumption DEF Inv, TypeInv, TypeOK
  <2> QED
    BY <2>1 DEF Inv, ColumnInv, ColumnMatchesPayload
<1> QED
  BY <1>1, InvHolds, PTL

\* When no session deals with an incident any more, what was done for it is on record,
\* unless a statement failed or a process was killed.
THEOREM WorkGetsRecorded == Spec => []WorkIsRecorded
<1>1. Inv => WorkIsRecorded
  <2>1. Inv => faults \in Nat
    BY BoundsAssumption DEF Inv, TypeInv, TypeOK
  <2> QED
    BY <2>1 DEF Inv, RecordedInv, WorkIsRecorded
<1> QED
  BY <1>1, InvHolds, PTL

\* No session's stale copy takes the status of a row back.
THEOREM StatusNeverGoesBack == Spec => NeverReopened
<1>1. Inv /\ [Next]_vars =>
        [\A i \in Incident :
           db[i] # NoRow => \/ db'[i].status = db[i].status
                            \/ db'[i].status = "MITIGATED" /\ db[i].status # "RESOLVED"]_vars
  BY StatusStep DEF Inv
<1> QED
  BY <1>1, InvHolds, PTL DEF Spec, NeverReopened
=============================================================================
