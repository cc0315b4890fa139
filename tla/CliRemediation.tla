--------------------------- MODULE CliRemediation ---------------------------
(***************************************************************************)
(* clarctl's incidents: the commands scan, watch and apply, the prompt,    *)
(* applyRemediation with the runbook executor's allowlist, and the SQLite  *)
(* table of internal/db that all processes of one user share               *)
(* (clarctl-go/cmd, internal/runbooks, internal/db, internal/incident).    *)
(* Each session is one process; it works on the copy of the report that it *)
(* scanned or read when it started.  A SQL statement may fail, unapplied,  *)
(* and a process may be killed between two steps.  Incident IDs, 8 random  *)
(* characters, are taken to be fresh.  Commands that only read (incidents, *)
(* show, report, status) change nothing.                                   *)
(***************************************************************************)
EXTENDS Integers, Sequences, FiniteSets

CONSTANTS
  Incident,     \* incident IDs
  Session,      \* clarctl processes
  Plans,        \* remediation plans the commander may propose
  MaxSteps,     \* bound on the length of a plan
  MaxConsents,  \* bound on how often one incident is answered "y"
  MaxFaults,    \* bound on failing statements and killed processes
  NoRow,        \* no such row
  NoIncident    \* a session that is not dealing with an incident

\* What the empty-command check and isSafeCommand tell apart.
Kind == {"manual", "blocked", "safe"}

ASSUME PlansAssumption  == /\ Plans \subseteq Seq(Kind)
                           /\ \A p \in Plans : Len(p) <= MaxSteps
ASSUME BoundsAssumption == MaxSteps \in Nat /\ MaxConsents \in Nat /\ MaxFaults \in Nat
ASSUME NoIncidentAssumption == NoIncident \notin Incident

VARIABLES
  db,        \* table incidents: the status column and the JSON payload
  session,   \* where each process is, with its copy of the report
  born,      \* IDs that scans have given out
  consents,  \* how often each incident was answered "y"
  ran,       \* how often the command of each step was started
  done,      \* the steps whose command succeeded at least once
  faults     \* statements failed and processes killed so far

vars == <<db, session, born, consents, ran, done, faults>>

StepIx       == 1 .. MaxSteps
Statuses     == {"OPEN", "INVESTIGATING", "MITIGATED", "RESOLVED"}
StepStatuses == {"PENDING", "SKIPPED", "APPLIED", "FAILED"}

\* A report as far as remediation goes: one status for each step of the plan.
Report ==
  [status : Statuses, urgent : BOOLEAN, plan : Plans \cup {<<>>}, steps : Seq(StepStatuses)]

\* parseReport's outcomes: an answer it cannot parse, a healthy cluster, an issue.
Unparsed    == [status |-> "OPEN", urgent |-> FALSE, plan |-> <<>>, steps |-> <<>>]
Healthy     == [status |-> "RESOLVED", urgent |-> FALSE, plan |-> <<>>, steps |-> <<>>]
Issue(u, p) == [status |-> "INVESTIGATING", urgent |-> u, plan |-> p,
                steps |-> [k \in 1 .. Len(p) |-> "PENDING"]]

NewReports == {Unparsed, Healthy} \cup {Issue(u, p) : u \in BOOLEAN, p \in Plans}

Row == [status : Statuses, payload : Report]

ASSUME NoRowAssumption == NoRow \notin Row

Phases == {"idle",      \* not running, or between two scans of watch
           "prompt",    \* in PromptRemediation
           "running",   \* in the loop of applyRemediation
           "saving",    \* before SaveIncident
           "updating"}  \* before UpdateStatus

\* flag is the --dry-run the process was started with, dry the argument of
\* applyRemediation, k the step its loop is at.
SessionType ==
  [pc : Phases, id : Incident \cup {NoIncident}, report : Report, k : Nat,
   dry : BOOLEAN, flag : BOOLEAN]

TypeOK ==
  /\ db \in [Incident -> Row \cup {NoRow}]
  /\ session \in [Session -> SessionType]
  /\ \A s \in Session : Len(session[s].report.steps) = Len(session[s].report.plan)
  /\ born \subseteq Incident
  /\ consents \in [Incident -> 0 .. MaxConsents]
  /\ ran \in [Incident -> [StepIx -> Nat]]
  /\ done \in [Incident -> SUBSET StepIx]
  /\ faults \in 0 .. MaxFaults

Idle == [pc |-> "idle", id |-> NoIncident, report |-> Unparsed, k |-> 1,
         dry |-> FALSE, flag |-> FALSE]

Init ==
  /\ db = [i \in Incident |-> NoRow]
  /\ session = [s \in Session |-> Idle]
  /\ born = {}
  /\ consents = [i \in Incident |-> 0]
  /\ ran = [i \in Incident |-> [k \in StepIx |-> 0]]
  /\ done = [i \in Incident |-> {}]
  /\ faults = 0

-----------------------------------------------------------------------------
(* The store.                                                              *)

Works  == UNCHANGED faults
Breaks == faults < MaxFaults /\ faults' = faults + 1

\* INSERT ... ON CONFLICT(id) DO UPDATE SET status, payload.
SaveIncident(i, r) ==
  \/ Works  /\ db' = [db EXCEPT ![i] = [status |-> r.status, payload |-> r]]
  \/ Breaks /\ UNCHANGED db

\* UPDATE incidents SET status: the column only, of a row that may not exist.
UpdateStatus(i, st) ==
  \/ Works  /\ db' = IF db[i] = NoRow THEN db ELSE [db EXCEPT ![i].status = st]
  \/ Breaks /\ UNCHANGED db

-----------------------------------------------------------------------------
(* The commands.                                                           *)

Prompting(i, r, flag) ==
  [pc |-> "prompt", id |-> i, report |-> r, k |-> 1, dry |-> FALSE, flag |-> flag]

\* scan, or one round of watch: the report is saved, an error of that is ignored, and
\* with --apply a plan is prompted for (by watch, which has no --dry-run, only for SEV1
\* and SEV2).
Scan(s, i) ==
  /\ session[s].pc = "idle"
  /\ i \notin born
  /\ born' = born \cup {i}
  /\ \E r \in NewReports, flag \in BOOLEAN, apply \in BOOLEAN, watch \in BOOLEAN :
       /\ watch => ~flag
       /\ SaveIncident(i, r)
       /\ session' =
            [session EXCEPT ![s] =
               IF apply /\ r.plan # <<>> /\ (watch => r.urgent) THEN Prompting(i, r, flag) ELSE Idle]
  /\ UNCHANGED <<consents, ran, done>>

\* apply <incident-id>: an unknown ID, or an empty plan, ends it at once.
Apply(s, i) ==
  /\ session[s].pc = "idle"
  /\ db[i] # NoRow
  /\ db[i].payload.plan # <<>>
  /\ \E flag \in BOOLEAN : session' = [session EXCEPT ![s] = Prompting(i, db[i].payload, flag)]
  /\ UNCHANGED <<db, born, consents, ran, done, faults>>

\* "y": all steps, for real, whatever --dry-run says.
AnswerExecute(s) ==
  LET i == session[s].id IN
  /\ session[s].pc = "prompt"
  /\ consents[i] < MaxConsents
  /\ consents' = [consents EXCEPT ![i] = @ + 1]
  /\ session' = [session EXCEPT ![s].pc = "running", ![s].dry = FALSE]
  /\ UNCHANGED <<db, born, ran, done, faults>>

\* Mutant: the prompt's "dry" is dropped, the process's --dry-run decides.
AnswerDryByFlag(s) ==
  /\ session[s].pc = "prompt"
  /\ session' = [session EXCEPT ![s].pc = "running", ![s].dry = session[s].flag]
  /\ UNCHANGED <<db, born, consents, ran, done, faults>>

AnswerDry(s) ==
  /\ session[s].pc = "prompt"
  /\ session' = [session EXCEPT ![s].pc = "running", ![s].dry = TRUE]
  /\ UNCHANGED <<db, born, consents, ran, done, faults>>

AnswerSkip(s) ==
  /\ session[s].pc = "prompt"
  /\ session' = [session EXCEPT ![s] = Idle]
  /\ UNCHANGED <<db, born, consents, ran, done, faults>>

-----------------------------------------------------------------------------
(* applyRemediation.  A step that fails does not stop the ones after it.   *)

AtStep(s) == session[s].pc = "running" /\ session[s].k <= Len(session[s].report.plan)

\* Mutant: outcomes are appended to the plan's steps.
StepAppended(s, st) ==
  session' = [session EXCEPT ![s].report.steps = Append(@, st), ![s].k = @ + 1]

StepDone(s, st) ==
  session' = [session EXCEPT ![s].report.steps[session[s].k] = st, ![s].k = @ + 1]

\* Mutant: result.Success is looked at before result.DryRun.
SkipStepAsApplied(s) ==
  /\ AtStep(s)
  /\ session[s].dry \/ session[s].report.plan[session[s].k] = "manual"
  /\ StepDone(s, IF session[s].report.plan[session[s].k] = "safe" THEN "APPLIED" ELSE "SKIPPED")
  /\ UNCHANGED <<db, born, consents, ran, done, faults>>

\* No command, or a dry run: nothing is started (a dry run of a blocked command, too).
SkipStep(s) ==
  /\ AtStep(s)
  /\ session[s].dry \/ session[s].report.plan[session[s].k] = "manual"
  /\ StepDone(s, "SKIPPED")
  /\ UNCHANGED <<db, born, consents, ran, done, faults>>

BlockStep(s) ==
  /\ AtStep(s)
  /\ ~session[s].dry
  /\ session[s].report.plan[session[s].k] = "blocked"
  /\ StepDone(s, "FAILED")
  /\ UNCHANGED <<db, born, consents, ran, done, faults>>

\* exec.Command(...).Run(): kubectl succeeds or fails.
RunStep(s) ==
  LET i == session[s].id
      k == session[s].k
  IN
  /\ AtStep(s)
  /\ ~session[s].dry
  /\ session[s].report.plan[k] = "safe"
  /\ ran' = [ran EXCEPT ![i][k] = @ + 1]
  /\ \/ StepDone(s, "APPLIED") /\ done' = [done EXCEPT ![i] = @ \cup {k}]
     \/ StepDone(s, "FAILED") /\ UNCHANGED done
  /\ UNCHANGED <<db, born, consents, faults>>

Applied(r) == {k \in DOMAIN r.steps : r.steps[k] = "APPLIED"}

\* Mutants: mitigated only when every step was applied; the copy is saved in any case.
EndLoopAllApplied(s) ==
  /\ session[s].pc = "running"
  /\ session[s].k > Len(session[s].report.plan)
  /\ session' = [session EXCEPT ![s] =
       IF Applied(session[s].report) = DOMAIN session[s].report.plan
         THEN [@ EXCEPT !.pc = "saving", !.report.status = "MITIGATED"] ELSE Idle]
  /\ UNCHANGED <<db, born, consents, ran, done, faults>>

EndLoopSavesAlways(s) ==
  /\ session[s].pc = "running"
  /\ session[s].k > Len(session[s].report.plan)
  /\ session' = [session EXCEPT ![s] =
       [@ EXCEPT !.pc = "saving",
                 !.report.status = IF Applied(session[s].report) # {} THEN "MITIGATED" ELSE @]]
  /\ UNCHANGED <<db, born, consents, ran, done, faults>>

\* After the loop: with one step applied the incident is mitigated, with none nothing is saved.
EndLoop(s) ==
  /\ session[s].pc = "running"
  /\ session[s].k > Len(session[s].report.plan)
  /\ session' = [session EXCEPT ![s] =
       IF Applied(session[s].report) # {}
         THEN [@ EXCEPT !.pc = "saving", !.report.status = "MITIGATED"] ELSE Idle]
  /\ UNCHANGED <<db, born, consents, ran, done, faults>>

\* Mutant: only the status column is written.
SaveLeftOut(s) ==
  /\ session[s].pc = "saving"
  /\ session' = [session EXCEPT ![s].pc = "updating"]
  /\ UNCHANGED <<db, born, consents, ran, done, faults>>

SaveMitigated(s) ==
  /\ session[s].pc = "saving"
  /\ SaveIncident(session[s].id, session[s].report)
  /\ session' = [session EXCEPT ![s].pc = "updating"]
  /\ UNCHANGED <<born, consents, ran, done>>

MarkMitigated(s) ==
  /\ session[s].pc = "updating"
  /\ UpdateStatus(session[s].id, "MITIGATED")
  /\ session' = [session EXCEPT ![s] = Idle]
  /\ UNCHANGED <<born, consents, ran, done>>

\* The process is killed at the prompt or later.
Kill(s) ==
  /\ session[s].pc # "idle"
  /\ Breaks
  /\ session' = [session EXCEPT ![s] = Idle]
  /\ UNCHANGED <<db, born, consents, ran, done>>

Remediate(s) ==
  \/ SkipStep(s) \/ BlockStep(s) \/ RunStep(s)
  \/ EndLoop(s) \/ SaveMitigated(s) \/ MarkMitigated(s)

Next ==
  \E s \in Session :
    \/ \E i \in Incident : Scan(s, i) \/ Apply(s, i)
    \/ AnswerExecute(s) \/ AnswerDry(s) \/ AnswerSkip(s)
    \/ Remediate(s)
    \/ Kill(s)

Spec == Init /\ [][Next]_vars

-----------------------------------------------------------------------------
(* Properties.                                                             *)

\* A "y" is for the whole plan (ui.go:181 "Execute all steps"), and it is used up: each
\* step's command runs at most once for each "y" given to its incident, in however many
\* processes the incident is open, and only if the allowlist lets it through.  Whether
\* every command is asked about is another question: EachCommandIsPrompted.
RunsNeedConsent ==
  \A i \in Incident, k \in StepIx :
    /\ ran[i][k] <= consents[i]
    /\ ran[i][k] > 0 /\ db[i] # NoRow => db[i].payload.plan[k] = "safe"

\* What the table says was applied did succeed, and an incident is called mitigated
\* only if something was: also when two sessions' copies overwrite one another.
RecordIsTrue ==
  \A i \in Incident :
    db[i] # NoRow => /\ Applied(db[i].payload) \subseteq done[i]
                     /\ db[i].status = "MITIGATED" => done[i] # {}

\* The status column and the payload disagree only after a statement failed: the two
\* statements of applyRemediation and those of other sessions interleave harmlessly.
ColumnMatchesPayload ==
  \A i \in Incident :
    db[i] # NoRow /\ db[i].status # db[i].payload.status => faults > 0

\* No session writes an incident back to a status it has left: a stale copy of the
\* report never reopens what another session has mitigated.
NeverReopened ==
  [][\A i \in Incident :
       db[i] # NoRow => \/ db'[i].status = db[i].status
                        \/ db'[i].status = "MITIGATED" /\ db[i].status # "RESOLVED"]_vars

\* Work that was done on the cluster is on record once no session is busy with the
\* incident, unless a statement failed or a process was killed.
WorkIsRecorded ==
  \A i \in Incident :
    done[i] # {} /\ (\A s \in Session : session[s].id # i) =>
      (db[i] # NoRow /\ db[i].status = "MITIGATED") \/ faults > 0

\* clarctl-go/README.md:63 "For each step, it will prompt you: Execute?", and
\* website/docs/cli-usage.md:28 "For every command proposed by the AI": each command
\* that was started had a "y" of its own.
EachCommandIsPrompted ==
  \A i \in Incident : Cardinality({k \in StepIx : ran[i][k] > 0}) <= consents[i]
=============================================================================
