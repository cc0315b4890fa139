------------------------------ MODULE Dashboard ------------------------------
(***************************************************************************)
(* The hub's web dashboard (sre-agent/hub/dashboard/js/app.js) and the GET *)
(* and PATCH handlers behind it (hub/internal/api/handlers.go, db/store.go)*)
(* fetchAll is started by a timer, by buttons, by countdowns and after     *)
(* every updateStatus, and nothing keeps two of its rounds, or two calls   *)
(* of updateStatus, from overlapping.  The tables are abstracted to a      *)
(* version that each write increases; the module Hub has them in detail.   *)
(* Tabs, filters and rendering only show the state kept here.              *)
(***************************************************************************)
EXTENDS Integers

CONSTANTS
  Part,        \* what a round fetches: "clusters", "incidents", "stats"
  Slot,        \* bounds the rounds of fetchAll that are under way at once
  Update,      \* bounds the calls of updateStatus that are under way at once
  MaxVersion,  \* bound on the writes to the tables
  MaxFaults    \* bound on failing statements and requests

ASSUME PartAssumption   == "incidents" \in Part /\ Part \subseteq {"clusters", "incidents", "stats"}
ASSUME BoundsAssumption == MaxVersion \in Nat /\ MaxFaults \in Nat
ASSUME SlotAssumption   == Slot # {}

VARIABLES
  hub,     \* the version of the hub's tables
  round,   \* the rounds of fetchAll under way
  shown,   \* state.clusters, state.incidents, state.stats
  online,  \* the hub status dot
  update,  \* the calls of updateStatus
  faults   \* failures so far

vars == <<hub, round, shown, online, update, faults>>

\* What a list or a figure on the screen was made from: a version of the tables, or
\* nothing that any version had (an empty list, a list cut short, a zero).
Partial  == -1
Versions == 0 .. MaxVersion

\* An answer on its way to the browser; Failed is one that r.json() does not parse.
Pending == -2
Failed  == -3

NoRound == [p \in Part |-> Pending]

TypeOK ==
  /\ hub \in Versions
  /\ round \in [Slot -> [busy : BOOLEAN, part : [Part -> Versions \cup {Partial, Pending, Failed}]]]
  /\ shown \in [Part -> Versions \cup {Partial}]
  /\ online \in BOOLEAN
  /\ update \in [Update -> [pc : {"idle", "patching", "refreshing"},
                            patch : {"none", "sent", "done", "failed"},
                            version : Versions, slot : Slot]]
  /\ faults \in 0 .. MaxFaults

NoUpdate == [pc |-> "idle", patch |-> "none", version |-> 0, slot |-> CHOOSE s \in Slot : TRUE]

Idle == [busy |-> FALSE, part |-> NoRound]

\* The page has just been loaded.
Init ==
  /\ hub = 0
  /\ round = [s \in Slot |-> Idle]
  /\ shown = [p \in Part |-> Partial]
  /\ online = FALSE
  /\ update = [u \in Update |-> NoUpdate]
  /\ faults = 0

-----------------------------------------------------------------------------
(* The hub.                                                                *)

Works == UNCHANGED faults
Fails == faults < MaxFaults /\ faults' = faults + 1

\* Agents post, other users patch.
HubChanges ==
  /\ hub < MaxVersion
  /\ hub' = hub + 1
  /\ UNCHANGED <<round, shown, online, update, faults>>

\* ListIncidents, ListClusters or GetStats.  A list may be cut short (rows.Err is not looked
\* at, a row that does not scan is left out), a figure whose query fails is zero, and an
\* error is answered with a text that is not JSON, under whatever status code.
Query(answer) == (Works /\ answer = hub) \/ (Fails /\ answer \in {Partial, Failed})

\* GET /incidents (whatever its limit says), /clusters or /stats.
Serve(s, p) ==
  /\ round[s].busy /\ round[s].part[p] = Pending
  /\ \E answer \in {hub, Partial, Failed} :
       /\ Query(answer)
       /\ round' = [round EXCEPT ![s].part[p] = answer]
  /\ UNCHANGED <<hub, shown, online, update>>

-----------------------------------------------------------------------------
(* fetchAll.                                                               *)

Begin(s) == ~round[s].busy /\ round' = [round EXCEPT ![s] = [busy |-> TRUE, part |-> NoRound]]

\* setInterval every 30 seconds, the refresh button, a countdown at zero, or five seconds
\* after triggerScan.
Poll(s) ==
  /\ Begin(s)
  /\ UNCHANGED <<hub, shown, online, update, faults>>

\* u awaits the round s.
Awaits(u, s) == update[u].pc = "refreshing" /\ update[u].slot = s

\* The rest of updateStatus, once its refreshAll is over.
EndUpdate(s) == update' = [u \in Update |-> IF Awaits(u, s) THEN NoUpdate ELSE update[u]]

\* Mutant: Promise.any instead of Promise.all.
SomeAnswered(s) == \E p \in Part : round[s].part[p] # Pending

\* All three answers are there and parse.
AllAnswered(s) == \A p \in Part : round[s].part[p] # Pending

Settle(s) ==
  /\ round[s].busy /\ AllAnswered(s)
  /\ \A p \in Part : round[s].part[p] # Failed
  /\ shown' = round[s].part
  /\ online' = TRUE
  /\ round' = [round EXCEPT ![s] = Idle]
  /\ EndUpdate(s)
  /\ UNCHANGED <<hub, faults>>

\* Mutant: a flag against overlapping rounds that is not reset after an error.
RejectStaysBusy(s) ==
  /\ round[s].busy
  /\ \E p \in Part : round[s].part[p] = Failed
  /\ online' = FALSE
  /\ EndUpdate(s)
  /\ UNCHANGED <<hub, round, shown, faults>>

\* The first answer that fails ends the round, and the others are not looked at.
Reject(s) ==
  /\ round[s].busy
  /\ \E p \in Part : round[s].part[p] = Failed
  /\ online' = FALSE
  /\ round' = [round EXCEPT ![s] = Idle]
  /\ EndUpdate(s)
  /\ UNCHANGED <<hub, shown, faults>>

-----------------------------------------------------------------------------
(* updateStatus: PATCH, then refreshAll, then "Incident marked".           *)

Click(u) ==
  /\ update[u].pc = "idle"
  /\ update' = [update EXCEPT ![u].pc = "patching", ![u].patch = "sent"]
  /\ UNCHANGED <<hub, round, shown, online, faults>>

\* UpdateIncidentStatus; a statement that fails may have been applied.  The answer's
\* status is not looked at, and an unknown ID is answered like any other.
UpdateIncidentStatus(u) ==
  /\ update[u].patch = "sent"
  /\ \/ /\ Works
        /\ hub < MaxVersion
        /\ hub' = hub + 1
        /\ update' = [update EXCEPT ![u].patch = "done", ![u].version = hub + 1]
     \/ /\ Fails
        /\ hub' \in {hub, hub + 1} \cap Versions
        /\ update' = [update EXCEPT ![u].patch = "failed"]
  /\ UNCHANGED <<round, shown, online>>

\* Mutant: fetch is not awaited.
PatchUnawaited(u) == update[u].patch \in {"sent", "done", "failed"}

PatchAnswered(u) == update[u].patch \in {"done", "failed"}

RefreshAll(u, s) ==
  /\ update[u].pc = "patching" /\ PatchAnswered(u)
  /\ Begin(s)
  /\ update' = [update EXCEPT ![u].pc = "refreshing", ![u].slot = s]
  /\ UNCHANGED <<hub, shown, online, faults>>

\* The request does not get through: the function ends with the modal open.
PatchThrows(u) ==
  /\ update[u].patch = "sent"
  /\ Fails
  /\ update' = [update EXCEPT ![u] = NoUpdate]
  /\ UNCHANGED <<hub, round, shown, online>>

Next ==
  \/ HubChanges
  \/ \E s \in Slot : \/ Poll(s)
                     \/ \E p \in Part : Serve(s, p)
                     \/ Settle(s) \/ Reject(s)
  \/ \E u \in Update : \/ Click(u) \/ UpdateIncidentStatus(u) \/ PatchThrows(u)
                       \/ \E s \in Slot : RefreshAll(u, s)

Spec == Init /\ [][Next]_vars

\* The timer goes on for ever, and browsers end every request some time; nothing is said
\* about the order in which they do.
Fairness ==
  /\ WF_vars(\E s \in Slot : Poll(s))
  /\ \A s \in Slot : /\ WF_vars(Settle(s) \/ Reject(s))
                     /\ \A p \in Part : WF_vars(Serve(s, p))

FairSpec == Spec /\ Fairness

-----------------------------------------------------------------------------
(* Properties.                                                             *)

\* Once the hub's tables are left alone and requests come through, the screen shows
\* them, and the hub as connected, for good: overlapping rounds that settle in the wrong
\* order, or fail, put it out of date for a while only.
ConvergesToHub == <>[](online /\ \A p \in Part : shown[p] = hub)

\* After "Incident marked as ..." the table shows the new status, if the PATCH succeeded
\* and the refresh did: the refresh is begun when the PATCH has been answered, and no
\* answer of an older round is taken for one of its own.
UpdateIsShown ==
  [][\A u \in Update, s \in Slot :
       Awaits(u, s) /\ update[u].patch = "done" /\ Settle(s) =>
         shown'["incidents"] \in {Partial} \cup update[u].version .. MaxVersion]_vars
=============================================================================
