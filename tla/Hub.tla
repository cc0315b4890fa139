--------------------------------- MODULE Hub ---------------------------------
(***************************************************************************)
(* The hub: sre-agent/hub/internal/api/handlers.go over the PostgreSQL     *)
(* store of internal/db/store.go, with the Slack client of internal/slack. *)
(* Handlers run concurrently; each SQL statement is one autocommitted step *)
(* and no handler opens a transaction.  A statement may fail, having been  *)
(* applied or not; the hub may stop between any two steps.                 *)
(* There is no clock: agents and hub read the clocks of different hosts,   *)
(* so an incident ID, which is cut from an agent's clock, is any ID, and   *)
(* of resolved_at only whether it is set is kept.                          *)
(* GET handlers read and change nothing; which rows ListClusters returns   *)
(* is the operator Listed.                                                 *)
(***************************************************************************)
CONSTANTS
  Report,    \* reports agents produce, each posted once (agents never retry)
  Cluster,   \* cluster names
  Id,        \* incident IDs
  Statuses,  \* status strings that POST and PATCH bodies carry
  Payload,   \* the bodies that are posted, up to what the handler tells apart
  NoRow      \* no such row, no such value: SQL's NULL

\* What a posted cluster_snapshot may be: left out (or null, which acts alike), not
\* a JSON object, naming the report's own cluster (or none), or naming another one.
Snapshots == {"absent", "garbled", "own", "foreign"}

\* urgent: has_issue with SEV1 or SEV2; status "" is a body without one.
PayloadType == [urgent : BOOLEAN, snapshot : Snapshots, status : Statuses \cup {""}]

ASSUME PayloadAssumption == Payload \subseteq PayloadType

VARIABLES
  request,    \* each report and where its POST handler is
  clusters,   \* table clusters
  incidents,  \* table incidents
  alert,      \* what became of the Slack message for each report
  slack       \* SLACK_WEBHOOK_URL is set for the running hub

vars == <<request, clusters, incidents, alert, slack>>

Steps   == {"unborn",   \* not produced yet
            "sent",     \* on its way to the hub
            "upsert",   \* receiveIncident before UpsertCluster
            "ensure",   \* InsertIncident before its INSERT INTO clusters
            "insert",   \* before its INSERT INTO incidents
            "alert",    \* stored, before the Slack alert
            "answer",   \* before the answer 201
            "over"}     \* answered, refused, or cut off by a crash
Answers == {"none", "201", "4xx", "500"}

\* names: the cluster UpsertCluster writes; failed: some statement of the handler failed.
RequestType ==
  [step : Steps, answer : Answers, id : Id \cup {NoRow}, cluster : Cluster \cup {NoRow},
   names : Cluster \cup {NoRow}, payload : Payload \cup {NoRow}, failed : BOOLEAN]

ClusterRow  == [complete : BOOLEAN, health : {"zero", "measured"}]
IncidentRow == [report : Report, cluster : Cluster,
                status : {"INVESTIGATING"} \cup Statuses, resolved : BOOLEAN]

ASSUME NoRowAssumption == NoRow \notin ClusterRow \cup IncidentRow

AlertStates == {"none",     \* AlertIncident was not called
                "off",      \* called without a Slack client
                "started",  \* its goroutine is posting
                "sent",
                "lost"}     \* the post failed, or the hub stopped first

TypeOK ==
  /\ request \in [Report -> RequestType]
  /\ clusters \in [Cluster -> ClusterRow \cup {NoRow}]
  /\ incidents \in [Id -> IncidentRow \cup {NoRow}]
  /\ alert \in [Report -> AlertStates]
  /\ slack \in BOOLEAN

Stored(i) == incidents[i] # NoRow
StoredIds == {i \in Id : Stored(i)}

\* ListClusters drops the rows it cannot scan: those with NULL columns.
Listed(c) == clusters[c] # NoRow /\ clusters[c].complete

NotBorn == [step |-> "unborn", answer |-> "none", id |-> NoRow, cluster |-> NoRow,
            names |-> NoRow, payload |-> NoRow, failed |-> FALSE]

Init ==
  /\ request = [r \in Report |-> NotBorn]
  /\ clusters = [c \in Cluster |-> NoRow]
  /\ incidents = [i \in Id |-> NoRow]
  /\ alert = [r \in Report |-> "none"]
  /\ slack \in BOOLEAN

-----------------------------------------------------------------------------
(* The agents' side: NewReport and sendToHub.                              *)

\* A report about cluster c is posted; only a foreign snapshot names another cluster.
Produce(r, c) ==
  /\ request[r].step = "unborn"
  /\ \E i \in Id, p \in Payload, n \in Cluster :
       /\ n # c <=> p.snapshot = "foreign"
       /\ request' = [request EXCEPT ![r] =
                        [step |-> "sent", answer |-> "none", id |-> i, cluster |-> c,
                         names |-> n, payload |-> p, failed |-> FALSE]]
  /\ UNCHANGED <<clusters, incidents, alert, slack>>

-----------------------------------------------------------------------------
(* POST /api/v1/incidents.                                                 *)

GoTo(r, step) == request' = [request EXCEPT ![r].step = step]

Answer(r, a) == request' = [request EXCEPT ![r].step = "over", ![r].answer = a]

\* The handler ignores that a statement failed, or answers 500.
GoOn(r, step, failed) ==
  request' = [request EXCEPT ![r].step = step, ![r].failed = request[r].failed \/ failed]

Reject(r, failed) ==
  request' = [request EXCEPT ![r].step = "over", ![r].answer = "500",
                             ![r].failed = request[r].failed \/ failed]

\* Mutant: only a report with a snapshot has its cluster written.
ArriveSkipsCluster(r) ==
  /\ request[r].step = "sent"
  /\ GoTo(r, IF request[r].payload.snapshot = "own" THEN "upsert" ELSE "insert")
  /\ UNCHANGED <<clusters, incidents, alert, slack>>

Arrive(r) ==
  /\ request[r].step = "sent"
  /\ GoTo(r, "upsert")
  /\ UNCHANGED <<clusters, incidents, alert, slack>>

\* A wrong X-Claritty-Key or a body that is not JSON.
Refuse(r) ==
  /\ request[r].step = "sent"
  /\ Answer(r, "4xx")
  /\ UNCHANGED <<clusters, incidents, alert, slack>>

\* A snapshot that does not parse leaves the upsert out.
Upserts(r) == request[r].payload.snapshot # "garbled"

\* What UpsertCluster writes: every column, the figures of the snapshot or zeros.
UpsertedRow(r) ==
  [complete |-> TRUE,
   health |-> IF request[r].payload.snapshot \in {"own", "foreign"} THEN "measured" ELSE "zero"]

WriteCluster(c, row) == clusters' = [clusters EXCEPT ![c] = row]

\* Mutant: a report without a snapshot leaves the upsert out.
UpsertOnlyWithSnapshot(r) ==
  /\ request[r].step = "upsert"
  /\ IF request[r].payload.snapshot \in {"own", "foreign"}
       THEN WriteCluster(request[r].names, UpsertedRow(r)) ELSE UNCHANGED clusters
  /\ GoTo(r, "ensure")
  /\ UNCHANGED <<incidents, alert, slack>>

\* The row of the cluster the snapshot names, else of the report's; an error is ignored.
UpsertCluster(r) ==
  /\ request[r].step = "upsert"
  /\ \E failed \in BOOLEAN :
       /\ \/ Upserts(r) /\ WriteCluster(request[r].names, UpsertedRow(r))
          \/ Upserts(r) /\ failed /\ UNCHANGED clusters
          \/ ~Upserts(r) /\ ~failed /\ UNCHANGED clusters
       /\ GoOn(r, "ensure", failed)
  /\ UNCHANGED <<incidents, alert, slack>>

\* A row with a health score of 0 and without the other columns.
BareRow == [complete |-> FALSE, health |-> "zero"]

\* Mutant: ON CONFLICT DO UPDATE, without the columns it does not have.
EnsureOverwrites(r) ==
  /\ request[r].step = "ensure"
  /\ WriteCluster(request[r].cluster, BareRow)
  /\ GoTo(r, "insert")
  /\ UNCHANGED <<incidents, alert, slack>>

\* INSERT INTO clusters (name, last_seen, health_score) ... ON CONFLICT DO NOTHING;
\* InsertIncident ignores its error.
EnsureCluster(r) ==
  LET c == request[r].cluster IN
  /\ request[r].step = "ensure"
  /\ \E failed \in BOOLEAN :
       /\ \/ WriteCluster(c, IF clusters[c] = NoRow THEN BareRow ELSE clusters[c])
          \/ failed /\ UNCHANGED clusters
       /\ GoOn(r, "insert", failed)
  /\ UNCHANGED <<incidents, alert, slack>>

\* The row a report is stored as; a body without a status gets the default one.
ReportedRow(r) ==
  LET p == request[r].payload IN
  [report |-> r, cluster |-> request[r].cluster,
   status |-> IF p.status = "" THEN "INVESTIGATING" ELSE p.status, resolved |-> FALSE]

\* Mutants: a status nobody sent; ON CONFLICT (id) DO UPDATE.
WriteOpenIncident(r) ==
  incidents' = [incidents EXCEPT ![request[r].id] = [ReportedRow(r) EXCEPT !.status = "OPEN"]]

WriteOverIncident(r) ==
  incidents' = [incidents EXCEPT ![request[r].id] = ReportedRow(r)]

\* INSERT INTO incidents ... ON CONFLICT (id) DO NOTHING.
WriteIncident(r) ==
  incidents' = IF Stored(request[r].id) THEN incidents
               ELSE [incidents EXCEPT ![request[r].id] = ReportedRow(r)]

\* Mutant: no foreign key in the schema.
NoForeignKey(r) == TRUE

\* The foreign key incidents.cluster REFERENCES clusters(name), for a new row.
ForeignKeyHolds(r) == Stored(request[r].id) \/ clusters[request[r].cluster] # NoRow

InsertIncident(r) ==
  /\ request[r].step = "insert"
  /\ ForeignKeyHolds(r)
  /\ WriteIncident(r)
  /\ GoTo(r, "alert")
  /\ UNCHANGED <<clusters, alert, slack>>

\* Mutants: the error of InsertIncident is ignored; the alert is sent before it is known.
InsertErrorIgnored(r) ==
  /\ request[r].step = "insert"
  /\ Answer(r, "201")
  /\ UNCHANGED <<clusters, incidents, alert, slack>>

AlertThenReject(r) ==
  /\ request[r].step = "insert"
  /\ alert' = [alert EXCEPT ![r] = "started"]
  /\ Reject(r, TRUE)
  /\ UNCHANGED <<clusters, incidents, slack>>

\* "store error": the foreign key turned the row down, or the statement failed.
InsertRejected(r) ==
  /\ request[r].step = "insert"
  /\ \/ ~ForeignKeyHolds(r) /\ UNCHANGED incidents /\ Reject(r, FALSE)
     \/ UNCHANGED incidents /\ Reject(r, TRUE)
     \/ ForeignKeyHolds(r) /\ WriteIncident(r) /\ Reject(r, TRUE)
  /\ UNCHANGED <<clusters, alert, slack>>

\* AlertIncident: a goroutine posts the message, if there is a Slack client.
Announce(r) == alert' = [alert EXCEPT ![r] = IF slack THEN "started" ELSE "off"]

\* Mutant: only one message is posted at a time.
AlertOneAtATime(r) ==
  /\ request[r].step = "alert"
  /\ IF request[r].payload.urgent /\ \A q \in Report : alert[q] # "started"
       THEN Announce(r) ELSE UNCHANGED alert
  /\ GoTo(r, "answer")
  /\ UNCHANGED <<clusters, incidents, slack>>

StartAlert(r) ==
  /\ request[r].step = "alert"
  /\ IF request[r].payload.urgent THEN Announce(r) ELSE UNCHANGED alert
  /\ GoTo(r, "answer")
  /\ UNCHANGED <<clusters, incidents, slack>>

Accept(r) ==
  /\ request[r].step = "answer"
  /\ Answer(r, "201")
  /\ UNCHANGED <<clusters, incidents, alert, slack>>

Post(r) ==
  \/ Arrive(r) \/ Refuse(r) \/ UpsertCluster(r) \/ EnsureCluster(r)
  \/ InsertIncident(r) \/ InsertRejected(r) \/ StartAlert(r) \/ Accept(r)

\* The goroutine of AlertIncident: one attempt, whose failure is only printed.
PostAlert(r) ==
  /\ alert[r] = "started"
  /\ \E end \in {"sent", "lost"} : alert' = [alert EXCEPT ![r] = end]
  /\ UNCHANGED <<request, clusters, incidents, slack>>

-----------------------------------------------------------------------------
(* PATCH /api/v1/incidents/:id/status, one UPDATE of whatever string came; *)
(* one that fails has done this or nothing.                                *)

Closing == {"RESOLVED", "MITIGATED"}

\* Mutant: reopening an incident leaves resolved_at as it was.
PatchKeepsResolved(i, s) ==
  /\ Stored(i)
  /\ incidents' = [incidents EXCEPT ![i].status = s,
                     ![i].resolved = incidents[i].resolved \/ s \in Closing]
  /\ UNCHANGED <<request, clusters, alert, slack>>

Patch(i, s) ==
  /\ Stored(i)
  /\ incidents' = [incidents EXCEPT ![i].status = s, ![i].resolved = s \in Closing]
  /\ UNCHANGED <<request, clusters, alert, slack>>

-----------------------------------------------------------------------------
\* The hub process dies, or ends a shutdown, and comes back, perhaps with another
\* SLACK_WEBHOOK_URL: handlers and alerts under way are lost, the tables stay.
InHandler == {"upsert", "ensure", "insert", "alert", "answer"}

Crash ==
  /\ request' = [r \in Report |->
                   IF request[r].step \in InHandler
                     THEN [request[r] EXCEPT !.step = "over"] ELSE request[r]]
  /\ alert' = [r \in Report |-> IF alert[r] = "started" THEN "lost" ELSE alert[r]]
  /\ slack' \in BOOLEAN
  /\ UNCHANGED <<clusters, incidents>>

Next ==
  \/ \E r \in Report : (\E c \in Cluster : Produce(r, c)) \/ Post(r) \/ PostAlert(r)
  \/ \E i \in Id, s \in Statuses : Patch(i, s)
  \/ Crash

Spec == Init /\ [][Next]_vars

-----------------------------------------------------------------------------
(* Properties.                                                             *)

\* Every stored incident belongs to a cluster row, every row sits under the ID
\* and the cluster its report carries, and no report has two rows: what remains
\* of handlers that were interleaved, cut off or told of failures.
RowsAreReports ==
  /\ \A i \in StoredIds :
       LET row == incidents[i] IN
       /\ clusters[row.cluster] # NoRow
       /\ request[row.report].id = i
       /\ request[row.report].cluster = row.cluster
  /\ \A i, j \in StoredIds : incidents[i].report = incidents[j].report => i = j

\* The first report under an ID stays: neither a later report with that ID nor a
\* PATCH changes whose incident it is (ON CONFLICT (id) DO NOTHING).
FirstReportWins ==
  [][\A i \in StoredIds : /\ incidents'[i] # NoRow
                           /\ incidents'[i].report = incidents[i].report]_vars

\* resolved_at is set only on closed incidents, and missing from a closed one only
\* while it has the status it was posted with, however PATCHes and inserts interleave.
ResolvedIffClosed ==
  \A i \in StoredIds :
    LET row == incidents[i] IN
    /\ row.resolved => row.status \in Closing
    /\ row.status \in Closing /\ ~row.resolved =>
         row.status = request[row.report].payload.status

\* A report is turned down with "store error" only if a statement of its own handler
\* failed: the two cluster inserts keep the foreign key of the third satisfied,
\* whatever the snapshot names and whatever the other handlers do.
RejectedOnlyByFault == \A r \in Report : request[r].answer = "500" => request[r].failed

\* No other report was given r's ID.
OwnsId(r) ==
  \A q \in Report \ {r} : request[q].step # "unborn" => request[q].id # request[r].id

\* sre-agent/README.md:75 "Receives incident payloads from agents, persists them in
\* PostgreSQL": what was answered "accepted" is in the table, unless its ID repeats.
AckedIsStored ==
  \A r \in Report :
    request[r].answer = "201" => /\ Stored(request[r].id)
                                 /\ OwnsId(r) => incidents[request[r].id].report = r

\* slack.go:37 "sends a formatted Slack message for a new incident": the incident
\* the message links to is there, and it is the one it describes, unless its ID repeats.
AlertIsForItsIncident ==
  \A r \in Report :
    alert[r] # "none" => /\ Stored(request[r].id)
                         /\ OwnsId(r) => incidents[request[r].id].report = r

\* The incident of r is in the table, and the handler that put it there is gone.
LeftBehind(r) ==
  request[r].step = "over" /\ \E i \in StoredIds : incidents[i].report = r

\* A SEV1/SEV2 incident stays in the table with nobody told of it on Slack only when
\* the hub stopped before its handler had answered, the insert was applied and reported
\* as failed, or the one message started for it was lost or had no Slack to go to; and
\* no message is started for a report that its agent is told was not stored.
SilentOnlyByFault ==
  \A r \in Report :
    /\ LeftBehind(r) /\ request[r].payload.urgent /\ alert[r] = "none" =>
         request[r].answer = "none" \/ (request[r].answer = "500" /\ request[r].failed)
    /\ alert[r] # "none" => ~(request[r].answer \in {"4xx", "500"})

\* A cluster with incidents is missing from GET /clusters only if the handler of every
\* one of them had a failing statement or a snapshot that named another cluster or did
\* not parse; and once listed it stays listed.
UnlistedOnlyByFault ==
  \A i \in StoredIds :
    LET r == incidents[i].report IN
    ~Listed(incidents[i].cluster) =>
      request[r].failed \/ request[r].payload.snapshot \in {"garbled", "foreign"}

ListedStaysListed == [][\A c \in Cluster : Listed(c) => Listed(c)']_vars

\* README.md:125 "List all connected clusters and health scores": the score shown was measured.
HealthIsMeasured == \A c \in Cluster : Listed(c) => clusters[c].health = "measured"
=============================================================================
