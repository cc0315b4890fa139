------------------------------ MODULE HubProofs ------------------------------
(***************************************************************************)
(* Theorems of Hub for any number of reports, clusters and IDs, any bodies *)
(* and any number of failing statements and crashes.                       *)
(***************************************************************************)
EXTENDS Hub, TLAPS

-----------------------------------------------------------------------------
(* Types.                                                                  *)

Born(r) == request[r].step # "unborn"

\* A produced report carries an ID, a cluster and a body.
ReportInv ==
  \A r \in Report : Born(r) => /\ request[r].id \in Id
                               /\ request[r].cluster \in Cluster
                               /\ request[r].names \in Cluster
                               /\ request[r].payload \in Payload
                               /\ request[r].names # request[r].cluster =>
                                    request[r].payload.snapshot = "foreign"

\* Only a handler that is over has answered.
AnswerInv == \A r \in Report : request[r].step # "over" => request[r].answer = "none"

TypeInv == TypeOK /\ ReportInv /\ AnswerInv

\* The request of r moves on and the others stay.
Handled(r, step, answer, failed) ==
  request' = [request EXCEPT ![r] = [request[r] EXCEPT !.step = step, !.answer = answer,
                                                       !.failed = failed]]

LEMMA HandledFields ==
  ASSUME request \in [Report -> RequestType], NEW r \in Report, NEW step \in Steps,
         NEW answer \in Answers, NEW failed \in BOOLEAN, Handled(r, step, answer, failed)
  PROVE  /\ request' \in [Report -> RequestType]
         /\ request'[r].step = step /\ request'[r].answer = answer
         /\ request'[r].failed = failed
         /\ request'[r].id = request[r].id /\ request'[r].cluster = request[r].cluster
         /\ request'[r].names = request[r].names /\ request'[r].payload = request[r].payload
         /\ \A q \in Report : q # r => request'[q] = request[q]
<1>1. request[r] \in RequestType
  OBVIOUS
<1>2. [request[r] EXCEPT !.step = step, !.answer = answer, !.failed = failed] \in RequestType
  BY <1>1 DEF RequestType
<1> QED
  BY <1>1, <1>2 DEF Handled, RequestType

LEMMA GoToIsHandled ==
  ASSUME request \in [Report -> RequestType], NEW r \in Report, NEW step, GoTo(r, step)
  PROVE  Handled(r, step, request[r].answer, request[r].failed)
  BY DEF GoTo, Handled, RequestType

LEMMA AnswerIsHandled ==
  ASSUME request \in [Report -> RequestType], NEW r \in Report, NEW a, Answer(r, a)
  PROVE  Handled(r, "over", a, request[r].failed)
  BY DEF Answer, Handled, RequestType

LEMMA GoOnIsHandled ==
  ASSUME request \in [Report -> RequestType], NEW r \in Report, NEW step,
         NEW failed \in BOOLEAN, GoOn(r, step, failed)
  PROVE  Handled(r, step, request[r].answer, request[r].failed \/ failed)
  BY DEF GoOn, Handled, RequestType

LEMMA RejectIsHandled ==
  ASSUME request \in [Report -> RequestType], NEW r \in Report,
         NEW failed \in BOOLEAN, Reject(r, failed)
  PROVE  Handled(r, "over", "500", request[r].failed \/ failed)
  BY DEF Reject, Handled, RequestType

-----------------------------------------------------------------------------
(* What each step of a handler makes of its request.                       *)

\* From one of these steps and answers to one of those, with failures kept.
Moves(r, from, step, answer) ==
  /\ request[r].step = from
  /\ request'[r].step = step
  /\ request'[r].answer = answer
  /\ request[r].failed => request'[r].failed

\* What a report says does not change on its way through the handler.
Carried(q) ==
  /\ request'[q].id = request[q].id
  /\ request'[q].cluster = request[q].cluster
  /\ request'[q].names = request[q].names
  /\ request'[q].payload = request[q].payload
  /\ request[q].failed => request'[q].failed
  /\ Born(q)' <=> Born(q)

SameReports == \A q \in Report : Carried(q)

LEMMA HandledMoves ==
  ASSUME request \in [Report -> RequestType], NEW r \in Report, Born(r),
         NEW step \in Steps \ {"unborn"}, NEW answer \in Answers, NEW failed \in BOOLEAN,
         request[r].failed => failed, Handled(r, step, answer, failed)
  PROVE  /\ request' \in [Report -> RequestType]
         /\ SameReports
         /\ Moves(r, request[r].step, step, answer)
         /\ request'[r].failed = failed
         /\ \A q \in Report : q # r => request'[q] = request[q]
<1>1. /\ request' \in [Report -> RequestType]
      /\ request'[r].step = step /\ request'[r].answer = answer
      /\ request'[r].failed = failed
      /\ request'[r].id = request[r].id /\ request'[r].cluster = request[r].cluster
      /\ request'[r].names = request[r].names /\ request'[r].payload = request[r].payload
      /\ \A q \in Report : q # r => request'[q] = request[q]
  BY HandledFields
<1>2. Carried(r)
  BY <1>1 DEF Carried, Born
<1>3. \A q \in Report : q # r => Carried(q)
  BY <1>1 DEF Carried, Born
<1> QED
  BY <1>1, <1>2, <1>3 DEF SameReports, Moves

LEMMA StepsAndAnswers ==
  /\ "sent" \in Steps \ {"unborn"} /\ "upsert" \in Steps \ {"unborn"}
  /\ "ensure" \in Steps \ {"unborn"} /\ "insert" \in Steps \ {"unborn"}
  /\ "alert" \in Steps \ {"unborn"} /\ "answer" \in Steps \ {"unborn"}
  /\ "over" \in Steps \ {"unborn"}
  /\ "201" \in Answers /\ "4xx" \in Answers /\ "500" \in Answers
  BY DEF Steps, Answers

\* One line per action of the handler.
LEMMA PostMoves ==
  ASSUME TypeOK, NEW r \in Report, Post(r)
  PROVE  /\ request' \in [Report -> RequestType]
         /\ SameReports
         /\ \A q \in Report : q # r => request'[q] = request[q]
         /\ Born(r)
         /\ Arrive(r) => Moves(r, "sent", "upsert", request[r].answer)
         /\ Refuse(r) => Moves(r, "sent", "over", "4xx")
         /\ UpsertCluster(r) => Moves(r, "upsert", "ensure", request[r].answer)
         /\ EnsureCluster(r) => Moves(r, "ensure", "insert", request[r].answer)
         /\ InsertIncident(r) => Moves(r, "insert", "alert", request[r].answer)
         /\ InsertRejected(r) => Moves(r, "insert", "over", "500")
         /\ StartAlert(r) => Moves(r, "alert", "answer", request[r].answer)
         /\ Accept(r) => Moves(r, "answer", "over", "201")
<1>0. /\ request \in [Report -> RequestType]
      /\ request[r].answer \in Answers /\ request[r].failed \in BOOLEAN
  BY DEF TypeOK, RequestType
<1>1. Born(r)
  BY DEF Post, Arrive, Refuse, UpsertCluster, EnsureCluster, InsertIncident,
         InsertRejected, StartAlert, Accept, Born
<1> DEFINE Result(from, step, answer) ==
      /\ request' \in [Report -> RequestType]
      /\ SameReports
      /\ \A q \in Report : q # r => request'[q] = request[q]
      /\ Moves(r, from, step, answer)
<1>2. ASSUME NEW step \in Steps \ {"unborn"}, GoTo(r, step)
      PROVE  Result(request[r].step, step, request[r].answer)
  BY <1>0, <1>1, <1>2, GoToIsHandled, HandledMoves
<1>3. ASSUME NEW a \in Answers, Answer(r, a)
      PROVE  Result(request[r].step, "over", a)
  BY <1>0, <1>1, <1>3, AnswerIsHandled, HandledMoves, StepsAndAnswers
<1>4. ASSUME NEW step \in Steps \ {"unborn"}, NEW failed \in BOOLEAN, GoOn(r, step, failed)
      PROVE  Result(request[r].step, step, request[r].answer)
  <2>1. (request[r].failed \/ failed) \in BOOLEAN
    OBVIOUS
  <2>2. Handled(r, step, request[r].answer, request[r].failed \/ failed)
    BY <1>0, <1>4, GoOnIsHandled
  <2> QED
    BY <1>0, <1>1, <2>1, <2>2, HandledMoves
<1>5. ASSUME NEW failed \in BOOLEAN, Reject(r, failed)
      PROVE  Result(request[r].step, "over", "500")
  <2>1. (request[r].failed \/ failed) \in BOOLEAN
    OBVIOUS
  <2>2. Handled(r, "over", "500", request[r].failed \/ failed)
    BY <1>0, <1>5, RejectIsHandled
  <2> QED
    BY <1>0, <1>1, <2>1, <2>2, HandledMoves, StepsAndAnswers
<1> HIDE DEF Result
<1>6. Arrive(r) => Result("sent", "upsert", request[r].answer)
  BY <1>2, StepsAndAnswers DEF Arrive
<1>7. Refuse(r) => Result("sent", "over", "4xx")
  BY <1>3, StepsAndAnswers DEF Refuse
<1>8. UpsertCluster(r) => Result("upsert", "ensure", request[r].answer)
  BY <1>4, StepsAndAnswers DEF UpsertCluster
<1>9. EnsureCluster(r) => Result("ensure", "insert", request[r].answer)
  BY <1>4, StepsAndAnswers DEF EnsureCluster
<1>10. InsertIncident(r) => Result("insert", "alert", request[r].answer)
  BY <1>2, StepsAndAnswers DEF InsertIncident
<1>11. InsertRejected(r) => Result("insert", "over", "500")
  BY <1>5 DEF InsertRejected
<1>12. StartAlert(r) => Result("alert", "answer", request[r].answer)
  BY <1>2, StepsAndAnswers DEF StartAlert
<1>13. Accept(r) => Result("answer", "over", "201")
  BY <1>3, StepsAndAnswers DEF Accept
<1> QED
  BY <1>1, <1>6, <1>7, <1>8, <1>9, <1>10, <1>11, <1>12, <1>13 DEF Result, Post

LEMMA CrashRequest ==
  ASSUME TypeOK, Crash
  PROVE  /\ request' \in [Report -> RequestType]
         /\ SameReports
         /\ \A q \in Report : /\ request'[q].answer = request[q].answer
                              /\ request'[q].failed = request[q].failed
                              /\ request'[q] = request[q] \/ request'[q].step = "over"
<1>1. request \in [Report -> RequestType]
  BY DEF TypeOK
<1>2. \A q \in Report : request'[q] = IF request[q].step \in InHandler
                                       THEN [request[q] EXCEPT !.step = "over"] ELSE request[q]
  BY DEF Crash
<1>3. \A q \in Report : request'[q] \in RequestType
  <2> SUFFICES ASSUME NEW q \in Report PROVE request'[q] \in RequestType
    OBVIOUS
  <2>1. request[q] \in RequestType
    BY <1>1
  <2>2. [request[q] EXCEPT !.step = "over"] \in RequestType
    BY <2>1 DEF RequestType, Steps
  <2> QED
    BY <1>2, <2>1, <2>2
<1>4. request' \in [Report -> RequestType]
  BY <1>3 DEF Crash
<1> QED
  BY <1>1, <1>2, <1>4 DEF SameReports, Carried, Born, RequestType, InHandler

LEMMA ProduceRequest ==
  ASSUME TypeOK, NEW r \in Report, NEW c \in Cluster, Produce(r, c)
  PROVE  /\ request' \in [Report -> RequestType]
         /\ \A q \in Report : q # r => request'[q] = request[q]
         /\ ~Born(r) /\ Born(r)'
         /\ request'[r].answer = "none" /\ request'[r].step = "sent"
         /\ request'[r].id \in Id /\ request'[r].cluster \in Cluster
         /\ request'[r].names \in Cluster /\ request'[r].payload \in Payload
         /\ request'[r].names # request'[r].cluster =>
              request'[r].payload.snapshot = "foreign"
<1>1. request \in [Report -> RequestType] /\ request[r].step = "unborn"
  BY DEF TypeOK, Produce
<1>2. PICK i \in Id, p \in Payload, n \in Cluster :
        /\ n # c <=> p.snapshot = "foreign"
        /\ request' = [request EXCEPT ![r] =
                         [step |-> "sent", answer |-> "none", id |-> i, cluster |-> c,
                          names |-> n, payload |-> p, failed |-> FALSE]]
  BY DEF Produce
<1> DEFINE new == [step |-> "sent", answer |-> "none", id |-> i, cluster |-> c,
                   names |-> n, payload |-> p, failed |-> FALSE]
<1>3. new \in RequestType
  BY DEF RequestType, Steps, Answers
<1>4. request'[r] = new /\ request' \in [Report -> RequestType]
      /\ \A q \in Report : q # r => request'[q] = request[q]
  BY <1>1, <1>2, <1>3
<1> QED
  BY <1>1, <1>2, <1>4 DEF Born

\* Who changes what.
LEMMA OtherSteps ==
  /\ \A r \in Report, c \in Cluster : Produce(r, c) => UNCHANGED <<clusters, incidents, alert, slack>>
  /\ \A r \in Report : PostAlert(r) => UNCHANGED <<request, clusters, incidents, slack>>
  /\ \A i \in Id, s \in Statuses : Patch(i, s) => UNCHANGED <<request, clusters, alert, slack>>
  /\ Crash => UNCHANGED <<clusters, incidents>>
  /\ UNCHANGED vars => UNCHANGED <<request, clusters, incidents, alert, slack>>
  BY DEF Produce, PostAlert, Patch, Crash, vars

LEMMA RequestTypes ==
  ASSUME TypeInv, [Next]_vars
  PROVE  request' \in [Report -> RequestType] /\ ReportInv' /\ AnswerInv'
<1>0. request \in [Report -> RequestType] /\ ReportInv /\ AnswerInv /\ TypeOK
  BY DEF TypeInv, TypeOK
<1>1. ASSUME SameReports PROVE ReportInv'
  BY <1>0, <1>1 DEF SameReports, Carried, ReportInv
<1>2. ASSUME NEW r \in Report, NEW c \in Cluster, Produce(r, c)
      PROVE  request' \in [Report -> RequestType] /\ ReportInv' /\ AnswerInv'
  <2>1. \A q \in Report : q # r => request'[q] = request[q]
    BY <1>0, <1>2, ProduceRequest
  <2>2. request' \in [Report -> RequestType] /\ ReportInv'
    BY <1>0, <1>2, <2>1, ProduceRequest DEF ReportInv, Born
  <2>3. request'[r].answer = "none"
    BY <1>0, <1>2, ProduceRequest
  <2> QED
    BY <1>0, <2>1, <2>2, <2>3 DEF AnswerInv
<1>3. ASSUME NEW r \in Report, Post(r)
      PROVE  request' \in [Report -> RequestType] /\ ReportInv' /\ AnswerInv'
  <2>1. /\ request' \in [Report -> RequestType] /\ ReportInv'
        /\ \A q \in Report : q # r => request'[q] = request[q]
    BY <1>0, <1>1, <1>3, PostMoves
  <2>2. request'[r].step # "over" => request'[r].answer = "none"
    BY <1>0, <1>3, PostMoves DEF Post, Moves, AnswerInv
  <2> QED
    BY <1>0, <2>1, <2>2 DEF AnswerInv
<1>4. ASSUME Crash
      PROVE  request' \in [Report -> RequestType] /\ ReportInv' /\ AnswerInv'
  <2>1. request' \in [Report -> RequestType] /\ ReportInv'
    BY <1>0, <1>1, <1>4, CrashRequest
  <2>2. AnswerInv'
    BY <1>0, <1>4, CrashRequest DEF AnswerInv
  <2> QED
    BY <2>1, <2>2
<1>5. ASSUME UNCHANGED request
      PROVE  request' \in [Report -> RequestType] /\ ReportInv' /\ AnswerInv'
  BY <1>0, <1>5 DEF ReportInv, AnswerInv, Born
<1>6. ASSUME NEW r \in Report, PostAlert(r) PROVE UNCHANGED request
  BY <1>6, OtherSteps
<1>7. ASSUME NEW i \in Id, NEW s \in Statuses, Patch(i, s) PROVE UNCHANGED request
  BY <1>7, OtherSteps
<1>8. UNCHANGED vars => UNCHANGED request
  BY OtherSteps
<1> QED
  BY <1>2, <1>3, <1>4, <1>5, <1>6, <1>7, <1>8 DEF Next

LEMMA RowTypesWritten ==
  ASSUME TypeInv, NEW r \in Report, Born(r)
  PROVE  /\ request[r].payload \in PayloadType
         /\ UpsertedRow(r) \in ClusterRow /\ UpsertedRow(r) # NoRow
         /\ BareRow \in ClusterRow /\ BareRow # NoRow
         /\ ReportedRow(r) \in IncidentRow /\ ReportedRow(r) # NoRow
<1>1. request[r].payload \in PayloadType /\ request[r].cluster \in Cluster
  BY PayloadAssumption DEF TypeInv, ReportInv
<1>2. UpsertedRow(r) \in ClusterRow
  BY DEF UpsertedRow, ClusterRow
<1>3. BareRow \in ClusterRow
  BY DEF BareRow, ClusterRow
<1>4. ReportedRow(r) \in IncidentRow
  BY <1>1 DEF ReportedRow, IncidentRow, PayloadType
<1> QED
  BY <1>1, <1>2, <1>3, <1>4, NoRowAssumption

\* A cluster statement writes one row or, having failed or having been left out, none.
LEMMA ClusterWrite ==
  ASSUME NEW r \in Report, UpsertCluster(r) \/ EnsureCluster(r)
  PROVE  /\ UNCHANGED <<incidents, alert, slack>>
         /\ UpsertCluster(r) => \/ WriteCluster(request[r].names, UpsertedRow(r))
                                \/ UNCHANGED clusters
         /\ EnsureCluster(r) => \/ clusters[request[r].cluster] = NoRow
                                   /\ WriteCluster(request[r].cluster, BareRow)
                                \/ clusters[request[r].cluster] # NoRow
                                   /\ WriteCluster(request[r].cluster, clusters[request[r].cluster])
                                \/ UNCHANGED clusters
  BY DEF UpsertCluster, EnsureCluster

LEMMA PatchedRow ==
  ASSUME TypeInv, NEW i \in Id, NEW s \in Statuses, Patch(i, s)
  PROVE  /\ incidents[i] \in IncidentRow
         /\ [incidents[i] EXCEPT !.status = s, !.resolved = s \in Closing] \in IncidentRow
         /\ incidents' = [incidents EXCEPT ![i] =
                            [incidents[i] EXCEPT !.status = s, !.resolved = s \in Closing]]
<1>1. incidents \in [Id -> IncidentRow \cup {NoRow}]
  BY DEF TypeInv, TypeOK
<1>2. incidents[i] \in IncidentRow
  BY <1>1 DEF Patch, Stored
<1>3. (s \in Closing) \in BOOLEAN
  OBVIOUS
<1>4. [incidents[i] EXCEPT !.status = s, !.resolved = s \in Closing] \in IncidentRow
  BY <1>2, <1>3 DEF IncidentRow
<1>5. incidents' = [incidents EXCEPT ![i] =
                      [incidents[i] EXCEPT !.status = s, !.resolved = s \in Closing]]
  BY <1>1, <1>2 DEF Patch, IncidentRow
<1> QED
  BY <1>2, <1>4, <1>5

\* What the tables and the alerts may hold after a step.
LEMMA TableTypes ==
  ASSUME TypeInv, [Next]_vars
  PROVE  /\ clusters' \in [Cluster -> ClusterRow \cup {NoRow}]
         /\ incidents' \in [Id -> IncidentRow \cup {NoRow}]
         /\ alert' \in [Report -> AlertStates]
         /\ slack' \in BOOLEAN
<1> DEFINE Typed == /\ clusters' \in [Cluster -> ClusterRow \cup {NoRow}]
                    /\ incidents' \in [Id -> IncidentRow \cup {NoRow}]
                    /\ alert' \in [Report -> AlertStates]
                    /\ slack' \in BOOLEAN
<1>0. /\ clusters \in [Cluster -> ClusterRow \cup {NoRow}]
      /\ incidents \in [Id -> IncidentRow \cup {NoRow}]
      /\ alert \in [Report -> AlertStates]
      /\ slack \in BOOLEAN
      /\ TypeOK
  BY DEF TypeInv, TypeOK
<1>1. {"started", "off", "sent", "lost"} \subseteq AlertStates
  BY DEF AlertStates
<1>2. ASSUME NEW r \in Report, Born(r), UpsertCluster(r) \/ EnsureCluster(r) PROVE Typed
  <2>1. request[r].names \in Cluster /\ request[r].cluster \in Cluster
    BY <1>2 DEF TypeInv, ReportInv
  <2>2. \A c \in Cluster, row \in ClusterRow \cup {NoRow} :
          WriteCluster(c, row) => clusters' \in [Cluster -> ClusterRow \cup {NoRow}]
    BY <1>0 DEF WriteCluster
  <2>3. clusters' \in [Cluster -> ClusterRow \cup {NoRow}]
    BY <1>0, <1>2, <2>1, <2>2, ClusterWrite, RowTypesWritten
  <2> QED
    BY <1>0, <1>2, <2>3, ClusterWrite
<1>3. ASSUME NEW r \in Report, Born(r), InsertIncident(r) \/ InsertRejected(r) PROVE Typed
  <2>1. ReportedRow(r) \in IncidentRow
    BY <1>3, RowTypesWritten
  <2>2. WriteIncident(r) \/ UNCHANGED incidents
    BY <1>3 DEF InsertIncident, InsertRejected
  <2>3. incidents' \in [Id -> IncidentRow \cup {NoRow}]
    BY <1>0, <2>1, <2>2 DEF WriteIncident
  <2>4. UNCHANGED <<clusters, alert, slack>>
    BY <1>3 DEF InsertIncident, InsertRejected
  <2> QED
    BY <1>0, <2>3, <2>4
<1>4. ASSUME NEW r \in Report, Arrive(r) \/ Refuse(r) \/ StartAlert(r) \/ Accept(r) PROVE Typed
  <2>1. UNCHANGED <<clusters, incidents, slack>>
    BY <1>4 DEF Arrive, Refuse, StartAlert, Accept
  <2>2. Announce(r) \/ UNCHANGED alert
    BY <1>4 DEF Arrive, Refuse, StartAlert, Accept
  <2>3. alert' \in [Report -> AlertStates]
    BY <1>0, <1>1, <2>2 DEF Announce
  <2> QED
    BY <1>0, <2>1, <2>3
<1>5. ASSUME NEW i \in Id, NEW s \in Statuses, Patch(i, s) PROVE Typed
  <2>1. incidents' \in [Id -> IncidentRow \cup {NoRow}]
    BY <1>0, <1>5, PatchedRow
  <2> QED
    BY <1>0, <1>5, <2>1, OtherSteps
<1>6. ASSUME NEW r \in Report, PostAlert(r) PROVE Typed
  <2>1. alert' \in [Report -> AlertStates]
    BY <1>0, <1>1, <1>6 DEF PostAlert
  <2> QED
    BY <1>0, <1>6, <2>1, OtherSteps
<1>7. ASSUME Crash PROVE Typed
  <2>1. alert' \in [Report -> AlertStates] /\ slack' \in BOOLEAN
    BY <1>0, <1>1, <1>7 DEF Crash
  <2> QED
    BY <1>0, <1>7, <2>1, OtherSteps
<1>8. ASSUME UNCHANGED <<clusters, incidents, alert, slack>> PROVE Typed
  BY <1>0, <1>8
<1> HIDE DEF Typed
<1>9. \A r \in Report : Post(r) => Typed
  BY <1>0, <1>2, <1>3, <1>4, PostMoves DEF Post
<1>10. ASSUME NEW r \in Report, NEW c \in Cluster, Produce(r, c) PROVE Typed
  BY <1>8, <1>10, OtherSteps
<1>11. UNCHANGED vars => Typed
  BY <1>8, OtherSteps
<1>12. Typed
  BY <1>5, <1>6, <1>7, <1>9, <1>10, <1>11 DEF Next
<1> QED
  BY <1>12 DEF Typed

LEMMA TypeInvariant == Spec => []TypeInv
<1>1. Init => TypeInv
  <2> SUFFICES ASSUME Init PROVE TypeInv
    OBVIOUS
  <2>1. NotBorn \in RequestType
    BY DEF NotBorn, RequestType, Steps, Answers
  <2>2. \A r \in Report : ~Born(r)
    BY DEF Init, Born, NotBorn
  <2>3. "none" \in AlertStates
    BY DEF AlertStates
  <2> QED
    BY <2>1, <2>2, <2>3 DEF Init, TypeInv, TypeOK, ReportInv, AnswerInv, NotBorn
<1>2. TypeInv /\ [Next]_vars => TypeInv'
  BY RequestTypes, TableTypes DEF TypeInv, TypeOK
<1> QED
  BY <1>1, <1>2, PTL DEF Spec

\* Every variable keeps its type.
THEOREM TypeCorrect == Spec => []TypeOK
<1>1. TypeInv => TypeOK
  BY DEF TypeInv
<1> QED
  BY <1>1, TypeInvariant, PTL

-----------------------------------------------------------------------------
(* The tables only grow.                                                   *)

\* Rows of the tables never go away, a listed cluster stays listed, and an incident
\* stays that of its report.
Grows ==
  /\ \A c \in Cluster : clusters[c] # NoRow => clusters'[c] # NoRow
  /\ \A c \in Cluster : Listed(c) => Listed(c)'
  /\ \A i \in StoredIds : /\ incidents'[i] # NoRow
                           /\ incidents'[i].report = incidents[i].report
                           /\ incidents'[i].cluster = incidents[i].cluster

\* A write of a row that is complete, or that leaves a row as it was, or the first one.
LEMMA ClustersGrow ==
  ASSUME TypeOK, NEW c \in Cluster, NEW row \in ClusterRow, row # NoRow,
         row.complete \/ clusters[c] = NoRow \/ row = clusters[c], WriteCluster(c, row),
         incidents' = incidents
  PROVE  Grows /\ clusters'[c] = row
<1>1. clusters \in [Cluster -> ClusterRow \cup {NoRow}]
  BY DEF TypeOK
<1>2. clusters'[c] = row /\ \A d \in Cluster : d # c => clusters'[d] = clusters[d]
  BY <1>1 DEF WriteCluster
<1>3. \A d \in Cluster : clusters[d] # NoRow => clusters'[d] # NoRow
  BY <1>2
<1>4. \A d \in Cluster : Listed(d) => Listed(d)'
  BY <1>2 DEF Listed
<1> QED
  BY <1>2, <1>3, <1>4 DEF Grows, StoredIds, Stored

\* A cluster statement of the handler of r has its effect unless it fails or, for the
\* first one, the snapshot does not parse.
LEMMA ClusterStatement ==
  ASSUME TypeInv, NEW r \in Report, Born(r), UpsertCluster(r) \/ EnsureCluster(r)
  PROVE  /\ Grows
         /\ UpsertCluster(r) => \/ Listed(request[r].names)'
                                \/ request'[r].failed
                                \/ request[r].payload.snapshot = "garbled"
         /\ EnsureCluster(r) => clusters'[request[r].cluster] # NoRow \/ request'[r].failed
<1>0. /\ clusters \in [Cluster -> ClusterRow \cup {NoRow}]
      /\ request \in [Report -> RequestType]
      /\ TypeOK
      /\ request[r].names \in Cluster /\ request[r].cluster \in Cluster
  BY DEF TypeInv, TypeOK, ReportInv
<1>1. UpsertedRow(r) \in ClusterRow /\ UpsertedRow(r) # NoRow /\ UpsertedRow(r).complete
  BY RowTypesWritten DEF UpsertedRow
<1>2. BareRow \in ClusterRow /\ BareRow # NoRow
  BY RowTypesWritten
<1>3. UNCHANGED clusters => Grows
  BY ClusterWrite DEF Grows, Listed, StoredIds, Stored
<1>4. \A step : GoOn(r, step, TRUE) => request'[r].failed
  BY <1>0 DEF GoOn, RequestType
<1>5. ASSUME UpsertCluster(r)
      PROVE  Grows /\ \/ Listed(request[r].names)'
                      \/ request'[r].failed
                      \/ request[r].payload.snapshot = "garbled"
  <2>1. CASE WriteCluster(request[r].names, UpsertedRow(r))
    <3>1. Grows /\ clusters'[request[r].names] = UpsertedRow(r)
      BY <1>0, <1>1, <2>1, ClustersGrow, ClusterWrite
    <3>2. request'[r].names = request[r].names
      BY <1>0, <1>5, PostMoves DEF Post, SameReports, Carried
    <3> QED
      BY <1>1, <3>1, <3>2 DEF Listed
  <2>2. CASE ~WriteCluster(request[r].names, UpsertedRow(r))
    <3>1. PICK failed \in BOOLEAN :
            /\ \/ Upserts(r) /\ WriteCluster(request[r].names, UpsertedRow(r))
               \/ Upserts(r) /\ failed /\ UNCHANGED clusters
               \/ ~Upserts(r) /\ ~failed /\ UNCHANGED clusters
            /\ GoOn(r, "ensure", failed)
      BY <1>5 DEF UpsertCluster
    <3>2. CASE failed
      BY <1>3, <1>4, <2>2, <3>1, <3>2
    <3>3. CASE ~failed
      BY <1>3, <2>2, <3>1, <3>3 DEF Upserts
    <3> QED
      BY <3>2, <3>3
  <2> QED
    BY <2>1, <2>2
<1>6. ASSUME EnsureCluster(r)
      PROVE  Grows /\ (clusters'[request[r].cluster] # NoRow \/ request'[r].failed)
  <2> DEFINE c == request[r].cluster
             row == IF clusters[c] = NoRow THEN BareRow ELSE clusters[c]
  <2>1. row \in ClusterRow /\ row # NoRow
    BY <1>0, <1>2
  <2>2. PICK failed \in BOOLEAN :
          /\ WriteCluster(c, row) \/ (failed /\ UNCHANGED clusters)
          /\ GoOn(r, "insert", failed)
    BY <1>6 DEF EnsureCluster
  <2>3. CASE WriteCluster(c, row)
    <3>1. clusters[c] = NoRow \/ row = clusters[c]
      OBVIOUS
    <3> HIDE DEF row
    <3> QED
      BY <1>0, <2>1, <2>3, <3>1, ClustersGrow, ClusterWrite
  <2>4. CASE failed /\ UNCHANGED clusters
    <3>1. GoOn(r, "insert", TRUE)
      BY <2>2, <2>4
    <3> QED
      BY <1>3, <1>4, <2>4, <3>1
  <2> QED
    BY <2>2, <2>3, <2>4
<1> QED
  BY <1>5, <1>6

\* An insert adds at most the row of its report, under the report's own ID.
LEMMA IncidentStatement ==
  ASSUME TypeInv, NEW r \in Report, Born(r), WriteIncident(r)
  PROVE  /\ request[r].id \in Id
         /\ incidents'[request[r].id] # NoRow
         /\ \A i \in Id : \/ incidents'[i] = incidents[i]
                          \/ /\ i = request[r].id
                             /\ ~Stored(i)
                             /\ incidents'[i] = ReportedRow(r)
         /\ Stored(request[r].id) => incidents' = incidents
<1>0. incidents \in [Id -> IncidentRow \cup {NoRow}] /\ request[r].id \in Id
  BY DEF TypeInv, TypeOK, ReportInv
<1>1. ReportedRow(r) # NoRow
  BY RowTypesWritten
<1>2. CASE Stored(request[r].id)
  BY <1>0, <1>2 DEF WriteIncident, Stored
<1>3. CASE ~Stored(request[r].id)
  <2>1. incidents' = [incidents EXCEPT ![request[r].id] = ReportedRow(r)]
    BY <1>3 DEF WriteIncident
  <2> QED
    BY <1>0, <1>1, <1>3, <2>1
<1> QED
  BY <1>2, <1>3

\* A PATCH changes the status and resolved_at of one stored incident.
LEMMA PatchStatement ==
  ASSUME TypeInv, NEW i \in Id, NEW s \in Statuses, Patch(i, s)
  PROVE  /\ incidents[i] # NoRow /\ incidents'[i] # NoRow
         /\ incidents'[i].report = incidents[i].report
         /\ incidents'[i].cluster = incidents[i].cluster
         /\ incidents'[i].status = s
         /\ incidents'[i].resolved = (s \in Closing)
         /\ \A j \in Id : j # i => incidents'[j] = incidents[j]
<1>0. incidents \in [Id -> IncidentRow \cup {NoRow}] /\ incidents[i] # NoRow
  BY DEF TypeInv, TypeOK, Patch, Stored
<1> DEFINE row == [incidents[i] EXCEPT !.status = s, !.resolved = s \in Closing]
<1>1. /\ incidents[i] \in IncidentRow
      /\ row \in IncidentRow
      /\ incidents' = [incidents EXCEPT ![i] = row]
  BY PatchedRow
<1>2. /\ row.report = incidents[i].report /\ row.cluster = incidents[i].cluster
      /\ row.status = s /\ row.resolved = (s \in Closing)
  BY <1>1 DEF IncidentRow
<1> HIDE DEF row
<1>3. incidents'[i] = row /\ \A j \in Id : j # i => incidents'[j] = incidents[j]
  BY <1>0, <1>1
<1> QED
  BY <1>0, <1>1, <1>2, <1>3, NoRowAssumption

LEMMA StepGrows ==
  ASSUME TypeInv, [Next]_vars
  PROVE  Grows
<1>0. TypeOK
  BY DEF TypeInv
<1>1. ASSUME UNCHANGED <<clusters, incidents>>
      PROVE  Grows
  BY <1>1 DEF Grows, Listed, StoredIds, Stored
<1>2. ASSUME NEW r \in Report, Born(r), WriteIncident(r), UNCHANGED clusters
      PROVE  Grows
  BY <1>2, IncidentStatement DEF Grows, Listed, StoredIds, Stored
<1>3. ASSUME NEW r \in Report, Post(r)
      PROVE  Grows
  <2>1. Born(r)
    BY <1>0, <1>3, PostMoves
  <2>2. CASE UpsertCluster(r) \/ EnsureCluster(r)
    BY <2>1, <2>2, ClusterStatement
  <2>3. CASE Arrive(r) \/ Refuse(r) \/ StartAlert(r) \/ Accept(r)
    BY <1>1, <2>3 DEF Arrive, Refuse, StartAlert, Accept
  <2>4. CASE InsertIncident(r) \/ InsertRejected(r)
    BY <1>1, <1>2, <2>1, <2>4 DEF InsertIncident, InsertRejected
  <2> QED
    BY <1>3, <2>2, <2>3, <2>4 DEF Post
<1>4. ASSUME NEW i \in Id, NEW s \in Statuses, Patch(i, s)
      PROVE  Grows
  <2>1. UNCHANGED clusters
    BY <1>4, OtherSteps
  <2> QED
    BY <1>4, <2>1, PatchStatement DEF Grows, Listed, StoredIds, Stored
<1> QED
  BY <1>1, <1>3, <1>4, OtherSteps DEF Next

\* A stored incident stays that of its report, and a cluster once in the list of
\* clusters stays in it.
THEOREM RowsStay == Spec => FirstReportWins /\ ListedStaysListed
<1>1. ASSUME TypeInv, [Next]_vars
      PROVE  [\A i \in StoredIds : /\ incidents'[i] # NoRow
                                    /\ incidents'[i].report = incidents[i].report]_vars
  BY <1>1, StepGrows DEF Grows
<1>2. ASSUME TypeInv, [Next]_vars
      PROVE  [\A c \in Cluster : Listed(c) => Listed(c)']_vars
  BY <1>2, StepGrows DEF Grows
<1> QED
  BY <1>1, <1>2, TypeInvariant, PTL DEF Spec, FirstReportWins, ListedStaysListed

-----------------------------------------------------------------------------
(* The incident table.                                                     *)

\* r's handler inserts the row of its report under ID i.
Inserts(r, i) ==
  /\ InsertIncident(r) \/ InsertRejected(r)
  /\ request[r].step = "insert" /\ request[r].id = i
  /\ clusters[request[r].cluster] # NoRow
  /\ UNCHANGED <<clusters, alert>>
  /\ incidents'[i] = ReportedRow(r)

\* A row changes by a PATCH, or is new.
LEMMA RowSteps ==
  ASSUME TypeInv, [Next]_vars, NEW i \in Id
  PROVE  \/ incidents'[i] = incidents[i]
         \/ \E s \in Statuses : Patch(i, s)
         \/ ~Stored(i) /\ \E r \in Report : Inserts(r, i)
<1>0. TypeOK
  BY DEF TypeInv
<1>1. ASSUME NEW r \in Report, Post(r)
      PROVE  incidents'[i] = incidents[i] \/ (~Stored(i) /\ Inserts(r, i))
  <2>1. Born(r)
    BY <1>0, <1>1, PostMoves
  <2>2. CASE incidents' = incidents
    BY <2>2
  <2>3. CASE /\ InsertIncident(r) \/ InsertRejected(r)
             /\ ForeignKeyHolds(r) /\ WriteIncident(r)
    <3>1. \/ incidents'[i] = incidents[i]
          \/ i = request[r].id /\ ~Stored(i) /\ incidents'[i] = ReportedRow(r)
      BY <2>1, <2>3, IncidentStatement
    <3>2. request[r].step = "insert" /\ UNCHANGED <<clusters, alert>>
      BY <2>3 DEF InsertIncident, InsertRejected
    <3> QED
      BY <2>3, <3>1, <3>2 DEF Inserts, ForeignKeyHolds
  <2> QED
    BY <1>1, <2>2, <2>3 DEF Post, Arrive, Refuse, UpsertCluster, EnsureCluster, InsertIncident,
                            InsertRejected, StartAlert, Accept
<1>2. ASSUME NEW j \in Id, NEW s \in Statuses, Patch(j, s)
      PROVE  incidents'[i] = incidents[i] \/ Patch(i, s)
  BY <1>2, PatchStatement
<1>3. CASE UNCHANGED incidents
  BY <1>3
<1> QED
  BY <1>1, <1>2, <1>3, OtherSteps DEF Next

\* The handler is past its insert and has not refused the report.
PastInsert(r) == request[r].step \in {"alert", "answer", "over"} /\ request[r].answer # "4xx"

\* What a report says stays, and a handler past its insert does not go back.
LEMMA RequestsGoOn ==
  ASSUME TypeInv, [Next]_vars, NEW q \in Report, Born(q)
  PROVE  Carried(q) /\ (PastInsert(q) => PastInsert(q)')
<1>0. TypeOK
  BY DEF TypeInv
<1>1. ASSUME request'[q] = request[q]
      PROVE  Carried(q) /\ (PastInsert(q) => PastInsert(q)')
  BY <1>1 DEF Carried, Born, PastInsert
<1>2. ASSUME NEW r \in Report, Post(r)
      PROVE  Carried(q) /\ (PastInsert(q) => PastInsert(q)')
  <2>1. Carried(q) /\ (q # r => request'[q] = request[q])
    BY <1>0, <1>2, PostMoves DEF SameReports
  <2>2. q = r /\ PastInsert(r) => PastInsert(r)'
    BY <1>0, <1>2, PostMoves DEF Post, Moves, PastInsert
  <2> QED
    BY <1>1, <2>1, <2>2
<1>3. ASSUME NEW r \in Report, NEW c \in Cluster, Produce(r, c)
      PROVE  request'[q] = request[q]
  BY <1>0, <1>3, ProduceRequest
<1>4. ASSUME Crash
      PROVE  Carried(q) /\ (PastInsert(q) => PastInsert(q)')
  BY <1>0, <1>4, CrashRequest DEF SameReports, PastInsert
<1>5. ASSUME UNCHANGED request PROVE request'[q] = request[q]
  BY <1>5
<1>6. ASSUME NEW r \in Report, PostAlert(r) PROVE UNCHANGED request
  BY <1>6, OtherSteps
<1>7. ASSUME NEW i \in Id, NEW s \in Statuses, Patch(i, s) PROVE UNCHANGED request
  BY <1>7, OtherSteps
<1>8. UNCHANGED vars => UNCHANGED request
  BY OtherSteps
<1> QED
  BY <1>1, <1>2, <1>3, <1>4, <1>5, <1>6, <1>7, <1>8 DEF Next

\* A stored row repeats its report, whose handler put it there, and its cluster has a row.
RowInv ==
  \A i \in StoredIds :
    /\ incidents[i].report \in Report
    /\ Born(incidents[i].report) /\ PastInsert(incidents[i].report)
    /\ request[incidents[i].report].id = i
    /\ request[incidents[i].report].cluster = incidents[i].cluster
    /\ clusters[incidents[i].cluster] # NoRow

RowsInv == TypeInv /\ RowInv /\ ResolvedIffClosed

LEMMA RowTypes ==
  ASSUME TypeInv, NEW i \in StoredIds
  PROVE  /\ incidents[i] \in IncidentRow
         /\ incidents[i].report \in Report /\ incidents[i].cluster \in Cluster
  BY DEF TypeInv, TypeOK, StoredIds, Stored, IncidentRow

\* The handler that inserts r's row is past its insert afterwards.
LEMMA InsertsMove ==
  ASSUME TypeInv, NEW r \in Report, NEW i, Inserts(r, i)
  PROVE  Born(r) /\ Carried(r) /\ PastInsert(r)'
<1>1. TypeOK /\ Post(r)
  BY DEF TypeInv, Inserts, Post
<1>2. /\ Born(r) /\ Carried(r)
      /\ \/ Moves(r, "insert", "alert", request[r].answer)
         \/ Moves(r, "insert", "over", "500")
  BY <1>1, PostMoves DEF Inserts, SameReports
<1>3. request[r].answer = "none"
  BY DEF TypeInv, AnswerInv, Inserts
<1> QED
  BY <1>2, <1>3 DEF Moves, PastInsert

LEMMA RowsStep ==
  ASSUME RowsInv, [Next]_vars
  PROVE  RowInv' /\ ResolvedIffClosed'
<1>0. TypeInv /\ RowInv /\ ResolvedIffClosed /\ Grows
  BY StepGrows DEF RowsInv
<1> SUFFICES ASSUME NEW i \in Id, incidents'[i] # NoRow
             PROVE  /\ incidents'[i].report \in Report
                    /\ Born(incidents[i].report)' /\ PastInsert(incidents[i].report)'
                    /\ request'[incidents'[i].report].id = i
                    /\ request'[incidents'[i].report].cluster = incidents'[i].cluster
                    /\ clusters'[incidents'[i].cluster] # NoRow
                    /\ incidents'[i].resolved => incidents'[i].status \in Closing
                    /\ incidents'[i].status \in Closing /\ ~incidents'[i].resolved =>
                         incidents'[i].status = request'[incidents'[i].report].payload.status
  BY DEF RowInv, ResolvedIffClosed, StoredIds, Stored
<1>1. CASE i \in StoredIds
  <2>0. incidents[i].report \in Report /\ incidents[i].cluster \in Cluster
    BY <1>0, <1>1, RowTypes
  <2>1. PICK r \in Report : r = incidents[i].report
    BY <2>0
  <2>2. /\ Born(r)
        /\ incidents'[i].report = r
        /\ incidents'[i].cluster = incidents[i].cluster
        /\ clusters'[incidents[i].cluster] # NoRow
    BY <1>0, <1>1, <2>0, <2>1 DEF Grows, RowInv, Born
  <2>3. Carried(r) /\ (PastInsert(r) => PastInsert(r)')
    BY <1>0, <2>2, RequestsGoOn
  <2>4. incidents'[i] = incidents[i] \/ \E s \in Statuses : Patch(i, s)
    BY <1>0, <1>1, RowSteps DEF StoredIds
  <2>5. /\ incidents'[i].resolved => incidents'[i].status \in Closing
        /\ incidents'[i].status \in Closing /\ ~incidents'[i].resolved =>
             incidents'[i].status = request'[r].payload.status
    <3>1. CASE incidents'[i] = incidents[i]
      BY <1>0, <1>1, <2>1, <2>3, <3>1 DEF ResolvedIffClosed, Carried
    <3>2. ASSUME NEW s \in Statuses, Patch(i, s)
          PROVE  incidents'[i].status = s /\ incidents'[i].resolved = (s \in Closing)
      BY <1>0, <3>2, PatchStatement
    <3> QED
      BY <2>4, <3>1, <3>2
  <2>6. request[r].id = i /\ request[r].cluster = incidents[i].cluster /\ PastInsert(r)
    BY <1>0, <1>1, <2>1 DEF RowInv, PastInsert
  <2>7. /\ request'[r].id = i /\ request'[r].cluster = incidents[i].cluster
        /\ request'[r].step # "unborn"
    BY <2>2, <2>3, <2>6 DEF Carried, Born
  <2>8. PastInsert(incidents[i].report)' /\ Born(incidents[i].report)'
    BY <2>2, <2>3, <2>6, <2>7 DEF PastInsert, Born
  <2> QED
    BY <2>1, <2>2, <2>5, <2>7, <2>8
<1>2. CASE i \notin StoredIds
  <2>1. incidents[i] = NoRow /\ ~Stored(i)
    BY <1>2 DEF StoredIds, Stored
  <2>2. PICK r \in Report : Inserts(r, i)
    BY <1>0, <2>1, RowSteps DEF Patch
  <2>3. Born(r) /\ Carried(r) /\ PastInsert(r)'
    BY <1>0, <2>2, InsertsMove
  <2>4. incidents'[i] = ReportedRow(r) /\ request[r].id = i
        /\ clusters'[request[r].cluster] # NoRow
    BY <2>2 DEF Inserts
  <2>5. /\ ReportedRow(r).report = r /\ ReportedRow(r).cluster = request[r].cluster
        /\ ~ReportedRow(r).resolved
        /\ ReportedRow(r).status \in Closing =>
             ReportedRow(r).status = request[r].payload.status
    BY DEF ReportedRow, Closing
  <2> QED
    BY <2>3, <2>4, <2>5 DEF Carried, Born, PastInsert
<1> QED
  BY <1>1, <1>2

LEMMA RowsInvariant == Spec => []RowsInv
<1>1. Init => RowInv /\ ResolvedIffClosed
  BY DEF Init, RowInv, ResolvedIffClosed, StoredIds, Stored
<1>2. TypeInv /\ RowInv /\ ResolvedIffClosed /\ [Next]_vars => RowInv' /\ ResolvedIffClosed'
  BY RowsStep DEF RowsInv
<1> QED
  BY <1>1, <1>2, TypeInvariant, PTL DEF Spec, RowsInv

\* Every stored incident has its cluster's row and the ID and cluster of its report.
THEOREM RowsTheorem == Spec => []RowsAreReports
<1>1. RowsInv => RowsAreReports
  BY DEF RowsInv, RowInv, RowsAreReports
<1> QED
  BY <1>1, RowsInvariant, PTL

\* An incident has a resolution time only while it is closed, and a closed one lacks it
\* only if nobody has set its status since it was posted closed.
THEOREM ResolutionTheorem == Spec => []ResolvedIffClosed
<1>1. RowsInv => ResolvedIffClosed
  BY DEF RowsInv
<1> QED
  BY <1>1, RowsInvariant, PTL

-----------------------------------------------------------------------------
(* The handlers of POST /api/v1/incidents.                                 *)

\* A reason for r's cluster not to be listed.
Excused(r) == request[r].failed \/ request[r].payload.snapshot \in {"garbled", "foreign"}

Announced(r) == alert[r] # "none"

\* What the handler of r has done so far, and what its next step finds.
HandlerAt(r) ==
  /\ request[r].step = "insert" => clusters[request[r].cluster] # NoRow \/ request[r].failed
  /\ request[r].step \in {"ensure", "insert"} => Listed(request[r].cluster) \/ Excused(r)
  /\ request[r].answer = "500" => request[r].failed
  /\ Announced(r) => request[r].step \in {"answer", "over"} /\ request[r].answer \in {"none", "201"}
  /\ request[r].payload.urgent /\ (request[r].step = "answer" \/ request[r].answer = "201") =>
       Announced(r)

HandlersInv == \A r \in Report : HandlerAt(r)

\* Announcing starts in StartAlert and is never taken back.
LEMMA AlertSteps ==
  ASSUME TypeOK, [Next]_vars, NEW q \in Report
  PROVE  \/ (Announced(q)' <=> Announced(q))
         \/ StartAlert(q) /\ Announced(q)'
<1>0. alert \in [Report -> AlertStates]
  BY DEF TypeOK
<1>1. ASSUME NEW r \in Report, StartAlert(r)
      PROVE  (Announced(q)' <=> Announced(q)) \/ (StartAlert(q) /\ Announced(q)')
  BY <1>0, <1>1 DEF StartAlert, Announce, Announced
<1>2. ASSUME NEW r \in Report, PostAlert(r)
      PROVE  Announced(q)' <=> Announced(q)
  BY <1>0, <1>2 DEF PostAlert, Announced
<1>3. ASSUME Crash
      PROVE  Announced(q)' <=> Announced(q)
  BY <1>0, <1>3 DEF Crash, Announced
<1>4. ASSUME UNCHANGED alert
      PROVE  Announced(q)' <=> Announced(q)
  BY <1>4 DEF Announced
<1>5. ASSUME NEW r \in Report, Post(r), ~StartAlert(r)
      PROVE  UNCHANGED alert
  BY <1>5 DEF Post, Arrive, Refuse, UpsertCluster, EnsureCluster, InsertIncident,
              InsertRejected, Accept
<1>6. ASSUME NEW r \in Report, NEW c \in Cluster, Produce(r, c) PROVE UNCHANGED alert
  BY <1>6, OtherSteps
<1>7. ASSUME NEW i \in Id, NEW s \in Statuses, Patch(i, s) PROVE UNCHANGED alert
  BY <1>7, OtherSteps
<1>8. UNCHANGED vars => UNCHANGED alert
  BY OtherSteps
<1> QED
  BY <1>1, <1>2, <1>3, <1>4, <1>5, <1>6, <1>7, <1>8 DEF Next

\* A produced report that a step leaves where it is, or cuts off, stays as it should be.
LEMMA OthersKept ==
  ASSUME TypeInv, NEW q \in Report, HandlerAt(q), Grows, Born(q), Carried(q),
         request'[q].answer = request[q].answer,
         request'[q].step = request[q].step \/ request'[q].step = "over",
         Announced(q)' <=> Announced(q)
  PROVE  HandlerAt(q)'
<1>1. request[q].cluster \in Cluster
  BY DEF TypeInv, ReportInv
<1>2. /\ clusters[request[q].cluster] # NoRow => clusters'[request[q].cluster] # NoRow
      /\ Listed(request[q].cluster) => Listed(request[q].cluster)'
  <2>1. Listed(request[q].cluster)' <=> /\ clusters'[request'[q].cluster] # NoRow
                                         /\ clusters'[request'[q].cluster].complete
    BY DEF Listed
  <2> QED
    BY <1>1, <2>1 DEF Grows, Listed, Carried
<1>3. Excused(q) => Excused(q)'
  BY DEF Excused, Carried
<1> QED
  BY <1>2, <1>3 DEF HandlerAt, Carried

\* Every step of the handler of r leaves it with what the next one needs.
LEMMA PostKept ==
  ASSUME TypeInv, NEW r \in Report, HandlerAt(r), Post(r), Grows
  PROVE  HandlerAt(r)'
<1>0. /\ TypeOK /\ Born(r) /\ Carried(r)
      /\ request[r].answer = "none" \/ request[r].step = "over"
  <2>1. Born(r) /\ Carried(r)
    BY PostMoves DEF TypeInv, SameReports
  <2> QED
    BY <2>1 DEF TypeInv, AnswerInv
<1>1. request[r].cluster \in Cluster /\ request[r].names \in Cluster
  BY <1>0 DEF TypeInv, ReportInv
<1>2. Excused(r) => Excused(r)'
  BY <1>0 DEF Excused, Carried
<1>3. (Announced(r)' <=> Announced(r)) \/ StartAlert(r)
  BY <1>0, AlertSteps DEF Next
<1>4. /\ Listed(request[r].cluster)' <=> /\ clusters'[request'[r].cluster] # NoRow
                                          /\ clusters'[request'[r].cluster].complete
      /\ Listed(request[r].names)' <=> /\ clusters'[request'[r].names] # NoRow
                                        /\ clusters'[request'[r].names].complete
      /\ Listed(request[r].cluster) => Listed(request[r].cluster)'
  <2>1. /\ Listed(request[r].cluster)' <=> /\ clusters'[request'[r].cluster] # NoRow
                                            /\ clusters'[request'[r].cluster].complete
        /\ Listed(request[r].names)' <=> /\ clusters'[request'[r].names] # NoRow
                                          /\ clusters'[request'[r].names].complete
    BY DEF Listed
  <2> QED
    BY <1>0, <1>1, <2>1 DEF Grows, Listed, Carried
<1>5. CASE Arrive(r)
  <2>1. Moves(r, "sent", "upsert", request[r].answer) /\ ~StartAlert(r)
    BY <1>0, <1>5, PostMoves DEF Post, Arrive, StartAlert
  <2> QED
    BY <1>0, <1>3, <2>1 DEF Moves, HandlerAt
<1>6. CASE Refuse(r)
  <2>1. Moves(r, "sent", "over", "4xx") /\ ~StartAlert(r)
    BY <1>0, <1>6, PostMoves DEF Post, Refuse, StartAlert
  <2> QED
    BY <1>0, <1>3, <2>1 DEF Moves, HandlerAt
<1>7. CASE UpsertCluster(r)
  <2>1. Moves(r, "upsert", "ensure", request[r].answer) /\ ~StartAlert(r)
    BY <1>0, <1>7, PostMoves DEF Post, UpsertCluster, StartAlert
  <2>2. \/ Listed(request[r].names)' \/ request'[r].failed
        \/ request[r].payload.snapshot = "garbled"
    BY <1>0, <1>7, ClusterStatement
  <2>3. request'[r].names = request'[r].cluster \/ request'[r].payload.snapshot = "foreign"
    BY <1>0 DEF TypeInv, ReportInv, Carried
  <2>4. Listed(request[r].cluster)' \/ Excused(r)'
    BY <1>0, <1>4, <2>2, <2>3 DEF Excused, Carried
  <2> QED
    BY <1>0, <1>3, <2>1, <2>4 DEF Moves, HandlerAt
<1>8. CASE EnsureCluster(r)
  <2>1. Moves(r, "ensure", "insert", request[r].answer) /\ ~StartAlert(r)
    BY <1>0, <1>8, PostMoves DEF Post, EnsureCluster, StartAlert
  <2>2. clusters'[request'[r].cluster] # NoRow \/ request'[r].failed
    BY <1>0, <1>8, ClusterStatement DEF Carried
  <2>3. Listed(request[r].cluster)' \/ Excused(r)'
    BY <1>2, <1>4, <2>1 DEF Moves, HandlerAt
  <2> QED
    BY <1>0, <1>3, <2>1, <2>2, <2>3 DEF Moves, HandlerAt
<1>9. CASE InsertIncident(r)
  <2>1. Moves(r, "insert", "alert", request[r].answer) /\ ~StartAlert(r)
    BY <1>0, <1>9, PostMoves DEF Post, InsertIncident, StartAlert
  <2> QED
    BY <1>0, <1>3, <2>1 DEF Moves, HandlerAt
<1>10. CASE InsertRejected(r)
  <2>1. Moves(r, "insert", "over", "500") /\ ~StartAlert(r)
    BY <1>0, <1>10, PostMoves DEF Post, InsertRejected, StartAlert
  <2>2. request'[r].failed
    <3>1. Reject(r, TRUE) => request'[r].failed
      BY <1>0 DEF Reject, TypeOK, RequestType
    <3>2. ~ForeignKeyHolds(r) => request[r].failed
      BY <2>1 DEF ForeignKeyHolds, HandlerAt, Moves
    <3> QED
      BY <1>0, <1>10, <3>1, <3>2 DEF InsertRejected, Carried
  <2> QED
    BY <1>0, <1>3, <2>1, <2>2 DEF Moves, HandlerAt
<1>11. CASE StartAlert(r)
  <2>1. Moves(r, "alert", "answer", request[r].answer)
    BY <1>0, <1>11, PostMoves DEF Post
  <2>2. request[r].payload.urgent => Announced(r)'
    BY <1>0, <1>11 DEF StartAlert, Announce, Announced, TypeOK, AlertStates
  <2> QED
    BY <1>0, <2>1, <2>2 DEF Moves, HandlerAt, Carried
<1>12. CASE Accept(r)
  <2>1. Moves(r, "answer", "over", "201") /\ ~StartAlert(r)
    BY <1>0, <1>12, PostMoves DEF Post, Accept, StartAlert
  <2> QED
    BY <1>0, <1>3, <2>1 DEF Moves, HandlerAt, Carried
<1> QED
  BY <1>5, <1>6, <1>7, <1>8, <1>9, <1>10, <1>11, <1>12 DEF Post

LEMMA HandlersStep ==
  ASSUME TypeInv, HandlersInv, [Next]_vars
  PROVE  HandlersInv'
<1>0. TypeOK /\ Grows /\ \A q \in Report : HandlerAt(q)
  BY StepGrows DEF TypeInv, HandlersInv
<1> SUFFICES ASSUME NEW q \in Report PROVE HandlerAt(q)'
  BY DEF HandlersInv
<1>1. ASSUME ~Born(q), request'[q] = request[q], ~StartAlert(q)
      PROVE  HandlerAt(q)'
  <2>1. Announced(q)' <=> Announced(q)
    BY <1>0, <1>1, AlertSteps
  <2> QED
    BY <1>0, <1>1, <2>1 DEF HandlerAt, Born
<1>2. ASSUME request'[q] = request[q], ~StartAlert(q)
      PROVE  HandlerAt(q)'
  <2>1. Announced(q)' <=> Announced(q)
    BY <1>0, <1>2, AlertSteps
  <2>2. CASE Born(q)
    <3>1. Carried(q)
      BY <1>2 DEF Carried, Born
    <3> QED
      BY <1>0, <1>2, <2>1, <2>2, <3>1, OthersKept
  <2>3. CASE ~Born(q)
    BY <1>1, <1>2, <2>3
  <2> QED
    BY <2>2, <2>3
<1>3. ASSUME NEW r \in Report, Post(r)
      PROVE  HandlerAt(q)'
  <2>1. CASE q = r
    BY <1>0, <1>3, <2>1, PostKept
  <2>2. CASE q # r
    <3>1. request'[q] = request[q]
      BY <1>0, <1>3, <2>2, PostMoves
    <3>2. CASE StartAlert(q)
      <4>1. Moves(q, "alert", "answer", request[q].answer)
        BY <1>0, <3>2, PostMoves DEF Post
      <4> QED
        BY <3>1, <4>1 DEF Moves
    <3> QED
      BY <1>2, <3>1, <3>2
  <2> QED
    BY <2>1, <2>2
<1>4. ASSUME NEW r \in Report, NEW c \in Cluster, Produce(r, c)
      PROVE  HandlerAt(q)'
  <2>1. ~StartAlert(q)
    <3>1. ASSUME StartAlert(q) PROVE FALSE
      <4>1. Moves(q, "alert", "answer", request[q].answer)
            /\ \A p \in Report : p # q => request'[p] = request[p]
        BY <1>0, <3>1, PostMoves DEF Post
      <4> QED
        BY <1>0, <1>4, <4>1, ProduceRequest DEF Moves, Born
    <3> QED
      BY <3>1
  <2>2. CASE q # r
    <3>1. request'[q] = request[q]
      BY <1>0, <1>4, <2>2, ProduceRequest
    <3> QED
      BY <1>2, <2>1, <3>1
  <2>3. CASE q = r
    <3>1. request'[q].answer = "none" /\ request'[q].step = "sent" /\ ~Born(q)
      BY <1>0, <1>4, <2>3, ProduceRequest
    <3>2. ~Announced(q)'
      BY <1>0, <2>1, <3>1, AlertSteps DEF HandlerAt, Born
    <3> QED
      BY <3>1, <3>2 DEF HandlerAt
  <2> QED
    BY <2>2, <2>3
<1>5. ASSUME Crash
      PROVE  HandlerAt(q)'
  <2>1. /\ Carried(q) /\ request'[q].answer = request[q].answer
        /\ request'[q] = request[q] \/ request'[q].step = "over"
    BY <1>0, <1>5, CrashRequest DEF SameReports
  <2>2. Announced(q)' <=> Announced(q)
    BY <1>0, <1>5 DEF Crash, Announced, TypeOK
  <2>3. CASE Born(q)
    BY <1>0, <2>1, <2>2, <2>3, OthersKept
  <2>4. CASE ~Born(q)
    <3>1. request'[q] = request[q]
      BY <1>5, <2>4 DEF Crash, Born, InHandler
    <3> QED
      BY <1>0, <2>2, <2>4, <3>1 DEF HandlerAt, Born
  <2> QED
    BY <2>3, <2>4
<1>6. ASSUME UNCHANGED request
      PROVE  HandlerAt(q)'
  <2>1. ~StartAlert(q)
    BY <1>0, <1>6, PostMoves DEF Post, Moves
  <2> QED
    BY <1>2, <1>6, <2>1
<1>7. ASSUME NEW r \in Report, PostAlert(r) PROVE UNCHANGED request
  BY <1>7, OtherSteps
<1>8. ASSUME NEW i \in Id, NEW s \in Statuses, Patch(i, s) PROVE UNCHANGED request
  BY <1>8, OtherSteps
<1>9. UNCHANGED vars => UNCHANGED request
  BY OtherSteps
<1> QED
  BY <1>3, <1>4, <1>5, <1>6, <1>7, <1>8, <1>9 DEF Next

LEMMA UnlistedStep ==
  ASSUME RowsInv, HandlersInv, UnlistedOnlyByFault, [Next]_vars
  PROVE  UnlistedOnlyByFault'
<1>0. TypeInv /\ Grows
  BY StepGrows DEF RowsInv
<1> SUFFICES ASSUME NEW i \in Id, incidents'[i] # NoRow,
                    clusters'[incidents'[i].cluster] = NoRow
                      \/ ~clusters'[incidents'[i].cluster].complete
             PROVE  \/ request'[incidents'[i].report].failed
                    \/ request'[incidents'[i].report].payload.snapshot \in {"garbled", "foreign"}
  BY DEF UnlistedOnlyByFault, StoredIds, Stored, Listed
<1>1. CASE i \in StoredIds
  <2>0. incidents[i].report \in Report /\ incidents[i].cluster \in Cluster
    BY <1>0, <1>1, RowTypes
  <2>1. PICK r \in Report, c \in Cluster : r = incidents[i].report /\ c = incidents[i].cluster
    BY <2>0
  <2>2. incidents'[i].report = r /\ incidents'[i].cluster = c /\ Born(r)
    BY <1>0, <1>1, <2>1 DEF Grows, RowsInv, RowInv, Born
  <2>3. ~Listed(c)
    BY <1>0, <2>2 DEF Grows, Listed
  <2>4. request[r].failed \/ request[r].payload.snapshot \in {"garbled", "foreign"}
    BY <1>1, <2>1, <2>3 DEF UnlistedOnlyByFault
  <2>5. Carried(r)
    BY <1>0, <2>2, RequestsGoOn
  <2> QED
    BY <2>2, <2>4, <2>5 DEF Carried
<1>2. CASE i \notin StoredIds
  <2>1. incidents[i] = NoRow /\ ~Stored(i)
    BY <1>2 DEF StoredIds, Stored
  <2>2. PICK r \in Report : Inserts(r, i)
    BY <1>0, <2>1, RowSteps DEF Patch
  <2>3. incidents'[i].report = r /\ incidents'[i].cluster = request[r].cluster
        /\ UNCHANGED clusters /\ request[r].step = "insert"
    <3>1. ReportedRow(r).report = r /\ ReportedRow(r).cluster = request[r].cluster
      BY DEF ReportedRow
    <3> QED
      BY <2>2, <3>1 DEF Inserts
  <2>4. ~Listed(request[r].cluster)
    BY <2>3 DEF Listed
  <2>5. Excused(r)
    BY <2>3, <2>4 DEF HandlersInv, HandlerAt
  <2>6. Carried(r)
    BY <1>0, <2>2, InsertsMove
  <2> QED
    BY <2>3, <2>5, <2>6 DEF Excused, Carried
<1> QED
  BY <1>1, <1>2

HubInv == RowsInv /\ HandlersInv /\ UnlistedOnlyByFault

LEMMA HubInvariant == Spec => []HubInv
<1>1. Init => HandlersInv /\ UnlistedOnlyByFault
  <2> SUFFICES ASSUME Init PROVE HandlersInv /\ UnlistedOnlyByFault
    OBVIOUS
  <2>1. UnlistedOnlyByFault
    BY DEF Init, UnlistedOnlyByFault, StoredIds, Stored
  <2>2. \A r \in Report : /\ request[r].step = "unborn" /\ request[r].answer = "none"
                          /\ ~Announced(r)
    BY DEF Init, NotBorn, Announced
  <2> QED
    BY <2>1, <2>2 DEF HandlersInv, HandlerAt
<1>2. RowsInv /\ HandlersInv /\ UnlistedOnlyByFault /\ [Next]_vars =>
        HandlersInv' /\ UnlistedOnlyByFault'
  BY HandlersStep, UnlistedStep DEF RowsInv
<1> QED
  BY <1>1, <1>2, RowsInvariant, PTL DEF Spec, HubInv

\* A report is turned down with "store error" only if a statement of its own handler
\* failed; and a cluster with incidents is missing from the list of clusters only if each
\* of their handlers had a failing statement, or a snapshot of another cluster or of none.
THEOREM FaultsTheorem == Spec => [](RejectedOnlyByFault /\ UnlistedOnlyByFault)
<1>1. HubInv => RejectedOnlyByFault /\ UnlistedOnlyByFault
  BY DEF HubInv, HandlersInv, HandlerAt, RejectedOnlyByFault
<1> QED
  BY <1>1, HubInvariant, PTL

\* A stored SEV1/SEV2 incident that no message was started for is one whose handler was
\* cut off or told of a failure; no message is started for a report turned down.
THEOREM AlertTheorem == Spec => []SilentOnlyByFault
<1>1. HubInv => SilentOnlyByFault
  <2> SUFFICES ASSUME HubInv, NEW r \in Report
               PROVE  /\ LeftBehind(r) /\ request[r].payload.urgent /\ alert[r] = "none" =>
                           request[r].answer = "none"
                             \/ (request[r].answer = "500" /\ request[r].failed)
                      /\ alert[r] # "none" => ~(request[r].answer \in {"4xx", "500"})
    BY DEF SilentOnlyByFault
  <2>1. HandlerAt(r) /\ request[r].answer \in Answers
    BY DEF HubInv, HandlersInv, RowsInv, TypeInv, TypeOK, RequestType
  <2>2. LeftBehind(r) => request[r].answer # "4xx"
    BY DEF HubInv, RowsInv, RowInv, LeftBehind, PastInsert
  <2> QED
    BY <2>1, <2>2 DEF HandlerAt, Announced, Answers
<1> QED
  BY <1>1, HubInvariant, PTL

-----------------------------------------------------------------------------
(* Nothing accepted is lost, unless its ID repeats.                        *)

\* A row under the ID of a report that shares it with no other is the row of that report.
LEMMA OwnRow ==
  ASSUME RowsInv, NEW r \in Report, OwnsId(r), request[r].id \in Id, Stored(request[r].id)
  PROVE  incidents[request[r].id].report = r
  BY DEF RowsInv, RowInv, StoredIds, OwnsId, Born

\* The insert of r has been made, as far as the handler knows.
Kept(r) ==
  request[r].step \in {"alert", "answer"} \/ request[r].answer = "201" \/ Announced(r)

InsertedInv == \A r \in Report : Kept(r) => Born(r) /\ Stored(request[r].id)

LEMMA InsertedStep ==
  ASSUME HubInv, InsertedInv, [Next]_vars
  PROVE  InsertedInv'
<1>0. /\ TypeInv /\ TypeOK /\ Grows
      /\ \A r \in Report : Born(r) => request[r].id \in Id
  BY StepGrows DEF HubInv, RowsInv, TypeInv, ReportInv
<1> SUFFICES ASSUME NEW q \in Report, Kept(q)'
             PROVE  Born(q)' /\ incidents'[request'[q].id] # NoRow
  BY DEF InsertedInv, Stored
<1>1. ASSUME Kept(q)
      PROVE  Born(q)' /\ incidents'[request'[q].id] # NoRow
  <2>1. Born(q) /\ Stored(request[q].id) /\ request[q].id \in Id
    BY <1>0, <1>1 DEF InsertedInv
  <2>2. Carried(q)
    BY <1>0, <2>1, RequestsGoOn
  <2> QED
    BY <1>0, <2>1, <2>2 DEF Carried, Grows, StoredIds
<1>2. ASSUME ~Kept(q)
      PROVE  Born(q)' /\ incidents'[request'[q].id] # NoRow
  <2>1. CASE InsertIncident(q)
    <3>1. Born(q) /\ Carried(q)
      BY <1>0, <2>1, PostMoves DEF Post, SameReports
    <3>2. incidents'[request[q].id] # NoRow
      BY <1>0, <2>1, <3>1, IncidentStatement DEF InsertIncident
    <3> QED
      BY <3>1, <3>2 DEF Carried
  <2>2. CASE ~InsertIncident(q)
    <3>1. ~StartAlert(q) /\ ~Accept(q)
      BY <1>2 DEF StartAlert, Accept, Kept
    <3>2. ~Announced(q)'
      BY <1>0, <1>2, <3>1, AlertSteps DEF Kept
    <3>3. ASSUME request'[q] = request[q] PROVE FALSE
      BY <1>2, <3>2, <3>3 DEF Kept
    <3>4. ASSUME NEW r \in Report, Post(r) PROVE FALSE
      <4>1. q = r
        BY <1>0, <3>3, <3>4, PostMoves
      <4>2. /\ request'[q].step \in {"upsert", "ensure", "insert", "over"}
            /\ request'[q].answer \in {request[q].answer, "4xx", "500"}
        BY <1>0, <2>2, <3>1, <3>4, <4>1, PostMoves DEF Post, Moves
      <4> QED
        BY <1>2, <3>2, <4>2 DEF Kept
    <3>5. ASSUME NEW r \in Report, NEW c \in Cluster, Produce(r, c) PROVE FALSE
      <4>1. q = r
        BY <1>0, <3>3, <3>5, ProduceRequest
      <4> QED
        BY <1>0, <3>2, <3>5, <4>1, ProduceRequest DEF Kept
    <3>6. ~Crash
      <4> SUFFICES ASSUME Crash PROVE FALSE
        OBVIOUS
      <4>1. request'[q].answer = request[q].answer
            /\ (request'[q] = request[q] \/ request'[q].step = "over")
        BY <1>0, CrashRequest
      <4> QED
        BY <1>2, <3>2, <4>1 DEF Kept
    <3>7. ASSUME UNCHANGED request PROVE FALSE
      BY <3>3, <3>7
    <3>8. ASSUME NEW r \in Report, PostAlert(r) PROVE FALSE
      BY <3>7, <3>8, OtherSteps
    <3>9. ASSUME NEW i \in Id, NEW s \in Statuses, Patch(i, s) PROVE FALSE
      BY <3>7, <3>9, OtherSteps
    <3>10. ~UNCHANGED vars
      BY <3>7, OtherSteps
    <3> QED
      BY <3>4, <3>5, <3>6, <3>8, <3>9, <3>10 DEF Next
  <2> QED
    BY <2>1, <2>2
<1> QED
  BY <1>1, <1>2

\* An accepted report has a row under its ID, and so has one that was announced; it is
\* its own row unless another report was given that ID, whatever statements fail and
\* wherever the hub crashes.
THEOREM AcceptedIsKept == Spec => [](AckedIsStored /\ AlertIsForItsIncident)
<1>1. Init => InsertedInv
  BY DEF Init, NotBorn, InsertedInv, Kept, Announced
<1>2. HubInv /\ InsertedInv /\ [Next]_vars => InsertedInv'
  BY InsertedStep
<1>3. HubInv /\ InsertedInv => AckedIsStored /\ AlertIsForItsIncident
  <2> SUFFICES ASSUME HubInv, InsertedInv PROVE AckedIsStored /\ AlertIsForItsIncident
    OBVIOUS
  <2>1. ASSUME NEW r \in Report, Kept(r)
        PROVE  /\ Stored(request[r].id)
               /\ OwnsId(r) => incidents[request[r].id].report = r
    <3>1. Born(r) /\ Stored(request[r].id)
      BY <2>1 DEF InsertedInv
    <3>2. request[r].id \in Id
      BY <3>1 DEF HubInv, RowsInv, TypeInv, ReportInv
    <3> QED
      BY <3>1, <3>2, OwnRow DEF HubInv
  <2> QED
    BY <2>1 DEF AckedIsStored, AlertIsForItsIncident, Kept, Announced
<1> QED
  BY <1>1, <1>2, <1>3, HubInvariant, PTL DEF Spec
=============================================================================
