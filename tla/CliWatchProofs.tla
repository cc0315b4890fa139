--------------------------- MODULE CliWatchProofs ---------------------------
(***************************************************************************)
(* Theorems of CliWatch for every list of namespaces, every finite cluster *)
(* and every backoff table: the types, which carry the consistency of the  *)
(* figures, and that a snapshot of a cluster at rest is exact.             *)
(***************************************************************************)
EXTENDS CliWatch, FiniteSetTheorems, TLAPS

\* What is proved of any pipeline, for clarctl's: the same instance as Pipe.
Scans == INSTANCE ScanPipelineProofs WITH Stages <- CliStages, Reads <- CliReads

\* The namespaces that ListPods has been through when it is at the k-th.
Before(k) == {Namespaces[j] : j \in 1 .. k - 1}

\* Where CollectSnapshot is, and that its locals are gone when it is not called.
CollectInv ==
  /\ at = "snapshot" => got.next <= Len(Namespaces)
  /\ at = "store" => got.next = Len(Namespaces) + 1
  /\ at \notin {"snapshot", "store"} => got = Nothing

TypeInv == TypeOK /\ Scans!ScanInv /\ CollectInv

\* What has been counted so far is what the cluster has, if it has not changed since.
CountedInv ==
  got.next >= 1 /\ ~changed =>
    got.figures = CountPods(cluster, PodsIn(cluster, Before(got.next)), CountNodes(cluster))

\* No namespace is configured twice.
NamespacesDiffer ==
  \A i, j \in 1 .. Len(Namespaces) : Namespaces[i] = Namespaces[j] => i = j

Inv == TypeInv /\ CountedInv

-----------------------------------------------------------------------------
(* The constants.                                                          *)

LEMMA NameCount == Len(Namespaces) \in Nat /\ Len(Namespaces) >= 1
  BY NamespacesAssumption

\* The assumptions of ScanPipeline hold of clarctl's stages, reads and retries.
LEMMA ScansApply ==
  /\ Len(CliStages) \in Nat /\ Len(CliStages) >= 2
  /\ CliReads \in Seq({"required", "pods", "extra"}) /\ Len(CliReads) >= 1
  /\ MaxRetries \in Nat \ {0}
  /\ Backoffs \in Seq(Nat) /\ Len(Backoffs) >= MaxRetries
<1> DEFINE Kinds == {"required", "pods", "extra"}
<1>1. Len(CliStages) = 7
  BY DEF CliStages
<1>2. PodReads \in Seq(Kinds) /\ Len(PodReads) = Len(Namespaces)
  BY NameCount DEF PodReads
<1>3. ContextReads \in Seq(Kinds) /\ Len(ContextReads) = 3
  BY DEF ContextReads
<1>4. \A a, b \in Seq(Kinds) : a \o b \in Seq(Kinds) /\ Len(a \o b) = Len(a) + Len(b)
  OBVIOUS
<1>5. CliReads \in Seq(Kinds) /\ Len(CliReads) >= 1
  <2> HIDE DEF Kinds
  <2> QED
    BY <1>2, <1>3, <1>4, NameCount DEF CliReads
<1> QED
  BY <1>1, <1>5, RetriesAssumption, BackoffsAssumption

-----------------------------------------------------------------------------
(* The figures.                                                            *)

LEMMA PartsAreFinite ==
  ASSUME NEW S, IsFiniteSet(S), NEW T \in SUBSET S
  PROVE  /\ IsFiniteSet(T)
         /\ Cardinality(T) \in Nat
         /\ Cardinality(T) <= Cardinality(S)
         /\ Cardinality(S) \in Nat
<1>1. IsFiniteSet(T) /\ Cardinality(T) <= Cardinality(S)
  BY FS_Subset
<1>2. Cardinality(T) \in Nat
  BY <1>1, FS_CardinalityType
<1>3. Cardinality(S) \in Nat
  BY FS_CardinalityType
<1> QED
  BY <1>1, <1>2, <1>3

LEMMA DisjointCount ==
  ASSUME NEW S, IsFiniteSet(S), NEW T, IsFiniteSet(T), S \cap T = {}
  PROVE  Cardinality(S \cup T) = Cardinality(S) + Cardinality(T)
<1>1. Cardinality(S \cup T) = Cardinality(S) + Cardinality(T) - Cardinality(S \cap T)
  BY FS_Union
<1>2. Cardinality(S \cap T) = 0
  BY FS_EmptySet
<1>3. Cardinality(S) \in Nat /\ Cardinality(T) \in Nat
  BY FS_CardinalityType
<1> QED
  BY <1>1, <1>2, <1>3

\* Three disjoint parts of a finite set.
LEMMA ThreeParts ==
  ASSUME NEW S, IsFiniteSet(S),
         NEW A \in SUBSET S, NEW B \in SUBSET S, NEW C \in SUBSET S,
         A \cap B = {}, (A \cup B) \cap C = {}
  PROVE  Cardinality(A) + Cardinality(B) + Cardinality(C) <= Cardinality(S)
<1>1. IsFiniteSet(A) /\ IsFiniteSet(B) /\ IsFiniteSet(C) /\ IsFiniteSet(A \cup B)
  BY PartsAreFinite
<1>2. Cardinality(A \cup B) = Cardinality(A) + Cardinality(B)
  BY <1>1, DisjointCount
<1>3. Cardinality((A \cup B) \cup C) = Cardinality(A \cup B) + Cardinality(C)
  BY <1>1, DisjointCount
<1>4. Cardinality((A \cup B) \cup C) <= Cardinality(S)
  <2>1. (A \cup B) \cup C \in SUBSET S
    OBVIOUS
  <2> QED
    BY <2>1, PartsAreFinite
<1> QED
  BY <1>2, <1>3, <1>4

\* The counts of a set of pods, and the bound on the phases.
LEMMA PodCounts ==
  ASSUME NEW w \in World, NEW pods \in SUBSET Pod
  PROVE  /\ IsFiniteSet(pods)
         /\ Cardinality(pods) \in Nat
         /\ \A phase \in Phases : InPhase(w, pods, phase) \in Nat
         /\ Crashing(w, pods) \in Nat
         /\ Crashing(w, pods) <= Cardinality(pods)
         /\ InPhase(w, pods, "Running") + InPhase(w, pods, "Pending")
              + InPhase(w, pods, "Failed") <= Cardinality(pods)
<1>1. IsFiniteSet(pods) /\ Cardinality(pods) \in Nat
  BY ClusterAssumption, PartsAreFinite
<1>2. ASSUME NEW phase \in Phases
      PROVE  InPhase(w, pods, phase) \in Nat
  <2>1. {p \in pods : w.pods[p].phase = phase} \in SUBSET pods
    OBVIOUS
  <2> QED
    BY <1>1, <2>1, PartsAreFinite DEF InPhase
<1>3. Crashing(w, pods) \in Nat /\ Crashing(w, pods) <= Cardinality(pods)
  <2>1. {p \in pods : w.pods[p].waiting = "CrashLoopBackOff"} \in SUBSET pods
    OBVIOUS
  <2> QED
    BY <1>1, <2>1, PartsAreFinite DEF Crashing
<1>4. InPhase(w, pods, "Running") + InPhase(w, pods, "Pending")
        + InPhase(w, pods, "Failed") <= Cardinality(pods)
  <2> DEFINE P(phase) == {p \in pods : w.pods[p].phase = phase}
  <2>1. /\ P("Running") \in SUBSET pods
        /\ P("Pending") \in SUBSET pods
        /\ P("Failed") \in SUBSET pods
        /\ P("Running") \cap P("Pending") = {}
        /\ (P("Running") \cup P("Pending")) \cap P("Failed") = {}
    OBVIOUS
  <2>2. Cardinality(P("Running")) + Cardinality(P("Pending")) + Cardinality(P("Failed"))
          <= Cardinality(pods)
    <3> HIDE DEF P
    <3> QED
      BY <1>1, <2>1, ThreeParts
  <2> QED
    BY <2>2 DEF InPhase
<1> QED
  BY <1>1, <1>2, <1>3, <1>4

\* What CountPods does to each figure.
LEMMA CountedFigures ==
  ASSUME NEW w \in World, NEW pods \in SUBSET Pod, NEW f \in Figures
  PROVE  LET g == CountPods(w, pods, f) IN
         /\ g \in Figures
         /\ g.nodes = f.nodes
         /\ g.ready = f.ready
         /\ g.pods = f.pods + Cardinality(pods)
         /\ g.running = f.running + InPhase(w, pods, "Running")
         /\ g.pending = f.pending + InPhase(w, pods, "Pending")
         /\ g.failed = f.failed + InPhase(w, pods, "Failed")
         /\ g.crashloop = f.crashloop + Crashing(w, pods)
<1> DEFINE n == Cardinality(pods)
           r == InPhase(w, pods, "Running")
           q == InPhase(w, pods, "Pending")
           x == InPhase(w, pods, "Failed")
           c == Crashing(w, pods)
<1>1. n \in Nat /\ r \in Nat /\ q \in Nat /\ x \in Nat /\ c \in Nat
  BY PodCounts DEF Phases
<1>2. CountPods(w, pods, f) =
        [f EXCEPT !.pods = @ + n, !.running = @ + r, !.pending = @ + q,
                  !.failed = @ + x, !.crashloop = @ + c]
  BY DEF CountPods
<1> HIDE DEF n, r, q, x, c
<1>3. QED
  <2>1. CountPods(w, pods, f) =
          [nodes |-> f.nodes, ready |-> f.ready, pods |-> f.pods + n,
           running |-> f.running + r, pending |-> f.pending + q,
           failed |-> f.failed + x, crashloop |-> f.crashloop + c]
    BY <1>2 DEF Figures
  <2> QED
    BY <1>1, <2>1 DEF Figures, n, r, q, x, c

LEMMA CountingIsConsistent ==
  ASSUME NEW w \in World, NEW pods \in SUBSET Pod, NEW f \in Figures, Consistent(f)
  PROVE  CountPods(w, pods, f) \in Figures /\ Consistent(CountPods(w, pods, f))
<1> DEFINE g == CountPods(w, pods, f)
<1>1. /\ g \in Figures
      /\ g.nodes = f.nodes
      /\ g.ready = f.ready
      /\ g.pods = f.pods + Cardinality(pods)
      /\ g.running = f.running + InPhase(w, pods, "Running")
      /\ g.pending = f.pending + InPhase(w, pods, "Pending")
      /\ g.failed = f.failed + InPhase(w, pods, "Failed")
      /\ g.crashloop = f.crashloop + Crashing(w, pods)
  BY CountedFigures
<1>2. /\ Cardinality(pods) \in Nat
      /\ InPhase(w, pods, "Running") \in Nat
      /\ InPhase(w, pods, "Pending") \in Nat
      /\ InPhase(w, pods, "Failed") \in Nat
      /\ Crashing(w, pods) \in Nat
      /\ Crashing(w, pods) <= Cardinality(pods)
      /\ InPhase(w, pods, "Running") + InPhase(w, pods, "Pending")
           + InPhase(w, pods, "Failed") <= Cardinality(pods)
  BY PodCounts DEF Phases
<1>3. /\ f.nodes \in Nat /\ f.ready \in Nat /\ f.pods \in Nat /\ f.running \in Nat
      /\ f.pending \in Nat /\ f.failed \in Nat /\ f.crashloop \in Nat
  BY DEF Figures
<1> HIDE DEF g
<1>4. Consistent(g)
  BY <1>1, <1>2, <1>3 DEF Consistent
<1> QED
  BY <1>1, <1>4 DEF g

LEMMA NothingIsConsistent == NoSnapshot \in Figures /\ Consistent(NoSnapshot)
  BY DEF NoSnapshot, Figures, Consistent

LEMMA NodesAreConsistent ==
  ASSUME NEW w \in World
  PROVE  CountNodes(w) \in Figures /\ Consistent(CountNodes(w))
<1>1. ReadyNodes(w) \in SUBSET Node
  BY DEF ReadyNodes
<1>2. /\ Cardinality(Node) \in Nat
      /\ Cardinality(ReadyNodes(w)) \in Nat
      /\ Cardinality(ReadyNodes(w)) <= Cardinality(Node)
  BY <1>1, ClusterAssumption, PartsAreFinite
<1>3. NoSnapshot \in Figures /\ Consistent(NoSnapshot)
  BY NothingIsConsistent
<1> DEFINE g == CountNodes(w)
<1>4. /\ g \in Figures
      /\ g.nodes = Cardinality(Node) /\ g.ready = Cardinality(ReadyNodes(w))
      /\ g.pods = NoSnapshot.pods /\ g.running = NoSnapshot.running
      /\ g.pending = NoSnapshot.pending /\ g.failed = NoSnapshot.failed
      /\ g.crashloop = NoSnapshot.crashloop
  <2> DEFINE n == Cardinality(Node)
             r == Cardinality(ReadyNodes(w))
             h == NoSnapshot
  <2> HIDE DEF n, r, h
  <2>1. n \in Nat /\ r \in Nat /\ h \in Figures
    BY <1>2, <1>3 DEF n, r, h
  <2>2. LET k == [h EXCEPT !.nodes = n, !.ready = r] IN
        /\ k \in Figures
        /\ k.nodes = n /\ k.ready = r
        /\ k.pods = h.pods /\ k.running = h.running /\ k.pending = h.pending
        /\ k.failed = h.failed /\ k.crashloop = h.crashloop
    BY <2>1 DEF Figures
  <2>3. g = [h EXCEPT !.nodes = n, !.ready = r]
    BY DEF CountNodes, n, r, h
  <2> HIDE DEF g
  <2> QED
    BY <2>2, <2>3 DEF n, r, h
<1> HIDE DEF g
<1>5. Consistent(g)
  BY <1>2, <1>3, <1>4 DEF Consistent
<1> QED
  BY <1>4, <1>5 DEF g

-----------------------------------------------------------------------------
(* The pipeline's variables: every step of the command is a step of the    *)
(* pipeline, or leaves it alone, or makes it ready for the next scan.      *)

LEMMA ResetIsInit == (Scans!Init => Scans!ScanInv)'
<1>1. Scans!Init => Scans!ScanInv
  BY ScansApply, Scans!ScanInit
<1> QED
  BY <1>1, PTL

LEMMA ScanInvKept ==
  ASSUME Scans!ScanInv, Next
  PROVE  Scans!ScanInv'
<1>1. Scans!ScanInv /\ [Scans!Next]_(Scans!vars) => Scans!ScanInv'
  BY ScansApply, Scans!ScanStep
<1>2. CASE BeginScan \/ ScanFailed \/ ScanReported
  <2>1. PICK context \in {"live", "done"} : ResetPipe(context)
    BY <1>2 DEF BeginScan, ScanFailed, ScanReported
  <2>2. Scans!Init'
    BY <2>1 DEF ResetPipe, Scans!Init, Scans!NoOutputs, Scans!StageIx,
                Pipe!NoOutputs, Pipe!StageIx
  <2> QED
    BY <2>2, ResetIsInit
<1>3. CASE Scan
  <2>1. Pipe!Step
    BY <1>3 DEF Scan
  <2>2. Scans!Step
    BY <2>1 DEF Pipe!Step, Pipe!ReadCluster, Pipe!SkipRead, Pipe!Analyse, Pipe!Command,
         Pipe!StageFails, Pipe!Retry, Pipe!GiveUp, Pipe!NextRead, Pipe!CountCall, Pipe!Return,
         Pipe!CallErrors, Pipe!MayFail, Pipe!Inputs, Pipe!NoOutputs, Pipe!StageIx,
         Scans!Step, Scans!ReadCluster, Scans!SkipRead, Scans!Analyse, Scans!Command,
         Scans!StageFails, Scans!Retry, Scans!GiveUp, Scans!NextRead, Scans!CountCall,
         Scans!Return, Scans!CallErrors, Scans!MayFail, Scans!Inputs, Scans!NoOutputs,
         Scans!StageIx
  <2> QED
    BY <1>1, <2>2 DEF Scans!Next
<1>4. CASE Deadline \/ Interrupt
  <2>1. Scans!CtxEnds \/ UNCHANGED Scans!vars
    <3>1. ctx \in {"live", "done"}
      BY DEF Scans!ScanInv, Scans!TypeInv, Scans!TypeOK
    <3> QED
      BY <1>4, <3>1 DEF Deadline, Interrupt, Pipe!CtxEnds, Scans!CtxEnds, Scans!vars
  <2> QED
    BY <1>1, <2>1 DEF Scans!Next
<1>5. CASE UNCHANGED pipe
  <2>1. UNCHANGED Scans!vars
    BY <1>5 DEF pipe, Scans!vars
  <2> QED
    BY <1>1, <2>1
<1>6. Start \/ StopAtTop \/ GetNodeHealth \/ ListPods \/ ReadFails \/ SaveSnapshot
        \/ Answer \/ Remediated \/ TimerFires \/ SeesDone \/ ClusterChanges => UNCHANGED pipe
  BY DEF Start, StopAtTop, GetNodeHealth, ListPods, ReadFails, SaveSnapshot, Answer,
         Remediated, TimerFires, SeesDone, ClusterChanges
<1> QED
  BY <1>2, <1>3, <1>4, <1>5, <1>6 DEF Next, Round

LEMMA PipeTypes == Scans!ScanInv => Pipe!TypeOK
  BY DEF Scans!ScanInv, Scans!TypeInv, Scans!TypeOK, Scans!Attempts, Scans!StageIx,
         Scans!ReadIx, Scans!Reading, Scans!Results, Scans!Errors,
         Pipe!TypeOK, Pipe!Attempts, Pipe!StageIx, Pipe!ReadIx, Pipe!Reading, Pipe!Results,
         Pipe!Errors

LEMMA PipeTypesNext == (Scans!ScanInv => Pipe!TypeOK)'
  BY PipeTypes, PTL

-----------------------------------------------------------------------------
(* Types of the command's variables.                                       *)

LEMMA RoundTypes ==
  ASSUME TypeOK, Next
  PROVE  /\ at' \in Places
         /\ cmd' \in {"scan", "watch"}
         /\ interrupted' \in BOOLEAN
         /\ report' \in {"none", "plan", "no plan"}
         /\ cluster' \in Worlds
         /\ changed' \in BOOLEAN
<1>0. /\ at \in Places
      /\ cmd \in {"scan", "watch"}
      /\ interrupted \in BOOLEAN
      /\ report \in {"none", "plan", "no plan"}
      /\ cluster \in Worlds
      /\ changed \in BOOLEAN
  BY DEF TypeOK
<1>1. \A r : AfterReport(r) \subseteq Places
  BY DEF AfterReport, Places
<1>2. CASE Start \/ BeginScan \/ StopAtTop \/ ScanFailed
  BY <1>0, <1>2 DEF Start, BeginScan, StopAtTop, ScanFailed, Places
<1>3. CASE Scan \/ Deadline
  BY <1>0, <1>3 DEF Scan, Deadline
<1>4. CASE ScanReported
  <2>1. PICK r \in {"plan", "no plan"} :
          IF cmd = "watch" THEN at' = "snapshot" /\ report' = r
                           ELSE at' \in AfterReport(r) /\ report' = "none"
    BY <1>4 DEF ScanReported
  <2>2. at' \in Places /\ report' \in {"none", "plan", "no plan"}
    BY <1>1, <2>1 DEF Places
  <2> QED
    BY <1>0, <1>4, <2>2 DEF ScanReported
<1>5. CASE GetNodeHealth \/ ListPods
  BY <1>0, <1>5 DEF GetNodeHealth, ListPods, Places
<1>6. CASE ReadFails \/ SaveSnapshot
  BY <1>0, <1>1, <1>6 DEF ReadFails, SaveSnapshot, EndRound
<1>7. CASE Answer \/ Remediated
  <2>1. at' \in Places
    BY <1>1, <1>7 DEF Answer, Remediated, Places
  <2> QED
    BY <1>0, <1>7, <2>1 DEF Answer, Remediated
<1>8. CASE TimerFires \/ SeesDone
  BY <1>0, <1>8 DEF TimerFires, SeesDone, Places
<1>9. CASE Interrupt \/ ClusterChanges
  BY <1>0, <1>9 DEF Interrupt, ClusterChanges
<1> QED
  BY <1>2, <1>3, <1>4, <1>5, <1>6, <1>7, <1>8, <1>9 DEF Next, Round

\* The collection ends when the round leaves it.
LEMMA RoundsEndEmpty ==
  ASSUME EndRound
  PROVE  got' = Nothing /\ at' \notin {"snapshot", "store"}
  BY DEF EndRound, AfterReport

LEMMA NothingTypes ==
  /\ Nothing.next = 0
  /\ Nothing.figures \in Figures /\ Consistent(Nothing.figures)
  BY NothingIsConsistent DEF Nothing

\* The namespaces from next on are still to be listed; the figures stay consistent.
LEMMA CollectTypes ==
  ASSUME TypeOK, CollectInv, Next
  PROVE  /\ got'.next \in 0 .. Len(Namespaces) + 1
         /\ got'.figures \in Figures /\ Consistent(got'.figures)
         /\ CollectInv'
<1>0. /\ got.next \in 0 .. Len(Namespaces) + 1
      /\ got.figures \in Figures /\ Consistent(got.figures)
      /\ cluster \in World
  BY WorldsAssumption DEF TypeOK
<1>1. CASE GetNodeHealth
  <2>1. got' = [next |-> 1, figures |-> CountNodes(cluster)] /\ at = "snapshot" /\ at' = at
    BY <1>1 DEF GetNodeHealth
  <2>2. CountNodes(cluster) \in Figures /\ Consistent(CountNodes(cluster))
    BY <1>0, NodesAreConsistent
  <2>3. got'.next = 1 /\ got'.figures = CountNodes(cluster)
    BY <2>1
  <2> QED
    BY <2>1, <2>2, <2>3, NameCount DEF CollectInv
<1>2. CASE ListPods
  <2> DEFINE pods == PodsIn(cluster, {Namespaces[got.next]})
             f == CountPods(cluster, pods, got.figures)
  <2>1. /\ got' = [next |-> got.next + 1, figures |-> f]
        /\ at = "snapshot"
        /\ at' = IF got.next = Len(Namespaces) THEN "store" ELSE at
    BY <1>2 DEF ListPods
  <2>2. pods \in SUBSET Pod
    BY DEF PodsIn
  <2>3. f \in Figures /\ Consistent(f)
    BY <1>0, <2>2, CountingIsConsistent
  <2>4. got'.next = got.next + 1 /\ got'.figures = f
    BY <2>1
  <2>5. got.next <= Len(Namespaces)
    BY <2>1 DEF CollectInv
  <2> HIDE DEF f, pods
  <2> QED
    BY <1>0, <2>1, <2>3, <2>4, <2>5, NameCount DEF CollectInv
<1>3. CASE ReadFails \/ SaveSnapshot
  <2>1. got' = Nothing /\ at' \notin {"snapshot", "store"}
    BY <1>3, RoundsEndEmpty DEF ReadFails, SaveSnapshot
  <2> QED
    BY <2>1, NothingTypes, NameCount DEF CollectInv
<1>4. CASE ScanReported
  <2>1. at = "scan" /\ got' = got /\ at' # "store"
    BY <1>4 DEF ScanReported, AfterReport
  <2>2. got = Nothing
    BY <2>1 DEF CollectInv
  <2> QED
    BY <2>1, <2>2, NothingTypes, NameCount DEF CollectInv
<1>5. CASE Start \/ BeginScan \/ StopAtTop \/ ScanFailed \/ Answer \/ Remediated
             \/ TimerFires \/ SeesDone
  <2>1. /\ at \notin {"snapshot", "store"} /\ at' \notin {"snapshot", "store"}
        /\ got' = got
    BY <1>5 DEF Start, BeginScan, StopAtTop, ScanFailed, Answer, Remediated, TimerFires,
                SeesDone, AfterReport
  <2> QED
    BY <1>0, <2>1 DEF CollectInv
<1>6. CASE Scan \/ Deadline \/ Interrupt \/ ClusterChanges
  <2>1. at' = at /\ got' = got
    BY <1>6 DEF Scan, Deadline, Interrupt, ClusterChanges
  <2> QED
    BY <1>0, <2>1 DEF CollectInv
<1> QED
  BY <1>1, <1>2, <1>3, <1>4, <1>5, <1>6 DEF Next, Round

LEMMA StoredTypes ==
  ASSUME TypeOK, Next
  PROVE  stored' \in Figures /\ Consistent(stored')
<1>0. /\ stored \in Figures /\ Consistent(stored)
      /\ got.figures \in Figures /\ Consistent(got.figures)
  BY DEF TypeOK
<1>1. stored' \in {NoSnapshot, got.figures, stored}
  BY DEF Next, Round, Start, BeginScan, StopAtTop, Scan, Deadline, ScanFailed, ScanReported,
         GetNodeHealth, ListPods, ReadFails, SaveSnapshot, Answer, Remediated, TimerFires,
         SeesDone, Interrupt, ClusterChanges
<1> QED
  BY <1>0, <1>1, NothingIsConsistent

LEMMA InitTypes == Init => TypeInv
<1> SUFFICES ASSUME Init PROVE TypeInv
  OBVIOUS
<1>1. Scans!ScanInv /\ Pipe!TypeOK
  <2>1. Scans!Init
    BY DEF Init, PipeIdle, Scans!Init, Scans!NoOutputs, Scans!StageIx, Pipe!NoOutputs,
           Pipe!StageIx
  <2>2. Scans!Init => Scans!ScanInv
    BY ScansApply, Scans!ScanInit
  <2> QED
    BY <2>1, <2>2, PipeTypes
<1>2. got = Nothing /\ stored = NoSnapshot /\ at = "off"
  BY DEF Init
<1>3. /\ got.next \in 0 .. Len(Namespaces) + 1
      /\ got.figures \in Figures /\ Consistent(got.figures)
      /\ stored \in Figures /\ Consistent(stored)
  BY <1>2, NothingTypes, NothingIsConsistent, NameCount
<1>4. /\ at \in Places
      /\ cmd \in {"scan", "watch"}
      /\ interrupted \in BOOLEAN
      /\ report \in {"none", "plan", "no plan"}
      /\ cluster \in Worlds
      /\ changed \in BOOLEAN
  BY DEF Init, Places
<1>5. CollectInv
  BY <1>2 DEF CollectInv
<1> QED
  BY <1>1, <1>3, <1>4, <1>5 DEF TypeInv, TypeOK

LEMMA TypeKept ==
  ASSUME TypeInv, [Next]_vars
  PROVE  TypeInv'
<1>1. CASE Next
  <2>1. Scans!ScanInv' /\ Pipe!TypeOK'
    BY <1>1, ScanInvKept, PipeTypesNext DEF TypeInv
  <2>2. /\ at' \in Places
        /\ cmd' \in {"scan", "watch"}
        /\ interrupted' \in BOOLEAN
        /\ report' \in {"none", "plan", "no plan"}
        /\ cluster' \in Worlds
        /\ changed' \in BOOLEAN
    BY <1>1, RoundTypes DEF TypeInv
  <2>3. /\ got'.next \in 0 .. Len(Namespaces) + 1
        /\ got'.figures \in Figures /\ Consistent(got'.figures)
        /\ CollectInv'
    BY <1>1, CollectTypes DEF TypeInv
  <2>4. stored' \in Figures /\ Consistent(stored')
    BY <1>1, StoredTypes DEF TypeInv
  <2> QED
    BY <2>1, <2>2, <2>3, <2>4 DEF TypeInv, TypeOK
<1>2. CASE UNCHANGED vars
  <2>1. UNCHANGED Scans!vars
    BY <1>2 DEF vars, pipe, Scans!vars
  <2>2. Scans!ScanInv /\ [Scans!Next]_(Scans!vars) => Scans!ScanInv'
    BY ScansApply, Scans!ScanStep
  <2>3. Scans!ScanInv'
    BY <2>1, <2>2 DEF TypeInv
  <2> QED
    BY <1>2, <2>3, PipeTypesNext DEF vars, TypeInv, TypeOK, CollectInv
<1> QED
  BY <1>1, <1>2

LEMMA TypeInvariant == Spec => []TypeInv
<1>1. TypeInv /\ [Next]_vars => TypeInv'
  BY TypeKept
<1> QED
  BY InitTypes, <1>1, PTL DEF Spec

\* Every variable keeps its type, and no snapshot, being collected or stored, has more
\* ready nodes than nodes, or more pods of the three phases than pods.
THEOREM TypeCorrect == Spec => []TypeOK
<1>1. TypeInv => TypeOK
  BY DEF TypeInv
<1> QED
  BY <1>1, TypeInvariant, PTL

\* Every scan of clarctl, however often the command repeats it, is interrupted or is given
\* a context that is done already, keeps what is proved of the agent's: its report rests on
\* one complete collection of one attempt, its LLM calls are bounded, and it fails with a
\* rate limit only after its last attempt.
THEOREM ScansKeepPromises ==
  Spec => [](Pipe!OneCollectionPerReport /\ Pipe!CallsBounded /\ Pipe!RateLimitExhausted)
<1>1. /\ Scans!ScanInv => Scans!OneCollectionPerReport
      /\ Scans!ScanInv => Scans!CallsBounded
      /\ Scans!ScanInv => Scans!RateLimitExhausted
  BY ScansApply, Scans!OneCollection, Scans!FewCalls DEF Scans!ScanInv
<1>2. Scans!OneCollectionPerReport => Pipe!OneCollectionPerReport
  BY DEF Scans!OneCollectionPerReport, Scans!Complete, Scans!Reported, Scans!StageIx,
         Scans!ReadIx, Pipe!OneCollectionPerReport, Pipe!Complete, Pipe!Reported,
         Pipe!StageIx, Pipe!ReadIx
<1>3. Scans!CallsBounded => Pipe!CallsBounded
  BY DEF Scans!CallsBounded, Pipe!CallsBounded
<1>4. Scans!RateLimitExhausted => Pipe!RateLimitExhausted
  BY DEF Scans!RateLimitExhausted, Pipe!RateLimitExhausted
<1>5. TypeInv => Pipe!OneCollectionPerReport /\ Pipe!CallsBounded /\ Pipe!RateLimitExhausted
  BY <1>1, <1>2, <1>3, <1>4 DEF TypeInv
<1> QED
  BY <1>5, TypeInvariant, PTL

-----------------------------------------------------------------------------
(* The snapshot of a cluster at rest.                                      *)

LEMMA CountingDisjoint ==
  ASSUME NEW w \in World, NEW A \in SUBSET Pod, NEW B \in SUBSET Pod, A \cap B = {}
  PROVE  /\ Cardinality(A \cup B) = Cardinality(A) + Cardinality(B)
         /\ \A phase \in Phases :
              InPhase(w, A \cup B, phase) = InPhase(w, A, phase) + InPhase(w, B, phase)
         /\ Crashing(w, A \cup B) = Crashing(w, A) + Crashing(w, B)
<1>1. \A S \in SUBSET Pod : IsFiniteSet(S)
  BY ClusterAssumption, PartsAreFinite
<1>2. Cardinality(A \cup B) = Cardinality(A) + Cardinality(B)
  BY <1>1, DisjointCount
<1>3. ASSUME NEW phase \in Phases
      PROVE  InPhase(w, A \cup B, phase) = InPhase(w, A, phase) + InPhase(w, B, phase)
  <2> DEFINE P(S) == {p \in S : w.pods[p].phase = phase}
  <2>1. P(A) \in SUBSET Pod /\ P(B) \in SUBSET Pod
    OBVIOUS
  <2>2. P(A \cup B) = P(A) \cup P(B) /\ P(A) \cap P(B) = {}
    OBVIOUS
  <2>3. Cardinality(P(A) \cup P(B)) = Cardinality(P(A)) + Cardinality(P(B))
    <3> HIDE DEF P
    <3> QED
      BY <1>1, <2>1, <2>2, DisjointCount
  <2> QED
    BY <2>2, <2>3 DEF InPhase
<1>4. Crashing(w, A \cup B) = Crashing(w, A) + Crashing(w, B)
  <2> DEFINE P(S) == {p \in S : w.pods[p].waiting = "CrashLoopBackOff"}
  <2>1. P(A) \in SUBSET Pod /\ P(B) \in SUBSET Pod
    OBVIOUS
  <2>2. P(A \cup B) = P(A) \cup P(B) /\ P(A) \cap P(B) = {}
    OBVIOUS
  <2>3. Cardinality(P(A) \cup P(B)) = Cardinality(P(A)) + Cardinality(P(B))
    <3> HIDE DEF P
    <3> QED
      BY <1>1, <2>1, <2>2, DisjointCount
  <2> QED
    BY <2>2, <2>3 DEF Crashing
<1> QED
  BY <1>2, <1>3, <1>4

LEMMA SameFigures ==
  ASSUME NEW f \in Figures, NEW g \in Figures,
         f.nodes = g.nodes, f.ready = g.ready, f.pods = g.pods, f.running = g.running,
         f.pending = g.pending, f.failed = g.failed, f.crashloop = g.crashloop
  PROVE  f = g
  BY DEF Figures

\* Counting the pods of two disjoint sets one after the other is counting their union.
LEMMA CountingAdds ==
  ASSUME NEW w \in World, NEW A \in SUBSET Pod, NEW B \in SUBSET Pod, A \cap B = {},
         NEW f \in Figures
  PROVE  CountPods(w, B, CountPods(w, A, f)) = CountPods(w, A \cup B, f)
<1> DEFINE g == CountPods(w, A, f)
           h == CountPods(w, B, g)
           k == CountPods(w, A \cup B, f)
<1>1. /\ g \in Figures
      /\ g.nodes = f.nodes
      /\ g.ready = f.ready
      /\ g.pods = f.pods + Cardinality(A)
      /\ g.running = f.running + InPhase(w, A, "Running")
      /\ g.pending = f.pending + InPhase(w, A, "Pending")
      /\ g.failed = f.failed + InPhase(w, A, "Failed")
      /\ g.crashloop = f.crashloop + Crashing(w, A)
  BY CountedFigures
<1> HIDE DEF g
<1>2. /\ h \in Figures
      /\ h.nodes = g.nodes
      /\ h.ready = g.ready
      /\ h.pods = g.pods + Cardinality(B)
      /\ h.running = g.running + InPhase(w, B, "Running")
      /\ h.pending = g.pending + InPhase(w, B, "Pending")
      /\ h.failed = g.failed + InPhase(w, B, "Failed")
      /\ h.crashloop = g.crashloop + Crashing(w, B)
  BY <1>1, CountedFigures
<1>3. /\ k \in Figures
      /\ k.nodes = f.nodes
      /\ k.ready = f.ready
      /\ k.pods = f.pods + Cardinality(A \cup B)
      /\ k.running = f.running + InPhase(w, A \cup B, "Running")
      /\ k.pending = f.pending + InPhase(w, A \cup B, "Pending")
      /\ k.failed = f.failed + InPhase(w, A \cup B, "Failed")
      /\ k.crashloop = f.crashloop + Crashing(w, A \cup B)
  <2>1. A \cup B \in SUBSET Pod
    OBVIOUS
  <2> QED
    BY <2>1, CountedFigures
<1>4. /\ Cardinality(A \cup B) = Cardinality(A) + Cardinality(B)
      /\ InPhase(w, A \cup B, "Running") = InPhase(w, A, "Running") + InPhase(w, B, "Running")
      /\ InPhase(w, A \cup B, "Pending") = InPhase(w, A, "Pending") + InPhase(w, B, "Pending")
      /\ InPhase(w, A \cup B, "Failed") = InPhase(w, A, "Failed") + InPhase(w, B, "Failed")
      /\ Crashing(w, A \cup B) = Crashing(w, A) + Crashing(w, B)
  BY CountingDisjoint DEF Phases
<1>5. /\ Cardinality(A) \in Nat /\ Cardinality(B) \in Nat
      /\ InPhase(w, A, "Running") \in Nat /\ InPhase(w, B, "Running") \in Nat
      /\ InPhase(w, A, "Pending") \in Nat /\ InPhase(w, B, "Pending") \in Nat
      /\ InPhase(w, A, "Failed") \in Nat /\ InPhase(w, B, "Failed") \in Nat
      /\ Crashing(w, A) \in Nat /\ Crashing(w, B) \in Nat
  BY PodCounts DEF Phases
<1>6. /\ f.pods \in Nat /\ f.running \in Nat /\ f.pending \in Nat /\ f.failed \in Nat
      /\ f.crashloop \in Nat
  BY DEF Figures
<1> HIDE DEF h, k
<1>7. /\ h.nodes = k.nodes
      /\ h.ready = k.ready
      /\ h.pods = k.pods
      /\ h.running = k.running
      /\ h.pending = k.pending
      /\ h.failed = k.failed
      /\ h.crashloop = k.crashloop
  <2>1. h.nodes = k.nodes /\ h.ready = k.ready
    BY <1>1, <1>2, <1>3
  <2>2. h.pods = k.pods
    BY <1>1, <1>2, <1>3, <1>4, <1>5, <1>6
  <2>3. h.running = k.running
    BY <1>1, <1>2, <1>3, <1>4, <1>5, <1>6
  <2>4. h.pending = k.pending
    BY <1>1, <1>2, <1>3, <1>4, <1>5, <1>6
  <2>5. h.failed = k.failed
    BY <1>1, <1>2, <1>3, <1>4, <1>5, <1>6
  <2>6. h.crashloop = k.crashloop
    BY <1>1, <1>2, <1>3, <1>4, <1>5, <1>6
  <2> QED
    BY <2>1, <2>2, <2>3, <2>4, <2>5, <2>6
<1>8. h = k
  BY <1>2, <1>3, <1>7, SameFigures
<1> QED
  BY <1>8 DEF g, h, k

LEMMA CountingNothing ==
  ASSUME NEW w \in World, NEW f \in Figures
  PROVE  CountPods(w, {}, f) = f
<1> DEFINE g == CountPods(w, {}, f)
<1>1. /\ g \in Figures
      /\ g.nodes = f.nodes
      /\ g.ready = f.ready
      /\ g.pods = f.pods + Cardinality({})
      /\ g.running = f.running + InPhase(w, {}, "Running")
      /\ g.pending = f.pending + InPhase(w, {}, "Pending")
      /\ g.failed = f.failed + InPhase(w, {}, "Failed")
      /\ g.crashloop = f.crashloop + Crashing(w, {})
  BY CountedFigures
<1>2. Cardinality({}) = 0
  BY FS_EmptySet
<1>3. Crashing(w, {}) = 0 /\ \A phase : InPhase(w, {}, phase) = 0
  <2>1. {p \in {} : w.pods[p].waiting = "CrashLoopBackOff"} = {}
    OBVIOUS
  <2>2. \A phase : {p \in {} : w.pods[p].phase = phase} = {}
    OBVIOUS
  <2> QED
    BY <1>2, <2>1, <2>2 DEF Crashing, InPhase
<1>4. /\ f.pods \in Nat /\ f.running \in Nat /\ f.pending \in Nat /\ f.failed \in Nat
      /\ f.crashloop \in Nat
  BY DEF Figures
<1> HIDE DEF g
<1>5. g = f
  BY <1>1, <1>2, <1>3, <1>4, SameFigures
<1> QED
  BY <1>5 DEF g

LEMMA NothingBefore == PodsIn(cluster, Before(1)) = {}
  BY DEF PodsIn, Before

\* The pods of the next namespace are none of those counted before.
LEMMA NextNamespace ==
  ASSUME NamespacesDiffer, NEW k \in 1 .. Len(Namespaces), NEW w \in World
  PROVE  /\ PodsIn(w, Before(k + 1))
               = PodsIn(w, Before(k)) \cup PodsIn(w, {Namespaces[k]})
         /\ PodsIn(w, Before(k)) \cap PodsIn(w, {Namespaces[k]}) = {}
<1>1. Before(k + 1) = Before(k) \cup {Namespaces[k]}
  <2>1. 1 .. (k + 1) - 1 = (1 .. k - 1) \cup {k}
    BY NameCount
  <2> QED
    BY <2>1 DEF Before
<1>2. Namespaces[k] \notin Before(k)
  <2> SUFFICES ASSUME NEW j \in 1 .. k - 1, Namespaces[j] = Namespaces[k]
               PROVE  FALSE
    BY DEF Before
  <2>1. j \in 1 .. Len(Namespaces) /\ j # k
    BY NameCount
  <2> QED
    BY <2>1 DEF NamespacesDiffer
<1> QED
  BY <1>1, <1>2 DEF PodsIn

LEMMA AllNamespaces == Before(Len(Namespaces) + 1) = ToSet(Namespaces)
<1>1. DOMAIN Namespaces = 1 .. Len(Namespaces)
  BY NamespacesAssumption
<1>2. 1 .. (Len(Namespaces) + 1) - 1 = 1 .. Len(Namespaces)
  BY NameCount
<1> QED
  BY <1>1, <1>2 DEF Before, ToSet

LEMMA CountedKept ==
  ASSUME NamespacesDiffer, TypeInv, CountedInv, [Next]_vars
  PROVE  CountedInv'
<1>0. /\ cluster \in World
      /\ got.next \in 0 .. Len(Namespaces) + 1
      /\ at = "snapshot" => got.next <= Len(Namespaces)
      /\ at \notin {"snapshot", "store"} => got = Nothing
  BY WorldsAssumption DEF TypeInv, TypeOK, CollectInv
<1>1. CASE GetNodeHealth
  <2>1. got' = [next |-> 1, figures |-> CountNodes(cluster)] /\ cluster' = cluster
    BY <1>1 DEF GetNodeHealth
  <2>2. CountPods(cluster, PodsIn(cluster, Before(1)), CountNodes(cluster)) = CountNodes(cluster)
    BY <1>0, NothingBefore, CountingNothing, NodesAreConsistent
  <2>3. got'.next = 1 /\ got'.figures = CountNodes(cluster)
    BY <2>1
  <2> QED
    BY <2>1, <2>2, <2>3 DEF CountedInv
<1>2. CASE ListPods
  <2> DEFINE k == got.next
             A == PodsIn(cluster, Before(k))
             B == PodsIn(cluster, {Namespaces[k]})
  <2>1. /\ got' = [next |-> k + 1, figures |-> CountPods(cluster, B, got.figures)]
        /\ cluster' = cluster /\ changed' = changed
        /\ at = "snapshot" /\ k >= 1
    BY <1>2 DEF ListPods
  <2>2. k \in 1 .. Len(Namespaces)
    BY <1>0, <2>1, NameCount
  <2>3. PodsIn(cluster, Before(k + 1)) = A \cup B /\ A \cap B = {}
    BY <1>0, <2>2, NextNamespace
  <2>4. A \in SUBSET Pod /\ B \in SUBSET Pod
    BY DEF PodsIn
  <2>5. CountNodes(cluster) \in Figures
    BY <1>0, NodesAreConsistent
  <2> HIDE DEF A, B
  <2>6. CountPods(cluster, B, CountPods(cluster, A, CountNodes(cluster)))
          = CountPods(cluster, A \cup B, CountNodes(cluster))
    BY <1>0, <2>3, <2>4, <2>5, CountingAdds
  <2>7. ~changed => got.figures = CountPods(cluster, A, CountNodes(cluster))
    BY <2>1 DEF CountedInv, A
  <2>8. got'.next = k + 1 /\ got'.figures = CountPods(cluster, B, got.figures)
    BY <2>1
  <2> QED
    BY <2>1, <2>3, <2>6, <2>7, <2>8 DEF CountedInv
<1>3. CASE ClusterChanges
  BY <1>3 DEF ClusterChanges, CountedInv
<1>4. CASE ReadFails \/ SaveSnapshot
  <2>1. got' = Nothing
    BY <1>4, RoundsEndEmpty DEF ReadFails, SaveSnapshot
  <2> QED
    BY <2>1, NothingTypes DEF CountedInv
<1>5. CASE ScanReported
  <2>1. got' = Nothing
    BY <1>0, <1>5 DEF ScanReported
  <2> QED
    BY <2>1, NothingTypes DEF CountedInv
<1>6. CASE UNCHANGED <<cluster, changed, got>>
  BY <1>6 DEF CountedInv
<1>7. Start \/ BeginScan \/ StopAtTop \/ Scan \/ ScanFailed \/ Deadline \/ Answer \/ Remediated
        \/ TimerFires \/ SeesDone \/ Interrupt \/ UNCHANGED vars
          => UNCHANGED <<cluster, changed, got>>
  BY DEF Start, BeginScan, StopAtTop, Scan, ScanFailed, Deadline, Answer, Remediated,
         TimerFires, SeesDone, Interrupt, vars
<1> QED
  BY <1>1, <1>2, <1>3, <1>4, <1>5, <1>6, <1>7 DEF Next, Round

\* The snapshot is only written at its end, and then covers every namespace.
LEMMA StoredIsExact ==
  ASSUME TypeInv, CountedInv, Next,
         stored' # stored, stored' # NoSnapshot, ~changed
  PROVE  stored' = Reference(cluster)
<1>1. SaveSnapshot
  BY DEF Next, Round, Start, BeginScan, StopAtTop, Scan, Deadline, ScanFailed, ScanReported,
         GetNodeHealth, ListPods, ReadFails, Answer, Remediated, TimerFires, SeesDone,
         Interrupt, ClusterChanges
<1>2. stored' = got.figures /\ at = "store"
  BY <1>1 DEF SaveSnapshot
<1>3. got.next = Len(Namespaces) + 1
  BY <1>2 DEF TypeInv, CollectInv
<1>4. got.figures = CountPods(cluster, PodsIn(cluster, Before(Len(Namespaces) + 1)),
                              CountNodes(cluster))
  BY <1>3, NameCount DEF CountedInv
<1> QED
  BY <1>2, <1>4, AllNamespaces DEF Reference

\* The inductive invariant: the types, and that what has been counted is what there is.
THEOREM InvHolds ==
  ASSUME NamespacesDiffer
  PROVE  Spec => []Inv
<1>1. Init => Inv
  <2> SUFFICES ASSUME Init PROVE Inv
    OBVIOUS
  <2>1. got = Nothing
    BY DEF Init
  <2> QED
    BY <2>1, InitTypes, NothingTypes DEF Inv, CountedInv
<1>2. Inv /\ [Next]_vars => Inv'
  BY NamespacesDiffer, TypeKept, CountedKept DEF Inv
<1> QED
  BY <1>1, <1>2, PTL DEF Spec

\* Whatever reads fail and whenever the process is interrupted, a snapshot that is stored
\* has counted each node and each pod of the configured namespaces exactly once, if the
\* cluster was at rest.  A namespace configured twice would have its pods counted twice,
\* so the list must have none.
THEOREM SnapshotsAreExact ==
  ASSUME NamespacesDiffer
  PROVE  Spec => SnapshotIsExact
<1>1. Inv /\ [Next]_vars =>
        [stored' # stored /\ stored' # NoSnapshot /\ ~changed => stored' = Reference(cluster)]_vars
  BY StoredIsExact DEF Inv
<1> QED
  BY <1>1, InvHolds, PTL DEF Spec, SnapshotIsExact
=============================================================================
