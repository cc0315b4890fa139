-------------------------- MODULE AgentWatchProofs --------------------------
(***************************************************************************)
(* Theorems of AgentWatch for every set of watch and trigger goroutines.   *)
(* The safety invariants are not inductive one by one: that a watch begins *)
(* uncancelled needs to know that an idle watcher is not marked cancelled, *)
(* and that a goroutine clearing watchRunning is the only one needs to     *)
(* know that only cancelled watchers leave.  WatchInv adds both.           *)
(***************************************************************************)
EXTENDS AgentWatch, TLAPS

\* Bookkeeping of the cancelled contexts: they belong to running watchers, and
\* only a watcher that saw its context done is on its way out.
CancelledAreLive ==
  \A w \in Watcher :
    /\ w \in cancelled => Live(w)
    /\ phase[w] = "leaving" => w \in cancelled

WatchInv ==
  /\ TypeOK
  /\ SingleWatch
  /\ StatusIsTruthful
  /\ WatchIsStoppable
  /\ CancelledAreLive

-----------------------------------------------------------------------------
\* Every variable keeps its type.
THEOREM TypeCorrect == Spec => []TypeOK
<1>1. Init => TypeOK
  BY DEF Init, TypeOK, Phases, Answers, Goroutine
<1>2. TypeOK /\ [Next]_vars => TypeOK'
  <2> SUFFICES ASSUME TypeOK, [Next]_vars PROVE TypeOK'
    OBVIOUS
  <2> USE DEF TypeOK, Phases, Answers, Goroutine
  <2>1. CASE Handler
    BY <2>1 DEF Handler, PostTrigger, StartWatch, AlreadyWatching, StopWatch
  <2>2. ASSUME NEW g \in Goroutine, Scan(g) PROVE TypeOK'
    BY <2>2 DEF Scan, ScanTimesOut, ScanFails, ReportReady, ReportDropped,
                PostReturns, EndScan
  <2>3. ASSUME NEW w \in Watcher, Loop(w) PROVE TypeOK'
    BY <2>3 DEF Loop, TimerFires, SeesDone, Leave
  <2>4. CASE Sigterm
    BY <2>4 DEF Sigterm
  <2>5. CASE Exit
    BY <2>5 DEF Exit
  <2>6. CASE Restart
    BY <2>6 DEF Restart
  <2>7. CASE UNCHANGED vars
    BY <2>7 DEF vars
  <2> QED
    BY <2>1, <2>2, <2>3, <2>4, <2>5, <2>6, <2>7 DEF Next
<1> QED
  BY <1>1, <1>2, PTL DEF Spec

-----------------------------------------------------------------------------
\* A step of a scan moves one running goroutine to another running phase, or a
\* trigger's goroutine to idle; it leaves the two globals alone.
LEMMA ScanKeepsInv ==
  ASSUME WatchInv, NEW g \in Goroutine, Scan(g)
  PROVE  WatchInv'
<1> USE DisjointAssumption, NoWatcherAssumption
<1>1. TypeOK'
  BY DEF WatchInv, TypeOK, Phases, Goroutine, Scan, ScanTimesOut, ScanFails,
         ReportReady, ReportDropped, PostReturns, EndScan
<1>2. /\ UNCHANGED <<watchRunning, watchCancel, cancelled>>
      /\ \A w \in Watcher : Live(w)' <=> Live(w)
      /\ \A w \in Watcher : phase'[w] = "leaving" => phase[w] = "leaving"
  BY DEF WatchInv, TypeOK, Phases, Goroutine, Live, Scan, ScanTimesOut, ScanFails,
         ReportReady, ReportDropped, PostReturns, EndScan
<1> QED
  BY <1>1, <1>2 DEF WatchInv, SingleWatch, StatusIsTruthful, WatchIsStoppable,
                    CancelledAreLive

\* The handlers: only StartWatch makes a watcher live, when none is.
LEMMA HandlerKeepsInv ==
  ASSUME WatchInv, Handler
  PROVE  WatchInv'
<1> USE DisjointAssumption, NoWatcherAssumption
<1>1. TypeOK'
  BY DEF WatchInv, TypeOK, Phases, Answers, Goroutine, Handler, PostTrigger, StartWatch,
         AlreadyWatching, StopWatch
<1>2. ASSUME NEW t \in Trigger, PostTrigger(t) PROVE WatchInv'
  <2>1. /\ UNCHANGED <<watchRunning, watchCancel, cancelled>>
        /\ \A w \in Watcher : phase'[w] = phase[w]
    BY <1>2 DEF PostTrigger, WatchInv, TypeOK, Goroutine
  <2> QED
    BY <1>1, <2>1 DEF WatchInv, Live, SingleWatch, StatusIsTruthful,
                      WatchIsStoppable, CancelledAreLive
<1>3. ASSUME NEW w \in Watcher, StartWatch(w) PROVE WatchInv'
  <2>1. \A v \in Watcher : ~Live(v) /\ v \notin cancelled
    BY <1>3 DEF StartWatch, WatchInv, StatusIsTruthful, CancelledAreLive
  <2>2. \A v \in Watcher : phase'[v] = IF v = w THEN "scanning" ELSE phase[v]
    BY <1>3 DEF StartWatch, WatchInv, TypeOK, Goroutine
  <2>3. watchCancel' = w /\ watchRunning' /\ cancelled' = cancelled
    BY <1>3 DEF StartWatch
  <2> QED
    BY <1>1, <2>1, <2>2, <2>3 DEF WatchInv, Live, SingleWatch, StatusIsTruthful,
                                  WatchIsStoppable, CancelledAreLive
<1>4. CASE AlreadyWatching
  BY <1>1, <1>4 DEF AlreadyWatching, WatchInv, Live, SingleWatch, StatusIsTruthful,
                    WatchIsStoppable, CancelledAreLive
<1>5. CASE StopWatch
  BY <1>1, <1>5 DEF StopWatch, WatchInv, TypeOK, Live, SingleWatch, StatusIsTruthful,
                    WatchIsStoppable, CancelledAreLive
<1> QED
  BY <1>2, <1>3, <1>4, <1>5 DEF Handler

\* The loop: only Leave ends a watcher, the only one there is.
LEMMA LoopKeepsInv ==
  ASSUME WatchInv, NEW w \in Watcher, Loop(w)
  PROVE  WatchInv'
<1> USE DisjointAssumption, NoWatcherAssumption
<1>1. TypeOK'
  BY DEF WatchInv, TypeOK, Phases, Goroutine, Loop, TimerFires, SeesDone, Leave
<1>2. CASE TimerFires(w) \/ SeesDone(w)
  <2>1. /\ UNCHANGED <<watchRunning, watchCancel, cancelled>>
        /\ \A v \in Watcher : Live(v)' <=> Live(v)
        /\ \A v \in Watcher : phase'[v] = "leaving" => phase[v] = "leaving" \/ v \in cancelled
    BY <1>2 DEF TimerFires, SeesDone, WatchInv, TypeOK, Goroutine, Live
  <2> QED
    BY <1>1, <2>1 DEF WatchInv, SingleWatch, StatusIsTruthful, WatchIsStoppable,
                      CancelledAreLive
<1>3. CASE Leave(w)
  <2>1. w \in cancelled /\ \A v \in Watcher : Live(v) => v = w
    BY <1>3 DEF Leave, WatchInv, SingleWatch, CancelledAreLive, Live
  <2>2. \A v \in Watcher : ~Live(v)'
    BY <1>3, <2>1 DEF Leave, WatchInv, TypeOK, Goroutine, Live
  <2>3. watchCancel' = watchCancel /\ cancelled' = cancelled \ {w} /\ ~watchRunning'
    BY <1>3 DEF Leave
  <2>4. watchCancel \notin Watcher
    BY <2>1 DEF WatchInv, WatchIsStoppable
  <2>5. \A v \in Watcher : v \notin cancelled'
    BY <2>1, <2>3 DEF WatchInv, CancelledAreLive
  <2> QED
    BY <1>1, <2>2, <2>3, <2>4, <2>5 DEF WatchInv, Live, SingleWatch, StatusIsTruthful,
                                   WatchIsStoppable, CancelledAreLive
<1> QED
  BY <1>2, <1>3 DEF Loop

\* The inductive invariant holds of every behaviour.
THEOREM WatchInvariant == Spec => []WatchInv
<1> USE DisjointAssumption, NoWatcherAssumption
<1>1. Init => WatchInv
  BY DEF Init, WatchInv, TypeOK, Phases, Answers, Goroutine, Live, SingleWatch,
         StatusIsTruthful, WatchIsStoppable, CancelledAreLive
<1>2. WatchInv /\ [Next]_vars => WatchInv'
  <2> SUFFICES ASSUME WatchInv, [Next]_vars PROVE WatchInv'
    OBVIOUS
  <2>1. CASE Sigterm \/ Restart \/ UNCHANGED vars
    BY <2>1 DEF Sigterm, Restart, vars, WatchInv, TypeOK, Live, SingleWatch,
                StatusIsTruthful, WatchIsStoppable, CancelledAreLive
  <2>2. CASE Exit
    BY <2>2 DEF Exit, WatchInv, TypeOK, Phases, Answers, Goroutine, Live, SingleWatch,
                StatusIsTruthful, WatchIsStoppable, CancelledAreLive
  <2> QED
    BY <2>1, <2>2, ScanKeepsInv, HandlerKeepsInv, LoopKeepsInv DEF Next
<1> QED
  BY <1>1, <1>2, PTL DEF Spec

\* At most one watch goroutine, for any number of requests.
THEOREM AtMostOneWatch == Spec => []SingleWatch
<1>1. WatchInv => SingleWatch
  BY DEF WatchInv
<1> QED
  BY <1>1, WatchInvariant, PTL

\* A running watch can always be stopped.
THEOREM NoWatchEscapes == Spec => []WatchIsStoppable
<1>1. WatchInv => WatchIsStoppable
  BY DEF WatchInv
<1> QED
  BY <1>1, WatchInvariant, PTL

\* /status tells the truth about the goroutine.
THEOREM StatusTheorem == Spec => []StatusIsTruthful
<1>1. WatchInv => StatusIsTruthful
  BY DEF WatchInv
<1> QED
  BY <1>1, WatchInvariant, PTL

-----------------------------------------------------------------------------
\* After DELETE /watch the stopped watch begins no request to the hub.
THEOREM StoppedWatchIsSilent == Spec => NoReportAfterStop
<1> DEFINE Silent == \A w \in cancelled : phase'[w] = "posting" => phase[w] = "posting"
<1>1. WatchInv /\ [Next]_vars => [Silent]_vars
  <2> SUFFICES ASSUME WatchInv, Next, NEW w \in cancelled, phase'[w] = "posting"
               PROVE  phase[w] = "posting"
    OBVIOUS
  <2>1. w \in Watcher /\ w \in Goroutine /\ Live(w)
    BY DEF WatchInv, TypeOK, CancelledAreLive, Goroutine
  <2>2. CASE Handler
    BY <2>1, <2>2 DEF Handler, PostTrigger, StartWatch, AlreadyWatching, StopWatch,
                      WatchInv, TypeOK, Live
  <2>3. ASSUME NEW g \in Goroutine, Scan(g) PROVE phase[w] = "posting"
    BY <2>1, <2>3 DEF Scan, ScanTimesOut, ScanFails, ReportReady, ReportDropped,
                      PostReturns, EndScan, CtxDone, WatchInv, TypeOK
  <2>4. ASSUME NEW v \in Watcher, Loop(v) PROVE phase[w] = "posting"
    BY <2>1, <2>4 DEF Loop, TimerFires, SeesDone, Leave, WatchInv, TypeOK
  <2>5. CASE Sigterm \/ Exit \/ Restart
    BY <2>1, <2>5 DEF Sigterm, Exit, Restart
  <2> QED
    BY <2>2, <2>3, <2>4, <2>5 DEF Next
<1> QED
  BY <1>1, WatchInvariant, PTL DEF Spec, NoReportAfterStop

-----------------------------------------------------------------------------
\* The two globals behave as the switch that the README's table describes.
THEOREM WatchImplementsSwitch == Spec => ImplementsSwitch
<1> USE DisjointAssumption, NoWatcherAssumption
<1>1. Init => Switch!Init
  BY DEF Init, Switch!Init, switchOf
<1>2. WatchInv /\ [Next]_vars => [Switch!Next]_switchOf
  <2> SUFFICES ASSUME WatchInv, [Next]_vars PROVE [Switch!Next]_switchOf
    OBVIOUS
  <2> USE DEF Switch!Next, Switch!TurnOn, Switch!AskToStop, Switch!Stopped,
              Switch!ProcessEnds, switchOf
  <2>1. CASE Handler
    <3>1. ~watchRunning => watchCancel = NoWatcher
      BY DEF WatchInv, TypeOK, StatusIsTruthful, WatchIsStoppable
    <3>2. ASSUME NEW t \in Trigger, PostTrigger(t) PROVE UNCHANGED switchOf
      BY <3>2 DEF PostTrigger
    <3>3. ASSUME NEW w \in Watcher, StartWatch(w) PROVE Switch!TurnOn
      BY <3>3 DEF StartWatch
    <3>4. CASE AlreadyWatching
      BY <3>4 DEF AlreadyWatching
    <3>5. CASE StopWatch
      BY <3>1, <3>5 DEF StopWatch
    <3> QED
      BY <2>1, <3>2, <3>3, <3>4, <3>5 DEF Handler
  <2>2. ASSUME NEW g \in Goroutine, Scan(g) PROVE UNCHANGED switchOf
    BY <2>2 DEF Scan, ScanTimesOut, ScanFails, ReportReady, ReportDropped,
                PostReturns, EndScan
  <2>3. ASSUME NEW w \in Watcher, Loop(w) PROVE [Switch!Next]_switchOf
    <3>1. CASE TimerFires(w) \/ SeesDone(w)
      BY <3>1 DEF TimerFires, SeesDone
    <3>2. CASE Leave(w)
      <4>1. watchCancel = NoWatcher
        BY <3>2 DEF Leave, WatchInv, TypeOK, SingleWatch, WatchIsStoppable,
                    CancelledAreLive, Live
      <4> QED
        BY <3>2, <4>1 DEF Leave
    <3> QED
      BY <2>3, <3>1, <3>2 DEF Loop
  <2>4. CASE Sigterm \/ Restart \/ UNCHANGED vars
    BY <2>4 DEF Sigterm, Restart, vars
  <2>5. CASE Exit
    BY <2>5 DEF Exit
  <2> QED
    BY <2>1, <2>2, <2>3, <2>4, <2>5 DEF Next
<1> QED
  BY <1>1, <1>2, WatchInvariant, PTL DEF Spec, ImplementsSwitch, Switch!Spec
=============================================================================
