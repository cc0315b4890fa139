----------------------------- MODULE AgentWatch -----------------------------
(***************************************************************************)
(* The agent daemon, sre-agent/agent/main.go: the HTTP control endpoints   *)
(* /trigger and /watch, the goroutines they start, and the end of the      *)
(* process.  Each handler of /watch runs under watchMu from its first to   *)
(* its last statement, so it is one action; the watch goroutine takes      *)
(* watchMu only to clear watchRunning.  What RunScan does inside a scan is *)
(* module ScanPipeline; here a scan is a period that ends with a report or *)
(* with an error.  /healthz, /status, and requests with another method     *)
(* change no state.                                                        *)
(***************************************************************************)
EXTENDS Naturals

CONSTANTS Watcher,   \* goroutines that POST /watch may start; reused once idle
          Trigger,   \* goroutines that POST /trigger may start
          NoWatcher  \* watchCancel = nil

ASSUME NoWatcherAssumption == NoWatcher \notin Watcher
ASSUME DisjointAssumption  == Watcher \cap Trigger = {}

VARIABLES
  server,        \* the process: serving, draining after SIGTERM, or down
  watchRunning,  \* the global watchRunning
  watchCancel,   \* whose cancel function the global watchCancel holds
  phase,         \* where each goroutine is
  cancelled,     \* watchers whose ctx has been cancelled
  expired,       \* goroutines whose current 10-minute scan ctx has expired
  lastAnswer     \* what the last /watch request was answered

vars == <<server, watchRunning, watchCancel, phase, cancelled, expired, lastAnswer>>

Goroutine == Watcher \cup Trigger

Phases  == {"idle",      \* not running
            "scanning",  \* inside pipeline.RunScan
            "posting",   \* inside sendToHub, request on its way
            "waiting",   \* in the select between two scans
            "leaving"}   \* ctx.Done was selected, about to take watchMu

Answers == {"none", "watch started", "already watching", "watch stopped"}

TypeOK ==
  /\ server \in {"serving", "draining", "down"}
  /\ watchRunning \in BOOLEAN
  /\ watchCancel \in Watcher \cup {NoWatcher}
  /\ phase \in [Goroutine -> Phases]
  /\ cancelled \subseteq Watcher
  /\ expired \subseteq Goroutine
  /\ lastAnswer \in Answers

Init ==
  /\ server = "serving"
  /\ watchRunning = FALSE
  /\ watchCancel = NoWatcher
  /\ phase = [g \in Goroutine |-> "idle"]
  /\ cancelled = {}
  /\ expired = {}
  /\ lastAnswer = "none"

Live(g) == phase[g] # "idle"

\* The context a scan runs under: a deadline, and for a watcher its parent.
CtxDone(g) == g \in expired \cup cancelled

-----------------------------------------------------------------------------
(* The /trigger and /watch handlers.                                       *)

\* Shutdown lets requests that came before it be handled to their end (main.go:143), so
\* a draining server, too, may run a handler; which requests those are is left open.
Handling == server # "down"

PostTrigger(t) ==
  /\ Handling
  /\ ~Live(t)
  /\ phase' = [phase EXCEPT ![t] = "scanning"]
  /\ UNCHANGED <<server, watchRunning, watchCancel, cancelled, expired, lastAnswer>>

\* Mutant: the check looks at watchCancel, which DELETE clears at once.
StartWatchIfNoCancel(w) ==
  /\ Handling
  /\ watchCancel = NoWatcher
  /\ ~Live(w)
  /\ watchCancel' = w
  /\ watchRunning' = TRUE
  /\ phase' = [phase EXCEPT ![w] = "scanning"]
  /\ lastAnswer' = "watch started"
  /\ UNCHANGED <<server, cancelled, expired>>

\* POST /watch while no watch is running.
StartWatch(w) ==
  /\ Handling
  /\ ~watchRunning
  /\ ~Live(w)
  /\ watchCancel' = w
  /\ watchRunning' = TRUE
  /\ phase' = [phase EXCEPT ![w] = "scanning"]
  /\ lastAnswer' = "watch started"
  /\ UNCHANGED <<server, cancelled, expired>>

\* POST /watch while watchRunning is set, cancelled or not.
AlreadyWatching ==
  /\ Handling
  /\ watchRunning
  /\ lastAnswer' = "already watching"
  /\ UNCHANGED <<server, watchRunning, watchCancel, phase, cancelled, expired>>

\* Mutants of DELETE: it calls a nil cancel function; it clears watchRunning itself;
\* it leaves watchCancel set; it forgets to cancel.
StopWatchNilCancel ==
  /\ Handling
  /\ cancelled' = cancelled \cup {watchCancel}
  /\ watchCancel' = NoWatcher
  /\ lastAnswer' = "watch stopped"
  /\ UNCHANGED <<server, watchRunning, phase, expired>>

StopWatchClearsRunning ==
  /\ Handling
  /\ cancelled' = cancelled \cup ({watchCancel} \ {NoWatcher})
  /\ watchCancel' = NoWatcher
  /\ watchRunning' = FALSE
  /\ lastAnswer' = "watch stopped"
  /\ UNCHANGED <<server, phase, expired>>

StopWatchKeepsCancel ==
  /\ Handling
  /\ cancelled' = cancelled \cup ({watchCancel} \ {NoWatcher})
  /\ lastAnswer' = "watch stopped"
  /\ UNCHANGED <<server, watchRunning, watchCancel, phase, expired>>

StopWatchWithoutCancel ==
  /\ Handling
  /\ watchCancel' = NoWatcher
  /\ lastAnswer' = "watch stopped"
  /\ UNCHANGED <<server, watchRunning, phase, cancelled, expired>>

\* DELETE /watch, whether or not there is something to cancel.
StopWatch ==
  /\ Handling
  /\ cancelled' = cancelled \cup ({watchCancel} \ {NoWatcher})
  /\ watchCancel' = NoWatcher
  /\ lastAnswer' = "watch stopped"
  /\ UNCHANGED <<server, watchRunning, phase, expired>>

-----------------------------------------------------------------------------
(* A scan, in a watch goroutine or in a trigger's.                         *)

\* Mutants: the watch goroutine returns after a scan; the trigger's never does.
EndScanEndsWatch(g) ==
  /\ phase' = [phase EXCEPT ![g] = "idle"]
  /\ expired' = expired \ {g}
  /\ UNCHANGED <<server, watchRunning, watchCancel, cancelled, lastAnswer>>

EndScanKeepsTrigger(g) ==
  /\ phase' = [phase EXCEPT ![g] = "waiting"]
  /\ expired' = expired \ {g}
  /\ UNCHANGED <<server, watchRunning, watchCancel, cancelled, lastAnswer>>

\* After runScanAndSend the watcher selects, the trigger's goroutine ends;
\* the scan's own context is released.
EndScan(g) ==
  /\ phase' = [phase EXCEPT ![g] = IF g \in Watcher THEN "waiting" ELSE "idle"]
  /\ expired' = expired \ {g}
  /\ UNCHANGED <<server, watchRunning, watchCancel, cancelled, lastAnswer>>

\* The 10-minute context of the scan runs out.
ScanTimesOut(g) ==
  /\ phase[g] \in {"scanning", "posting"}
  /\ expired' = expired \cup {g}
  /\ UNCHANGED <<server, watchRunning, watchCancel, phase, cancelled, lastAnswer>>

\* RunScan returned an error: logged, no report.
ScanFails(g) == phase[g] = "scanning" /\ EndScan(g)

\* Mutant: the request is built without the scan's context.
ReportReadyAnyContext(g) ==
  /\ phase[g] = "scanning"
  /\ phase' = [phase EXCEPT ![g] = "posting"]
  /\ UNCHANGED <<server, watchRunning, watchCancel, cancelled, expired, lastAnswer>>

\* RunScan returned a report, and sendToHub puts the request on the wire.
ReportReady(g) ==
  /\ phase[g] = "scanning"
  /\ ~CtxDone(g)
  /\ phase' = [phase EXCEPT ![g] = "posting"]
  /\ UNCHANGED <<server, watchRunning, watchCancel, cancelled, expired, lastAnswer>>

\* RunScan returned a report, but client.Do refuses a finished context.
ReportDropped(g) == phase[g] = "scanning" /\ CtxDone(g) /\ EndScan(g)

\* The hub answered, with whatever status, or the request failed: logged.
PostReturns(g) == phase[g] = "posting" /\ EndScan(g)

-----------------------------------------------------------------------------
(* The watch loop's select.  The timer may win although ctx is done too:   *)
(* select picks any ready case.                                            *)

TimerFires(w) ==
  /\ phase[w] = "waiting"
  /\ phase' = [phase EXCEPT ![w] = "scanning"]
  /\ UNCHANGED <<server, watchRunning, watchCancel, cancelled, expired, lastAnswer>>

SeesDone(w) ==
  /\ phase[w] = "waiting"
  /\ w \in cancelled
  /\ phase' = [phase EXCEPT ![w] = "leaving"]
  /\ UNCHANGED <<server, watchRunning, watchCancel, cancelled, expired, lastAnswer>>

\* Mutant: the goroutine returns without clearing watchRunning.
LeaveKeepsRunning(w) ==
  /\ phase[w] = "leaving"
  /\ phase' = [phase EXCEPT ![w] = "idle"]
  /\ cancelled' = cancelled \ {w}
  /\ UNCHANGED <<server, watchRunning, watchCancel, expired, lastAnswer>>

\* The goroutine takes watchMu, clears watchRunning and returns.
Leave(w) ==
  /\ phase[w] = "leaving"
  /\ watchRunning' = FALSE
  /\ phase' = [phase EXCEPT ![w] = "idle"]
  /\ cancelled' = cancelled \ {w}
  /\ UNCHANGED <<server, watchCancel, expired, lastAnswer>>

-----------------------------------------------------------------------------
(* The process: SIGTERM closes the listener while goroutines and handlers  *)
(* under way go on; main returning (or a crash) ends them all; the         *)
(* deployment restarts the pod.                                            *)

Sigterm ==
  /\ server = "serving"
  /\ server' = "draining"
  /\ UNCHANGED <<watchRunning, watchCancel, phase, cancelled, expired, lastAnswer>>

Exit ==
  /\ server # "down"
  /\ server' = "down"
  /\ watchRunning' = FALSE
  /\ watchCancel' = NoWatcher
  /\ phase' = [g \in Goroutine |-> "idle"]
  /\ cancelled' = {}
  /\ expired' = {}
  /\ lastAnswer' = "none"

Restart ==
  /\ server = "down"
  /\ server' = "serving"
  /\ UNCHANGED <<watchRunning, watchCancel, phase, cancelled, expired, lastAnswer>>

-----------------------------------------------------------------------------
Handler ==
  \/ \E t \in Trigger : PostTrigger(t)
  \/ \E w \in Watcher : StartWatch(w)
  \/ AlreadyWatching
  \/ StopWatch

Scan(g) ==
  ScanTimesOut(g) \/ ScanFails(g) \/ ReportReady(g) \/ ReportDropped(g) \/ PostReturns(g)

Loop(w) == TimerFires(w) \/ SeesDone(w) \/ Leave(w)

Next ==
  \/ Handler
  \/ \E g \in Goroutine : Scan(g)
  \/ \E w \in Watcher : Loop(w)
  \/ Sigterm \/ Exit \/ Restart

Spec == Init /\ [][Next]_vars

\* Every scan and every POST is bounded by its context and client timeout, the
\* timer fires, and a freed mutex is granted.  A select that is entered again
\* and again with ctx.Done ready chooses it at some time (Go picks ready cases
\* uniformly): strong fairness.  Requests, signals and deadlines owe nothing.
Fairness ==
  /\ \A g \in Goroutine : WF_vars(ScanFails(g) \/ ReportReady(g) \/ ReportDropped(g))
                       /\ WF_vars(PostReturns(g))
  /\ \A w \in Watcher : WF_vars(TimerFires(w)) /\ SF_vars(SeesDone(w)) /\ WF_vars(Leave(w))

FairSpec == Spec /\ Fairness

-----------------------------------------------------------------------------
(* Properties.                                                             *)

\* At most one watch goroutine exists, however POST, DELETE and the goroutine's
\* own exit interleave (the check of watchRunning in main.go:76).
SingleWatch == \A v, w \in Watcher : Live(v) /\ Live(w) => v = w

\* watchRunning, which /status reports, is true exactly while a goroutine runs.
StatusIsTruthful == watchRunning <=> \E w \in Watcher : Live(w)

\* No watch escapes control: the live watch that has not been cancelled is the
\* one DELETE /watch would cancel, and watchCancel never points at a dead one.
WatchIsStoppable ==
  \A w \in Watcher : watchCancel = w <=> Live(w) /\ w \notin cancelled

\* Once DELETE /watch was answered, the stopped watch begins no new request to
\* the hub: at most the one already on the wire arrives.
NoReportAfterStop ==
  [][\A w \in cancelled : phase'[w] = "posting" => phase[w] = "posting"]_vars

\* DELETE /watch takes effect: /status goes back to "watching":false, or a later
\* POST was answered first.
StopTakesEffect ==
  lastAnswer = "watch stopped" ~> (~watchRunning \/ lastAnswer # "watch stopped")

\* A watch goes on until it is stopped or the process ends: errors, timeouts and
\* lost reports of one scan never end the loop (main.go:85-99).
WatchKeepsScanning ==
  \A w \in Watcher :
    /\ watchCancel = w ~> (phase[w] = "waiting" \/ watchCancel # w)
    /\ phase[w] = "waiting" ~> (phase[w] = "scanning" \/ watchCancel # w)

\* An accepted trigger's goroutine ends: scans do not pile up for ever.
TriggerEnds == \A t \in Trigger : Live(t) ~> ~Live(t)

\* The abstract switch, read off the two globals.
switchOf ==
  IF ~watchRunning THEN "off" ELSE IF watchCancel = NoWatcher THEN "stopping" ELSE "on"

Switch == INSTANCE WatchSwitch WITH switch <- switchOf

ImplementsSwitch     == Switch!Spec
ImplementsFairSwitch == Switch!FairSpec

\* README.md:115 "POST /watch Starts continuous background scanning": after a POST
\* that was not refused with an error, a watch that will scan again exists.
PostMeansWatching ==
  lastAnswer \in {"watch started", "already watching"} => watchCancel # NoWatcher
=============================================================================
