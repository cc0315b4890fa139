---------------------------- MODULE WatchSwitch ----------------------------
(***************************************************************************)
(* What the /watch endpoint of the agent promises, seen from outside: one  *)
(* switch per agent process.  It is turned on, asked to stop, and some     *)
(* time later it is off; a process that ends takes the switch with it.     *)
(* AgentWatch, the detailed module, implements this one.                   *)
(***************************************************************************)

VARIABLE switch

SwitchStates == {"off", "on", "stopping"}

Init == switch = "off"

\* POST /watch is answered "watch started": only a switch that is off.
TurnOn == switch = "off" /\ switch' = "on"

\* DELETE /watch cancels the running watch.
AskToStop == switch = "on" /\ switch' = "stopping"

\* The cancelled watch notices, and reports itself stopped.
Stopped == switch = "stopping" /\ switch' = "off"

\* The process exits or is killed; nothing of the switch survives.
ProcessEnds == switch # "off" /\ switch' = "off"

Next == TurnOn \/ AskToStop \/ Stopped \/ ProcessEnds

Spec == Init /\ [][Next]_switch

\* A watch that was asked to stop does stop.
FairSpec == Spec /\ WF_switch(Stopped)
=============================================================================
