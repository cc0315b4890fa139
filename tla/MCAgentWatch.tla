---------------------------- MODULE MCAgentWatch ----------------------------
(* Instances of AgentWatch for TLC: two watch goroutines, so that a second   *)
(* one could exist beside the first, and a trigger's goroutine.              *)
EXTENDS AgentWatch

CONSTANTS w1, w2, t1
=============================================================================
