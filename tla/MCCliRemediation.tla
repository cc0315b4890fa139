-------------------------- MODULE MCCliRemediation --------------------------
(* Instances of CliRemediation for TLC: two processes and one or two         *)
(* incidents, with plans that mix the kinds of steps.                        *)
EXTENDS CliRemediation, TLC

CONSTANTS s1, s2, i1, i2

Symmetry == Permutations(Session) \cup Permutations(Incident)

\* Two steps that may fail or succeed apart, and one of the kinds that never run.
MixedPlans == {<<"safe", "safe">>, <<"manual", "safe", "blocked">>}
=============================================================================
