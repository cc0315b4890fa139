-------------------------------- MODULE MCHub --------------------------------
(* Instances of Hub for TLC: two reports from two clusters, whose handlers   *)
(* interleave with each other and with PATCHes, and one report of an agent.  *)
EXTENDS Hub, TLC

Symmetry == Permutations(Report) \cup Permutations(Cluster) \cup Permutations(Id)

Body(urgent, snapshot, status) == [urgent |-> urgent, snapshot |-> snapshot, status |-> status]

\* One closing and one reopening status are enough to move resolved_at.
TwoStatuses == {"RESOLVED", "INVESTIGATING"}
DocumentedStatuses == {"RESOLVED", "MITIGATED", "INVESTIGATING"}

\* What agents post, NewReport: INVESTIGATING and never a snapshot.
AgentBodies == {Body(u, "absent", "INVESTIGATING") : u \in BOOLEAN}

\* Each kind of snapshot, a body without a status, and one that is closed already.
Bodies == {Body(TRUE, "absent", "INVESTIGATING"), Body(FALSE, "own", ""),
           Body(TRUE, "foreign", ""), Body(FALSE, "garbled", "INVESTIGATING"),
           Body(FALSE, "absent", "RESOLVED")}
=============================================================================
