----------------------------- MODULE MCCliWatch -----------------------------
(* Instances of CliWatch for TLC: two namespaces, a node and three pods, in   *)
(* two states of the cluster that differ in each of their figures.            *)
EXTENDS CliWatch, TLC

CONSTANTS n1, n2, p1, p2, p3

TwoNamespaces == <<"default", "prod">>
CliBackoffs   == <<15, 30, 60>>

PodIn(ns, phase, waiting) == [ns |-> ns, phase |-> phase, waiting |-> waiting]

\* A sound cluster, and one with a node under pressure, a crash loop and a failed pod.
TwoWorlds ==
  {[nodes |-> [n \in Node |-> {"Ready"}],
    pods |-> [p \in Pod |-> PodIn("default", "Running", "none")]],
   [nodes |-> n1 :> {"Ready", "DiskPressure"} @@ n2 :> {"Ready"},
    pods |-> p1 :> PodIn("default", "Running", "CrashLoopBackOff")
             @@ p2 :> PodIn("prod", "Pending", "ContainerCreating")
             @@ p3 :> PodIn("prod", "Failed", "none")]}
=============================================================================
