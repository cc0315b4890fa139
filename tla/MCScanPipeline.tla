--------------------------- MODULE MCScanPipeline ---------------------------
(* The agent's pipeline: its six stages, three attempts and backoffs, and the *)
(* reads of nodes, namespaces, the pods of two namespaces, and events.        *)
EXTENDS ScanPipeline

AgentStages   == <<"triage", "metrics", "logs", "infra", "runbook", "commander">>
AgentReads    == <<"required", "required", "pods", "pods", "extra">>
AgentBackoffs == <<15, 30, 60>>
=============================================================================
