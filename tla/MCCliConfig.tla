---------------------------- MODULE MCCliConfig ----------------------------
(* Instances of CliConfig for TLC: three wizards that may overlap, two       *)
(* providers to pick from, and environments and files of every kind that Load *)
(* tells apart: with, without and with empty or malformed variables.          *)
EXTENDS CliConfig, TLC

CONSTANTS k0, k1, k2, w1, w2, w3

Symmetry == Permutations(Wizard) \cup Permutations(Key)

\* An exported key, an exported empty variable, a malformed number.
SomeEnvironments ==
  {None, "OPENAI_API_KEY" :> k0, "LLM_PROVIDER" :> Blank, "AGENT_TIMEOUT_SECONDS" :> Malformed}

SomeLocalFiles ==
  {None, "LLM_PROVIDER" :> "mistral" @@ "K8S_NAMESPACES" :> "local" @@ "MISTRAL_API_KEY" :> k0}

SomeGlobalFiles ==
  {File(None), Unreadable,
   File("K8S_NAMESPACES" :> "prod" @@ "MISTRAL_API_KEY" :> k0 @@ "LLM_PROVIDER" :> "mistral")}

\* A key that was exported before the wizard asked for another one.
ExportedKey == {"OPENAI_API_KEY" :> k0}

\* Nothing but what the wizard writes.
Nothing   == {None}
EmptyFile == {File(None)}
=============================================================================
