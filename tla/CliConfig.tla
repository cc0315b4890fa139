----------------------------- MODULE CliConfig -----------------------------
(***************************************************************************)
(* The settings of clarctl: config.Load and Validate, the choice of the    *)
(* LLM client, and the configure wizard that rewrites ~/.claritty/.env     *)
(* (clarctl-go/internal/config, cmd/configure.go, internal/ai/pipeline.go).*)
(* Every command but configure loads the settings once, when it starts, so *)
(* what a command would work with is an operator of the state.             *)
(*                                                                         *)
(* Settings are a partial function from variables to values.  godotenv     *)
(* (external) parses and prints a file of them, or fails to parse it.      *)
(* Two wizards may overlap, and one may be killed at any time.             *)
(* The providers, models and keys stand for all settings; one more string  *)
(* and one number are kept for the ones that configure does not write.     *)
(***************************************************************************)
CONSTANTS
  Environments,  \* settings that the environment of a process may have
  LocalFiles,    \* settings that the .env of the working directory may have
  GlobalFiles,   \* contents of ~/.claritty/.env before the first wizard
  Offered,       \* providers that users pick
  Key,           \* API keys, or hosts, that users type
  Wizard,        \* runs of clarctl configure
  Blank,         \* the empty string
  Malformed      \* a number that does not parse

Keyed    == {"groq", "mistral", "openai", "anthropic"}
Provider == Keyed \cup {"ollama"}

\* A model's name: whose it is, and whether it is written "provider/model".
Model == [vendor : Provider, prefixed : BOOLEAN]

\* updateConfig's table.
EnvKey == [groq |-> "GROQ_API_KEY", mistral |-> "MISTRAL_API_KEY", openai |-> "OPENAI_API_KEY",
           anthropic |-> "ANTHROPIC_API_KEY", ollama |-> "OLLAMA_HOST"]

DefaultModel(p) == [vendor |-> p, prefixed |-> TRUE]

KeyVars == {EnvKey[p] : p \in Provider}
Numbers == {"AGENT_TIMEOUT_SECONDS"}
Vars    == {"LLM_PROVIDER", "LLM_MODEL", "K8S_NAMESPACES"} \cup KeyVars \cup Numbers

\* What getenv and getenvInt fall back to.
Default ==
  [v \in Vars |-> CASE v = "LLM_PROVIDER" -> "groq"
                    [] v = "LLM_MODEL" -> DefaultModel("groq")
                    [] v = "OLLAMA_HOST" -> "localhost"
                    [] v \in KeyVars \ {"OLLAMA_HOST"} -> Blank
                    [] v = "K8S_NAMESPACES" -> "default"
                    [] v \in Numbers -> "120"]

VARIABLES
  env,       \* the environment that commands are started in
  local,     \* .env in the working directory
  global,    \* ~/.claritty/.env
  wizard,    \* where each configure is
  promised   \* settings that users may count on: read or reported as saved

vars == <<env, local, global, wizard, promised>>

None == [v \in {} |-> Blank]

IsSettings(f) == DOMAIN f \subseteq Vars

\* The settings f, and those of g where f has none.
Over(f, g) == [v \in DOMAIN f \cup DOMAIN g |-> IF v \in DOMAIN f THEN f[v] ELSE g[v]]

\* What is in ~/.claritty/.env: settings, or something that does not parse.
File(f)    == [parses |-> TRUE, settings |-> f]
Unreadable == [parses |-> FALSE, settings |-> None]

ASSUME OfferedAssumption  == Offered \subseteq Provider
ASSUME SettingsAssumption == /\ \A f \in Environments : IsSettings(f)
                             /\ \A f \in LocalFiles : IsSettings(f)
                             /\ \A file \in GlobalFiles :
                                  \/ file = Unreadable
                                  \/ file = File(file.settings) /\ IsSettings(file.settings)

TypeOK ==
  /\ IsSettings(env) /\ IsSettings(local) /\ IsSettings(promised)
  /\ IsSettings(global.settings)
  /\ \A w \in Wizard :
       /\ wizard[w].pc \in {"form", "open", "truncated", "over"}
       /\ wizard[w].alone \in BOOLEAN
       /\ IsSettings(wizard[w].map)
       /\ wizard[w].pc # "form" => {"LLM_PROVIDER", "LLM_MODEL"} \subseteq DOMAIN wizard[w].map

-----------------------------------------------------------------------------
(* config.Load and what is made of it.                                     *)

\* godotenv.Read, its error left aside.
Parsed(file) == IF file.parses THEN file.settings ELSE None

\* Mutant: the local file is loaded first.
LocalFirst == Over(env, Over(local, Parsed(global)))

\* The environment after godotenv.Load of the global, then of the local file: neither
\* sets a variable that is there already, be it empty.
Environment == Over(env, Over(Parsed(global), local))

\* getenv, getenvInt: an empty variable, or a number that is none, is the default.
Setting(v) ==
  IF v \in DOMAIN Environment /\ Environment[v] \notin {Blank, Malformed}
    THEN Environment[v] ELSE Default[v]

\* Validate asks for the key of a provider it knows, buildLLM refuses one it does not.
Startable ==
  \/ Setting("LLM_PROVIDER") = "mock"
  \/ /\ Setting("LLM_PROVIDER") \in Provider
     /\ Setting(EnvKey[Setting("LLM_PROVIDER")]) # Blank

\* The model name buildLLM passes on: each provider's own prefix is cut off, but OpenAI's.
RequestModel ==
  LET p == Setting("LLM_PROVIDER")
      m == Setting("LLM_MODEL")
  IN  IF p # "openai" /\ m.vendor = p THEN [m EXCEPT !.prefixed = FALSE] ELSE m

\* The providers' APIs (external) know their own models by their bare names.
Serves(p, m) == m.vendor = p /\ ~m.prefixed

-----------------------------------------------------------------------------
(* clarctl configure.                                                      *)

Active(w) == wizard[w].pc \in {"open", "truncated"}

Init ==
  /\ env \in Environments
  /\ local \in LocalFiles
  /\ global \in GlobalFiles
  /\ wizard = [w \in Wizard |-> [pc |-> "form", alone |-> TRUE, map |-> None]]
  /\ promised = Parsed(global)

\* Mutant: the model is left to its default.
ChosenNoModel(p, k) ==
  [v \in {"LLM_PROVIDER", EnvKey[p]} |-> IF v = "LLM_PROVIDER" THEN p ELSE k]

\* The three settings that a run of the wizard is about.
Chosen(p, k) ==
  [v \in {"LLM_PROVIDER", "LLM_MODEL", EnvKey[p]} |->
     IF v = "LLM_PROVIDER" THEN p ELSE IF v = "LLM_MODEL" THEN DefaultModel(p) ELSE k]

\* updateConfig's envMap: what godotenv.Read finds, nothing if it fails, with the three
\* settings of this run put in.
Updated(p, k) == Over(Chosen(p, k), Parsed(global))

\* Both forms are answered; a form that is cancelled changes nothing, ever.
Read(w) ==
  /\ wizard[w].pc = "form"
  /\ \E p \in Offered, k \in Key :
       wizard' = [x \in Wizard |->
                    IF x = w
                      THEN [pc |-> "open", map |-> Updated(p, k),
                            alone |-> \A y \in Wizard \ {w} : ~Active(y)]
                      ELSE [wizard[x] EXCEPT !.alone = @ /\ ~Active(x)]]
  /\ UNCHANGED <<env, local, global, promised>>

\* godotenv.Write (external) begins with os.Create.
Truncate(w) ==
  /\ wizard[w].pc = "open"
  /\ global' = File(None)
  /\ wizard' = [wizard EXCEPT ![w].pc = "truncated"]
  /\ UNCHANGED <<env, local, promised>>

\* ... and writes the whole map in one piece.  What another wizard has written since
\* may stick out behind it: some of its lines, or an end that does not parse.
WriteMap(w) ==
  LET map == wizard[w].map IN
  /\ wizard[w].pc = "truncated"
  /\ global' \in IF global = File(None) THEN {File(map)}
                 ELSE {Unreadable} \cup
                        {File([v \in DOMAIN map \cup T |->
                                 IF v \in T THEN Parsed(global)[v] ELSE map[v]]) :
                           T \in SUBSET DOMAIN Parsed(global)}
  /\ wizard' = [wizard EXCEPT ![w].pc = "over"]
  /\ promised' = IF wizard[w].alone THEN Over(map, promised) ELSE None
  /\ UNCHANGED <<env, local>>

\* Killed, or the write fails: an empty file may stay behind.
Die(w) ==
  /\ Active(w)
  /\ wizard' = [wizard EXCEPT ![w].pc = "over"]
  /\ promised' = IF wizard[w].pc = "truncated" THEN None ELSE promised
  /\ UNCHANGED <<env, local, global>>

Next == \E w \in Wizard : Read(w) \/ Truncate(w) \/ WriteMap(w) \/ Die(w)

Spec == Init /\ [][Next]_vars

-----------------------------------------------------------------------------
(* Properties.                                                             *)

Quiet == \A w \in Wizard : wizard[w].pc # "truncated"

\* A setting that the file had, or that a wizard reported as saved, is the one commands
\* work with where the environment does not set it (godotenv.Load never overrides):
\* later wizards for other providers keep it, the local .env does not come before it,
\* and after a broken or overlapping run, which promises nothing, the next wizard puts
\* its own settings right.
ConfiguredIsUsed ==
  Quiet =>
    \A v \in DOMAIN promised \ DOMAIN env :
      promised[v] \notin {Blank, Malformed} => Setting(v) = promised[v]

\* config.go:78 "Load reads config from ~/.claritty/.env (preferred) then local .env, then
\* falls back to environment variables": what the global file sets is what is used.
GlobalFilePreferred ==
  \A v \in DOMAIN Parsed(global) :
    Parsed(global)[v] \notin {Blank, Malformed} => Setting(v) = Parsed(global)[v]

\* configure.go:19 "an interactive wizard to configure your LLM provider and API keys",
\* clarctl-go/README.md:31 "It supports Groq, OpenAI, and Mistral": with a provider and
\* its key configured, the model that is asked for is one that the provider serves.
ModelIsServed ==
  Quiet /\ Startable /\ Setting("LLM_PROVIDER") # "mock" =>
    Serves(Setting("LLM_PROVIDER"), RequestModel)
=============================================================================
