# Formal models of Claritty

Claritty watches Kubernetes clusters with an LLM pipeline. The repository holds
three generations of it: an **agent** per cluster with a central **hub** and a
browser **dashboard** (`sre-agent/`), a command line tool **clarctl**
(`clarctl-go/`), and a **Python engine** (`agent-python/`); `claritty-agent-client/`
is an older metrics sender. This directory holds TLA+ modules of the parts that
carry state, TLC configurations that check them on small instances, and proofs
checked by TLAPS for every value of the constants.

## 1. Inventory

| part | state it keeps | operations | talks to | what makes it correct |
|---|---|---|---|---|
| Agent control (`sre-agent/agent/main.go`) | `watchRunning`, `watchCancel`, goroutines and their contexts | `POST /trigger`, `POST`/`DELETE /watch`, `GET /status`, SIGTERM, restart by the Deployment | starts scans, posts reports to the hub | one watch, always stoppable, status truthful, silent once stopped, never ends by itself |
| Agent pipeline (`internal/ai/pipeline.go`, `internal/k8s/collector.go`) | locals of one scan, attempt, backoff | `RunScan`, six stages, retry on rate limit | Kubernetes API, LLM | returns, bounded calls and waiting, a report from one collection |
| Hub (`sre-agent/hub`) | tables `clusters`, `incidents` | receive an incident (three SQL statements and an alert), patch status, list, stats | agents, dashboard, Slack | rows, answers and alerts agree whatever fails and interleaves |
| Dashboard (`hub/dashboard/js/app.js`) | last fetched rows, hub status, countdowns | periodic and manual fetch, trigger, watch, status change | the hub's API | comes to show the hub's tables, shows a changed status at once |
| clarctl (`clarctl-go`) | SQLite table of incidents, report copies in processes | scan, watch, apply, prompt, execution behind an allowlist | Kubernetes API, LLM, `kubectl`, the user | nothing runs without consent, the record is true |
| clarctl scan and watch (`cmd/`, `internal/ai`, `internal/k8s`) | contexts, locals of a round, table of snapshots | rounds of scan, snapshot, prompt and wait; Ctrl+C | Kubernetes API, LLM, SQLite | Ctrl+C stops, failures do not, only full snapshots are stored |
| clarctl settings (`internal/config`, `cmd/configure.go`) | `~/.claritty/.env`, local `.env`, environment | load, validate, choose the LLM, configure | the providers | what was configured is used, and works |
| clarctl helpers | none | runbook choice, health score | | agree with their documentation |
| Python engine (`agent-python`) | SQLite table, alert memory | as clarctl, with alerts | Slack, mail, webhooks | as clarctl; one alert per incident and window |
| Legacy client | none | loop of collect and send | a metrics server | |

What is hard here: HTTP handlers against a goroutine that ends late; retries of a
whole pipeline under a deadline; statements without a transaction that may fail
having been applied; IDs that repeat; processes with copies of one record; kills
between doing something and recording it. `PROJECT.json` lists these hazards at
their lines, with the properties aimed at them.

## 2. Modules

| module | models | used by |
|---|---|---|
| `WatchSwitch` | the switch an operator of the agent sees: off, on, stopping | `AgentWatch` (refinement) |
| `AgentWatch` | the agent's handlers, watch and trigger goroutines, shutdown | `MCAgentWatch`, `AgentWatchProofs` |
| `ScanContract` | what callers may rely on: a scan returns once, and completes a report only on a live context | `ScanPipeline` (refinement); the steps `ScanFails`, `ReportReady`, `ReportDropped` of `AgentWatch` are its outcomes |
| `ScanPipeline` | one scan with its reads, stages, retries and context | `MCScanPipeline`, `ScanPipelineProofs` |
| `Hub` | POST and PATCH handlers over the two tables, Slack messages, failing statements, crashes | `MCHub`, `HubProofs` |
| `CliRemediation` | clarctl's scan, watch and apply over the shared SQLite table | `MCCliRemediation`, `CliRemediationProofs` |
| `CliWatch` | one clarctl process through its rounds, with `ScanPipeline` as an instance | `MCCliWatch`, `CliWatchProofs` |
| `CliConfig` | clarctl's settings, and overlapping runs of `configure` | `MCCliConfig`, `CliConfigProofs` |
| `Dashboard` | the browser's `fetchAll` and `updateStatus` with the handlers behind them | run as it is; `DashboardProofs` |

Each `MC...` module only gives the constants values for TLC. Operators whose
comment says *Mutant* are wrong variants of the definition that follows them; they
are not part of the specifications and serve to show that a property can fail.

### AgentWatch

`watchRunning` and `watchCancel` are the two globals of `main.go`; `phase` says for
each goroutine whether it is scanning, posting, waiting in its `select`, or about
to take `watchMu` to leave. A `/watch` handler holds the mutex from its first to
its last statement and is one action. `DELETE` cancels a context; the goroutine
sees it only at its select, and select may choose the timer when both are ready
(`TimerFires` is enabled with a cancelled context). `expired` holds the goroutines
whose 10-minute scan context has run out. Goroutine identities are reused once
idle, so runs are not bounded in length. SIGTERM closes the listener: no new request
comes in, while the handlers under way finish (`Handling`) and the goroutines go on
until the process ends.

`ImplementsFairSwitch` states that all this implements `WatchSwitch`, reading the
abstract switch off the two globals (`switchOf`): off when `watchRunning` is
false, stopping when it is true and there is nothing left to cancel, on otherwise.

### ScanPipeline

Stage 1 reads nodes and namespaces, whose failure fails the stage, then the pods of
each namespace, logs and events, whose failure is swallowed: `ReadCluster`,
`SkipRead` and `StageFails`, one step for each read. `derived[s]` is the set of
readings that stage `s`'s output rests on; a reading carries the attempt it was
made in. Prompts embed the outputs of all stages before (`Inputs`). Any error ends
the attempt; a rate limit backs off and restarts from stage 1 while attempts are
left. `ctx` may end at any time. A read on a finished context may fail with an
error that *contains* "rate limit" (the Kubernetes client's limiter says so), and
the model allows it. What the cluster does between two reads is not modelled, and
no property compares two readings of one attempt. The mock provider, which answers from
a table and ignores the context, is left out: with `LLM_PROVIDER=mock`, meant for tests, a
scan may complete on a finished context.

### Hub

`receiveIncident` is a step for each thing that others can see: arrival, `UpsertCluster`,
the two statements of `InsertIncident`, the start of the alert, the answer. A statement
succeeds, or fails applied or unapplied, and `failed` remembers it for the handler; nothing
bounds how many fail. A PATCH is one statement, so that a failing one has done what a
working one does, or nothing. `Crash` loses all handlers and all messages under way at any
point, and keeps the tables. Bodies are what the handler tells apart: urgent or not
(`has_issue` with SEV1 or SEV2), the status or none, and the `cluster_snapshot`: absent,
not parsing (the upsert is left out, `handlers.go:103`), naming the report's own cluster,
or naming another one (the upsert goes there, `handlers.go:105`). A cluster's row is
complete or has NULL columns, which `ListClusters` leaves out without a word (`Listed`), and its score is
measured or zero. Rows carry the report they were written for, so that properties can
compare rows, answers and alerts. An alert is a goroutine of its own, if there is a Slack
client: started, and then sent or lost.

There is no clock. `detected_at` and IDs come from the agents' hosts and `resolved_at`
from the hub's, so the model lets any report have any ID and keeps of `resolved_at` only
whether it is set. GET handlers change nothing; what their answers may be is in `Dashboard`.

### CliRemediation

A session is one clarctl process with its own copy of the report: scanned, or read
by `apply`. `db` holds the status column and the JSON payload apart, since
`UpdateStatus` writes only the first. `applyRemediation` is one step for each
command and one for each statement after the loop. Of a command the model keeps
what the code tells apart: none (manual), refused by the allowlist, allowed. `done`,
`ran` and `consents` record what happened to the cluster and at the prompt. Fresh
IDs are random in the code and are taken not to collide.

### CliWatch

clarctl's `RunScan` is the agent's with other stages and other reads, so `CliWatch`
takes `ScanPipeline` with `CliStages` and `CliReads`: triage is split into collecting
and asking, pods are required, events, nodes and summaries are not. The prompt of a
clarctl stage quotes the earlier outputs one by one (`PromptInputs`); the assumption
`PromptsAssumption` states, and TLC evaluates, that this is all of them from triage
on, which is what `ScanPipeline` takes prompts to rest on. Around it are the places a
process goes through: the head of watch's loop, the scan under `scanCtx`,
`CollectSnapshot` read by read while the cluster may change, `SaveSnapshot`, the
prompt, the remediation (whose effects are in `CliRemediation`), the `select`.
`interrupted` is the state of `signal.NotifyContext`'s context; it cancels `scanCtx`
and the reads of the snapshot, and nothing else looks at it. A process starts again
after it has ended, as scan or as watch. Names of namespaces are taken not to be empty:
`K8S_NAMESPACES=a,` would give a second one that the Kubernetes API reads as all of them.

### CliConfig

Settings are a function from variables to values, and a file is a record of them and of
whether it parses; `Over` joins settings as `godotenv.Load` does, which overrides
nothing. `Environment` is what `os.Getenv` sees after the two `godotenv.Load`, `Setting` what `getenv` makes of it,
`Startable` is `Validate` with `buildLLM`'s default case, `RequestModel` the name that
`buildLLM` passes on. A model's name keeps two things the code tells apart: whose
model it is and whether the name begins with `provider/`. `configure` is read, truncate
and write, each a step, and it may be killed between them; writes that overlap may
leave a mix or a file that does not parse. `promised` holds the settings users may
count on: those of the file and those a wizard reported as saved, less what a killed
or overlapping wizard has put in doubt.

### Dashboard

A round of `fetchAll` sends its requests at once, gets their answers in any order, and
settles when all are there, or rejects at the first that does not parse. An answer is
a version of the tables, or `Partial`: an empty list, one cut short (the hub does not
look at `rows.Err`), a zero for a failed query. Rounds overlap, as the timer, buttons,
countdowns and `updateStatus` start them without looking at each other, and calls of
`updateStatus` overlap as well.

## 3. Runs

| run | bounds | states | shows |
|---|---|---|---|
| `agent_watch` | 2 watch goroutines, 1 trigger | 471 | nine properties below hold, with liveness |
| `agent_watch_post` | same | | **violated** `PostMeansWatching` |
| `scan_pipeline` | the real 6 stages and 3 attempts, 5 reads | 6 120 | the scan returns, keeps its budget and its contract |
| `hub_faults` | 2 reports, 2 clusters, 2 IDs, 5 kinds of bodies, a closing and a reopening status | 306 000 | tables, answers, alerts agree under faults, crashes and repeated IDs |
| `hub_health` | 2 reports of one cluster, as the agent makes them | | **violated** `HealthIsMeasured` |
| `cli_remediation` | 2 processes, 1 incident, plans of 2 and 3 steps, 3 consents, 2 faults | 154 000 | consent, true record, no reopening |
| `cli_prompt` | 1 consent, no fault | | **violated** `EachCommandIsPrompted` |
| `cli_watch` | clarctl's stages and 3 attempts, 2 namespaces, 2 nodes, 3 pods in 2 states of the cluster | 104 000 | exact snapshots, Ctrl+C stops, failures do not |
| `cli_config` | 3 wizards, 2 providers, 2 keys, 4 environments, 2 local and 3 global files | 149 000 | what is configured is what is used |
| `cli_configure` | 2 wizards, 5 providers, nothing set before | | **violated** `ModelIsServed` |
| `cli_env` | 2 wizards, one exported key, an empty file | | **violated** `GlobalFilePreferred` |
| `dashboard` | 2 rounds and 2 status changes at once, 2 of the 3 answers, 2 writes, 1 failure | 414 000 | the screen converges, a changed status shows |

Why the bounds are enough. *Agent*: a second watcher identity is what a double start
needs; a third adds nothing, since a start needs an idle one. *Scan*: stages,
attempts and backoffs are the code's; three optional reads give every mix of
swallowed failures. *Hub*: two reports for one or for two clusters are
all the ways two handlers meet, with IDs that differ or are the same and every statement
failing or not; the five bodies have each kind of snapshot, each way to a status and both
urgencies, and two clusters are what it takes for a snapshot to name the other. *CLI*:
interference is between two copies of one incident; the plans contain all kinds of
steps and one with two commands that may succeed apart. The two states of the cluster
differ in each figure of a snapshot. A third wizard shows what a run makes of the file
that two others have broken. *Dashboard*: two rounds are what it takes to settle in the
wrong order; the third answer of a round is treated as the first; the second write
follows a PATCH or goes before it, or is another PATCH, and one failure breaks a round, a
list, or the PATCH.

The violated properties state sentences of the repository, quoted in `PROJECT.json`
under "findings":

- `PostMeansWatching`: a POST that meets a cancelled, not yet ended watch is answered
  "already watching", and then nothing watches.
- `HealthIsMeasured`: agents never send the snapshot, so every score is an unmeasured zero.
- `EachCommandIsPrompted`: the documents promise a prompt for every command; one "y" runs
  the whole plan, on after a step that failed, and `--dry-run`, on by default ("print
  commands but don't execute", `scan.go:73`), does not stop it.
- `GlobalFilePreferred`: the comment of `Load` prefers the file to the environment, and
  `godotenv.Load` does the opposite.
- `ModelIsServed`: `configure` stores `openai/gpt-4o`; `buildLLM` cuts such a prefix off
  for every provider but OpenAI, which is asked for a model of that name.

Some behaviour that a reader should know of has no run of its own. In the models:

- an incident whose ID repeats is answered 201 and dropped, and if it is urgent its alert
  links to the other one (`OwnsId` exempts it; IDs are an agent's clock modulo 36^8
  nanoseconds, 47 minutes, and agents draw them apart from each other);
- after a restart the hub announces nothing again: `SilentOnlyByFault` tells which urgent
  incidents may stay unannounced;
- the agent leaves a namespace whose pods cannot be listed out of its snapshot without a
  mark (`collector.go:112`, against the comment at line 76);
- Ctrl+C is swallowed while clarctl prompts or runs `kubectl`;
- the dashboard reports a status change whatever the PATCH was answered;
- a file that does not parse is overwritten by `configure`, and one that a killed wizard
  has emptied is lost.

Outside them: `OpenIncidentCount` (`db.go:149`) counts status OPEN, while issues are stored
as INVESTIGATING, so `clarctl status` says that there are none; `detected_at` and
`resolved_at` are times of two hosts, whose difference (the MTTR) may be negative; reports
that overtake each other take a cluster's `last_seen` back.

### Fairness

`AgentWatch`: scans and posts return (10-minute and 30-second limits) and timers
fire: weak fairness. A goroutine that comes to its select again and again with its
context done takes that case at some time, as Go chooses uniformly: strong fairness
of `SeesDone`. Requests, signals, deadlines and restarts owe nothing. `ScanPipeline`:
weak fairness of the scan's own steps, as every call is bounded by the context's
deadline. `CliWatch`: the same for the scans, and the process's own steps and timers; a
read of a snapshot is only sure to end once Ctrl+C has cancelled its context, and
nothing is assumed of the prompt, of `kubectl`, or of the reads before, so that
`InterruptStops` and `WatchKeepsScanning` name these as places where a process may stay.
`Dashboard`: the timer goes on and every request ends some time, by an answer or an
error, one by one and in no order; users, writes and failures owe nothing and are bounded, so
`ConvergesToHub` is about the time after the last of them. `Hub`, `CliRemediation` and
`CliConfig` state safety only: requests, users and processes owe nothing.

`CHECK_DEADLOCK FALSE` is used where the system may stop: a scan returns; bounded
consents, incidents and wizards run out.

## 4. Proofs

All theorems hold for every value of the constants under the modules' named
assumptions.

- `AgentWatchProofs`. The invariant ties the two globals to the goroutines: there is
  a live watcher exactly if `watchRunning`, it is unique, `watchCancel` is that
  watcher unless it is cancelled. `SingleWatch` alone is not inductive: a start
  checks `watchRunning`, so the equivalence with liveness is needed. From it follow
  `WatchIsStoppable`, `StatusIsTruthful`, `NoReportAfterStop` and the refinement
  `ImplementsSwitch`.
- `ScanPipelineProofs`. `OutputsInv` says that the outputs so far are all the
  collection of stage 1, that it is of this attempt, and that no required read
  behind is missing; `CallsInv` counts the calls of earlier attempts and of this one;
  `ControlInv` relates results and control points. They give
  `OneCollectionPerReport`, `CallsBounded`, `RateLimitExhausted` and the refinement
  `ImplementsContract`.
- `HubProofs`. What is known of a request at each of its steps (its cluster row
  exists, it is listed unless a statement failed or the snapshot named another one or did
  not parse, its row is stored once it is past the insert, the message of an urgent
  one is started when it is past the alert) is kept by every step of every other handler because rows are never
  deleted; that lemma also gives the action properties `FirstReportWins` and
  `ListedStaysListed`. `AlertTheorem` needs to know in which steps a handler can be cut off
  with its row stored and no message started; `AcceptedIsKept` says that what was
  accepted is stored unless its ID was given twice.

- `CliRemediationProofs`. `RunsNeedConsent` compares two counters and is not inductive:
  a session that was told "y" has not run its steps yet. `CountInv` adds them up: for
  each incident and step, the runs so far and the sessions that may still run it
  (`Armed`) are no more than the consents. `PlanInv` (copies of an incident have one
  plan, as only a scan makes plans and it makes them for new incidents) and `RanInv`
  carry the allowlist through stale copies; `TruthInv` says that no copy, in the table or
  in a process, claims more than was done; `ColumnInv` and `RecordedInv` say what
  a table without faults lacks, and who is about to write it. Together they give all
  five properties of the run, `NeverReopened` among them as an action property.
- `CliConfigProofs`. `AloneInv` and `KeptInv`: while no wizard is between emptying the
  file and writing it, the file has every promise, and the map of a wizard that nobody has
  overlapped has them too. `ConfiguredIsUsed` follows through the laws of `Over`.
- `DashboardProofs`. `RefreshInv`: what each update's own round holds of the incidents
  was read after its PATCH, so that `UpdateIsShown` holds of every settling of that round,
  whatever other rounds and updates do.
- `CliWatchProofs`. The figures come first: counting is additive over disjoint sets of
  pods (`CountingAdds`) and keeps figures consistent. `CountedInv` says that what has been
  counted when namespace k is next is what the cluster has in the ones before, unless it
  has changed; with the place in `CollectSnapshot` (`CollectInv`) it gives
  `SnapshotIsExact`. The theorem needs that no namespace is configured twice
  (`NamespacesDiffer`, its hypothesis): the code lists a repeated one again and counts its
  pods again. For the pipeline the module takes the lemmas of `ScanPipelineProofs`, as an
  instance with clarctl's stages and reads whose assumptions `ScansApply` proves: every
  step of a command is a step of the pipeline, leaves it alone or starts it
  afresh, so `ScansKeepPromises` has the three scan properties for every round of clarctl.

TLC has checked each invariant on the instance of its run before it was proved.
The assumptions are few and named where the constants are declared. Most are types of
bounds and data. `ClusterAssumption` makes a cluster finite. `NoRowAssumption` and
`NoIncidentAssumption` keep a missing row apart from rows. `SettingsAssumption` and
`OfferedAssumption` say that files and users name the settings and providers the code
knows. `PayloadAssumption` gives the hub's bodies their type. `SlotAssumption` lets the dashboard have a round. `StagesAssumption` counts the
stages and asks nothing of their names.

Only model-checked:

- Liveness and fair refinements, out of TLAPS's reach: `StopTakesEffect`,
  `WatchKeepsScanning` (of both modules), `TriggerEnds`, `ImplementsFairSwitch`,
  `ScanReturns`, `ImplementsFairContract`, `InterruptStops`, `ConvergesToHub`. The safety
  parts of the two refinements are proved.
- The five violated properties, which are counterexamples.

Every other property of a run, invariant or action property, is a theorem.

## 5. Not modelled

Configuration of agent and hub, the reading commands and list handlers beyond the
figures named above, prompt wording, terminal output, rendering, the website, manifests.
The hub's `remediation_log` table is created and never used; so are clarctl's
`BestMatch`, `DescribePod` and `ExecPod`, which no command calls. The dashboard's
trigger and watch buttons call routes the hub does not have (`handleClusterDetail`
answers with the cluster's row), so no agent hears of them; a second `startWatch` leaves
a countdown running that only adds rounds of `fetchAll`. The health scores, the open counts
and MTTR figures are arithmetic over columns, in floating point and over clocks. Planned:

1. **Proofs** of what composes: that a round of clarctl, seen from outside, implements a
   scan's contract; an abstract store that the hub's two tables implement.
2. **PythonEngine**: alert deduplication, remediation and its allowlist; the legacy
   sender loop.
