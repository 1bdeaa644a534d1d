# TwinClaw: a verification project

TLA+ models of TwinClaw's runtime, the TLC runs that check them and the proofs TLAPS checks.
TwinClaw is one Node process: an agent gateway that takes messages from Telegram, WhatsApp and a
local API, runs model and tool rounds, delegates work to sub-agents, sends replies through a
persistent queue and heals itself when a signal goes bad. Its state lives in objects of that
process, in one SQLite database and in JSON and Markdown files that a few command line tools also
write. Paths below are relative to the repository; `services/...`, `core/...`, `api/...` are under
`src/src`.

JavaScript runs to completion between two awaits. In every module **one action is one stretch of
code between awaits**, with every synchronous call it makes (better-sqlite3 is synchronous); the
interleavings of the model are the interleavings of promise continuations, timers, cron jobs and
requests, and the death of the process at any point between them.

## 1. Inventory

| Component | State it keeps | Operations | What is hard | What makes it correct |
|---|---|---|---|---|
| Delivery queue: `services/queue-service.ts`, `services/db.ts` | rows of `delivery_queue` and `delivery_attempts`; processing mode, retry multiplier | enqueue, processQueue, one job per row, replay, mode and multiplier | overlapping polls, rows written from outside while a job is in flight, a crash mid-dispatch, text timestamps | one dispatch of a row at a time, no resend after success, bounded attempts, every message settles |
| Delegation runtime: `services/orchestration-service.ts`, executor in `core/gateway.ts` | jobs, graph bookkeeping per call, a shared failure counter | runDelegation, batches, retries, timeouts, cancel | shared breaker, abandoned calls, cancellation between selection and start | dependencies first, failures propagate exactly, every call ends |
| Incident manager: `services/incident-manager.ts` | open incidents with rollback stacks, safe mode, table `incidents` | evaluate, remediate, escalate, resolve | remediations that overlap on the same controls, restarts, sliding windows | remediations are undone, persistent signals are escalated, recovered ones resolved |
| Webhook: `api/handlers/callback.ts` | `callback_receipts`, queue rows | accept, reconcile, forward | check and record of a receipt are two awaits apart | one effect per key |
| Model router: `services/model-router.ts` | cooldown per model, preferred model, metrics | completion (also streamed), fallback, pacing, failover | concurrent requests clear and set the same cooldowns; a directive read before a sleep | no request to a cooling or barred model, every completion ends |
| Budget governor: `services/runtime-budget-governor.ts` | usage tables, provider cooldowns, manual profile | directive, record usage, set profile | skipped attempts count as usage; evaluation writes | a limit is overshot by the calls under way at most |
| Local state backup: `services/local-state-backup.ts` | snapshot directories, their rows, restore events | snapshot, prune, restore, roll back | failure or death between two targets, nested targets, retention beside a restore | a restore is all or nothing, a ready snapshot can be restored |
| Persona state: `services/persona-state.ts` | three documents, their joint revision | get, update, roll back | optimistic check and write are awaits apart | a save is all or nothing, no document is lost |
| Skill packages: `services/skill-package-manager.ts` | catalogue, lockfile | resolve, install, upgrade, uninstall | two processes, no lock, one temporary file | the lock is a closed, compatible graph |
| DM pairing: `services/dm-pairing.ts` | pending and allow-list files | request, approve, list | gateway and CLI rewrite the same files; death between two writes | a code that was sent stays good, an approval holds |
| Secret vault: `services/secret-vault.ts`, `config/json-config.ts` | secrets, versions, caches of two processes | set, rotate, revoke, read | caches, expiry, another master key | the value saved last is the value read |
| Setup: `core/onboarding.ts`, `core/simplified-onboarding.ts` | twinclaw.json, two accounts of the answers | ask, edit, confirm, cancel, save | sections asked again, edits, a second writer | what is saved is what was confirmed |
| Release: `services/release-pipeline.ts`, `services/mvp-gate.ts` | snapshots, rollback state, manifests, reports | prepare, roll back, drill; gate | partial failure, repetition, pruning by name | a success restored everything, a ready release has its snapshot, a verdict is true |
| Debounce and dispatcher: `services/inbound-debounce.ts`, `interfaces/dispatcher.ts`, `services/block-chunker.ts` | pending bursts with timers, replies being cut | authorise, merge, flush, dispatch in blocks | superseded promises, blocks of two replies | every text is heard once, every reply is whole |
| Job scheduler: `services/job-scheduler.ts`, `core/heartbeat.ts`, `services/proactive-notifier.ts` | jobs and their status | register, run, stop, unregister, notify | overlapping runs, stop during a run | status and alerts tell the truth |
| Gateway and context: `core/gateway.ts`, `services/context-lifecycle.ts`, `core/lane-executor.ts`, `services/policy-engine.ts` | transcript, tool map, rules | rounds, tool calls, compaction, budgets | tool map refreshed and rules changed by another request | rounds bounded, tools governed, transcript whole, budgets held |
| Semantic memory: `services/semantic-memory.ts` | rows, reasoning graph | index a turn, retrieve | chunks written without a transaction by overlapping turns | contradictions are linked |
| WebSocket hub: `api/websocket-hub.ts`, `api/runtime-event-producer.ts` | clients, timers | authenticate, subscribe, publish, heartbeat | full buffers, closing sockets | events in order, after the snapshot, to those who may; silent clients go |
| MCP: `services/mcp-client-adapter.ts`, `services/mcp-server-manager.ts`, `services/skill-registry.ts` | connections, circuits, registry | connect, call | breaker read after an await; late results; tools of one name | what is registered can be called, failing servers are spared |
| Browser: `services/browser-service.ts`, `api/handlers/browser.ts` | browser, page, snapshots | launch, navigate, snapshot, click | two first requests; a launch that fails half-way | a reference acts on its own page |
| Configuration (validation, migration), command line, adapters, speech, file watching, utilities, GUI | settings | sequential I/O | little | not modelled |

Interactions. The dispatcher enqueues replies; the queue's jobs call the platform adapters. The
webhook and the replay route write the queue's rows behind its back. The incident manager reads the
queue's counts, the router's health, the gateway's context and the callback receipts, and turns the
queue's mode and retry window, the router's preferred model and its own safe mode. The gateway calls
the delegation runtime, whose executor calls the router; the router asks the governor before every
request. The scheduler runs the queue's poll, the incident evaluation, the scheduled snapshot and the
heartbeat. Setup writes the file whose settings the vault falls back to. `PROJECT.json` lists every
component with its sources and every hazard at its line.

## 2. Modules

| Module | Role |
|---|---|
| `OutboundDelivery` | what the queue promises of a message, without tables, polls or clocks |
| `DeliveryQueue` | the queue over its tables, the webhook, the replay route, restarts, the clock |
| `MCDeliveryQueue` | back-off values and symmetry for TLC |
| `DeliveryQueueProofs` | its theorems, the refinement among them |
| `Orchestration` | the delegation runtime with the gateway's executor |
| `MCOrchestration` | the request graphs for TLC |
| `OrchestrationProofs` | its theorems |
| `IncidentManager` | self-healing over the controls it turns |
| `IncidentManagerProofs` | its theorems |
| `ModelRouter` | concurrent completions over the fallback chain, under the budget governor |
| `MCModelRouter` | the process configurations for TLC |
| `ModelRouterProofs` | its theorems |
| `PersonaState`, `StateRestore`, `SkillPackages`, `DmPairing`, `SecretVault`, `SetupWizard`, `ReleasePipeline`, `MvpGate` | the components whose state is files or shared tables |
| `StateFiles` | their instances, one of which runs, and the properties of each |
| `StateFilesProofs` | theorems of all of them |
| `MCStateFiles` | a small instance for TLC |
| `WebhookIntake`, `Inbound`, `BlockChunker`, `McpServers`, `JobScheduler`, `Conversation`, `ContextWindow`, `SemanticMemory`, `WsHub`, `Browser` | the components in the gateway's memory |
| `Runtime` | their instances, one of which runs, and the properties of each |
| `RuntimeProofs` | theorems of `WebhookIntake`, `McpServers`, `Conversation`, `ContextWindow` and `SemanticMemory` |
| `BackgroundProofs` | theorems of `JobScheduler`, `WsHub` and `Browser` |
| `InboundProofs` | theorems of `BlockChunker` and `Inbound`, and of the types of all of `Runtime` |
| `MCRuntime` | a small instance for TLC |

### DeliveryQueue

`row` is the table `delivery_queue`, `log` the table `delivery_attempts`, and `inflight` holds the
`#processJob` calls that await `dispatchFn`, by row and position of their attempt in the log.
`Poll` is `processQueue` up to its await: the dequeue transaction and, per row, the start of the
attempt. `Settle` is the continuation of one job (`Succeed`, `Fail`), which writes the attempt number
*the dequeue returned*, not the row's. `RequeueDeadLetter` and `Reconcile` are the writes of the
replay route and the webhook. A timestamp is kept relative to the current day, with its format: the
column is compared as text, and a blank sorts before a `T` (`TextLeq`). The multiplier of the retry
window is kept in halves, `RetryDelay` rounding down. Message text, platform and the metrics are left
out. `reopened` and `touched` are history: they bound the outsiders' writes and say which rows an
outsider wrote while the queue owned them.

`OutboundDelivery` has a phase and a number of tries per message: `Accept`, `Try` of a batch,
`Deliver`, `TryAgain`, `Abandon` after the last try, `Replay` of an abandoned message.

### Orchestration

`run[d]` is a `runDelegation` call: its graph, its jobs, the sets of `DelegationGraph`, the rest of
the wave of ready jobs that later chunks take, and what `Promise.all` of the current chunk knows of
each job. `calls` are the executor calls under way, awaited or abandoned by a timeout. `RunDelegation`
validates and launches the first chunk; `Resume` processes a chunk's outcomes and launches the next;
`Finish`, `Reject`, `Timeout` and `Refuse` end an attempt; `AbandonedEnds` ends a call nobody awaits.
Kahn's algorithm and the depth count are one recursive function (`Peeled`) that orders the graph in
layers: the order within a layer makes no difference. `dependsOn` is a set: the briefs the gateway
builds never repeat a dependency. `cancel()` is public and has no caller in the repository; it is
modelled as the API it is, and bounded.

### IncidentManager

`incident` and `order` are the map of open incidents and its insertion order, `controls` what the
playbooks turn, `record` the status of the latest row per type, `baseline` the callback total of the
previous evaluation. `evaluateNow` has no await; it is taken apart into `Evaluate` (signals and
detections), one step per detection (`KeepEscalated`, `CoolDown`, `Escalate`, `Remediate`: the
branches of `#handleDetection`) and `ResolveIncident`, in the code's order, between which only the
clock and a crash come. The two `#persist` calls of a new incident in one handler are one step. The
retry multiplier is a number of factors 1.5, capped where the code caps it at 6. A signal is over
its threshold or not, but for the callbacks: they are a total in a sliding window compared with the
last total. `undo` and `tangled` are history: the remediations in force, oldest first, and whether one
was undone before a later one.

### ModelRouter

`call[c]` is a `createChatCompletion` in one of its awaits: the pacing delay, the wait for a cooldown,
the request, the backoff after a 429 or the second request. An action is everything between two
awaits: `Walk` is the loop over the chain from one model to the next it requests or waits for, with
the usage rows of the models the policy blocks. `left` is the model it is at and those to come,
`blocked` the directive read at its start. `cool` and `pcool` are the cooldowns of models and
providers in clock units left; each model has a provider of its own. `usage` holds the three counts
the governor reads (today per provider, today, per session), each kept up to its limit, beyond which
the code makes no difference. `#evaluate` is `Severity`, `Profile`, `BlockedModels`, `Pacing`, `Armed`
and `BlockedProviders`. Tokens are limited as requests are and not modelled apart; the streaming
path, which nothing in the repository calls, is left out. `barred`, `limited` and `asked` are history:
the providers that were at their limit or cooling at a call's start, the time since a provider's last
429, and the requests it was sent. Between the end of a wait and the request that follows there are
only promise continuations of one event, and no other call's.

### The components over files (`StateFiles`)

Each file operation is an await: requests interleave there, an operation may fail (`MaxFaults` and the
like) and the process may die. Contents are numbers or the request that wrote them; a hash or a
revision is the contents it is computed from. History variables name what voids a promise (saves that
overlapped, a death, a failure of the rollback itself), and the properties state the promise for
everything else.

- `PersonaState`: `req[r]` is a session that loads and saves. `Stage`, `Copy` and the swap (remove,
  rename) go document by document in the order of `PERSONA_DOCUMENT_KEYS`; a plan is the set of their
  positions. `Rollback` undoes them, the last first.
- `StateRestore`: `job` are the snapshots under way (scheduled and manual), `restore` the restore.
  A target is the set of files it holds, because the database lies in the memory directory and both
  are targets. A plan is the set of the targets' positions in `SNAPSHOT_TARGETS`; the rows of the table
  have the order of their `n`. Validation, staging, removal, move and rollback are separate steps;
  retention prunes beside them.
- `SkillPackages`: a request reads the lock, solves (`Outcomes`: every graph the resolver's order of
  candidates can end in), writes the shared temporary file and renames it.
- `DmPairing`: the gateway's requests and the CLI's approvals read both files, change their copy and
  rename; codes expire and the list of requests is capped.
- `SecretVault`: the CLI and the gateway, each with its caches, over the tables and the configuration
  behind them; `clock` expires secrets; another `API_SECRET` than the one they were saved with makes the
  values unreadable (`rekeyed`; the first one to be set takes nothing away).
- `SetupWizard`: `wizard` asks the sections field by field and keeps `updates`, which it saves, beside
  `candidate`, which it shows; `quick` is the short onboarding, whose questions are one step.
- `ReleasePipeline`: preparation, rollback and drill asset by asset, with pruning by name; `MvpGate`:
  checks of one run against a workspace that changes, with two runs at once.

### The components in memory (`Runtime`)

- `WebhookIntake`: a delivery is looked up, reconciled, handed on and recorded, with a log entry (an
  await) in between.
- `Inbound`: `call[m]` is a handler of one message in one of its awaits, `window` the debouncer's
  entry of a chat and sender, `outbox` what the queue was given. Replies are cut by `BlockChunker`, a translation
  of the chunker and its coalescing over sentences that have an identity and a length.
- `McpServers`: `adapter` and `circuit` per server, the registry by tool name, and calls with the
  await between the check of the connection and that of the breaker.
- `JobScheduler`: jobs, their overlapping runs and what the notifier was told of them.
- `Conversation`: `turn[t]` runs its rounds: tool map refreshed, model answered, calls executed one by
  one under the rules at that moment, rows stored. `ContextWindow` computes what of a history is shown
  (a message is its tokens), one operator per stage. `SemanticMemory` writes the chunks of a turn.
- `WsHub`: sockets with their registry entries, `inbox` what each peer was sent.
- `Browser`: `browser`, `page` and the kept snapshots, and requests between two awaits of `init`.

## 3. Runs

| Run | Configuration | What it shows |
|---|---|---|
| `queue_world` | `DeliveryQueue_world.cfg` | safety with every outsider: webhooks of all kinds, replays of rows in any state, a restart |
| `queue_contract` | `DeliveryQueue_contract.cfg` | the refinement of `OutboundDelivery`, and liveness, in all modes |
| `queue_retry_time` | `DeliveryQueue_retry_time.cfg` | violated: a retry is not due when scheduled |
| `queue_restart` | `DeliveryQueue_restart.cfg` | violated: a row being sent when the process dies is lost |
| `orchestration_graphs` | `Orchestration_graphs.cfg` | one call over every shape of graph, with a cancel |
| `orchestration_shared` | `Orchestration_shared.cfg` | two calls that share the breaker, with a cancel |
| `orchestration_agents` | `Orchestration_agents.cfg` | violated: abandoned calls exceed the limit of concurrent agents |
| `incident_overlap` | `IncidentManager_overlap.cfg` | three overlapping incidents, a restart, safety and liveness |
| `incident_rollback` | `IncidentManager_rollback.cfg` | violated: the queue stays throttled after the last incident |
| `router` | `ModelRouter.cfg` | concurrent completions, operators, midnight, a restart: safety and liveness |
| `state_files` | `StateFiles.cfg` | each component over files: overlapping requests, failures at every step, deaths |
| `runtime` | `Runtime.cfg` | each component in memory: overlapping calls and turns, failures; safety and liveness |

The components of `state_files` share no file with each other, and those of `runtime` meet only in
the queue, the incident manager and the router, which have runs of their own. A run of their
interleavings would therefore show no more than a run of each: `system` names the one that moves, and
a property of a component is about the behaviours in which it does. What these properties say:

- `PersonaSafe`: a save that fails anywhere leaves the documents of the last success, and even a death
  loses none (exceptions: overlapping saves, a failing rollback, a failure after the backups went).
- `RestoreSafe`: a snapshot called ready that nothing disturbed validates; a restore leaves all or
  nothing of its targets but the one whose operation failed, and a failure is reported as one.
- `CodesHonoured`: a code that was sent can be approved until it expires, and an approved sender is
  let in, unless one write undid another's or a death came between the two files of an approval.
- `SavedIsRead`: the gateway reads the secret that was saved last, never one that was replaced,
  revoked or expired, within what its caches know; the wizard saves exactly what its summary showed,
  a configuration that starts, and keeps what was not answered (unless the short form saved meanwhile).
- `LockSound`: the lockfile is always a closed graph of compatible packages, whatever requests overlap.
- `ReleaseSafe`: a rollback recorded as a success restored all its snapshot holds, also after rollbacks
  that died; a release called ready has its snapshot, until a command dies; if the gate's latest verdict
  is "go", no hard check of it failed and its report is on disk.
- `WebhookOnce`: deliveries of one webhook that do not overlap are processed at most once, and the
  answers agree with what was done.
- `RepliesWhole`: every sentence of a reply is sent once and in order, whatever is cut, coalesced and
  interleaved; no text is heard twice, and what is heard came in a window an allowed sender opened.
- `McpSafe`: a tool is registered exactly when a server that offers it is connected, and the server it is
  registered for can be called (unless the connection failed at its last log entry); while the last answers were as many failures as the threshold and the
  last of them is not older than the cooldown, no call is sent.
- `TurnsSafe`: a turn ends after its rounds, runs no tool the rules of the moment deny, and every tool
  call has one result in the transcript; every message is in one tier, and a section exceeds its budget
  by the mark of a cut at most; claims that contradict each other are linked.
- `BackgroundSafe`: what is shown and told of a job is so; events reach subscribed clients only, in
  order, after the snapshot; a browser reference acts on the page it was taken from (unless first
  requests or closes overlapped).
- `RuntimeLive`: a text in a window that an allowed sender opened is heard, unless the gateway stops; the
  breaker of a server that recovered and is called closes; a client that answers no more is evicted.

Bounds, and why they are enough.

- Queue: two rows are what a batch, an order by timestamp and a race between rows need. `queue_world`
  takes `MaxAttempts = 2` (one retry, one dead letter), `BatchSize = 2`, two reopenings (`MaxReopened`:
  replays and failed callbacks of all rows, enough for a replay *of* a replay and two extra jobs on one
  row) and one restart (`MaxCrashes`). `DayLength = 1` there: any retry is due the next day, so the
  clock adds nothing to safety. `queue_contract` takes three attempts, two units per day and delays
  that stay in the day or cross midnight, `BatchSize = 1`, whose half is the floor of the throttled
  mode, and multipliers of 0.5 and 1.
- Orchestration: `orchestration_graphs` has up to five nodes over a limit of four and a depth limit of
  three; the graphs include chains, diamonds, forks, cycles, missing nodes, one node too many and one
  level too many. `MaxConcurrent = 2` makes waves of several chunks; `MaxRetry = 1` is the gateway's.
  `orchestration_shared` has two calls over three nodes and a breaker threshold of two, so that the
  failures of one call open the breaker of the other. `MaxCancels = 1`.
- Incidents: `Cooldown` of one unit separates "cooling" from "over"; three remediations reach every
  playbook action and the escalation; a burst of one and a window of `MaxRejected` callbacks make a
  storm begin and end; two or three models make failover wrap. Larger instances (all four types; three
  rejected callbacks) pass the same invariants, but take longer than a run should.
- Router: two completions at a time over the three models; `MaxEvents = 3` completions, acts of
  operators, midnights and restarts in all: three completions, or two with one event from outside.
  The limits (two requests per provider, three a day, four per session) are reached by one or two
  completions, and every severity and profile occurs. A 429 cools a model for two units, one more
  than the longest wait, so that a wait ends both before and after the cooldown; the pacing delay and
  the provider's cooldown are one unit. Either fallback mode; all keys, or no key for the primary with
  the last fallback as the preferred local model.

The two large compositions are parameterised like the others: `StateFilesAssumption` and
`RuntimeAssumption` say what their constants are (with `TalkAssumption`: rules allow or deny;
`ContextAssumption`: budgets of any sign, budgets and texts below a million tokens, so that a count has six
digits at most; `InboundAssumption`: no sentence and no paragraph is empty, as the chunker drops blanks, and
`MinChars < MaxChars` with `MinChars` at least one, which the chunker's constructor sees to at
`services/block-chunker.ts` lines 31 to 32; `MemoryAssumption`), and `MCStateFiles` and `MCRuntime` with their configurations give them
values. `Retention < DrillRetention` holds of the code's defaults, 5 and 10: a
drill prunes with the larger number, so the snapshot it takes and the one it restores stay. An operator
who prepares with `--retention 10` or more leaves so many releases that the next drill may prune the
snapshot it has just taken, whose name sorts first; the assumption leaves that out.

- Files: two sessions, requests or processes per component and one failure or death (`Faults = 1`);
  two documents, targets or assets are what "half-way" needs, one of each absent at first where that
  may be; two targets that are nested; retention of one, so that the snapshot in use is the one to go;
  two packages of two versions with one withdrawn; one code over the cap. The wizard has four sections
  with six keys over an empty or a full configuration.
- Memory: two calls, runs or turns at once (`Slots`) and one failure, two where a failure must meet
  another; three messages and a reply of two blocks; two servers with a tool of the same name, one of
  them also a builtin's, a threshold of two; two rounds of up to two tool calls; histories of six
  messages of three sizes around the budgets; texts of five sentences of three lengths around the
  chunker's limits; a client with a topic that has a snapshot and one that has none.

Fairness. `WF(Poll)` and the incident manager's `WF(Evaluate)` are cron jobs (`QueueService.start`,
`IncidentManager.start`); `WF(Tick)` is the clock; `WF(Settle(r))` assumes that a platform call returns
or fails in the end; `WF(Resume)`, `WF(Refuse)` are promise continuations and `WF(Timeout)` is a
timer, so every delegation ends even if no router call returns. The router's `WF(CallStep(c))`
is its timers and continuations, and assumes that a request is answered or fails (the HTTP client
gives up in the end). No fairness is assumed of users,
operators, webhooks, `cancel()`, restarts or, in `Orchestration`, of the calls it makes to the router. An evaluation of incidents runs to its end
(it has no await), hence the fairness of its steps. `PersistentIsEscalated` says nothing of callback
storms: their signal is a difference of bounded totals and cannot persist.

In `runtime` fairness is stated of the components whose liveness is checked. `Inbound`: `WF(Flush(c))`, the
debounce timer. `McpServers`: `WF(Tick)`, the clock, and `WF(Enter(c))` and `WF(Succeed(c) \/ Fail(c))`: a
call passes its awaits and is answered or fails. That a server is up is not assumed: the breaker is
claimed to close only if it stays up and goes on being called. `WsHub`: `WF(RunHeartbeat)` and
`WF(AuthTimeout(c))`, its timers. None is assumed of senders, peers, failures or deaths.

`Orchestration`, `ModelRouter` and the two runs over many components are checked without deadlock: their
calls and requests are bounded and end, and then nothing need happen. The other modules never stop.

Every property of a passing run has a mutant in its module: the definition as a plausible bug would
have it (a dropped guard, an off-by-one, a wrong order), under which TLC finds the property violated.
The modules of the two large runs hold further ones, for the parts of a property its listed mutant does not
break: a vault that forgets a version, a verdict by count, snapshots kept by a closed browser, edges in
one direction, a heartbeat that never evicts, an alert only when shown, a rollback that starts
silently, and others; each was found violated.

## 4. Findings

1. **A retry waits for the next day** (`queue_retry_time`). Retries and replays store an ISO
   timestamp; the dequeue compares it as text with `CURRENT_TIMESTAMP`. Within the same UTC day the
   ISO form is always the greater, so the computed delay of seconds becomes "after midnight UTC".
   Nothing is lost (`EveryPendingRowIsTaken` holds), the back-off is.
2. **A restart strands the row being sent** (`queue_restart`). `dispatching` rows are never selected
   again and start-up repairs nothing. Only the death of the process does this
   (`OnlyARestartStrands`, proved).
3. **Concurrent agents are not bounded** (`orchestration_agents`). A timeout stops waiting for a
   delegated call, not the call; the next chunk starts beside it.
4. **Rollback leaves the queue throttled** (`incident_rollback`). Each remediation restores what it
   found; two incidents that overlap without nesting restore each other's setting. When they nest,
   everything is undone (`ReversedWhenNested`).

Also seen while modelling, not the subject of a run:

- Queue, runtime, incidents, router: replaying a message that is being sent starts a second dispatch; a
  failed job's retry always runs on an aborted signal after a timeout, so it is refused at once; an
  incident that flaps escapes its cooldown and attempt ceiling; the cooldowns of providers are lost with
  the process, where `conductor/archive/runtime_budget_governance_20260220/spec.md` line 10 asks for them
  to persist; a model the policy skips counts as a request to its provider, its day and its session; a
  forced failover changes nothing while the profile is `economy` or `balanced`, whose orders are fixed.
- Webhook: deliveries that overlap are both processed, and the retry of a rejected one is answered
  `accepted: true, duplicate`; `conductor/archive/delivery_queue_deadletter_20260220/plan.md` line 18
  asks that duplicate callbacks "remain idempotent". A rejection of the turn is unhandled.
- Dispatcher: a caller whose message is superseded in a window is never resolved; a voice message that
  opens a window loses the texts merged into it, later audio is dropped; the merged message carries
  the first sender. Long paragraphs are not split; the protection of code fences is not used.
  With limits so close that two chunks may be short though no chunk takes both (`maxChars < 2 * minChars - 1`)
  a run of short chunks is coalesced into one of any length, as `#coalesceChunks` adds a short chunk to the
  one before without looking at `maxChars`: the proof of `RepliesAreWhole` failed there, and its bound on
  lengths excepts it. The defaults are far from it.
- Conversation: rules are decided by the name called, so an alias escapes the rule for its tool; the
  audit says "allow" of a tool that is then denied; `index.ts` sets no rules, so high-risk tools
  never run; stored tool rows are replayed without their call id; overlapping turns of a session
  see each other's half.
- Context: the hot window may skip a long message between two shorter ones; a section's budget below
  the truncation marker is exceeded by it; `totalBudgetTokens` is not used.
- Memory: the relation 'supports' cannot occur, as a node's id is its claim and polarity; the counts of
  the graph count an edge again per row.
- Jobs: a failing log entry swallows `job:error`; a run that ends after `stop()` shows 'idle'.
- MCP: a failing log entry after a connection leaves an adapter in error with its tools registered; a
  half-open circuit lets every call through; a tool of a name that exists replaces it, a builtin one too.
- Hub: the comment at `api/websocket-hub.ts` line 129 says the oldest message is dropped, the code drops
  the newest; the topic 'health' is never published; a snapshot lost on a full buffer is not sent again.
- Browser: two first requests launch two browsers and leak one; a launch that fails half-way leaves
  the service without a page until `close()`, which nothing calls; a reference of an older page is
  refused only once its snapshot was evicted.
- Backup: with nested targets a snapshot of files that change can be invalid for ever though it is
  called ready; the target being moved when a restore fails is lost; the scopes the API admits lack `config`.
- Pairing, packages: updates that overlap lose one; a package stays active though a dependency is
  blocked; a withdrawn version makes every install fail; a failure after the rename reports a failure
  of a change that was made.
- Vault: a revoked or expired secret falls back to the configuration's; the redaction of values
  (`services/secret-vault.ts` lines 870 to 918) iterates a promise.
- Setup: whichever program saves last undoes the other's save; editing a section is not checked as
  asking it is, so a confirmed summary may be refused and every answer is lost; the short onboarding
  drops runtime settings it does not ask for and enables Telegram without its user.
- Release: a repeated rollback is a no-op though files changed since; `docs/release-rollback-runbook.md`
  says a drill has no live impact, but it restores over the workspace; after a blocked preflight it
  restores the previous snapshot; pruning is in the order of names; a directory a crash left counts
  as a snapshot. Smoke scenarios do not count in the gate's verdict.

## 5. Proofs

For every number of messages, attempts, batch size, delay, mode and restart (`QueueAssumption`):

- `TypeCorrect`: `TypeOK`, by one lemma per action. It is inductive: a job in flight has an open
  attempt in the log.
- `Invariance`, `OneDispatch`, `AtMostOneAcknowledgement`: `OneDispatchAtATime` and `SentOnce` are not
  inductive. `CleanRow` adds, for a row no outsider overwrote, that its only job is that of its last
  attempt, that a `dispatching` row's column is that attempt's number, and how the attempt count
  relates to each state; `Inv == TypeOK /\ CleanRows` is preserved by every action (`PollClean`,
  `SettleClean`, ...).
- `StrandedByRestartOnly`: `OnlyARestartStrands`, for all rows, touched or not.
- `AttemptsAreBounded`: `AttemptsBounded` counts dispatches; the invariant counts the jobs in flight and
  those that can still start, row by row, against the reopenings that paid for them.
- `PromiseKept`: under `QueueOnly` (no webhook but progress reports, replays of dead letters only) the
  queue implements `OutboundDelivery`. Then no row is ever touched, so every row is clean, and each
  step maps to one abstract step or leaves the phases and tries alone (`PromiseStep`).

For every set of calls, graphs and limits (`OrchestrationAssumption`):

- `Invariance`: `Loop` says, for a call in its loop, that a released dependency completed, that a job
  that runs has none left, that a waiting chunk is ready and that what left `pending` is terminal;
  `WaveKept` that only `cancel()` changes a job waiting for a later chunk. The operators on a call's
  record (`WithCancelled`, `Launched`, `NextRound`, `Dropped`, `Processed`) have lemmas of their own.
- `TypeCorrect`, `DependenciesComeFirst`, `FailuresReported`, `NoThrowWithoutCancel` follow from it, and
  `BreakerStaysOpen` is an action property from it.
- `CancellationsHaveACause` adds the converse of `Loop` (`Known`): what is unmet of a pending job has not
  completed, but for the batch whose outcomes are not processed. A job dropped by `#cancelDependents`
  depends on a job of the batch that did not complete or on one that is dropped too, since no smaller set
  is closed; a job cancelled because nothing is ready waits for one that is terminal and did not complete.
- `AdmissionIsExact`: `Peeled` is a recursive function, and what it computes is proved by a least
  counterexample among its rounds (`LeastExists`, from the well-foundedness of inclusion): the rounds
  are as the recursion says (`PeeledByRounds`), no node of a cycle is ordered, a round that adds nothing
  leaves a cycle, and a node is not ordered in k rounds exactly when a chain of k + 1 nodes ends with it.

For every number of concurrent completions and all limits, delays and cooldowns (`RouterAssumption`):

- `Invariance`: beside the types, a call that is past its pacing is at a model its directive lets
  through, what it is barred from is blocked for it, and the cooldown of a provider lasts at least as
  long as its last 429 asks. `WalkStep` says where the loop over the chain stops (`FirstStop`), and one
  lemma per step of a completion gives its record after the step.
- `TypeCorrect`, and the action properties `CoolingModelIsSpared` and `BarredProviderIsSpared`.
- `OvershootIsBounded`: `OvershootBounded` is a sum over the calls under way. The invariant counts for each
  call what it may still send a provider that is at its limit: two requests at most, from when it starts.

For every set of incident types, limits, models and restarts (`IncidentAssumption`):

- `Invariance`: a rollback restores what its remediation found, and other remediations may have come
  before, after or in between. `Placed` says where the entry of each remediation in force is among the
  stacks, `Explained` gives for each control its value before each of them: who turns it found that
  value, and between two who turn it it stays. Without these two nothing is known of a stack that is
  not the last one's.
- `NestedIsReversed`, `SafeModeAlwaysEnds`, `RecordsAlwaysAgree`, `TypeCorrect` follow.

For every set of keys, servers, jobs, sockets and calls of the components in memory (`RuntimeAssumption`):

- `WebhooksAreProcessedOnce`: `KeySound` says that the deliveries of a key that did not overlap come one
  after the other, `Counts` bounds the turns begun by those that got past the lookup, `Honest` is what
  the answers claim.
- `ServersAreSafe`: `NameSound` ties the registry to the connections, `BreakerSound` the failures in a row
  to those the breaker counts.
- `TurnsAreSafe`, the whole of `TurnsSafe`. Of a turn (`TalkInv`): `Counted` says how often the batch it is
  at was seen in a row, `NoRun` that no batch was run more often, `Answering` and `Paired` that the calls
  of the transcript have their results but for those of the batch under way, in its order, `Granted` that
  what ran was allowed by the rules of that moment. Of the context: what is hot is what a recursive function
  counts from the newest message back (`NewestByMessages`, `NewestSound`, by a least counterexample), the
  tiers add up to the history (`TiersCounted`), and a cut section keeps its budget but for the mark of the
  cut, whose length is that of a number of six digits at most (`SectionFits`). Of the memory:
  `DenialsLinked` and `EdgesSound` say which claims have nodes and edges while a turn is being written.
- `RepliesAreWhole`, for every text, every configuration of the chunker and any number of messages. The
  chunker is four loops, each a fold: what a fold computes is the last entry of a table with an entry per
  prefix (`TableOf`; the table exists by a least counterexample), so a loop's invariant is proved along its
  table (`PackAllFacts`, `BySentenceFacts`, `ByParagraphFacts`, `CoalescedFacts`). The invariant (`Good`) is
  that the chunks so far and the one being filled hold what was read, that their lengths are among those
  allowed, and, for the coalescing, that no two short chunks follow each other (`Spaced`). Of the
  dispatcher (`InboundInv`): `ReplySound` says that what a chat was sent of a reply and what is left of it
  are its text, `WindowSound` that the last caller of a window waits for it and its texts came since it was
  opened, and `HeardSound` that what was heard, or waits for a transcription, came from windows that are
  closed, each opened by an allowed sender.
- `RuntimeIsTyped`: `RuntimeTypeOK` is the conjunction of the components' types, each a part of the
  component's invariant above but for the bounds of the counters (`JobsCounted`, `HubCounted`,
  `BrowserCounted`).
- `BackgroundIsSafe`: `JobsInv` counts failures as those reported, those missed and those on their way;
  `HubInv` says what a peer was told since its subscription; `BrowserInv` that a reference a request
  holds and the snapshots kept are of pages the service had, with the request that took them.

For every set of documents, targets, packages, senders, secrets, assets, checks, sections and clients of
the components over files, and any number of failures (`StateFilesAssumption`). In each the promise is about
the moments between the operations, so the invariant says what an operation under way knows:

- `SavesAreAtomic` (`PersonaSafe`): `Undoable` says of the one save under way that its backup copies are
  what the documents were before it touched them (`Backed`), which are those last agreed on; which
  documents are copied, replaced or put back at each step (`Copied`, `AllCopied`, `PutBack`); and that a
  document that is missing has a copy, of this save or of one that died (`Others`). It is claimed until
  saves overlap, the rollback fails or the failure comes after the backups went, which void the promise.
- `LocksAreSound`: a request's `read` and `next` are closed graphs, the temporary files hold what the
  request under way wrote, and with one request at a time what it read is the lock agreed on.
- `CodesAreHonoured`: what a process carries from its read to its write is what the files still hold, but
  for the entry it adds or takes; a request that is cut to the cap only loses those not yet challenged.
- `SavedSecretsAreRead`: the value of an active secret is the one saved last, encrypted with the key of the
  configuration it was saved under; a wizard's `candidate` is its `base` with its `updates` laid over,
  its two accounts of the answers, and `base` is the file until somebody else saves.
- `ReleasesAreSafe`: snapshots have names of their own below the counter, a rollback under way has restored
  the assets before the one it is at, and there are never more releases than the retention, so a drill
  that prunes with a larger one keeps its own (by counting: `PrunedReleases`, from `LeastExists`). The
  gate's `latest.json` is the report of a run that is over and is on disk.
- `RestoresAreWhole` (`RestoreSafe`): of a file that the program does not write during a restore,
  `RestoreSound` says that on the way forward it is as staged for one of the targets done that hold it, or
  as before (`Come`), and on the way back as before unless a target still to be undone holds it; the
  rollback copies hold what was before (`CopiesKept`). Nested targets are why this is said of files and not
  of targets: the database is replaced twice, and put back twice. A snapshot has a
  manifest if and only if it has a row (`SnapshotSound`), and one that will be called undisturbed is the
  only call under way and has copied what is there (`JobSound`). The list of targets names each once
  (`Listed`), as `SNAPSHOT_TARGETS` does.

Model-checked only: everything under fairness (`EveryPendingRowIsTaken`, `EveryMessageSettles`,
`EveryCallEnds`, `EveryCompletionEnds`, `PersistentIsEscalated`, `RecoveredIsResolved`, `RuntimeLive`),
which is out of the prover's reach. Every safety property of a passing run is proved.

## 6. Plan

What is left, in order of importance.

1. Refinement: `WebhookIntake` to a set of keys processed at most once, `PersonaState` and `StateRestore`
   to an atomic replacement, where nothing overlaps.
2. The dispatcher composed with the queue: a reply's blocks sent in order although a retry of one
   waits for the next day.
3. Start-up and shutdown, with the rest of the configuration.

## 7. Not modelled

- Command line tools but setup and pairing, the validation and migration of settings, platform adapters,
  speech, file watching, embeddings, logging, the scan of texts for secrets and the GUI: sequential I/O
  or thin wrappers of libraries, where the state a property could relate is a library's.
- The delivery tracker, the router's streaming path, `disconnect()` of a tool server outside the exit, the
  scripted mode of the wizard and the file watcher's `stop()`: nothing in the repository calls them.
- Message contents, prompts, wording, token estimates, vectors, scores and metrics are abstracted in every
  module. The read-only API handlers keep no state.

## Running

    tlc -workers 2 -config DeliveryQueue_world.cfg MCDeliveryQueue
    tlapm DeliveryQueueProofs.tla

and likewise for the other rows of the table of runs (`MCOrchestration` for `Orchestration_*.cfg`,
`IncidentManager` for `IncidentManager_*.cfg`, `MCModelRouter` for `ModelRouter.cfg`, `MCStateFiles` for
`StateFiles.cfg`, `MCRuntime` for `Runtime.cfg`). The instances of
the passing runs take a minute or three each; the proofs take minutes, and those of `InboundProofs` a quarter of an hour.
