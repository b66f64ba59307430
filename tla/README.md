# Selu in TLA+

Selu runs personal assistants: an orchestrator (Rust, tokio, SQLite, Docker)
that holds conversations with language-model agents, installs those agents from
a marketplace, runs their tools in containers, talks to people over messaging
channels, and is itself updated by a small sidecar. This directory holds TLA+
models of the parts of it where an interleaving, a crash or a failing step
decides whether the program is right, the TLC runs that check them on small
instances, and TLAPS proofs of what matters most for every instance.

Line numbers refer to `src/`; paths below omit `src/crates/` and, in the tables,
`selu-orchestrator/src/`. `PROJECT.json` maps each definition to the lines it
translates, lists the hazards, the runs, the mutants that show what each
property is sensitive to, and the findings.

## 1. The system

    clients (web UI, mobile, WhatsApp, iMessage, Telegram, web hooks)
        |  HTTP, server-sent events            ^ events, replies
        v                                      |
    selu-orchestrator ---- agent engine ---- language-model providers
        |   |   |    \
        |   |   |     +-- capabilities: one container per tool and session
        |   |   +-- SQLite (all durable state) + package directories on disk
        |   +-- Docker storage: revisions, images, maintenance lease
        +-- HTTP --> selu-updater (sidecar) -- docker compose --> Selu container

The orchestrator is one process with many tokio tasks: request handlers, one
executor per conversation run, background loops (schedules, cleanup, update
checks), and tasks spawned and forgotten. Tasks interact through rows of SQLite,
through `Arc<Mutex>`, `ArcSwap` and `watch` cells, and through bounded broadcast
channels. A handler's future is dropped when its client disconnects. SQLite
transactions are atomic and serialised; nothing is atomic across two of them,
nor between a transaction and a rename on disk.

### Inventory

| Component (code) | State | Operations | What is hard | What makes it correct | Module |
|---|---|---|---|---|---|
| Package activation (`agents/marketplace.rs`, `agents/loader.rs`, startup in `main.rs`) | active, staging and retained directories; `agents`, `agent_package_revisions`, activation journal; the in-memory agent map | install, update, complete setup, uninstall, startup reconciliation | two renames, three journal writes and a transaction that must look like one step; dropped futures, crashes, a rollback that fails too | one current revision; an interrupted switch can be undone; a package is never lost | `PackageStore`, `PackageActivation`, `PackageSwitch` |
| Docker storage (`services/docker_storage.rs`) | revision rows, maintenance lease, image references, deadlines | bootstrap, cleanup of packages and images, synchronisation with the sidecar | lists read before, container starts and deployments beside a cleanup, tags that move | nothing in use is removed; the lease comes free | `PackageActivation`, `ImageRetention` |
| Updater sidecar (`selu-updater/src/`) | compose env file, Selu container, in-memory job slot | apply, rollback, status, self-replacement | every docker command may fail, a new image may be bad, the sidecar dies or replaces itself | one job at a time; what is reported is what runs | `UpdaterSidecar` |
| System updates (`services/system_updates.rs`, `updater/client.rs`) | `system_update_state` row, version catalogue | claim, apply, roll back, poll, automatic check | polls racing the claim, whole-row writes of stale copies, its own container replaced | one update at a time; the slot comes free | `SystemUpdate` with `UpdaterSidecar` |
| Conversation runs (`api/conversations.rs`, `services/conversation_recovery.rs`, `llm/tool_loop.rs`) | `conversation_runs`, `threads`, confirmations, executors | post, execute, confirm, delete, recover | retries, dropped handlers, timeouts racing answers, restarts | a message executes once; every run ends, and stays ended | `ConversationRuns` |
| Conversation events (`services/conversations.rs`, streams, `ui/src/features/chat`) | `conversation_events`, broadcast channel, cursors, the page's cache | commit, journal, broadcast, subscribe, replay, snapshot | three steps that others overtake; lag; reconnects | the page shows the journal, in order | `ConversationEvents` |
| Durable jobs (`services/jobs.rs`) | `jobs` | create, transition, cancel, reconcile | two writers of one row, idempotency keys | final states are final, one job per key | `Jobs` |
| Schedules (`schedules/`, `services/automations.rs`, chat commands) | `schedules`, `schedule_pipes`, ticker, executions | due fetch, mark, execute, edit, pause, delete | edits without a transaction, detached executions, crashes | a due time fires at most once, none stays due | `Schedules` |
| Agent events (`events/`) | `agent_events`, bounded broadcast, subscriptions | emit, fan out, react | lag, failing reactions, agents that answer each other | chains end; an event is processed or really lost | `EventFanout` |
| Agent engine (`agents/engine.rs`, `agents/context.rs`, `llm/tool_loop.rs`, `llm/context_budget.rs`) | messages of a thread, budget, iteration count | turn, tool call, delegation, interceptor, compaction | halves of exchanges in history, two turns in a thread, malformed calls | whole exchanges; the cap holds | `AgentTurn` |
| Improvement and profile (`agents/improvement.rs`, `profile.rs`, `personality.rs`) | signals, insights, facts | reflect, activate, review, reset, optimise | each write is computed from an older read | no lesson is trusted unearned | `Lessons` |
| Dynamic tools and policies (`capabilities/discovery.rs`, `permissions/tool_policy.rs`, `agents/bundled.rs`, setup in `services/agents.rs`) | `discovered_tools`, `global_tool_policies`, `tool_policies`, setup forms | synchronise, save, set up, uninstall, backfill | the question to a container is slow and tasks overlap; forms go stale; agents are uninstalled meanwhile | every tool has a policy, and it is the user's if the user gave one | `ToolPolicies` |
| Sessions and threads (`agents/session.rs`, `agents/thread.rs`) | `sessions`, `threads`, bindings | open, resume, bind, put to rest | sweeps and turns beside each other | an agent finds its session again | `Sessions` |
| Capabilities (`capabilities/`, `permissions/network_policy.rs`) | map of containers, semaphores, proxy registry, policy cache, volumes | find or start, call, recover, close, reap, purge | starts without a lock; removals that Docker refuses; caches and sweeps that are overtaken | map, Docker and proxy agree; a call is held to what the user had decided | `CapabilityPool`, `CapabilityNetwork`, `Volumes` |
| Channels (`pipes/`, `bluebubbles/`, `telegram/`, `permissions/approval_queue.rs`, `agents/thread.rs`) | aggregation map, threads, pending approvals, senders | receive, aggregate, approve, dispatch, reply | windows, replies that race prompts, turns that fail | one dispatch per message; a reply reaches its call | `Channels` |
| WhatsApp bridge (`sidecars/whatsapp-bridge`) | sockets, dedup map, contacts | connect, receive, send | old sockets stay alive, media fetched across awaits, several addresses | no duplicate within 30 seconds; answers tell the truth | `WhatsAppBridge` |
| Connections (`api/connectors`) | `pipes`, configs, people, adapters, webhooks, the bridge container | set up, add people, remove, start | several systems, each step fails, the rollback too | rows, people and adapters agree | `Connectors` |
| Accounts (`services/accounts.rs`, `services/auth.rs`, `api/mobile.rs`) | users, sessions, pairings, roles, agents chosen | first administrator, sign-in, create, change, remove, reset | administrators who act on each other | others keep what is theirs | `Accounts` |
| Providers, catalogue, commands, configuration, translations, telemetry, web shell, UI | - | - | - | - | section 7 |

## 2. Modules

| Module | What it is |
|---|---|
| `PackageStore` | durable state of one agent: directories, rows, journal; renames, transactions, `reconciliation_plan` |
| `PackageActivation` | EXTENDS `PackageStore`: the operations, as steps of concurrent tasks, with faults, crashes and startup |
| `PackageSwitch` | abstract: package and registered revision are replaced together, in one step |
| `UpdaterSidecar` | job slot, apply and rollback jobs, env file, container, restart through a helper |
| `SystemUpdate` | EXTENDS `UpdaterSidecar`: the orchestrator's requests and polls over its row, beside the sidecar's steps |
| `ConversationRuns` | requests, runs, executors, confirmations, deletion, restart, of one conversation |
| `ConversationEvents` | publishers, journal, broadcast, one connection and one chat page |
| `EventFanout`, `Schedules`, `Jobs` | work nobody waits for |
| `AgentTurn`, `Lessons`, `ToolPolicies` | the messages of a thread under turns; what is learned after them; the tools an agent has and who decided about them |
| `CapabilityPool`, `CapabilityNetwork`, `Sessions`, `Volumes` | the containers of tools, their network, the sessions and volumes they work in |
| `Channels`, `WhatsAppBridge` | messages on their way in and out |
| `Connectors`, `Accounts`, `ImageRetention` | what administrators change while everything runs |
| `PackageActivationProofs`, `SystemUpdateProofs`, `ConversationRunsProofs`, `AutomationProofs`, `AgentWorkProofs`, `CapabilitiesProofs`, `DeliveryProofs`, `AdministrationProofs` | the theorems, section 5: of a component, or of all the components that the `MC` module of that name composes |
| `MC...` | instances for TLC: constants, symmetry, composition of parts |

Operators whose comment begins with "Mutant" belong to no specification. Each
is a plausible wrong version of the definition below it; putting it in the
place of that definition makes TLC report the property named in `PROJECT.json`.

**Composition.** `SystemUpdate` composes two processes that share state: it
extends `UpdaterSidecar`, whose steps move the sidecar's half of its variables.
The five modules `MCAutomation`, `MCAgentWork`, `MCCapabilities`, `MCDelivery`
and `MCAdministration` hold components that share no state in the models. An
interleaving of two such parts tells nothing that the parts alone do not, and
multiplies their states; so a variable `part`, chosen in the initial state, says
which of them moves, and a run explores the *sum* of the parts. A property of
one part is evaluated in the others' behaviours at that part's initial state,
where it holds. The same makes the proofs compositional: a lemma `PartsRun` of
each of these modules says that a step of the composition is a step of each part
or leaves it alone, and a theorem about a part becomes one about the
composition.

### Package activation

One agent; a directory is represented by the revision whose archive it holds,
so a path and its content can disagree. `fs` is what is on disk, `db` the rows
(every transaction of the code is one operator of `PackageStore`, with the
`rows_affected` checks, the unique index `one_current_agent_package_revision`
and the foreign keys as guards), `mem` what a crash loses: the maintenance
lease, the agent's entry in the agent map, and where each task is (`op`).

A task's program counter names its next await. `u_*` is
`update_agent_with_progress`, `i_*` `install_agent`, `c_*` `complete_setup`,
`x_*` `uninstall_agent`, `k_*` `cleanup_expired_packages`, `r_*`
`reconcile_activation_journal`, which both a failing update (under its lease)
and the startup sequence `Boot` run, and `t_*` the tail shared by install and
update, which runs *after* the lease is dropped. `PackageSwitch` is implemented
under the mapping `Served` (what will run once an abandoned switch is rolled
back) and `Registered` (the current revision).

Faults: any step may fail; where an error leaves nothing behind but the early
return, failing and dropping the future are the same step (`Drop`), which
releases the lease as its guard's `Drop` does. Where the code reacts
(`ActivationFails`, `TombstoneFails`, `InstallFails`, `UninstallFails`,
`PrepareFails`) the failure is an action of its own. Rollbacks can fail at each
of their steps, by `Drop`.

### Updater sidecar

`env` is the compose env file (written atomically by the code), `container` the
image of the running Selu container, `runtime` the `RuntimeState` behind the
mutex of `state.rs`, `task[j]` the task that `api.rs` spawns for an accepted
job. An image stands for its digest with the tag, version and build that travel
with it. An apply writes the env file, pulls, recreates; a rollback pulls
first; both then wait for health and either record the new rollback root or put
the previous image back (`undo_*`). `helper` is the container that stops and
restarts the sidecar after an apply; `self_update_on_apply` has its default,
true.

`Patient` is an assumption about the client, and a constant: with TRUE, a
request waits while the sidecar reports "updating", as the orchestrator's own
slot was meant to make it. With FALSE a request is refused only by the sidecar's
slot. The instances of `SystemUpdate` have FALSE and show that the orchestrator
does not keep the assumption (finding 1), so what is proved under `Patient` is
what the sidecar would do for a client that keeps it.

### System updates

`SystemUpdate` is the composition: the sidecar's variables and actions, with
`Patient` FALSE in its cfgs, and its own `row` (`system_update_state`: the slot
`active_job_id` and the installed and previous image), `handler` and `poll`. A
request to apply, roll back or check is claim, job row, call, load, persist;
each is an await and a step. `Send` is the call that the sidecar accepts, one
step with `Accept`; its answer may be lost. A status request loads the row, asks
the sidecar, merges, and writes the whole row back. The orchestrator runs in the
container that the job recreates: `Recreates` is that step, and handlers and
polls under way die with it. `Drop` is a client that leaves, or a write that
fails. The load of the row and the hydration from the sidecar that follows it
are one step; the channel's name, which stands in as the installed version when
the sidecar is silent, is no image here (`NoImage`).

### Conversation runs

A run is named by the request that inserts it; two requests may carry the same
`client_message_id`. `rows` survive a restart, all else is lost by it
(`LoseMemory`). `send_message` is five steps, one per await; `execute_run` and
the turn it polls are one sequence (`executor`), because the code polls the
turn and the event handler in one `select!` and does not poll the turn while
`handle_engine_event` writes; `decide_approval` is two steps, the answer and
the later status update; deletion is the check and the transaction. The turn is
external: it may ask, act and end whenever it runs. `execute_command_run` has
the statuses and events of `execute_run` without confirmations, which is
`Start`, `EndTurn`, `Finish`.

### Conversation events

A publishing handler commits its row, inserts an event that gets the next id,
and broadcasts it: three steps, between which others take theirs (`late` records
ids broadcast after a higher one). `stream` is the server's side of a
connection: it subscribes before it reads the replay, buffers, skips what the
cursor has passed, lags when more than `Capacity` events wait. `page` is the
chat page: it fetches a snapshot with its replay boundary, replaces its cache,
and applies events. A row is named by its writer and count; what the event
changes in it is left out.

### Agent events, schedules, jobs

`EventFanout`: `Emit` is `events/mod.rs` emit with its depth limit, the insert
and the bounded broadcast; `fan` is the single fan-out task at its awaits
(`Receive`, `FindSession`, `LoadSubscriptions`, a reaction each, the mark).
`InvokeAgent` checks the configured limit, starts a turn with the depth of the
event plus one, and such a turn may emit again. `behind` and `origin` are
history: the turns that *really* lie behind, which the depth is meant to count.

`Schedules`: `Tick` fetches the due rows; each fetched copy is advanced
(`mark_executed`) from the copy, then executed in a detached task per pipe.
Requests run as their statements: an edit of recurring timing writes the row,
clears the pipes, inserts them again. A cron expression is its period.

`Jobs`: each operation reads the status and then writes under the condition that
it is unchanged; `RequestCancel` and `MarkInterrupted` choose what to ask for
from an earlier reading, and the one before the write must allow it (`Asks`);
creation looks up the idempotency key, inserts, and on a conflict reads again.

### Agent turn and lessons

`AgentTurn`: a message is its kind and the calls it makes or answers, each of
weight one. A turn stores the user's message, reads `HistoryLimit` rows,
sanitises, and then iterates: trim to the budget, ask, run the calls, append. A
threaded turn's interceptor stores tool messages as they come; a turn without
thread at the end; a delegated one never. Malformed calls are regenerated and
counted. A `MaxIterations` of 0 is no limit, as in the code; `MaxAnswers` bounds
what a turn is answered in TLC. Two turns may work in one thread, because
nothing prevents it.

`Lessons` has two parts that share no row: lessons (signal, batch, read, upsert,
activation, with the user's reviews between) and facts (the optimiser, which
replaces what it read a model call earlier).

`ToolPolicies`: tasks that ask a container for its tools (`Package`, `OpenPage`,
`BeginSetup`, the ones at startup) read what is known (`ReadKnown`), wait for
the answer (`Discover`), and commit the difference in one transaction
(`Commit`); a setup goes on to `CheckSetup` and `SaveSetup`, or shows a page
whose form `SavePolicy` and `FinishSetup` send back later. `SetGlobal`,
`SetOwn`, `ResetOwn` are the user's, `Uninstall` and `Restart` come between.
`byHand`, `overtaken`, `chosen` and `late` are history: who decided, and what
was overtaken.

### Capabilities, sessions, volumes

`CapabilityPool`: a call takes a permit (shared capabilities), looks in the map,
reuses or starts; a start is run, register, wait, connect, publish, each an
await with no lock held. Tear-downs, the reaper, containers that die, and the end
of the process, graceful or not, come between. To stop a container is two steps:
its policy goes with the entry of the map (`Stop`), and Docker removes it
(`RemoveContainer`) or does not (`RemovalRefused`), while the write lock of the map
is held (`stopping`, `Unlocked`). `UndoStart` and `CleanupStale` may be refused too.
`lost` is history: the running containers of which the process knows nothing. A
semaphore has a generation, for the reaper drops one whose permits are still held.

`CapabilityNetwork`: a decision of the user is saved (`Saves`) and, by a later step
of its request, drops the cached policies (`Invalidate`). A call of an exclusive
container takes its policy from the cache, or reads access and hosts in two
queries and stores what they resolve to (`ReadCache`, `ReadAccess`, `ReadHosts`,
`StoreCache`); a shared container and the control plane take the manifest's
(`UseManifest`). Then the call reuses the container and registers its policy, or
starts one. `Tunnel` and `PlainRequest` are what the proxy does with a connection.
`decided` is history, each decision in order; so are, for each call, the moment it
began (`begun`), the oldest beginning of the calls beside it (`since`), and whether
an answer overtook its reads (`raced`, then `stale` in what it cached).

`Sessions` opens, resumes, binds and puts
to rest. `Volumes` has the rows that name workspaces and caches, the volumes
Docker makes with a container, the sweeper and the purge.

### Channels and the bridge

`Channels`: an inbound message is a task (`task[m].pc`): `partial` and `waiting`
in the aggregation map, then thread, approval, command or turn, reply. `holds`
are the messages in its envelope. A turn may ask for approval: insert the row,
send the prompt, insert the sender, wait; a reply marks the row and then looks
for the sender. A reply finds its thread by what it quotes: a message Selu sent
there, or the one that began it; of two merged messages the second says what is
quoted (`MergedRe`), as far as its transport says anything. The four transports
differ in what they aggregate, whether they learn the ids of sent messages, and
whether they send at all. `Restart` loses tasks and senders and keeps the rows.

`WhatsAppBridge`: `sockets` in the order they were made, none of which a
reconnect ends; `batch` are the handlers of incoming events at their awaits;
`processed` the ids seen in the last thirty seconds, which `Forget` takes away at
any time, also while a handler fetches the media of the message or posts it;
`request` an outbound message on its way through its candidates of addresses.

### Connections, accounts, images

`Connectors`: a request is a caller at one of the awaits of
`connectors/domain.rs`; every one may fail or be abandoned there, and
`Rollback` may fail too. The bridge container is one for all connections.
`Accounts`: a request knows at its start who asks, and works in later
statements; removal is one transaction that foreign keys may refuse.
`ImageRetention`: deployments and cleanups hold the lease exclusively, container
starts share it; an update is requested under it but runs after it was let go,
and Docker has other users. A cleanup synchronises with the sidecar, chooses
candidates, looks at each again (`CheckImage`), and removes it (`RemoveImage`);
each is a step, and an alias added between the last two is noted (`late`).

## 3. Runs

| Run | Instance | States | Properties |
|---|---|---|---|
| `activation_update` | 2 workers, 3 revisions, update and setup, up to 3 faults, drops or crashes, fair | 34,432 | `TypeOK`, `JournalRecoverable`, `PreviousPackageKept`, `ImplementsSwitch`, `RestartRecovers` |
| `activation_lifecycle` | 2 workers, 4 revisions, all five operations, up to 2 disturbances | 870,715 | `OneCurrentRevision`, `JournalIntact`, `InstalledPackageKept`, `UninstallKeepsPackage` |
| `updater_jobs` | 3 images (two good, one bad), 2 jobs, both kinds, 2 failing commands, 1 killed job, fair | 13,269 | `OneJobAtATime`, `ServiceConsistent`, `ReportedOutcome`, `JobEnds` |
| `system_update` | 3 images, 1 job, 1 check, 1 page polling, 1 disturbance, fair | 314,787 | `SlotComesFree` |
| `system_update_two_jobs` | 2 jobs, 1 page polling, no disturbance | violation | `OneUpdateAtATime`: finding 1 |
| `conversation_runs` | 2 requests, 2 messages, 1 confirmation per turn, 1 failing write or disconnect, 1 restart, fair | 103,564 | `MessageExecutedOnce`, `FinishedMeansIdle`, `NoStrandedRun`, `RunEnds`, `ApprovalHeard` |
| `conversation_delete` | no disturbance, no restart | violation | `EngineHasThread`: finding 2 |
| `automation` | events: 3 events, a channel of 1, limits 1 and 2, 1 fault; schedules: 1 row, 1 pipe, 2 writers, 2 periods, time 0 to 2; jobs: 2 jobs, 2 callers, 4 operations; fair | 287,403 | `ChainBounded`, `DestinationsKept`, `EventHandled`, `NoRefire`, `DueIsHandled`, `OutcomeIsFinal` |
| `agent_work` | 2 turns in a thread, budget 4, history 3, 1 iteration, 1 answer, 2 calls, 1 failing insert; 2 lessons, 3 facts; 2 tasks, 1 dynamic tool and the built-in ones, 1 choice, 1 fault | 3,272,125 | `PairsIntact`, `LoopBounded`, `TrustEarned`, `PoliciesFollowTools` |
| `capabilities` | 2 calls, 1 session, a shared and a private capability, 2 containers; 2 calls, 1 host and 1 change; 2 turns, 2 agents, 2 sessions; 2 turns, 2 sessions, 1 cache; 1 fault each | 2,044,008 | `ContainersAccounted`, `UserDecides`, `SessionsKept` |
| `delivery` | 3 messages on each of 4 transports, 1 approval; bridge of 2 sockets, 1 message in, forgotten once, 1 out; 3 publishers, replay and channel of 1, 2 fetches; 1 or 2 faults | 4,880,552 | `DispatchedOnce`, `RepliesReachTheirCall`, `DeliveredAsTold`, `PageFollowsJournal` |
| `administration` | 2 connections, 2 callers, 1 person; 2 users, 2 callers, 4 requests; 4 images, 2 revisions, time 1 to 3; 1 fault each | 1,640,534 | `ConnectionsConsistent`, `AccountsConsistent`, `OthersKeepTheirs`, `ImagesInUseKept` |

### Why the bounds are enough

*Activation.* Two workers are the least at which an operation meets another one
in each of its steps, and every operation but `complete_setup` and the two tails
holds the lease, so a third worker would mostly wait. The revisions are the
installed one, one per worker, and, in the lifecycle, one kept back for
`BootstrapRevision`. Three disturbances let an update fail, its rollback be cut,
and the process die in the recovery. Revisions are fresh UUIDs and workers run
the same code, so both are symmetric in the run without liveness.

*Updater.* Two jobs are what exclusion is about; three images are the running
one, a good target and a bad one. Two faults let a job fail and its undoing
fail; the killed job is a crash at any step or the stop by the helper of a job
accepted since. Three jobs pass as well (328,000 states) and add nothing new,
for `env` and `container` are all that a job finds of the one before.

*System updates.* One job and one check are two claimants of one slot, and the
poller overlaps both; the disturbance drops a handler, loses an answer or fails
a write, once, anywhere. `MaxFaults` and `MaxInterruptions` are 0: what the
sidecar does under faults is the question of `updater_jobs`, and
`SlotComesFree` is stated for commands that work. `Recorded` is what an earlier
update may have left as the previous image, so that a rollback is possible from
the start.

*Conversations.* Two requests overlap, or one retries the other; one
confirmation per turn can be answered in time, late, or never, and the run may
meanwhile be deleted or restarted. Two confirmations per turn pass the safety
properties too (4.8 million states). One disturbance fails any write of either
request; with it, `NoStrandedRun` and `RunEnds` are weakened to say so: a run
whose events cannot be written really stays queued until the next restart
(hazard at `api/conversations.rs:697`).

*Automation.* A channel of one lags as soon as two events wait; three events are
a chain one longer than the limit, or two beside one that is overtaken. Of the
limits, that of `emit` is the smaller one here and that of the fan-out in the
code's defaults; the theorem holds for both orders. A schedule's hazards are between
two writers and the executor over *one* row; a clock of 2 has one due time of
each period, and the next, after it. Two callers of one key or one job are all
that two conditional writes can tell apart.

*Agent work.* With a window of three rows and a budget of four, an exchange is
cut at each of its places; two calls in an answer are the least of which one may
lack its result; two turns write each other's halves. The lessons need a batch of
two signals, one lesson too many for `MaxActive`, and a third fact that is added
while the optimiser waits. Two tasks that ask for tools overlap at each of their
awaits; one dynamic tool can come, go and come back. A cap of one is met after
one answer; the theorem has every cap, and none.

*Capabilities.* Two calls can start one container each for one key, and two
containers can be confused for each other; a second session would only add
private keys. One semaphore is dropped and one replaces it. One fault is a container
that dies, a start that fails and whose undoing is refused, a removal that is
refused, or a stop of the process (two of them pass as well: 3.5 million states).
For the network, two calls are one that resolves before a change and one that does
after it, each through the cache of the other; a host is declared or not and
overridden or not, and hosts do not depend on each other. Two agents in a thread
delegate to each other.

*Delivery.* Of three messages two can merge while the third takes their place in
the map; three publishers are one that is overtaken, one that overtakes, and one
that fills the channel. Two sockets are an old one and its replacement; a message
forgotten once has copies on both sides of the thirty seconds.

*Administration.* Two connections share the one bridge; two requests on one
connection overlap at each step. Two users are two administrators who remove
each other. Two images of the agent are the pinned one and the one the tag moved to,
two of the system the current and the previous one; time 3 passes both deadlines.

`CHECK_DEADLOCK FALSE` is set in every cfg: revisions, jobs, requests and
disturbances are used up, and a client need not ask for anything more, so the
modelled system really stops.

### Fairness

* `PackageActivation`: weak fairness of the restart, of reconciliation by `Boot`
  and of loading, which is the startup sequence. The container has a restart
  policy, and `main` awaits each step before the API is served. Operations,
  failing, dropping a future and crashing are not fair. `RestartRecovers`
  follows because each recovery step is enabled again after every crash and
  crashes are bounded.
* `UpdaterSidecar`: weak fairness of each job's task, of the helper's script
  and of the restart policy; every wait of the engine has a timeout, so each
  step ends one way or the other.
* `SystemUpdate`: weak fairness of each handler's next step, of each poller, of
  each job and of the sidecar. Fair pollers say that the updates page stays
  open: it repeats its request every 1.5 s while a job is active
  (`ui/src/features/updates/UpdatesPage.tsx:24`), and nothing else ends a job in
  the database.
* `ConversationRuns`: weak fairness of a handler that has begun and of each
  executor. A turn ends within the iteration limits of the tool loop and a
  confirmation wait within `CONFIRMATION_TIMEOUT_SECS`, which is why `EndTurn`
  and `Expire` are fair while asking and answering are not.
* `EventFanout`: weak fairness of `FanOut`, the loop of one task that is spawned
  at startup and never returns. Emitting, turns and faults are not fair.
* `Schedules`: weak fairness of `Tick`, the executor's loop. Writers are not fair:
  an edit that stops half-way must not keep a schedule due.

## 4. Properties

*Activation.* `OneCurrentRevision`: at most one current revision, at least one
when installed. `JournalIntact`: the revisions that a leftover journal names
keep the states which `validate_journal_revision_states` demands. This is what
later installs, uninstalls and cleanups could break, and what keeps startup
possible. `JournalRecoverable` adds the directories, for updates; it does *not*
hold beside uninstalls (section 7). `InstalledPackageKept`,
`UninstallKeepsPackage` and `PreviousPackageKept` say that no interleaving of
renames, rollbacks and cleanup loses a package. `ImplementsSwitch` is the
refinement of `PackageSwitch`.

*Updater.* `OneJobAtATime` is the promise "Another update job is already
running". `ServiceConsistent`: without killed jobs and failing commands, a
healthy image runs and the env file names it whenever nothing works, whatever
downloads failed and however bad the new images were. `ReportedOutcome` holds
through every fault: what a job records as installed and as rollback root is
what it found and did. `JobEnds`: the slot comes free.

*System updates.* `SlotComesFree`: whatever is dropped or lost, the slot in the
database comes free; it holds only because every status but "updating" ends the
job, the status left by an undone update included. `OneUpdateAtATime` is the
promise of the two refusals, taken over the whole system.

*Conversations.* `MessageExecutedOnce` rests on two requests' lookups, their
active-run counts and the unique index together; `FinishedMeansIdle` on the
order in which turn, status and recovery end; `NoStrandedRun` on the recovery
covering all three active statuses; `ApprovalHeard`: an answer that was taken is
acted on. `PageFollowsJournal`: a connection sends events in order and once,
and a page with a live stream shows what was broadcast; its four exceptions
(lag, a replay cut by its limit, an event overtaken by a later one, a snapshot
that replaced the cache with an unchanged cursor) are the code's, and the
property says that there is no fifth.

*Automation.* `ChainBounded`: the depth that travels through table, channel,
reaction and turn counts what it is meant to count. `EventHandled`: an event
that no fault or full channel takes is marked processed. `NoRefire`,
`DueIsHandled` and `DestinationsKept`: a due time is executed at most once, no
schedule stays due, no edit leaves a schedule without a destination.
`OutcomeIsFinal`: an ended job stays as it ended, a cancelled one does not
succeed, one key is one job.

*Agent work.* `PairsIntact`: whatever is in the history, the model is shown
whole exchanges, which is what providers demand. `LoopBounded`: the cap, where
there is one (0 is none), counts malformed answers too. `TrustEarned`: an active
lesson was judged sure and supported *on the row that was activated*, or chosen
by the user. `PoliciesFollowTools`: every listed tool of an agent has a policy,
the user's if the user gave one, a tool that vanished leaves none behind, and an
active agent has those its setup demands; with the exceptions of section 7.

*Capabilities.* `ContainersAccounted`: a container that takes calls has its
network policy, and one that runs has an owner. Two kinds of container are
really forgotten until the next start, and these are the exceptions: one whose
connection failed after it was started, and one that Docker refused to remove;
one that is being stopped, or was not removed, has lost its policy under the
calls that still use it. `UserDecides`: the policy registered for an exclusive
container agrees, while a call runs in it, with each decision that stayed the
same since the call began: what was denied is refused, what was allowed is
reached, and what was left alone is reached if the manifest declares it. A call
that began earlier and still runs may register what it resolved, so that the
property counts from the oldest beginning among the calls beside (`since`). The
exception is a policy that was stored in the cache by a call overtaken by the
answer to a change. `SessionsKept`: an agent that comes back to a thread finds
the session it worked in, and every volume has a row; both with the exceptions
of section 7.

*Delivery.* `DispatchedOnce`: a message is in one envelope at most.
`RepliesReachTheirCall`: a reply grants one call and no sender outlives its turn.
`DeliveredAsTold`: of the copies of a message that follow one another within thirty
seconds one is posted, however slow the handlers are, and the bridge's answer says
whether anything arrived.

*Administration.* `ConnectionsConsistent`: a refused setup leaves nothing, and
adapters follow rows. `AccountsConsistent`: once the first administrator is set
up, an administrator remains, unless a change of role took the role from an
account that had none when the request read it (`slipped`), and an
administrator's choice of agents bounds what a person sees. `OthersKeepTheirs`:
removing an account touches nothing of others. `ImagesInUseKept`: a cleanup
spares what runs, is pinned, is needed to go back or belongs to others (by a
name it had at the last check), and a container starts from the pinned image
alone.

## 5. What is proved

TLAPS checks 15,962 obligations. Every invariant and every action property of the
passing runs is stated by a theorem, and so is the refinement of `PackageSwitch`.
All theorems hold for any sets of actors and ids (finite or not), any bounds and
any number of faults, under named assumptions on constants, each of which TLC
evaluates too:

* distinct null values and known kinds: `NoRevAssumption`, `ActorAssumption`,
  `SidecarAssumption`, `UpdateAssumption`, `ConversationAssumption`,
  `PoolAssumption`, `SessionNames`, `AccountNames`, `ImageNames`, `ToolConstants`,
  and `SomeUser` (who sends a message is somebody);
* bounds that are numbers: the same where they have any, and `TurnAssumption`,
  `LessonConstants`, `StreamBounds`, `ImageTimes`, `SchedulePeriods` (a period
  is positive: the next occurrence lies ahead), `FanoutAssumption` (the channel
  holds an event, the limit of `emit` is at least one).

Few of the properties are inductive: most compare what a task is about to do with
what it read many steps ago. What is added is nearly always of one of two kinds:
who *owns* what (a lease, a container, a row, a message), so that others leave it
alone; or what a plan still *knows* when it is carried out. A proof has a lemma
per action; where there are many actors, a contract for the one that moves and a
frame for the others.

### Package activation (`PackageActivationProofs`)

`TypeCorrect`, `OneCurrent`, `JournalStaysIntact` rest on

    IInv == TypeOK /\ Registry /\ Exclusion /\ Ownership

`Registry` is `OneCurrentRevision /\ JournalIntact`; `Exclusion` says that
workers run only while the process is up and `Boot` only while it boots;
`Ownership` says what each task knows because it holds the lease: that `old` is
current, that `new` is staged and no journal but its own names it, that a
rollback has a journal. Registry and journal change only under the lease
(`WorkerFrame`), so a step has to re-establish its own part (`Contract`,
`ContractSuffices`). It also shows what the code relies on without saying so:
cleanup, which does not look at the journal, cannot delete a journaled revision
only because the foreign keys refuse it.

`InstalledKept` and `UninstallKeeps` need the directories: `Placement` says, of
the registry and of each step of each operation, which package lies at which
path. Both hold for all operations, cleanup and any faults included.

The other three have hypotheses on `Kinds`, because the code needs them:

* `PreviousKept` has no cleanup, which is there to remove previous packages;
* `JournalStaysRecoverable` has updates and setups alone. An uninstall or an
  install beside an abandoned journal, and a cleanup that finds it expired,
  really make it unrecoverable (section 7). `Shaped` relates the phase in the
  journal to the directories, at each step of the switch and of its rollback.
* `SwitchImplemented` allows cleanups as well: the refinement maps what is served
  and registered, and never looks at the staging directory that a cleanup may
  take. `InSync` says that the active package is the registered one whenever
  there is no journal; with one, what is served is the revision not yet replaced
  (`ServedIsRegistered`). So both sides of the mapping are the registered
  revision in every reachable state, and only the transaction of an update moves
  it (`SwitchStep`); all other steps, renames and rollbacks among them, stutter.

### System updates and the sidecar (`SystemUpdateProofs`)

`SidecarTypeCorrect`, `OneJob`, `OutcomeReported`, `ServiceKept`, each under
`Exclusive`, that is `Patient` or no rollbacks. `system_update_two_jobs` shows
that the hypothesis cannot be dropped from `OneJob`: the early release of the slot
in a rollback is the only hole. The inductive invariant adds to `OneJobAtATime`,
for each job, who holds the slot (`Slot`) and how far env file and container have
got at each step (`Progress`); `Service` adds that what a job can put back is
healthy, as long as no command failed and no job was killed.

`ImplementsSidecar` says that every step of the composed system is a step of the
sidecar or leaves it alone. `OneUpdate` follows from it and `OneJob`: as long as
nobody asks for a rollback, no two updates work at a time, for any handlers,
polls and faults. It is the sidecar's slot alone that gives this; finding 1 shows
that the slot in the database adds nothing to it.

### Conversation runs (`ConversationRunsProofs`)

`Invariant`, `ExecutedOnce`, `FinishedRunsIdle`, `RunsKeepExecutor`. The
inductive invariant is

    IInv == TypeOK /\ Rows /\ Handlers /\ Turns /\ Questions
                /\ FinishedMeansIdle /\ NoStrandedRun

A row, once inserted, is not forgotten while the conversation lives (`Rows`); an
executor is spawned by the handler that inserted the row (`Handlers`); a turn
is polled by an executor (`Turns`); only a run with an executor can ask, and so
be the target of an answer (`Questions`).

### Events, schedules, jobs (`AutomationProofs`)

`ChainsEnd`: the depth that events and turns carry is the number of turns that lie
behind them (`EventsCount`, `TurnsCount`), however events are lost, skipped, or
emitted again; a comparison of the depth therefore bounds the chain, and both
limits do.

`OutcomesStay`: each plan is legal for the status that was read (`PlansLegal`),
and a write happens only if the status is still that one; a job whose
cancellation was accepted is in a status from which success is no longer legal
(`CancelledEnd`); an answer under a key names a row that has this key
(`KeysTell`).

`DestinationsStay`, `NothingRefires`: the copies that the executor holds are the
only ones of their rows and have not run (`BatchFresh`); a row that is still
armed as it was when it ran is due later, if ever (`FiredPast`); a schedule
without pipes is about to get one (`PipesComing`).

### The agent at work (`AgentWorkProofs`)

`ShownMessagesPair`, `LoopsAreBounded`. The second has two cases: an agent with
a cap is asked again only below it, and for every agent the answers that call
tools are counted. `PairsIntact` is about what the budget cut and the sanitiser
leave of any history. What makes it provable is an order: `Ordered(s)` says that
a call comes before its answer and that neither comes twice. Three sequences of
each turn are ordered, alone and one behind the other: what is stored, what the
interceptor still has to store, and what the model was told (`Paired`,
`Sending`, `OwnAfter`). Cutting keeps an order; so does storing, by either turn,
late or not at all. `Whole` says which calls may lack an answer at each step:
those of the batch under way. `Waiting` says that nobody has answered those;
`Counts`, that a turn made no more calls than its counter admits.

`TrustIsEarned`: a task that is to write "active" has the support, or read a
lesson that the user activated (`Earned`, `Backed`). `PoliciesStay`: what a
task knew and what it found are old when it commits: a transaction gives a
policy to whatever it thinks new, takes the policies of whatever it thinks gone,
and touches no other (`EveryToolDecided`, `NothingInherited`, `ChoiceKept`,
`Knowing`), and a task that completes a setup has seen or written the built-in
policies unless an uninstall made it stale (`FormsComplete`, `ActiveDecided`).

### Capabilities (`CapabilitiesProofs`)

`PoolAccounted`: no lock is held across a start, so the argument is ownership
again: a container belongs to one key of the map (`MapOwns`) or to the one task
that starts it (`StartsOwn`), and its owner has registered its policy. The
step that carries the argument is `Publish`, where the loser of two starts gives
up its own container and takes over the one in the map. What is being stopped has no
key and no starter any more and nobody can look it up, for the lock is held until
Docker has answered (`RemovalKeeps`); a refusal, and a failed connection, move it to
`lost`, and nothing else does.

`UserIsObeyed`: `Views` of a moment are the policies that a call could resolve
to from the decisions since, access and hosts being read one after the other.
Each of them agrees with whatever stayed the same (`ViewsRespect`), and those of
a later moment are among those of an earlier one (`ViewsGrow`). What the cache
has is a view of the last answer, unless it is stale (`Grounded`); what a call
has, one of its own beginning (`Faithful`); and so what is registered while a
call runs is one of the oldest beginning it looks back to (`Told`, `Held`).
`SessionsAreKept`: in a thread where no opening overlapped another
(`Undisturbed`), an agent has one opening at a time, works in the session that
is bound, and finds none bound while it looks for one (`Orderly`); a volume has
its row before it has its container (`MountsInv`).

### Delivery (`DeliveryProofs`)

`MessagesGoOnce`, `RepliesArrive`: which envelope holds a message (`Held`), and
whose row and sender an approval has (`Answered`). `AnswersAreTrue`: a handler
marks a message before it fetches its media, and keeps which mark that was; so
no two handlers have one mark, and none has a mark that was posted under
(`Marked`), although the mark may be gone by the time of the post. And what a
request is about to answer says what it has sent so far (`Truthful`).

`PagesFollow`: where each event is on its way from the journal to the page, in a
stream that was opened before its replay was read. The buffer holds what was
broadcast, in order but for what was late (`Buffered`); what is sent lies
between the page's cursor and the stream's (`Sending`); what the stream's cursor
passed is on the page or on its way (`Reached`), and what it did not pass is in
the buffer (`Complete`), unless one of the four causes applies.

### Administration (`AdministrationProofs`)

`ConnectionsAgree`: a connection is set up once, by one caller, and its row only
moves on (none, active, removed, gone). `Knows` is what a caller may rely on at
each of its awaits; `Callings` says that beside the setup of a connection there are
only additions of people, and removals that have overtaken it; `Rows` is what
row, people, adapter and answers say to each other.

`AccountsAgree`, `OthersAreLeft`: an administrator remains because demotion and
removal count in the statement that writes, and what is stored of a choice
grants no more than it did (`ChoicesStored`). `ImagesAreKept`: a cleanup removes
many steps after it has looked (`Settled`), and this is safe because what makes
an image needed is written under the lease that it holds (`LeaseHeld`,
`Pinned`), and because the sidecar it asked had no update under way
(`Accounted`).

## 6. What is only model-checked

* Liveness (`RestartRecovers`, `JobEnds`, `RunEnds`,
  `ApprovalHeard`, `SlotComesFree`, `EventHandled`, `DueIsHandled`): fairness and
  ENABLED are out of the prover's reach.
* The two promises that the runs refute: `OneUpdateAtATime` with rollbacks and
  `EngineHasThread`.

No module declares a RECURSIVE operator. What cutting a history keeps is a
sequence defined by the *ranks* of the positions kept (`Keep`, `Rank`), so that what
it does to any sequence is a lemma about counting and needs no induction over data.

## 7. Findings

Two promises of the code are shown to be broken by a run:

1. *A second update can start beside a rollback* (`system_update_two_jobs`). An
   early status poll frees the slot in the database, and `run_rollback` clears
   the sidecar's slot before its health check (`selu-updater/src/engine.rs:615`).
2. *A conversation can be deleted under a running engine*
   (`conversation_delete`), against its comment (`api/conversations.rs:240`).

### Known disagreements without a run

Met while modelling; the models contain them, and where they touch a property it
names them as its exceptions. In the order of the inventory:

* *Activation.* A rollback that fails just before its transaction leaves a
  journal; `uninstall_agent` does not look for it, its transaction is refused by
  the journal's foreign key, and a crash before the rename is undone leaves a
  layout that reconciliation refuses on every start (`marketplace.rs:508`,
  `:614`, `:1494`). `complete_setup` publishes during a switch (`:870`), against
  "Keep the agent absent from the active map for the entire package switch"
  (`:1056`). A client that leaves during an update keeps the agent absent until
  a restart. The tail of an update may write the map entry of an agent
  uninstalled meanwhile. After an update was abandoned between its renames,
  `install_agent` looks only for the directory of the agent, which is absent
  (`marketplace.rs:705`), and renames its own package in; its transaction is
  refused, and a crash before its rename is undone leaves a layout with three
  packages that reconciliation refuses on every start.
  `cleanup_expired_packages` removes the directory of an expired staged revision
  before the journal's foreign key refuses to delete the row
  (`docker_storage.rs:1134-1159`): an abandoned journal that outlives its
  deadline loses its staging directory, and its plan with it. `AgentMap` is
  loaded, cloned and stored without a lock, so two agents' entries can overwrite
  each other. The doc comment of the maintenance lease names a shared lease
  where the code takes the exclusive one.
* *Updater.* `ensure` removes the old sidecar before a pull that may fail
  (`engine.rs:1660`); the slot is freed before `set_runtime_versions`
  (`engine.rs:484`), so a poll in between reads the versions before the job; the
  helper may stop a job accepted since (`engine.rs:1542`). An image whose update
  was undone is reported, recorded and offered as the previous version.
* *System updates.* A check that cannot fetch the release metadata keeps the slot
  (`system_updates.rs:525`), against "runs twice per day" (`main.rs:355`), until
  somebody opens the updates page.
* *Conversations.* Two posts of different messages may both see no active run
  (`api/conversations.rs:634`). A confirmation answered late sets a finished run
  to running again (`:1383`, `:1357`), and the conversation refuses messages until a
  restart. The stream takes a live event with an id below its cursor for one that
  the replay supplied (`:1304`); one that was broadcast late was not, and is lost.
* *Agent events.* An event lost by lag or a crash stays unprocessed, though
  `events/mod.rs:43` persists it so that it survives.
* *Schedules.* The toggle of the chat command (`schedules/mod.rs:415`) switches
  a reminder on whose time has passed, which `services/automations.rs:505`
  refuses. A schedule whose pipe got another default agent opens a fresh session
  on each run: the thread is bound to the new agent (`thread.rs:53`) and the old
  one's session is refused (`session.rs:210`). `mark_executed` computes the next
  due time from the row it fetched (`schedules/mod.rs:592`), so the due time
  that an edit wrote since is overwritten by one of the old timing.
* *Jobs.* Nothing creates jobs yet, and only a test calls the reconciliation.
* *Agent turn.* The tool messages that the loop returns are those after the
  length the conversation had before it (`tool_loop.rs:397`, `:974`); when the
  budget has cut older ones meanwhile, the first are missing, though they are to
  be all that were added (`:120`). "Every tool_use block [is] followed by a
  matching tool_result" (`context.rs:351`) holds of the pairs, not of their
  places: two turns in one thread interleave their messages. Two delegations to
  one agent in one answer open two sessions (`tool_loop.rs:674`,
  `session.rs:148`).
* *Lessons.* The optimiser replaces the facts there are by what the model made
  of those it read: one added since is lost. A reflection writes back the status it
  read (`improvement.rs:310`), so a lesson that the user rejected since is what it
  was before, or active. "Never let the LLM inflate the
  fact count" (`profile.rs:297`) compares with the count before.
* *Tool policies.* The backfill treats every agent with any global policy as one
  that was set up (`agents/bundled.rs:155`), though a synchronisation at install
  gives one: an agent nobody set up gets its built-in tools allowed, and an
  update makes it live. A tool that one synchronisation lists again after
  another removed it has no policy, for only what is new is given one
  (`discovery.rs:301`, `:327`). A synchronisation that ends after an uninstall
  writes tools and policies of an agent that is gone, and a setup finished by a
  task of an earlier installation marks the new one complete.
* *Capabilities.* A semaphore that the reaper dropped is replaced while its
  permits are out, so more than `max_concurrent` calls run
  (`capabilities/mod.rs:467-521`, `manifest.rs:159`). A connection that fails
  after a start leaks the container until the next start. A removal that Docker
  refuses is logged and the container, by then without entry and policy, runs
  on, under calls that may use it; the clean-up of a start may be refused as
  well (`runner.rs:250-264`, `:705-721`, `:727-752`). The sweeper works from a
  list read before (`capabilities/mod.rs:970-1024`): it marks a workspace
  touched since, and a refused removal leaves a volume without a row. The idle
  cleaner marks sessions resumed since (`session.rs:399`) and stops their
  containers during a call.
* *Network of capabilities.* Shared containers and those that the control plane
  starts have the policy of their manifest, whatever a user decided
  (`capabilities/mod.rs:126-140`, `:292-300`). A plain HTTP request that names
  no registered token is let through to any host (`egress_proxy.rs:420-433`); a
  tunnel is not. A policy read before a change and cached after its answer is
  used for up to 30 seconds (`capabilities/mod.rs:702`). Nothing orders the
  calls of one container: one that resolved its policy before a change may
  register it after a call that resolved later. Access and hosts are two queries
  (`network_policy.rs:215`, `:228`), so a policy may join an access and a list
  of hosts that were never decided together. A decision that comes while a call
  runs binds the next call of the container.
* *Bridge.* A copy of a message that comes more than thirty seconds after the
  last one is posted again (`index.js:355`; the ten minutes of `:350` only prune
  the map), even while the first is still being fetched or posted, and the
  orchestrator, which does not compare ids (`inbound.rs:192-204`), runs another
  turn.
* *Images.* An alias given to an image between its last check and its removal
  does not save it (`docker_storage.rs:849`, `:866`).
* *Channels.* A partial message whose place in the map another took just as its
  window ended is dropped, where a test has the timeout flush it
  (`ingest.rs:308`). A row is marked approved before its sender is looked up, so
  an answer can be consumed without granting anything (`approval_queue.rs:66`).
* *Connections.* Two setups pass the check for an active config together
  (`domain.rs:195`, `:283`, `:357`). Removing a connection may stop the bridge
  of another (`:835-845`). A failed start leaves "error" in the bridge
  (`index.js:903-911`), and `/session/reconnect` keeps the old socket (`:733`).
* *Accounts.* A change of role reads the old role first; if the account became
  an administrator since, the last one can be demoted, against "At least one
  administrator must remain" (`services/accounts.rs:42`). From there, removals
  may leave no account at all, and the setup of a first administrator is open
  again. Deleting a user whose channel others use always fails, by a foreign
  key.

### Not modelled, and why

* *Abstracted inside modelled parts.* A blocking rename or SQL statement that is
  in flight when its future is dropped, and so ends after the lease is free; a
  staging directory half extracted; a relative `installed_agents_dir`, with
  which cleanup skips deletions; cleanup takes one revision per pass; the
  capability images that install writes too; `self_update_on_apply = false`;
  backups of the sidecar; ports and patterns of hosts. `PROJECT.json` names what
  is left out of each component that is "partly" modelled.
* *Formats and external services*: the wire formats of providers and channels,
  manifests, resource limits and credentials of containers, the retry inside gRPC.
* *Single statements*: credentials, memory, the catalogue and the
  agent pages (`api/agents.rs`). Requests that read or write one row, well within
  reach of tests.
* *Commands, configuration, translations, telemetry, web shell, UI*: no shared
  state beyond what the other components keep. The chat page is in
  `ConversationEvents`, the polling of the updates page in `SystemUpdate`.

## 8. What would come next

* Abstract specifications, and refinement, of more components: an approval that
  is asked, answered and acted on once, over `ConversationRuns` and `Channels`
  alike; a log and its readers over `ConversationEvents`.
* `JournalStaysRecoverable` for installs and uninstalls as far as it holds:
  exactly the steps that section 7 names would have to be excluded, instead of
  the operations.
* The parts of `agents/marketplace.rs` and `api/agents.rs` that read a remote
  catalogue, once they keep state that other tasks rely on.

## 9. Running

    tlc -workers 2 -config activation_update.cfg MCPackageActivation.tla
    tlapm --stretch 1.3 PackageActivationProofs.tla

and so on; `PROJECT.json` names the module of each cfg. `delivery` takes three
and a half minutes, `capabilities` and `agent_work` two to three,
`administration` and `automation` one and a half, the other runs less than one.
Of the proofs, `AgentWorkProofs` takes about five minutes,
`PackageActivationProofs` four, `DeliveryProofs` three and a half, the others
one to two.
