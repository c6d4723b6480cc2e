# Formal models of genworker

genworker runs AI workers: a worker receives messages and chats, wakes up at a
heartbeat, runs tasks through one of several engines, asks people for approval
and learns goals, duties, skills and rules. It is one asyncio process per
deployment, with files under `workspace/` as the ground truth and Redis, where
there is one, as an accelerator. Nothing in it is transactional and almost
nothing is locked: what keeps it correct is the order of awaits, the status of
records and what a restart finds in the files. That is what these modules are
about.

All paths below are under `src/` of the repository. `PROJECT.json` maps every
definition to the lines it stands for, lists all parts of the system
(`components`), what can go wrong in them (`hazards`), and for every property
a plausible bug that breaks it (`mutants`).

1. [The system](#the-system)
2. [Modules and runs](#modules-and-runs)
3. [The modules one by one](#the-modules-one-by-one)
4. [Proofs](#proofs)
5. [What the code does differently from what it says](#what-the-code-does-differently-from-what-it-says)
6. [What is not modelled, and the plan](#what-is-not-modelled-and-the-plan)

## The system

| Part | State | Operations | Talks to | Hard behaviour | Correct when |
|---|---|---|---|---|---|
| Worker scheduler `src/worker/scheduler.py`, `scheduler_effects.py` | active count, daily count and its date, queue, completion futures | `submit_task`, `_run_task`, retry, dead-letter | worker router, event bus, dead letters, webhook | slot hand-over between concurrent jobs, retries, side effects that raise, midnight | no slot leaked or idle, quota kept, fair queue, one outcome per job |
| Inbox `src/autonomy/inbox.py` | items with a status, per worker | write, fetch, list, claim, consume, requeue, error | heartbeat, bridge, commands, scheduler | claims that expire under their holder, updates that look at no status, a file written in place, two store objects over it | nobody acts on an item that somebody else decided |
| Heartbeat `src/worker/heartbeat` | dispatch ledger | `run_once` | inbox, task spawner, engines, main session | fails half-way and requeues | leaves alone what waits for a person |
| Confirmations and interrupts `src/worker/lifecycle/task_confirmation.py`, `src/engine/langgraph/interrupt_bridge.py`, `src/channels/commands/builtin.py` | items, graph checkpoints | open, approve, reject, resume | inbox, scheduler, graph engine | two users, retries, crash between decision and mark | decided by a person, once |
| Suggestions `src/worker/lifecycle/suggestion_store.py` | files in `pending`, `claimed`, `resolved`; claim token, checkpoint | create, claim, refresh, checkpoint, resolve, release, expire, recover | detectors, commands, duty and skill builders | leases, kill inside an operation, writes that raise | side effects once, what was applied is approved |
| Sessions `src/conversation` | cache, files, Redis records and indices, service queue, notices | take, save, reset, admit, clean up | chat and task streams, channels, main session | awaits between read and write, stale copies, restart | no turn lost, deleted stays deleted |
| Deduplication `src/channels/dedup.py` | Redis keys, bounded table | `is_duplicate` | channel router, e-mail sensor | overlapping deliveries, half-done Redis calls | each message once, none dropped |
| Planning and sub-agents `src/worker/planning`, `src/engine/tools/subagent_tool.py` | task registry, current semaphore, goals | decompose, spawn, collect, cancel, reflect | model, worker router | shared executor, nested plans, cancellation | layers respect dependencies, every agent collected, no deadlock |
| Event bus `src/events` | subscriptions | publish, subscribe, unsubscribe | everybody | a subscriber's filter that raises | a publisher is not hurt by a subscriber |
| Task manifests and hooks `src/worker/task.py`, `task_runner.py`, `src/runtime/task_hooks.py`, `src/conversation/task_spawner.py` | manifest files, what a run taught | spawn, run, retry, end, hooks | scheduler, engines, memory, goals, rules | kill while running, hooks that raise | every task ends in a recorded state, experience fits the run |
| Main session `src/autonomy/main_session.py` | session and metadata of a worker | append, heartbeat state | event bus, heartbeat | concurrent read-modify-write | no event of a worker lost |
| Dead letters `src/worker/dead_letter.py` | entries in Redis or files | add, list, retry, discard | scheduler, API | delete before resubmission, two stores | an entry is somewhere, and given once |
| Engines `src/engine` | conversation, rounds, budget, checkpoints, graph threads | run, resume, dispatch, fall back | model, tools, inbox | limits, retries, kills, pauses | ends, goes on where it was, does nothing twice |
| Duties `src/worker/duty` | duty files, jobs, subscriptions | register, fire, run, replace | scheduler, event bus, commands | replaced by a command during a reload | each duty has exactly its triggers |
| Goals and integrations `src/worker/goal`, `integrations`, `src/runtime/integration_runtime.py` | goal files, health-check jobs | generate, approve, update, project, check | event bus, inbox, task hooks | two deliveries at once, updates over progress | one goal per source, progress kept |
| Sensing `src/worker/sensing` | snapshots of what was seen | poll, route, save, reload | platforms, inbox | marks before deeds | a fact is routed once and not forgotten |
| Rules `src/worker/rules` | rule files with status and confidence | create, feed back, crystallize, share, adopt | task hooks, commands | stale rules while a model is asked | capacity, nothing put away comes back |
| Channels `src/channels`, `src/runtime/channel_runtime.py` | connections, bindings, who is asked what | connect, receive, reply, stream, send | platforms, worker router, sessions | redelivery, reconnecting, streams | answered once, shown and stored whole |
| Chat `src/api/routes/chat_routes.py` | a turn | stream, save | engines, sessions | a client that leaves, fall-back engines | the turn is stored, the client is told one end |
| Context `src/context` | summary file of a worker | clear, prune, summarize | model | two conversations at once | the summary keeps what it has |
| Memory `src/memory` | episodes, index, links, decisions | write, mirror, decay, archive | task hooks, index server | the same event from several callers, kill in a move | announced once, no episode lost |
| Models `src/services/llm` | configuration, router, tiers | preflight, warm up, choose, call | every engine | configuration edited during a start | a call gets the tier it needs, or an honest error |
| Code execution `src/tools/builtin/code_rpc_bridge.py` | requests and answers of a script | call, poll, drain, close | tool pipeline | two transports, late calls | limit kept, each call runs once |
| Start-up `src/bootstrap` | initialized components, shared context | sort, start, clean up | all | order, failures | what is needed is there, what was opened is closed |
| Reload `src/runtime/worker_reload.py`, `src/core/persona_reload_watcher.py` | versions of worker, adapters, triggers | scan, reload | all of a worker | overlapping reloads, one that raises | everything of a worker is of one version |
| Tool scopes `src/worker/tool_scope.py`, `data_access` | scope of a run, grants | allow, deny | engines | matching of names and paths | nothing outside the scope |

Components meet in four ways. *Calls with an await inside*: a caller reads,
suspends and writes, and anything may happen at the suspension; this is the
main source of interleavings. *Shared records*: the inbox, suggestion files,
sessions and the sub-agent registry are written by several components that
know nothing of each other. *The event bus*: `publish` awaits the handlers one
by one and swallows what they raise, but not what their filters raise. *Time*:
claims expire, quotas turn over, keys and sessions age.

## Modules and runs

| Module | Models | Composed of | Run | States | Question |
|---|---|---|---|---|---|
| `JobPool` | what the scheduler promises, abstractly | | by `scheduler` | | |
| `Scheduler` | `WorkerScheduler` and its side effects | refines `JobPool` | `scheduler` | 0.34 M | Are slots, quota, queue and outcomes right when jobs fail, retry, cross midnight and their side effects raise? |
| `SchedulerProofs` | proofs: slots, quota, outcomes | extends `Scheduler` | tlapm | | |
| `SchedulerPoolProofs` | proofs: order of the queue, refinement of `JobPool` | extends `SchedulerProofs` | tlapm | | |
| `Inbox` | the operations of `SessionInboxStore` | | by `approvals` | | |
| `Approvals` | heartbeat, interrupt bridge, confirmation commands, resume jobs, the sensors' store, torn files, kill | extends `Inbox` | `approvals` | 1.4 M | Is a confirmation decided by a person, and is anything acted on twice without one of the named causes? |
| `ApprovalsProofs` | proofs: decisions, backing of acts | extends `Approvals` | tlapm | | |
| | | | `approvals_heartbeat` | violation | And the interrupt of a graph? |
| `Suggestions` | the suggestion store and its commands | | `suggestions` | 0.07 M | Are side effects done once, with leases, failing writes and a kill? |
| `SuggestionsProofs` | proofs: effects, verdicts, checkpoints | extends `Suggestions` | tlapm | | |
| | | | `suggestions_source` | violation | Is a source approved once? |
| `Sessions` | sessions over cache, files and Redis; admission | | `sessions` | 1.4 M | Are turns kept, deletions final, queue places kept? |
| `SessionsProofs` | proofs: turns, one session, queue places | extends `Sessions` | tlapm | | |
| `Dedup` | the deduplicator | | `dedup` | 2.0 M | Does Redis let a message through once, and is none dropped? |
| `DedupProofs` | proofs: Redis, table, nothing dropped | extends `Dedup` | tlapm | | |
| | | | `dedup_race` | violation | Is a message let through once in all? |
| `SubAgents` | planning runs, sub-agent tool, executor | | `sub_agents` | 0.9 M | Do permits, dependencies, results and termination hold with a nested plan and a cancelled call? |
| `SubAgentsProofs` | proofs: permits, layers, accounts, results | extends `SubAgents` | tlapm | | |
| | | | `sub_agents_shared_ids` | violation | Does a run get the results of its own agents? |
| 24 modules, [below](#the-components-side-by-side) | one component each | side by side in `MCComponents` | `components` | 1.4 M | Is what a component took on lost, done twice or undone, and does its work end? |
| `StreamReply` | one of the 24 | | `streamed_reply_kept` | violation | Does the session end with the reply the user was shown? |

`MC*.tla` give the constants their values; a `.cfg` per run names them.
`PROJECT.json` maps about 18 000 lines of the source, 30 % of it, to
definitions. All runs but one disable deadlock checking, because in a finite workload the
system rightly stops: all jobs ended, all deliveries answered, all items
decided, all requests done, all parents ended. `suggestions` does check it:
the sweep can always run.

Modelling conventions:

- *Atomicity is the event loop's.* One action is the code between two
  suspensions. The scheduler's lock bodies, the inbox operations (under the
  worker's lock), every operation of the suggestion store (synchronous) and
  spawning a layer of agents are single steps; every awaited call of Redis,
  a model or a running job separates two steps.
- *History variables* (`acceptedOn`, `successes`, `openings`, `again`, `applied`,
  `expected`, `log`, ...) are named as such in the modules; no guard reads
  them, except that `openings` and the fault counters are bounded.
- *Ages are flags or small clocks.* A claim is `stale` or not and any claim
  may become stale at any time; sessions and deduplication keys, where two ages
  are compared, use a clock up to `MaxTime`.
- *Faults are bounded by name* (`PublishFaults`, `WriteMayFail`, `MaxFaults`,
  `MaxCrashes`, `MaxRestarts`). No property
  counts a fault that has not happened: what it excuses is named by the cause.
- *What a fault excuses is state.* A variable `excuses`, `excused`, `reason` or
  `unsure` collects the causes a loss or a repetition may have. The properties
  read it, the actions only add to it. This is how a property can say what the
  code promises, and exactly when it does not.

## The modules one by one

### Scheduler and JobPool

*Code.* `WorkerScheduler` in `src/worker/scheduler.py` with
`scheduler_effects.py` and `EventBus.publish`. A call of `submit_task` is a
job `j`. `SubmitTask` is the body under the lock: refresh the daily count,
reject, or take a slot or a place in the queue. `phase[j]` is where the
asyncio task running `_run_task` stands: `executing` awaits the run of the job,
`completing` and `announcing` await the event bus, `deadLettering` the store.
`inExcept` tells the two entries into `_handle_task_failure` apart, the call in
the `try` body and the call in the `except` clause, because an exception out of
the first lands in the second and an exception out of the second ends the task.
`Finish` is the `finally` clause: `_task_completed` hands the slot to the head
of the queue. The queue is a sequence kept sorted by a stable sort, so that
insertion at the right place (`InsertPos`) is what append and sort come to; the theorem
`QueueIsSorted` confirms that it keeps the queue sorted.

*Properties.* `SlotsCounted` and `NoIdleSlot` are the two halves of slot
accounting: no slot is leaked or freed twice whatever raises, and nobody waits
beside a free slot. `QueueHoldsQueued`: a job is in the queue exactly while it
waits, once. `QuotaRespected` and `RejectsOnlyOverQuota`: the quota is a bound
and the only reason to reject. `ExecutionsBounded` and `OneOutcome`: retries
end, and a job has one outcome even if the side effects of other jobs raise.
`QueueIsFair`: order by urgency, then by arrival. `AcceptedJobsEnd`: under
fairness of `RunTask` every accepted job ends. `ImplementsPool` is the
refinement: `JobPool` knows only waiting, running and finished jobs, a capacity
and a priority, and says that a slot is given to a most urgent waiting job.

*Bounds.* Four jobs (two equally urgent, so that stability matters), two
slots, quota two on each of two dates, one retry, side effects that raise for
one job. With four jobs both slots can be taken and two jobs wait, a retry can
overtake a waiting job, and the quota is used up on each side of midnight.

*Fairness.* Weak fairness of each task: asyncio runs every task that is ready,
and executions end because the engines under them have limits of their own.
Submission and midnight are never forced.

### Inbox and Approvals

*Code.* `Inbox` holds the operations of `SessionInboxStore` that change an item
(`src/autonomy/inbox.py`), each a step because on the file backend each runs
without an await under the worker's lock; reading operations first return stale
claims to `PENDING`. The file is written in place: a write that raises or is
killed half way leaves it torn (`Torn`), the next load swallows the error and
reads an inbox of no items, and the next write makes that final.

`Approvals` adds who uses them: `HeartbeatRunner.run_once` (fetch, dispatch, end
or fail), `InterruptBridge.create_inbox` with its two writes, the confirmation
commands in their steps (claim, decide or submit, mark, or give back), the job
that resumes a graph, claims growing old, and a kill that keeps the files and
loses the rest. `job[c]` follows the resume job from `waiting` through the digest
check and the delivery (`streaming`) to `returned`, when its item is already
marked and the scheduler still publishes the completion: if that raises, as a
subscriber's malformed filter makes it, the whole job is retried
(`ResumeCompletes`). With Redis the integrations, and through them the sensors,
write through a second store object, which knows nothing of the locks of the
first: `mirror` is the copy it loaded and will write over the file
(`SensorLoads`, `SensorWrites`; the mirroring itself is in `InboxMirror`).

*Properties.* `ConfirmationsDecided`: a confirmation is consumed only by a
person's decision, and one that was written is there until then, unless it is in
`lost`: its file was torn, or the sensors' store wrote over it a copy without it.
`ActsBacked` is the one that takes many steps to violate. `openings[i]` counts
how often the item may yet be acted on: one for the first write, one more for
each of the named causes, one less for each act. The actors about to act on an
item, plus one if it is `PENDING`, never exceed it. The causes are collected in
`again`: a claim expired under its holder; the second write of the bridge
reopened an item somebody had taken; who acted failed after acting; the
scheduler retries a resume; the sensors' store made the item pending again. An
item with none of them is opened once, so that it is never acted on twice, never
offered again after an act, and never in two hands at once. `ClaimsEnd`: a claim
on a confirmation ends, also when its holder was killed, so a person can decide
again.

*Bounds.* One confirmation, one interrupt, and three deployments, chosen in
`Init` (`mode`): two commands with raising writes and publications and one
retry; two commands and one kill, which may tear the file; one command with
Redis and the sensors' store. Together they would only multiply: the theorems
below hold for every mode, also for one with everything. Two commands are enough
for every race over one item. `MaxOpenings` is where the count of openings
saturates, above the number of actors that can hold an item at once.

*Fairness.* The heartbeat recurs and its turn ends, and clocks run. Commands
are people's, so nothing forces them. `ClaimsEnd` needs the heartbeat: only an
operation that looks at the inbox recovers a stale claim.

### Suggestions

*Code.* `SuggestionStore` (`src/worker/lifecycle/suggestion_store.py`) and the
commands `/approve_suggestion` and `/reject_suggestion`. `file[s]` is the
directory of the undecided record, `resolved[s]` the status of the decided one:
both can be there after a kill. The store is synchronous, so an operation is a
step; `Crash...` actions are the kills between the file operations inside one
(claiming, resolving after an approval, resolving after a rejection).
Operations that list pending suggestions begin with `Sweep`: recover stale
claims, then expire. `beating[c]` is the background task that refreshes the
claim, which stops when a refresh raises.

*Properties.* `AppliedOnce` bounds the side effects, done and still to be done,
by the number of times a claim lapsed. `VerdictFitsEffects` ties the
recorded decision to what was done.
`CheckpointStands`: nothing that was materialized is rejected later.
`ResolvedIsGone`: without a kill a decided suggestion cannot be found again.
`ClaimsEnd`: leases end.

*Bounds.* Two suggestions of one source, two commands, one kill, any write or
move may raise. *Fairness.* The sweep recurs, claims age unless they are
refreshed, a command that began goes on. Two assumptions come with the model:
one process works on a workspace, and the event loop is never blocked for as
long as the claim timeout.

### Sessions

*Code.* `SessionManager`, `FileSessionStore`, `RedisSessionStore` and
`HybridSessionStore` in `src/conversation`, admission in
`src/api/service_ingress.py`, and the streams that take a session, add turns
and save it. A session is a value that a request carries from `Takes` to
`Saves`; that, together with the awaits, is why overlapping requests lose
turns. `file`, `rec`, `idx` and `listed` are the copies. Every call of Redis
may raise after having done part of its work, and a session found in the file is
written back to Redis also when reading Redis raised. `waiting`, the queue of the
service, is a set of threads with the time of arrival: the order of the code's
list decides nothing but the position that the client is told. `CleansUp` is
the clean-up at shutdown, which works from a list it made before its first
await. A restart empties the process; `RestartTears` is one that hits the
middle of a file write.

*Properties.* The code locks no thread, so what it can promise concerns threads
whose requests came one after the other. `Orderly` names them: no two requests
in flight together, no write lost in Redis or torn in the file. For these,
`TurnsKept`: whoever asks next finds every turn saved since the last deletion,
in cache, Redis or file; `OneSession`: all copies are of one session, so none
brings a deleted one back. `QueueKept` concerns the
service queue and holds for every thread: one place per thread, lost only by
admission, expiry or restart.

*Bounds.* A task stream and a reset on one thread, two chats on another
(interchangeable, hence the symmetry), one session at a time for the service,
one failed call of Redis, one restart, a failed background task, and a clock
that ticks once with TTL zero, so that both an expired and a fresh session
exist. A record dropped by Redis stands for its TTL too: the index of the
thread has the same TTL, and an index without its record finds nothing.

### Dedup

*Code.* `MessageDeduplicator.is_duplicate`: read the key, set it if it is
absent, else look in the table. A call of Redis that raises has or has not
taken effect. The ordered dictionary is a set of entries; `used`, the answer
that used an entry last, is its place in the order, and so an entry at the
front is one whose `used` is least.

*Properties.* `RedisLetsOneThrough` and `NoneDropped` are the two sides of
deduplication; `ForgetsOnlyWhenFull` says what the bounded table may forget:
only a message followed by `Capacity` other ones.

*Bounds.* Three deliveries of one message among two others, capacity two, TTL
two, clock up to three: a key can expire and be set again, and the table can
evict. The three deliveries are interchangeable.

### SubAgents

*Code.* `EnhancedPlanningExecutor` and `SubAgentExecutor` in
`src/worker/planning` and the `spawn_subagents` tool. A parent is a planning
run or a call of the tool. `Plans` decomposes and arranges the goals in layers
(`Layer`: the goals that depend on none of those left; a cycle is an error),
`StartsLayer` spawns a layer, `Collects` and its variants await the agents in
order, `Returns` and `Reflects` end or extend a plan. An agent takes
the semaphore that is current when it first runs, which is why `current` and
`sem` are state. Spawning a layer is one step: the publication it awaits
reaches only a recorder that does not suspend.

*Properties.* `PermitsCounted`: acquire and release pair up whenever an agent
is cancelled. `DependenciesFirst`: the step that spawns a layer finds every agent of a
goal it depends on ended, also for goals that reflection added. It is stated
of that step, not of all pairs of goals: nothing checks the `depends_on` of a
decomposition (`decomposer.py`), and a goal that arrives by reflection can be
one that a goal spawned earlier named. `AllAccountedFor`: a parent that
ends has one result of each agent, and none keeps running or registered.
`OwnResultsIfAlone`: the result is that agent's. `ParentsEnd`:
a plan inside an agent that holds a permit of its own layer does not deadlock.
The strategies `unknown` and `fail_fast` are excused where the code leaves
agents behind, by name, and so are parents that share a worker (`Alone`) where
their agent_ids collide; `OwnResults`, without that excuse, is what
`sub_agents_shared_ids` refutes.

*Bounds.* A plan with two goals in each of three shapes (independent, chain,
cycle) and a third goal by reflection, a plan nested in one of its agents, and
a call of the tool with every strategy, and one permit per layer. The three
parents are of three workers, with one fault, which is a run that fails or
times out or a cancelled call, or of one worker, without faults: then agents
overwrite each other's registration and a collect may find none. One permit makes
every wait possible; three parents make two runs and a nested one overlap.

*Fairness.* The loop runs what is ready and runs end by themselves. No timeout
is assumed, nor has any parent to begin.

### The components side by side

`MCComponents` chooses a `part` in `Init` and behaves like that module from
then on. Each of the 24 modules is an `INSTANCE` over the same thirteen
variables; the parts share no state, so the run checks each as a run of its own
would, at the price of the sum of their states. Its properties collect what
the modules state:

- `ComponentTypes`: every module's `TypeOK`, with the bounds of its counters.
- `NothingLost`: what a component took on is somewhere, and what it says of it
  is true.
- `NothingDoubled`: nothing is done twice, too early or beyond its bound.
- `NothingUndone`: no step takes back what was settled.
- `WorkEnds`: under fairness all work comes to its end.

A property of a module that breaks breaks the collection; the mutants of
`components` break each conjunct that matters separately.

*Fairness.* `Work` is what one process does by itself: a beat, a poll, a run.
`Actor(n)` are several of them that must each go on: handlings of messages,
callers, hooks, tasks, watcher and API. Crashes, faults, late and repeated
messages, edits and reloads are never forced, and their counters bound them.
`WorkEnds` says nothing of `DeadLetters`, `MainSession`, `InboxMirror`,
`Goals`, `Triggers` and `Bootstrap`: all they do is asked for from outside.

*Tasks and what they leave*

| Module | The code, and its state | Properties, and what they excuse | Bounds |
|---|---|---|---|
| `Tasks` | `TaskSpawner`, `TaskRunner.execute`, the hooks of `runtime/task_hooks.py`; manifest, where the job stands, what was learned | `OpenHasJob`: an unfinished manifest has a job, except after a kill, a failed route, a cancellation or a hook that raised. `ManifestTellsVerdict`. `LearnsWhatHappened`: rules and goals learn from a run what it was | two tasks, one a preview, two runs each, one fault, one kill |
| `DeadLetters` | `DeadLetterStore` over Redis and files | `NoneVanishes` until given or discarded; `DiscardedIsGone`; `GivenOnce`. Excused: calls that were done and raised, and two retries at once | two entries, three callers, two faults |
| `Episodes` | the experience hooks, decay cycle, links, decisions; directory, index, archive | `EpisodesKept`, `IndexFits`, `OneDecision` of a topic holds | three runs, one old episode, a fault, a kill |
| `Rules` | `RuleManager`, crystallizer, shared store; status and confidence | `CapacityKept` but for hooks that overlap, flushes and adoption; `SureOfActive`; `RevivesNone` | two runs, two learned rules, a shared one, capacity two |
| `Memory` | `MemoryOrchestrator.on_memory_write` | `AnnouncedIsIndexed`; `RetriedByWaiter`: a failed write is tried again by whoever waited for it; `AnnouncedOnce` unless forgotten | four callers of three events, a memory of one, two faults |

*Heartbeat, inbox and session*

| Module | The code, and its state | Properties, and what they excuse | Bounds |
|---|---|---|---|
| `Heartbeat` | `run_once` step by step, `AttentionLedger` in Redis and file | `ConsumedWasSeen`; `DispatchedOnce`, and once more for each time an item was put back | two items of one key, two faults, one kill |
| `MainSession` | the bus handlers and `update_heartbeat_state`, await by await | `NotesKept`: only handlers that overlap lose notes; `MetaOfLastBeat` | two jobs with three events, two beats, one fault |
| `InboxMirror` | the copies of the inbox under the two store objects that start-up makes | `ChangesKept`, as long as one of the stores is used and no copy has missed a write, or was torn by one, since it was last written whole | two items, two changes, two faults, a kill |

*Goals, duties, sensing*

| Module | The code, and its state | Properties, and what they excuse | Bounds |
|---|---|---|---|
| `Goals` | `IntegrationRuntime`, `goal_generator.py`, `goal_projector.py`, health checks; the goal file | `OneGoalPerSource`: of the files made for a source, at most one could be found all along; a further one takes a file that cannot be read (unvalidated priority, unquoted title, torn write) or does not carry the source. `ProjectionKept` unless an update was written over it or the file torn; `ActiveIsWatched` unless the status came from outside or the event of the approval raised | three tasks, two milestones, three deliveries of which one is followed in full, one fault: a kill, a torn write or an event that raises |
| `Triggers` | `TriggerManager`, duty commands, reload; duty files, jobs, subscriptions | `DutiesServed`: an active duty has exactly the job or subscription of its kind, a closed one none. Excused: the window in which the router has the old manager, and a reload that failed half way | two duties, two edits, two runs |
| `Sensing` | sensors, `SensorRegistry`, `snapshot_store.py` | `SavedWasTold`: a restart forgets no fact; `ToldOnce`. Excused: a write of the inbox that raised, a reload in a poll, for mail a kill | two facts, a fault, a kill, a reload |

*Engines*

| Module | The code, and its state | Properties, and what they excuse | Bounds |
|---|---|---|---|
| `AgentRun` | `ReactEngine`, checkpoints, resumption; conversation, budget | `CallsAnswered`: the model sees an answer to each call; `SavedIsResumed`; `ApartKept`: exclusive tools run alone; `BudgetKept`, plus one round and one per kill. Excused: a kill before the first checkpoint, a checkpoint between two batches of one message | three rounds, two kinds of batches, two kills |
| `Workflow` | `WorkflowEngine`, `HybridEngine` | `ResultsInOrder`, `RedoesNone` if the names of steps differ; `ToldIsSaved` for the workflow engine | three steps, also with two of one name, two attempts, two kills |
| `GraphThread` | `LangGraphEngine` and its interrupt | `WaitsWithItem`; `ActedOnce` unless the decision overtook the second write of its item or a resume outlived its lease | two resumes, a fault, a kill |
| `CodeCalls` | `code_rpc_bridge.py`, `execute_code_tool.py`, over socket or files | `HeardIsTrue`; `NothingAfterwards` once the outcome was told (Python 3.12.1 on); `LimitKept`; `RanOnce` unless a request could not be removed | two calls, limit two, a fault |
| `ContextWindow` | `context/assembler.py` and compaction; the summary file | `DropsNone`: the summary shrinks only by a failed summary or one that began from an older file | two runs of five rounds |
| `ModelCalls` | configuration, router, wiring, tiers, calls | `ServedByItsTier`, `WishesHonoured` (no wish makes a tier worse), `ProbedOnce` | four configurations, one edit, one fault |

*Channels*

| Module | The code, and its state | Properties, and what they excuse | Bounds |
|---|---|---|---|
| `Connection` | supervisors of Slack, Feishu and DingTalk, circuit breaker | `NoLinkLeft` when stopped, unless closing raised or the SDK was still opening; `BreakerOpens` at its threshold, unless a late event or a slow refusal counted as a success | threshold two, four faults |
| `Inbound` | adapters, `ChannelRouter.on_message`, cross-channel offers | `NoneSilent`, `AnsweredOnce`, `YesMeansTheQuestion`. The check for duplicates awaits Redis twice, as in `Dedup`. Excused: a mark forgotten, a check that overlapped another of the message or fell back from Redis, a reply that raised, a kill, a session that did not save the question | two messages of one thread, each delivered twice, with and without Redis, a fault or a mark that ages, a kill |
| `StreamReply` | `prepare_stream` and the adapters' streams | `ShownWhole`: all of the reply or an error, whatever the update interval holds back | four chunks, two faults, seven styles |
| `Outbound` | `ReliableChannelAdapter`, `MultiChannelFallback` | `OutcomeIsTrue`; `FallbackDeliversOnce` unless a send raised after it delivered | three channels, one retry each, six faults, which is every attempt |
| `Chat` | `/chat/stream` with `EngineDispatcher` | `TurnStored` for a client that stayed; `AllLayersShown`; `OneEnd`: one end and no second, unless the stream raises after it. The client may leave at every await, also between the end and the save, while the hooks of the run are awaited | three layers, two texts, two faults |

*The process*

| Module | The code, and its state | Properties, and what they excuse | Bounds |
|---|---|---|---|
| `Bootstrap` | all eighteen initializers with what they need, read and set | `NeedsFirst`; `ReadAfterSet`; `HeldOverNeeds`: cleaned up while its needs are there. `NeverTold` names two keys that are read before they are set | the real graph, two faults |
| `Reload` | `PersonaReloadWatcher`, `worker_reload.py`, `ChannelManager.reload_worker` | `OneOfEach`: between reloads all of a worker is of one version, with one running adapter. Excused: overlapping reloads, adapters that do not start | two workers, two edits, three reloads |

Two of everything is what a race over one record needs; where a third matters
(a caller that waits for one that waits, a milestone of two tasks and another
one) there is a third. Every bound on faults lets a fault happen in any step
and, where there are two, in the handling of the first.

## Proofs

Seven modules prove every safety property, invariant or action property, that
the runs `scheduler`, `approvals`, `suggestions`, `sessions`, `dedup` and
`sub_agents` check. The runs show them for a few jobs, items or requests; the
theorems for every finite set of them and every value of the bounds.

| Module | Theorem | Says | From |
|---|---|---|---|
| `SchedulerProofs` | `TypeCorrect` | `Spec => []TypeOK` | `SlotsInv` |
| | `SlotsAreCounted` | `Spec => []SlotsCounted` | `SlotsInv` |
| | `SlotsAreNotIdle` | `Spec => []NoIdleSlot` | `SlotsInv` |
| | `QueueIsExact` | `Spec => []QueueHoldsQueued` | `SlotsInv` |
| | `QuotaIsRespected` | `Spec => []QuotaRespected` | `QuotaInv` |
| | `RejectionsAreOverQuota` | `Spec => RejectsOnlyOverQuota` | `QuotaInv` |
| | `ExecutionsAreBounded` | `Spec => []ExecutionsBounded` | `OutcomeInv` |
| | `OutcomeIsOne` | `Spec => []OneOutcome` | `OutcomeInv` |
| `SchedulerPoolProofs` | `QueueStaysFair` | `Spec => QueueIsFair` | a sorted queue |
| | `SchedulerIsJobPool` | `Spec => ImplementsPool` | a sorted queue, `SlotsInv` |
| `ApprovalsProofs` | `TypeCorrect` | `Spec => []TypeOK` | `Base`, `Backed` |
| | `ConfirmationsAreDecided` | `Spec => []ConfirmationsDecided` | `Base` |
| | `ActsAreBacked` | `Spec => []ActsBacked` | `Backed` |
| `SuggestionsProofs` | `TypeCorrect` | `Spec => []TypeOK` | `Base`, `Counted` |
| | `EffectsAreSingle` | `Spec => []AppliedOnce` | `Budget` |
| | `VerdictIsTrue` | `Spec => []VerdictFitsEffects` | `Budget`, `Effects` |
| | `DecidedIsGone` | `Spec => []ResolvedIsGone` | `Gone` |
| | `CheckpointIsKept` | `Spec => CheckpointStands` | `Base` |
| `SessionsProofs` | `TypeCorrect` | `Spec => []TypeOK` | `IInv` |
| | `SavedTurnsStay` | `Spec => []TurnsKept` | `Faithful`, `Filed` |
| | `SessionsAreOne` | `Spec => []OneSession` | `Single` |
| | `QueueIsKept` | `Spec => QueueKept` | `Placed`, `OnePlace` |
| `DedupProofs` | `TypeCorrect` | `Spec => []TypeOK` | `Base` |
| | `RedisIsExact` | `Spec => []RedisLetsOneThrough` | `KeyKept` |
| | `NothingIsDropped` | `Spec => []NoneDropped` | `Told` |
| | `TableKeepsRecent` | `Spec => []ForgetsOnlyWhenFull` | `Kept` |
| `SubAgentsProofs` | `TypeCorrect` | `Spec => []TypeOK` | `Base` |
| | `PermitsBalance` | `Spec => []PermitsCounted` | itself, `Gated` |
| | `LayersInOrder` | `Spec => DependenciesFirst` | `Standing`, `Owned` |
| | `AllAreAccountedFor` | `Spec => []AllAccountedFor` | `Counted`, `Owned`, `Awaited` |
| | `ResultsAreOwn` | `Spec => []OwnResultsIfAlone` | itself, `Owned` |

The names on the right are parts of one invariant per module (`IInv`), which
holds initially and is kept by every step; `TypeOK` alone never is.

### The scheduler

*Slots.* Type correctness and the three properties of slots and queue are one
invariant, `SlotsInv`. None of them is inductive alone: that a slot passes from
a finished job to the head of the queue keeps the count right only if the head
was really waiting and is there once (`QueueHoldsQueued`), and that a job which
finds no queue may free its slot keeps `NoIdleSlot` only with the exact count.

*Quota.* `QuotaInv` relates `dailyCount` to the jobs accepted on `countDate`,
says that `countDate` never runs ahead of `today` and that nothing has been
accepted on a date after `countDate`. Without the last, the reset on the first
call of a new date would not give a count that is exact, and neither the bound
nor the reason of a rejection would follow.

*Outcomes.* `OutcomeInv` counts, phase by phase: as long as a job is not given
up its executions are its retries, plus one once the current one has ended; it
is given up only without retries left; it has one dead letter more than times
that the path of the failure was entered from the `except` clause. The last is
why the bound on dead letters is two and not one.

*Order.* In a sorted queue the jobs that a new one does not pass are an initial
segment, so that their number is the place where it belongs (`InsertPosSplits`,
from the lemma that a set of numbers from 1 without gaps is known by its size).
From that follow that the queue stays sorted, that insertion passes exactly the
less urgent jobs (`EnqueueOrder`), and that the head is a most urgent job
(`TailOrder`), which is what `JobPool` asks of a hand-over. The refinement
mapping `PoolStatus` sends each phase to its status; the steps between two live
phases of a job stutter.

### Approvals

*Decisions.* `Roles` says who may hold what: a heartbeat has no confirmations,
a command that decided has an item that is counted as decided, a resume job is
about an interrupt. With it no step but a person's consumes a confirmation.
`DecidedInv` says the same of `mirror`, the copy of the sensors' store: without
it, writing that copy over the file could bring back a decision nobody made.

*Backing.* `ActsBacked` bounds the holders of an item, plus one if it is
`PENDING`, by the openings left. Each step changes one summand up and another
down; the lemmas `OpeningBacks` (one more holder or opening, one more counted
opening), `ActingBacks` (one who was to act has acted, and his opening is used
up) and `StayingBacks` are the three ways there are, and each operation is shown
to be one of them for each item it touches. The hard ones are the claims that
expire under a holder, the copy written over the file, and the resume job, which
is retried before and after its item was marked. `OpenedOnce` is the second
half: an item outside `again` has had one opening, which is left or used up, and
none before it was first written.

### Suggestions

`Budget` bounds the charges of a suggestion by one more than the lapses of its
claims. Its charges are the effects done, the commands between claim and effect
(`Due`), and one for a rejection on record. Only a file in `pending` can be
claimed, and it comes back there only by a lapse or by a release of a command
that no longer applies; so the second half of `Budget`, that such a file
without a checkpoint has room for one more charge, makes it inductive.
`VerdictFitsEffects` follows, because a rejection next to an effect is charged
for both. `Counted` bounds all lapses by the commands that have not claimed yet
and the kills, which is what keeps the counters of `TypeOK` in their bounds.
`Gone`: without a kill, no record is decided and still in a file.

### Sessions

The copies of a session are the values in the cache, in the file and in Redis
and the ones that requests carry. What makes the properties provable is to say
of *every* copy what a request might do with it:

- `Sound`: it is of the thread of the request that made it, and its turns have
  been uttered. `Noted`: a notice waits for one session and is in none yet.
- `OneByOne`: the requests of a thread that nothing excuses have come one after
  the other. `Single`: their copies are of one session.
- `Faithful`: every copy has the turns that are expected and none of those
  that were deleted.
- `Filed`: what is in Redis, and whatever is expected, has a file; the file is
  as a request wrote it until Redis has followed; what is being deleted is no
  longer cached.

A copy after a step is a copy before it, or one that a request filled, or the
one it saved (`Origin`); so each part is shown once for these three cases and
not for each place. `Filed` is what a fall-back from Redis to the file relies
on, and the reason why `HybridSessionStore` must write the file first.
`QueueKept` needs that a thread has one place (`OnePlace`) and that those
who were admitted are the ones in `Placed`.

### Dedup

Each entry of the table knows the answer that used it last. `Dated` relates its
time and order to that answer. `Kept` says of each answer of the table that
said "new" what has become of it: it is too old, or an entry used since then
stands for it, or the table was asked about `Capacity` other messages since
(`Crowded`). Eviction is the step that matters: what gives way is least
recently used, so that all other entries are of messages seen since
(`EvictedIsCrowded`). `KeyKept`: a key in Redis outlives the TTL of the answer
that set it. `Told`: somebody is still to ask, or somebody was told.

### SubAgents

`Standing` and `Registered` say what a parent has in hand and which agents are
in the registry. `Gated`: whoever waits or runs has a semaphore, and only an
agent that has not ended is cancelled; with it each step that changes `permits`
changes the agents that run on that semaphore by as many. `Counted`: handles
and results together are what was spawned, each agent once. `Owned` and
`Awaited`: a parent that shares no worker (`Alone`) finds its own tasks
registered for what it has in hand, has nothing else registered that it would
wait for, and its agents outside the layer have ended.

The proof of `DependenciesFirst` failed for a good reason at first. Stated of
all pairs of goals it is true only if the goals a decomposition depends on are
there when it is made, and the code does not check that. It is now an action
property of the step that spawns, where it follows from what a layer is.

### Assumptions, and what stays with the model checker

The theorems assume what the modules assume of their constants, and no more:
finite sets of actors and records, bounds that are numbers (at least one for
the table, its TTL, the limits of service and agents, the iterations of a plan
and the dates), an absent value that is none of the present ones, goals that
are numbers, requests that are not notices. The runs evaluate
these assumptions.

Checked only: the liveness properties (`AcceptedJobsEnd`, `ClaimsEnd`,
`ParentsEnd`, `WorkEnds`), because fairness and `ENABLED` are out of the
prover's reach, and so the fairness conjunct of each `Spec` is not used in any
proof; the four collections of the run `components`; what a recursive
definition computes for every input, which would need induction over data.

## What the code does differently from what it says

| Run | The text | What happens |
|---|---|---|
| `streamed_reply_kept` | `tests/unit/test_im_channels.py` asserts that the session's last message is the streamed reply | its stub reads the stream to the end. The adapters of Feishu, Slack, DingTalk and WeCom leave at the finished chunk, so the `finally` of `prepare_stream` has not run when the router reads the reply it collected: the session stores no answer, and the next turn does not know what was said. |
| `approvals_heartbeat` | the architecture document has interrupts resolved by the two confirmation commands | the heartbeat leaves out task confirmations only. It fetches an interrupt as if it were a fact and consumes it, and nobody can answer the graph any more. |
| `suggestions_source` | `creation_block_reason` gives "already approved" and "duplicate pending suggestion" as reasons | it does not look at claimed suggestions, so during an approval a second one of the same source is created, and both are approved. |
| `dedup_race` | `is_duplicate`: "Return True when the platform message was already processed." | the loser of `SET NX` gets no answer from Redis and asks the table, which does not hold the key that Redis took: both deliveries are new. |
| `sub_agents_shared_ids` | "Each subtask runs independently with its own context." | ids are made of the worker and the sub-goal. Two runs of a worker share entries of the registry, and one collects the other's result. |

One more has no run of its own: `_handle_task_failure` says "Retry transient
failures, then dead-letter exhausted jobs", but a subscriber's malformed filter
makes `publish` raise after a success, and the job that succeeded runs again
(`PublishFaults` in `Scheduler`; `OneOutcome` is stated for the other jobs).

What the excuses of the modules stand for, that is, what a team would want to
look at, by component:

- *Tasks*: a failed route or a cancelled run leaves its manifest `PENDING` or
  `RUNNING`, and nothing resumes it; `build_episodic_indexer` in
  `runtime/task_hooks.py` raises a `NameError` as soon as there are candidates
  for the archive.
- *Heartbeat and inbox*: an exception after `mark_consumed` puts consumed items
  back; the inbox file is written in place, and a torn one is read as empty and
  overwritten; start-up makes two inbox stores over one file, and what one writes
  the other may overwrite with an older copy, an open confirmation included; a
  resume whose completion cannot be published is delivered to the graph again;
  two handlers of the main session lose a note.
- *Dead letters*: entries in files are not listed once Redis answers.
- *Goals and duties*: a goal created active has no health check before a
  restart; a goal file that the generator wrote and the parser cannot read is
  passed over, and the next delivery makes a second goal; when the event of an
  approval raises, the goal is active without health check; external content may set any status; `duty_to_markdown` drops
  filter, metric, rule, check interval and script of a trigger; job ids lack
  the worker; a bad cron line makes a registration raise half way.
- *Sensing*: facts are marked as seen, and mails in Redis, before they are
  routed; a folder that cannot be listed empties the snapshot.
- *Engines*: workflow and hybrid runs do not count the budget; a resume drops
  unanswered calls; the hybrid engine reports a step before its checkpoint; the
  bridge writes its item twice, and a decision between reopens it.
- *Channels*: two deliveries of a message that overlap at Redis are both
  answered; a close that raises ends the supervisor; commands bypass the
  duplicate check; an outbound adapter without a bot reports success; Slack
  stays "connected"; the look-up question goes out before its session is saved.
- *Chat*: when a client leaves, also after it was sent the end, the turn is not
  stored and the plan goes on; a
  fall-back engine runs tools again; a failing run may end with success.
- *Memory and rules*: decay compounds with every cycle; `retrieve_count` is
  always zero and nothing adds to `apply_count`; overlapping hooks exceed the capacity.
- *Context*: the summary file is shared by the conversations of a worker;
  `count_tokens` raises on a dict when tiktoken is there.
- *Models*: `router_adapter.invoke` turns a failure into an answer's text; a
  configuration without tier aliases is accepted and serves no call.
- *Start-up and reload*: the scheduler and the conversation initializer read
  `redis_client` before another one sets it; a required initializer that fails does not stop the
  server; what failed is not cleaned up; the watcher notes a change before its
  reload succeeded; `adopt_shared_rule` is registered on one shared server, so
  the last worker's wins.

## What is not modelled, and the plan

What is left of the plan is proofs about the components that run side by side;
their safety is checked on small instances only. In this order:

| Module | To prove | Why it is within reach |
|---|---|---|
| `DeadLetters`, `Heartbeat`, `GraphThread`, `Rules` | `NoneVanishes`, `GivenOnce`, `ConsumedWasSeen`, `ActedOnce`, `RevivesNone` | sets and flags; almost inductive |
| `Outbound`, `CodeCalls` | `FallbackDeliversOnce`, `LimitKept` | counters |
| `Workflow`, `Memory` | `ResultsInOrder`, `RedoesNone`, `AnnouncedIsIndexed` | prefixes and sets |

The last of them, the four collections of `MCComponents`, are the conjunction
of what 24 modules state, and follow only when all of these are proved.

Left to model, each of little state: the recorder of events and its matching of
patterns, the budgets of prompt segments, tool scopes and mounts (comparisons
of names and paths at one point of time), the matching of skills, the
conversation search index (best effort, its failures ignored), contacts and
profiles, the document clients of `sync_manager.py`, and the listings of routes
and commands. Out of reach or without behaviour: providers of models, the
formats of platforms' messages, prompts, command-line and web front ends,
stored documents and their parsers. `PROJECT.json` lists each component with
its status and reason.

Some code has no caller in `src` outside the tests: the decay cycle
`run_decay_cycle` (`Episodes` has it all the same, as the only thing that moves
episodes), `archive_stale_logs`, `version_file`, `detect_change`,
`sync_goal_progress`, the recovery of a prompt that is too long,
`ShutdownManager`, and `DeadLetterStore.retry` (in `DeadLetters` its callers
are whoever will use it).
