# A verification development for the MLOC orchestrator and its workers

TLA+ modules that model the control of the task orchestrator and of its
workers, TLC configurations that check them on small instances, and proofs for
TLAPS. Paths are relative to `src/`. `PROJECT.json` maps every definition to the
lines it stands for, and lists each hazard at its line with the properties that
look at it.

## 1. The system: an inventory

A client posts a task graph to the **orchestrator** (`orchestrator/main.py`, a
FastAPI process). The orchestrator keeps one record per task, pools the tasks
that wait, chooses an idle **worker** for each that may run, and publishes the
task on the Redis channel `tasks` (or sends it over a WebSocket). A worker runs
one task at a time, delivers its result over HTTP or to the file system and
publishes `TASK_STARTED`, `TASK_SUCCEEDED` or `TASK_FAILED` on `tasks.events`.
Workers announce themselves on `workers.events` and in Redis hashes with
heartbeat keys that expire.

| Part | Source | State it keeps | Operations | Promises | Modules |
|---|---|---|---|---|---|
| API and event handlers | `orchestrator/main.py` | the module-level task tables, the listeners' position in their channels | submit, ingest a result, handle `TASK_*`, `UNREGISTER`, `HEARTBEAT` | a task that was executed is `DONE` and stays so; a failed one is retried `max_retries` times, then a dead letter | TaskDispatch, ShardAggregation, MergeBatch, MetricsLedger |
| Task pool and timers | `orchestrator/task_store.py` | pool entries and their metadata in Redis, one flush timer, model counters | add, take a batch, put back, clear, flush when due, flush all | no pending task is forgotten; a timer guards every pool that is not empty; urgency then FIFO | TaskDispatch, BatchPlanning |
| Dispatcher | `orchestrator/dispatch.py` | none of its own; task records under `TASKS_LOCK` | dispatch one, dispatch as shards, dispatch merged, requeue | only ready tasks go out, one copy at a time | TaskDispatch, ShardAggregation, BatchPlanning |
| Scheduler | `orchestrator/scheduler.py` | none | idle pool, weights, choice, split of items into shards | only idle workers that satisfy the request; shards partition the items | BatchPlanning, ShardRows |
| Worker registry | `orchestrator/worker_cls.py` | Redis hashes, `workers:ids`, heartbeat keys | register, status, staleness, unregister | a listed worker is whole and alive | WorkerPresence |
| Shard aggregation | `orchestrator/aggregation.py` | parent/child tables, one record per sharded parent | ingest a child's result, aggregate when all are there | aggregated once, from all children | ShardAggregation, ShardRows |
| Inference merging | `task_store.py`, `main.py` | merged parent and its children in the task tables | merge a batch, fan results out, fail or retry together | every merged child ends as its parent does | MergeBatch |
| State snapshots | `orchestrator/state_store.py` | a JSON file | mark dirty, flush, load, recover | a restart neither loses nor repeats finished work | StateSnapshot |
| WebSocket manager, client, transport | `orchestrator/websocket_manager.py`, `worker/websocket_client.py`, `worker/worker_transport.py` | connection table, send queues, retry backoff | connect, replace, send, disconnect | one connection per worker; both sides end up with the same one | WsConnections |
| Parser | `orchestrator/parser.py`, `spec_models.py` | none | expand a submitted graph or stage list | a document is refused exactly when it has no order | WorkflowGraph |
| Metrics | `orchestrator/metrics.py` | counters, entries per task, samples, active workers | record events, finalize a failure | the report adds up | MetricsLedger, WorkerPresence |
| Results and manifests | `orchestrator/results.py`, `manifest_utils.py` | files | write, read, manifest | a manifest lists what was written | (section 6) |
| Worker runner and lifecycle | `worker/runner.py`, `lifecycle.py`, `redis_worker.py` | current task, running flag | receive, execute, deliver, report, heartbeat, shut down | each task it accepts is reported once | TaskDispatch, WorkerPresence |
| SDK | `mloc_sdk/` | connection of a third-party worker | register, run, report | as the runner | WsConnections, WorkerPresence |
| Executors | `worker/executors/` | models, adapters, subprocesses | run, clean up | a result comes from its own task's data and model | WorkerEngines, TrainingRun |
| Agent framework | `worker/executors/agent/` | event queue, plan of subtasks | stream, plan, assign, execute | a run ends and its result says how | AgentStream, WorkforcePlan |

How they interact. `submit_task` runs the parser, registers the specs in the
TaskStore, creates records and pools them; the pool calls the dispatcher, which
asks scheduler and registry for a worker and publishes. Workers answer through
`ingest_result` (HTTP), and through the listener of `tasks.events`, which also
feeds metrics, aggregation and merging. `UNREGISTER` on `workers.events` makes
the registry's listener reschedule what the worker had. Every handler that
changes a record marks the snapshot dirty.

What is hard in this code:

* **Threads over coarse state.** The API event loop, the listeners of the two
  Redis channels and every expired `threading.Timer` run the same handlers over
  the same records. Locks cover single sections, not handlers: between the
  decision to dispatch and the commit of `DISPATCHED` the task is already
  public.
* **Cross-channel ordering.** A result POST, the event on `tasks.events` and
  `UNREGISTER` on `workers.events` arrive in any order.
* **Failures.** Redis calls raise; a worker stops politely, is killed, comes
  back under its old id; a POST times out though it was handled; the
  orchestrator dies between two writes; a link breaks unnoticed.
* **Bounded budgets.** Retries, batch sizes, one timer for a whole pool, a reserve
  of idle workers.
* **State that outlives its purpose.** An engine loaded for one task serves the
  next, ranks share an output directory, an event queue outlives the loop that
  fills it, a plan is renumbered under the subtask at hand.

## 2. What the modules model

Every action stands for one section that a lock, an `await`, a single Redis call
or a single file operation makes atomic; its comment or name gives the method
and `PROJECT.json` the lines. Definitions marked "a mutant of" are the wrong
versions against which a property is tested; no specification uses them.

### TaskDispatch (core)

The dispatch path of tasks without shards or merges over Redis, from
`submit_task` to a settled task, with the worker's loop.

* **Records.** `status`, `retries`, `assigned`, `backoff` are `TaskRecord`'s
  fields (`backoff`: `next_retry_at` is in the future), `deadLetters` the list
  of dead letters. `Deps` is the parsed task graph, fixed by the submission.
* **Pool.** `pool` is the Redis set of entries with their metadata (`task`,
  excluded `worker`); `armed` the pending timer threads, `flushTimer` the
  reference under `_flush_lock`. The two differ when a thread keeps running
  after its reference was dropped.
* **Threads.** `stack[th]` is what a thread has still to do. A handler that calls
  another pushes its frames; `Continue` replaces the top frame. So
  `requeue_task` is the frame `requeue` (the record, under `TASKS_LOCK`), then
  `add` (the pool, under its lock), then `flushDue`. Threads are `api` (the
  event loop: one request at a time up to its first await), `tasks` and
  `workers` (the listeners) and one thread per timer.
* **Failing calls of the pool.** Redis errors in `add` and `requeue` are
  swallowed (`AddFails`, `PutBackFails`: the error may come before or after the
  entry is stored, or between two entries); one that is raised while a batch is
  planned, or after an entry was popped, ends at the nearest `except`, which logs
  it (`PlanningFails`, `LookupFails`; `CaughtAt` finds the frame that catches).
  `dropped` is a history variable: the tasks whose entry such a call has lost.
* **Channels.** `taskEvents` and `workerEvents` are queues, as a Redis
  subscription keeps the order of one channel; `posts` is a set, as requests of
  different workers are not ordered. `inbox[w]` is what `w`'s subscription has
  not yet delivered.
* **Workers.** `up`, `current`, `phase` follow `Runner._process_task_message`:
  `running`, `posting` (a POST is out), `answered`, `reported` (the event is
  out, `IDLE` not yet written). The registry's view is `registered` and
  `redisStatus`.

SLO ranking, model grouping and hardware are BatchPlanning's, shards
ShardAggregation's, merges MergeBatch's, persistence StateSnapshot's. Here tasks
are ranked by submission and any idle worker may be chosen.

### WorkflowContract

What the dispatch path promises of dependent tasks, without threads, pools or
channels: a task is given out when all it depends on has run; only given tasks
run. `TaskDispatch` implements it with `given` = what the workers hold.

### ShardAggregation and ShardGathering

One data-parallel task, from the moment `try_dispatch_one` has chosen to shard
it until its parent and shards are settled.

* **Fan-out.** `step`, `next`, `created` are the position of the dispatching
  thread in `_try_dispatch_sharded`: it publishes shard `next`, registers it
  (`TaskRecord`, `CHILD_TO_PARENT`), and finally enrolls what it created in
  `PARENT_SHARDS`. A shard whose publication finds nobody is skipped, one whose
  publication raises gets a `FAILED` record; neither is expected later.
* **Tables.** `mapped` is the key set of `CHILD_TO_PARENT`; `children`, `done`,
  `results`, `aggregating` are the parent's entry of `PARENT_SHARDS` (absent when
  `children` is empty; `total` is the number of children, `aggregated` is never
  seen since the entry is popped with it).
* **Threads.** `api` is the event loop inside `ingest_result`
  (`maybe_aggregate_parent` locks twice and writes between: sections `collect`,
  `write`, `finalize`; `WriteRaises` is an exception of the second, before or after
  the file is there, which answers the POST with an error); `listener` is `_handle_task_event_sync`, with the record
  and the parent it looked up at its top (`known`, `mapped`); `rescheduler` is
  `_reschedule_tasks_for_worker` with the list it took.
* **Workers.** As in TaskDispatch. A shard's `http` destination is replaced by
  `local`, so a worker POSTs a shard's result only if it has an
  `orchestrator_url` (`HttpResults`).

A shard that is retried goes through the pool and the single-worker path, which
are TaskDispatch's subject: here it is pooled in one step and dispatched, whole,
to a worker without a job in another. `ShardGathering` is what sharding promises:
the parent's result is gathered at most once, and only from shards that ran;
`ShardAggregation` implements it with the same two variables `ran` and `gathered`.

### ShardRows

The data behind ShardAggregation: `make_shard_messages` carves
`spec.data.split`, the executor cuts the data set by `spec.shard`, aggregation
concatenates in shard order and delivers over HTTP with retries. A data set is
its row numbers; a split is a pair of percentages, a row boundary the nearest
row. `job` ranges over lists, data sets with and without a split, and numbers of
shards; each shard is published, skipped or broken, and answers or fails. The
loop of `_build_aggregated_result` is `MergeNext`, a turn at a time, with `merged`
shards behind it.

### MergeBatch

The inference tasks of one merge signature, from the pool until they and the
tasks merged into them are settled.

* **Items.** `spec[t]` is the list of items in `parsed`, each named by the task
  it came from, so that a result can be compared with what its task asked for;
  `Size` gives their numbers. An executor returns one result item per input item,
  in order: that is the executors' behaviour, not code under test here.
* **Tables.** `children`, `parent`, `status`, `retries` are `TaskRecord`'s
  `merged_children`, `merged_parent_id`, `status`, `retries`; `slices` is
  `TaskStore._merge_slices`. The record's `merge_slice` is written and never read.
* **Threads.** One thread plans: `TakeBatch`, then `ScanEntry` for the `First` entry
  of what is left to `scan`, with the pending `partner`, then `Dispatch` or `Defer`
  per plan; `api` is the event loop in
  `ingest_result`, cut where `TASKS_LOCK` is released and a file is written
  (`done`, `detach`, `children`, `clear`); `listener` is
  `_handle_task_event_sync` and `_propagate_merge_failure` likewise. The slices
  that cut a result are read when it arrives.
* **Workers.** Each task has one of its own; `out[t]` is what it runs on. Which
  worker, and when the pool is scanned, is TaskDispatch's subject: any pending
  tasks of the pool may form a batch.

`_propagate_merge_failure` is defined twice in `main.py` (969 and 1000, equal); the
second counts. Without an `orchestrator_url` nothing finalises merged children: their
result is only split by `ingest_result`; the module models workers that POST.

### BatchPlanning

How a batch is taken and matched: the ranking of `_take_n_locked` (progress
of the SLO, then order of submission), the co-location of `_optimize_batch`, the
per-model counters and the stickiness cache of `TaskPoolManager`, the decision to
retain an engine, `choose_strategy` with its reserve, and
`select_workers_for_task` by hardware and preference. `mark` is the task's
record, `held` the pool, `released` what was ever dispatched, `plans` what the
planning thread has still to dispatch. `LateEnd` is the success of an attempt
already given up, which takes the task from the pool without its counter.
Weights of workers that report the same are a free choice.

### StateSnapshot

`state_store.py` beside a Redis pool and workers that live on. Memory is
`parsed`, `tasks`, `entry`, `mapped`; the two flushing threads (the loop and
`stop`) each collect, open the temporary file, write and replace; `Crash` may
come between any two of these, `StopRequested`, `FinalFlush` and `Exit` are the
orderly end. `Restart` loads the file and demotes what is not done,
`RequeueRestored` pools it task by task, and `Serve` starts the writer and the
listeners. Events published while nobody listens are lost, as Redis pub/sub
loses them. A worker may fail (`WorkerFails`), and `TaskFailed` then retries the task
or gives it up, whatever its status is by then; `undone` remembers which tasks a
failure has found `DONE`. A retried shard goes out on its own
(`DispatchRetried`), as in ShardAggregation.

### MetricsLedger

`MetricsRecorder`'s counters, its entry per task, the completed tasks and the
numbers of samples, against plain and sharded tasks whose workers report, fail,
are retried or lost. Times are known or not known; averages are arithmetic. A
shard's result is `delivered` before its worker reports, and the report may be a
failure all the same (a POST that timed out). `IsChild` is read when the event
is taken: an unmapped shard's failure is recorded as a task's and, with
retries left, answered by nothing (`NothingToRetry`, `unanswered`).

### WorkerPresence

Who is there: worker processes that start, beat, stop, are killed and start
again under the same id, over Redis or a WebSocket; the registry (`members`,
`workerHash`, `fresh`), which the scheduler reads; `_active_workers`, which the
metrics report. `BeatBegin` and `BeatEnd` cut the heartbeat thread between its
check of the stop flag and its write.

### WorkflowGraph

One submission from its document to the end of its tasks. `_parse_graph_nodes`
takes a step per node: `IndexNodes` checks and indexes them, `PlaceNext` places
the next of a pass or passes it over while it needs one that is `unresolved`, and
`PassEnds` begins another pass, refuses the graph or registers its order; stages
are chained and a single task is taken as it is by `ParseWritten`. `Bind` gives
names their task ids; `RecordNext`
records and pools one spec at a time, while earlier ones may already run;
`GiveAlone`, `GiveSharded` and `GiveMerged` dispatch with the placeholders that
their path renders. Documents range over all nodes, names (duplicates too) and
dependencies (on itself, on later nodes, on names outside) within the bounds.

### WsConnections

One worker of the SDK and the orchestrator: the manager's table (`current`), one
handler per connection, the sends that `_publish_task` hands to threads without
waiting, the reconnecting client and its sender thread. A link that breaks is
`cut` until one side notices; what is sent into it is buffered for nobody, and an
event taken from the queue while not connected is gone.

### AgentStream and WorkforcePlan

`AgentExecutor.run` in one event loop: the executor's coroutine reads the
agent's events and then awaits the background loop that fills them. The
orchestra agent puts its own sentinel; the simple agent's comes from the Runner
of openai-agents (external). `WorkforcePlan` is `WorkforceAgent.run`: plan,
assign, execute with retries, check, update the plan. Subtasks are objects with
identity, as in the code, so that renumbering shows. Answers of models are free.
The files a run writes after its loop may not be writable (`OutputWriteRaises`,
`DocumentWriteRaises`); `unwritten` remembers the prompts concerned.

### WorkerEngines

What a vLLM or transformers executor object keeps from one task to the next: the
engine, the reported model name, the adapters, the prompts. Weights are the base
model with the merges applied to them, natively or into a directory. A load that
raises may leave nothing, or (transformers) the model without its name.

### TrainingRun

One SFT, LoRA-SFT, DPO or PPO task: the choice of devices, the launch of ranks and
the parent's fall-back when it fails, checkpoint, training, saving, archiving and
upload by processes that share one output directory. `SaveBegin`/`SaveEnd` and
`ArchiveBegin`/`ArchiveEnd` are the two ends of operations in whose middle other
ranks act.

### MC modules

`MCTaskDispatch` and `MCMergeBatch` give constants their values. `MCServices` and
`MCWorkers` hold one **scene** per component: the components of one such run
share no step, so instead of their product (which would only multiply equal
behaviours) each initial state picks the component that is at work, while the
others rest in one initial state. A property of one component is thereby
checked over all its behaviours. Components that do interact are composed in
one module (TaskDispatch: pool, dispatcher, listeners, registry, workers;
ShardAggregation: fan-out, aggregation, listener, workers; StateSnapshot: memory,
disk, Redis, workers; WsConnections: both ends of the wire).

## 3. What the runs check

| Run | Shows | Distinct states |
|---|---|---|
| `Dispatch` | Two dependent tasks, two workers, executors that fail, under `PromptCommit`: `NoTaskLost` (no pending task is forgotten, none is out and in the pool, somebody answers for each that is out), `DONE` is final. | 219 971 |
| `DispatchRestart` | A Redis call around a publication raises, one of the pool fails, a worker stops and comes back, no timing assumption on the commit: a pending task is forgotten only if the failing pool call has dropped it. | 835 691 |
| `DispatchHttp` | Batches of two, results over HTTP with a POST that times out, a retry, a killed worker and a failing pool call, without the timing assumption: a worker may report before its dispatch is committed. `DONE` means executed, dependencies ran first, at most one copy is out, what has run or was given up is not handed out again before the POST times out (`NotRepeated`), a pending task is kept unless dropped; `Sound`, the inductive invariant of the proofs; the contract is implemented. | 653 413 |
| `DispatchLiveness` | With fairness: every pending task runs or becomes a dead letter, and a quiet orchestrator with pooled tasks has a timer. | 226 160 |
| `ShardHttp` | Two shards on two workers, results over HTTP, with a failure, a late POST, a failing publication, a raising write of the aggregate, a stopped and a restarted worker: what is written has every registered shard, it is written once all results are in or the write has raised with all of them in the table, no shard is forgotten; the contract is implemented. | 3 163 381 |
| `ShardFiles` | No HTTP: with fairness the parent is settled, and it is `DONE` only if every shard ran. | 769 |
| `Merge` | Three tasks merged in batches of any composition, one with two items; a failure, a late acknowledgement, a child's result that cannot be written: a result file starts with its own task's items, `DONE` means a stored result, no item is on two workers. | 158 257 |
| `Services` | One scene each of the snapshots, the metrics, the worker registry, a workflow document, a data set's rows and the batch planner. | 361 244 |
| `Workers` | One scene each of the WebSocket, the agent's stream, the workforce's plan, the engines and a training run. | 50 489 |

What the scenes of `Services` and `Workers` check; an invariant of the cfg is the
conjunction of the named ones:

| Invariant or property | Conjuncts, beside the types | What could be wrong |
|---|---|---|
| `SnapInv` | `SnapshotWhole`, `SnapshotIsCut`, `PendingIsPooled` | the file is torn by a crash; it mixes two moments, so that a job is out and its dependency unfinished; a restored job is pending and in no pool |
| `Persistence` | `PersistedNotRepeated`, `PersistedSettles` | a job recorded as `DONE` is run again after a crash, though no second copy of it failed; a job of a snapshot is never finished |
| `LedgerInv` | `SamplesMatchCompleted`, `FailuresAccounted`, `SettledIsFinal`, `AttemptsAgree` | a retried, lost or sharded task is sampled twice, or not at all, or ends in the records and not in the ledger; a failure stays unanswered while its task has work left |
| `PresenceInv` | `ListedIsWhole`, `ReportMatchesRegistry` | a late heartbeat or status resurrects half a record that the scheduler then uses; metrics and scheduler disagree for ever |
| `GraphInv` | `AcceptedIffOrdered`, `GivenAfterNeeds`, `PlaceholdersFilled`, `NoCircularWait` | the parser refuses a good document or accepts a circle; a task is given, or rendered, before a result it names is stored |
| `RowsInv` | `RowsInOrder`, `UncarvedIsComplete`, `ForgottenAfterDelivery` | a row is answered twice, dropped or out of order; a result is forgotten undelivered |
| `PlanInv` | `CountsCoverPool`, `RetainedForWork`, `OnlySuitedWork` | an engine is unloaded under waiting work; a preferred worker is unfit for the task |
| `ReserveKept` | | a sharded task takes the workers that other first dispatches wait for |
| `WsInv` | `NoGhostConnection`, `ReportedOnce`, `SteadyLinkDelivers` | the table names a connection that no handler reads; an event is counted twice after a reconnection; a task vanishes without a broken link |
| `EventuallyAttached` | | handlers of old connections and reconnections chase each other for ever |
| `AgentInv` | `ItemsAnswered`, `StreamOutlastsLoop` | a prompt is reported as answered though its loop failed, or as failed though its answer was written; a loop outlives its run |
| `EndsOrStarves` | | a run hangs in another way than the known one |
| `WorkforceInv` | `ExecutedOnce`, `SettledPrefix` | an update of the plan repeats or skips a subtask |
| `EngineInv` | `PromptsOfTask`, `ReportedModelIsLoaded` | prompts of the previous task are answered; the model field names other weights than those used |
| `TrainingInv` | `SuccessHasModel`, `UrlMeansUploaded`, `AloneUploadsWhole` | a result names a model or an archive that is not there, after a launch that failed halfway |

Three runs find what the code's own words exclude (`findings` in `PROJECT.json`):

* `ShardHttpParent`: aggregation unmaps the shards before their last event is
  counted, so an aggregated parent never completes.
* `MergeOrphan`: 2 and 3 are merged, 2 fails and is retried, and is merged into 1:
  its `merged_children` are reset, and 3 waits for ever.
* `DoubleShard`: where the split of a data set is carved in whole percentages, the
  executor cuts each part once more by `spec.shard`: most rows are answered by
  nobody.

### Bounds

* **Dispatch.** Two tasks, task 2 after task 1 (one task in `DispatchRestart`,
  where every kind of failure happens), two workers, one flush timer; batches of
  one entry (the code's default), of two in `DispatchHttp`. Two tasks suffice for
  a dependency, for competition for a worker and for a batch that defers one
  entry while it sends another. `Timers`: threads of timers pending or running
  at one time; with all pending a new one coincides with one of them.
  `CallDepth`: a backoff does not expire inside a deeper chain of calls
  (`requeue_task` calls `flush_due`, which may plan and requeue again; a backoff
  lasts at least a second). `retries` saturates at `MaxRetries + 1`, as the code
  only compares it with `max_retries`.
* **Failures.** `MaxFaults` (calls around a publication), `MaxPoolFaults` (calls of
  the pool), `MaxBadWrites` (of the aggregate), `MaxShutdowns`, `MaxCrashes`,
  `MaxJoins`, `MaxTimeouts`, `MaxFailures`, `MaxTaskFailures` (of the jobs in
  `Failing`), `MaxCuts`, `LossLimit`, `MaxLosses`, `MaxLateEnds`
  count the failures of one behaviour; one of a kind suffices for each race named
  under `hazards`, since each is between one failure and one thread's sections.
* **Shards and merges.** Shard `i` first goes to worker `i`; with two, one can be
  registered and one outstanding, failed or re-run on the other's worker. Three
  tasks are the fewest for which a merged parent can become a child; one has two
  items so that a wrong bound shows in what is cut.
* **Scenes.** StateSnapshot (117 350 states): two jobs, the second sharded and after
  the first, one crash, so that every section of the writer, of the fan-out and
  of the restoring thread is cut once, one failure of a copy of the first.
  MetricsLedger (6 362): a plain and a
  sharded task, one retry, one lost worker. WorkerPresence (35 280): a worker of
  each transport, started twice. WorkflowGraph (141 978): all documents of up to
  three nodes and three dependencies, the fewest in which a pass of the parser
  can go wrong after one that progressed. ShardRows (11 864): seven rows in two,
  three and four parts of ranges that divide evenly and that do not.
  BatchPlanning (48 410): three tasks of two models, five workers of four kinds.
  WsConnections (34 259): two tasks, five connections, one cut. WorkforcePlan
  (4 172): three plans of two subtasks. WorkerEngines (3 050): two tasks, two
  models, an adapter. TrainingRun (8 614): every configuration on two GPUs.
  AgentStream (394): two prompts, plans of up to two subtasks.
* **Checked once with larger bounds**, beyond what a run should take: a failure of
  either job in StateSnapshot (`Failing = {1, 2}`: 495 472 states); two shards in
  MetricsLedger (987 244 with posted results, 243 326 without); three tasks in
  the dispatch path, the fewest in which an exception of the pool unwinds a
  chain of calls with a plan left below it (716 476).

### Timing and other assumptions

Each is a constant; `TRUE` in the runs unless said otherwise, and section 5 says
what fails without it. They are assumptions on speeds, not guarantees of the code.

| Constant | Says | Where it is dropped |
|---|---|---|
| `PromptCommit` | no worker takes a task off its subscription before the thread that published it has committed | `DispatchHttp`, `DispatchRestart`, all proofs |
| `PromptCancel` | no thread is preempted between finding the pool empty and cancelling the timer | `Dispatch`, all proofs but that of `TimerGuardsPool` |
| `PromptEnroll` | the fan-out is over before any worker ends a job or stops | the proofs of ShardAggregation, except of `CompleteIsAggregated` and `ShardNotForgotten` |
| `PromptIngest` | a POST is ingested before its worker gives up on it | the proofs of `ItemsOutOnce` and `OwnItemsFirst` |
| `PromptListen` | no worker ends what a starting orchestrator sent before it listens | the proofs of StateSnapshot |
| `JoinInTime` | the writer ends before `stop` gives up waiting for it | (the proofs assume it too) |
| `PromptRecord`, `PromptReports` | a submission is recorded before a worker reports; reports are handled before their worker's `UNREGISTER` | (the proof assumes it too) |
| `PromptListener` | an `UNREGISTER` is handled before its worker starts again; only `ReportMatchesRegistry` needs it | `ListedIsWhole` is proved without it |
| `PromptClose` | the client's reconnection delay outlasts the end of a handler that sees its link is closed | the proof of `WsInv`; only `EventuallyAttached` needs it |
| `MaxPoolFaults = 0` | a constant of the bounds: no Redis call of the pool fails; `Dispatch`, `DispatchLiveness` | `DispatchRestart`, `DispatchHttp`, all proofs but that of `TimerGuardsPool` |
| `OtherSubscribers` | not an assumption: the case in which a publication to Redis for a WebSocket worker finds a listener | |

### Fairness

* *TaskDispatch, ShardAggregation.* Weak fairness of each thread (the OS runs it;
  its frames never block on another thread's frames, only on locks held for one
  section), of timer expiry, of the listeners and of a worker's own steps (an
  execution ends). Strong fairness of `RetryDue`: a backoff expires, though the
  model lets it expire only outside deep chains of calls.
* *MergeBatch.* As above; a task that is planned again and again finds a worker
  (strong fairness of `Dispatch`): workers end what they run.
* *StateSnapshot.* A supervisor restarts the process; its threads run; workers end
  what they have. Nothing must crash or stop.
* *WsConnections.* The client's threads, the handlers and the sending threads run;
  a side that reads a broken link notices. Links need not break.
* *AgentStream.* The event loop runs every coroutine that can go on, and what the
  agent's loop awaits is answered or raises (`LoopProgress`).

`CHECK_DEADLOCK FALSE`: the system rests when all tasks are settled, which is
its normal end. Symmetry of the workers is used in dispatch's safety runs only.

## 4. What is proved

Eight modules hold theorems; each is for every value of the constants its
module's assumption allows. A theorem that needs more states it as an `ASSUME`:
a timing assumption of section 3, or a bound on failures that is 0. None is
there for the prover's sake: with any one of them dropped TLC finds the property
violated (section 5). Where the code breaks a promise in a way that can be
described, the property names the exception and the theorem shows that it is the
only one (`PendingNotLost`, `CompleteIsAggregated`, `PersistedNotRepeated`,
`FailuresAccounted`, `ItemsAnswered`, `ReportedModelIsLoaded`).

**TaskDispatch_proofs**, for every number of tasks and workers, every acyclic or
cyclic `Deps`, every bound, with and without the timing assumptions:
`TypeCorrect`, `Soundness` (`[]Sound`), `DependenciesRespected`
(`[]DependenciesRan`), `DoneIsTrue` (`[]DoneHasRun`), `ImplementsContract`
(`Spec => ContractSpec`). `DependenciesRan` is not inductive: that a worker's
inbox is in order follows from the frame that published, which follows from the
filter that let the entry pass, which trusted `DONE`, which trusted an event,
which a worker sent. `Sound` states the whole chain as types that carry their
evidence: a `succeeded` frame or event is of a task in `ran`, a `publish` or
`plans` frame of tasks whose dependencies are in `ran`. As `ran` only grows,
evidence never expires, and each action is shown to pass it on. `IInv` is `Sound`
and the type invariant, split into the groups of variables that an action leaves
alone. `ImplementsContract` maps each action to `Give`, `Run`, `TakeBack` or a
stutter.

**DispatchPlaces_proofs**, on top of it: `PendingIsKept` (`[]PendingNotLost`,
whatever fails, stops or is killed: a pending task is pooled, or a frame will
dispatch it or put it back, or a failing call of the pool has dropped it) and
`TimerIsArmed` (`[]TimerGuardsPool`, under `PromptCancel` and without failing pool
calls). A section that takes a task out of the pool leaves it to frames
below it on the same stack, or to frames it pushes. `Order` says which frames can
lie above which, so that what an exception unwinds is known; `Kept`, that a pending
task is pooled, dropped or owed by some frame;
`Guarded`, that a pool with tasks has an armed timer or a frame that will arm
one. Each section is shown to hand on what it owes.

**DispatchOnce_proofs**: `OneAttemptAtATime` (`[]AtMostOneAttempt`, if no Redis call
around a publication raises and no worker announces its end; pool calls may
fail). `Alone`: a task is at most once in each of pool, frames, events and copies,
and in at most one of them; `NobodyLeaves`: no frame reschedules a worker's tasks.

**DispatchFinal_proofs**, without any assumption: `NothingIsRepeated`
(`[]NotRepeated`). The property itself ends with the first POST that times out,
publication that raises or worker that announces its end, since each of these makes
the code hand out a finished task again (section 5). `Finished`: what is left of a
task that has run is its worker's report, waiting, on its way or being handled as
a success, and no other; `Over`: of a dead letter nothing is left. Neither says what
the status is: a commit that comes late writes `DISPATCHED` into the record of a
finished task, and what prevents its repetition is that nothing which could put
it into the pool is left. Crashes, restarts and failing pool calls are included.

**ShardAggregation_proofs**, for every number of shards, workers, retries and
failures, with and without `HttpResults` and `PromptEnroll`: `TypeCorrect`,
`AggregatesTheFanout`, `SoundGathering`, `ImplementsGathering`
(`Spec => GatheringSpec`). That the aggregate is written once needs to know who
else could write it: `GatheringSound` says that before the enrolment the tables
hold nothing for the parent, that an entry names exactly what was created, that
in the `write` and `finalize` sections the results are exactly the children, and
that after a write the entry exists only until the writing thread has removed it,
for good, as nothing enrolls twice, or stays flagged for ever if that thread has
raised. Its other half, `Evidence`, carries the
executions. Under `PromptEnroll`: `NoResultDropped` (`[]CompleteIsAggregated`) from
`BeforeEnrolment` and `Collected` (an accepted result is in the table, and the last
one starts the aggregation), and `NoShardForgotten` (`[]ShardNotForgotten`) from
`Followed` (a shard that is not settled is pooled, worked on, reported or in a
thread's hands). If no worker announces its end: `DoneParentRan`
(`[]DoneShardsRan`). The listener counts events and not shards; `Census` says that
a shard is in one place, so that its success is counted once, and that the count
is at most the number of shards that have run and are nowhere any more.

**MergeBatch_proofs**, for any number and sizes of tasks: `TypeCorrect`;
`ItemsInferredOnce` (`[]ItemsOutOnce`), also without `PromptIngest`. The inductive
`MergeIInv` says that a task is in at most one place (the pool, the plan, an attempt, a
failed event, the retry at hand), that what is scanned is planned, and that two
tasks in play have no item in common; a merge takes its second task out of play,
and a task only comes back with the items that no other has. `OwnItemsStored`
(`[]OwnItemsFirst`), also without `PromptIngest`: slices are registered anew while
an older result may be on its way, so `CutInv` says of every result, wherever it
is, that the slices registered now cut each child's own items out of it or none.
`DoneTasksHaveResults` (`[]DoneHasResult`) under `PromptIngest`: `FreshInv` says that a
POST on its way is of the current attempt and its spec.

**Services_proofs**, in six parts.

* *WorkerPresence.* `WholeWorkersListed` without assumption; `PresenceAgrees`
  (`[]PresenceInv`) under `PromptListener`. `AgreeIInv`
  reads the channel: the last event about a worker that is still on its way says
  whether it is a member (`RedisAgrees`); over a WebSocket only the echo of an
  `UNREGISTER` may be on its way, of a worker that is no member (`SocketAgrees`,
  `Echo`); frames begin with `REGISTER` and an `UNREGISTER` is of a process that is
  leaving or over (`OneLife`, `Farewell`).
* *StateSnapshot.* `SnapshotsSound` (`[]SnapInv`) and `PersistedIsFinal` (a job that a
  snapshot records as `DONE` is not handed out again, unless a second copy of it
  failed when it was `DONE`), for every submission, any
  dependencies, any number of crashes and failures, under `JoinInTime`. `SnapIInv`: a cut of
  the tables is justified in memory (`Live`), stays so while a writer carries it
  (`Flushing`) and when it is on disk (`OnDisk`), because the facts a snapshot states
  are stable until a restart, which goes back to one of them.
* *MetricsLedger.* `LedgerAddsUp` (`[]LedgerInv`), for any number of tasks and shards,
  with and without posted results, under `PromptRecord` and `PromptReports`. That a
  task is sampled once needs `OneEnd` and `EndAtHand`: from the sending of an end to
  the end of its handling the task is `reported`, and no second end is on its way.
  `ShardsMapped`: a shard that is mapped is unknown to the ledger, and the others,
  whose reports are recorded as a task's, have a parent with all results.
  `NothingBefore`: nothing has happened to a task whose
  submission is not recorded. `Accounted` is `FailuresAccounted` with the failure
  at hand.
* *BatchPlanning.* `PlannerDecidesWell` (`[]PlanInv`) and `ReserveIsKept`
  (`ReserveKept`), for any tasks, requirements, fleet and limits, without a timing
  assumption. `OnePlace` (a planned task is pending, not in the pool and in one
  plan) makes the counts inductive: `CountsIInv` says that they are the pool's
  until a late success and cover it ever after, from which `retain` is true exactly
  when work for the model is left. `ReserveIsKept` is counting: `FewAreBest`, at
  most `k` workers have fewer than `k` better ones, and `ShardsLeaveRoom`, the
  target of `choose_strategy` and the tasks never dispatched fit into the pool.
  Both rest on `RankFacts`, `RankTaken` and `FewAreFirst`, which hold of any strict
  order of a finite set.
* *ShardRows.* `RowsAreWhole` (`[]RowsInv`), for a data set of any size, any numbers
  of workers, percentages and delivery attempts. `Edge` is where the work of the
  shards up to one ends; `WorkSpan`: what a shard works on are consecutive rows
  between its two edges, all of them where the split is left alone. That rests on
  arithmetic stated once (`PartIs`, `EvenSteps`, `BoundaryGrows`). `ItemsBetween` and
  `ItemsWhole` then say of the loop over the shards what its next turn needs: the
  items so far are in order up to the last merged shard's edge.
* *WorkflowGraph.* `GraphIsOrdered` (`[]GraphInv`), for documents of any number of
  nodes, with any names and needs, and any number of failed runs. `Passes` is the
  loop's invariant: what is placed is an order of the nodes that are not
  unresolved (`Ordered`), and as long as a pass has placed nothing, those it has
  looked at wait. So a pass that ends without progress leaves a circle
  (`StuckIsCircle`), and an order has none, as the first node of a circle to be
  placed needs an earlier one (`OrderHasNoCircle`). `DoneIsStored` and `GivenHasNeeds`:
  a result that was stored stays, also when its task fails later, so what was given
  out keeps what it needs. `NoCircularWait` takes the least task that waits.

**Workers_proofs**, in five parts, all without assumptions.

* *WorkerEngines.* `EngineCorrect` (`[]EngineInv`), for any number of tasks, models and
  adapters. `Loaded` and `InStep` say that `_model_name` names the weights of an
  engine that is there, `Nameless` that an engine without a name is of a
  transformers load that raised in an earlier task (`FailedBefore`, `Ahead`), and
  `Prepared` that prompts are the task's own from `prepare_data` on.
* *TrainingRun.* `TrainingCorrect` (`[]TrainingInv`), for any number of ranks and every
  configuration. `Scheduled` says which processes can be where (ranks only between
  launch and return, the parent before and after), from which follow
  `ModelSaved`, `ArchivePacked` and `ResultTrue`, what each process's place and
  payload claim about the files.
* *AgentStream.* `AgentCorrect` (`[]AgentInv`), for any number of prompts and subtasks.
  `InTurn` relates the reader's place to the loops: those before the item have
  ended and are answered, or their answer could not be written; those after it have
  not begun.
* *WorkforcePlan.* `PlanWorkedOff` (`[]WorkforceInv`), for plans of any length and any
  number of updates. An update cuts the plan at the `task_id` of the subtask at
  hand; that this neither repeats nor skips one needs that ids lag behind
  positions and never lead (`NumbersLag`), that what has not begun was not
  executed (`NotBegun`), and, for the bound on objects, `CreatedFits`.
* *WsConnections.* `ConnectionsAgree` (`[]WsInv`), for any number of connections, cuts
  and tasks, and without `PromptClose`. `WsShape`: connections are numbered in
  order, a handler has a link, the table's connection has a handler. `WsOnce`:
  tasks are sent in order and once, and a task's trail (waiting, on the wire, at
  work, reported) has one end. `WsSteady`: while no link was cut there is at most
  one connection, and nothing is lost on it.

The inductive invariants were checked with TLC on the runs' instances before
they were proved (`Sound` is a run's invariant, the others are in the proof modules).

Only model-checked: liveness (`EventuallySettled`, `ParentSettles`,
`PersistedSettles`, `EventuallyAttached`, `EndsOrStarves`), which needs fairness
and `ENABLED` and is out of the prover's reach. Induction over data is too; the
proofs need none, because loops of the code are steps of the models (the passes of
the parser, the merging of a shard's rows) and the invariant says what a
recursive definition would have computed.

## 5. Known behaviour that has no run

Reading the code and exploring the models with other constants shows what
follows. A definition in brackets is a formula of the module that TLC reports as
violated, as the cfg stands or with the constants named.

*Dispatch.*

* A Redis call of the pool that fails loses a `PENDING` task: `add` and `requeue`
  swallow the error (`task_store.py:165`, `182`), and one that is raised after an
  entry was popped is only logged (`dispatch.py:208`, `task_store.py:515`). Nothing
  looks for such tasks; `PendingNotLost` lists them as `dropped`. The exception also
  skips the arming of the flush timer at the end of `_dispatch_batch`, so what
  stays in the pool waits for the next event (`MaxPoolFaults = 1` in
  `DispatchLiveness.cfg` breaks `TimerGuardsPool` and `EventuallySettled`).
* A preempted `_ensure_flush_timer` or `clear_task` cancels another thread's timer
  and leaves the pool without a wake-up (`task_store.py:955`; `PromptCancel = FALSE`
  in `DispatchLiveness.cfg` breaks `TimerGuardsPool`).
* A task that finishes between `_reschedule_tasks_for_worker`'s selection and its
  turn goes from `DONE` back to `PENDING` (`MaxShutdowns = 1` in `Dispatch.cfg`
  breaks `DoneIsFinal`).
* A task whose worker's `UNREGISTER` is handled between publication and commit is
  `DISPATCHED` to nobody (`MaxShutdowns = 1` and `PromptCommit = FALSE` break
  `DispatchedIsLive`); so are the tasks of a killed worker (`MaxCrashes = 1`), since
  no code looks for expired heartbeats (`cleanup_stale_workers` has no caller).
* A Redis call that raises after the publication makes the dispatcher hand out
  the task again, and so does a stopped worker that comes back and finishes what
  was given to another (`MaxFaults = 1`, or `MaxShutdowns = 1` and `MaxJoins = 1`, in
  `DispatchHttp.cfg` break `AtMostOneAttempt`). Either, and a report that
  overtakes its commit or a POST that is answered too late, can also revive a task
  that is `DONE` (`MaxFaults = 1`, `PromptCommit = FALSE` or `MaxTimeouts = 1` in
  `Dispatch.cfg` break `DoneIsFinal`).
* A dead letter need not have failed `max_retries + 1` times: `requeue_task`
  (`dispatch.py:164`) counts deferrals as retries, and a failure twice.
* With batches of one, the earliest entry is popped again and again while it
  cannot run, and a later one waits as long as that lasts. With larger batches,
  tasks without an SLO that are too few for a batch wait as long as no worker
  reports (`BatchSize = 2` in `DispatchLiveness.cfg` breaks `EventuallySettled`).
* Two planning threads may choose the same idle worker; the second task waits in
  its subscription.

*Shards.*

* An exception while the aggregate is built, written or listed in the manifest
  leaves the `aggregating` flag set (`aggregation.py:94-122`): the shards' later
  results are accepted and dropped, and the parent is never gathered
  (`CompleteIsAggregated` names this case; `MaxBadWrites`).
* A result that overtakes the enrolment is dropped and the aggregate is never
  written (`aggregation.py:58`; `PromptEnroll = FALSE` breaks `CompleteIsAggregated`).
* Without an `orchestrator_url` a sharded parent becomes `DONE` from events alone
  and is never aggregated; a shard that is rescheduled after it succeeded is
  counted twice (`MaxShutdowns = 1` in `ShardFiles.cfg` breaks `DoneShardsRan`).
* The retry of one shard sets the parent `WAITING` after another has made it
  `FAILED` (`main.py:661`); a failing shard that aggregation has unmapped has no
  parsed spec and is not retried (`main.py:683`); a retried shard still has
  `parallel` in its spec (`dispatch.py:204`).
* A shard that found no subscriber is skipped and nothing tells the aggregator
  (`dispatch.py:446`, `SkippedIsNoticed`). A list of items is given whole to every
  shard (`ListAnsweredOnce`).

*Merges.*

* A parent that is merged a second time cuts for itself all items it then
  combines, its earlier children's included: its own come first
  (`OwnItemsFirst`), but it stores more than them; its items repeat `"index"`.
* A POST of an earlier attempt that arrives after its task was merged differently
  gives a child an empty result (`PromptIngest = FALSE` breaks `DoneHasResult`).

*Planning.*

* The reserve counts tasks that were never dispatched, so retried ones have none
  (`ReserveForAll`); `choose_strategy`'s `min_meaningful` changes nothing.
* A late success leaves a model's counter too high (`CountsMatchPool`); timed tasks
  that wait for untimed ones can fill every batch (`BatchCanGo` with `PoolBatch = 1`,
  `task_store.py:282`); a preferred worker is ignored while idle ones are
  plentiful (`PreferenceHonoured` for tasks of one model without dependencies,
  `dispatch.py:211`).

*Snapshots.*

* After a restart two copies of a task may be out. If the second fails when the
  first has made the task `DONE`, `TASK_FAILED` overwrites the status and the task
  runs again, also if a snapshot had it as `DONE` (`main.py:620-702`;
  `PersistedNotRepeated` names this case, `undone`). If the copy is a shard of the
  earlier fan-out, its restored parent, which is pooled, becomes `WAITING`, and the
  pool drops it: it stays so (`PersistedSettles` names this case).
* A sharded parent that is restored may be `DONE` from the shards of two fan-outs
  although a part of its data never ran (`RestoredParentIsWhole`), and after a
  restart a copy handed out before can end a job whose restored dependencies are
  not `DONE`. A writer that outlives `stop` shares its temporary file with
  the final flush (`JoinInTime = FALSE` breaks `SnapInv`). An event lost while the orchestrator starts leaves its job out for
  ever (`PromptListen = FALSE` breaks `PersistedSettles`).

*Metrics and presence.*

* With posted results, the last shard's success counts as a task's
  (`OnlyPrimariesCounted`, `main.py:565`). If its POST was stored and timed out at
  the worker (`runner.py:111`), its failure does, and with retries left nothing
  answers it: no retry, no dead letter (`AllFailuresAnswered`, `main.py:682`). `PromptRecord = FALSE` breaks
  `SettledIsFinal` and `AttemptsAgree`; `PromptReports = FALSE` breaks
  `SamplesMatchCompleted`, `FailuresAccounted` and `SettledIsFinal`.
* A worker that is back keeps the end of its first life, and its cost stands
  still (`ActiveAccrues`, `metrics.py:495`). An `UNREGISTER` that is handled when its
  worker has started again gives the tasks of the new process to others
  (`OnlyGoneRescheduled` with `PromptListener = FALSE`, `main.py:926`).

*Documents.*

* A name that is no node is taken for a task id and waits for ever
  (`UnknownNameRejected`, `parser.py:203`); so do stages that name themselves or
  later ones. Shards and merged secondary tasks are rendered with another
  context (`EveryPlaceholderFilled`, `dispatch.py:415`); an escaped `$${...}` is
  rendered all the same (`parser.py:381`).

*WebSocket, agents, executors.*

* The handler of an old connection removes an intact new one
  (`IntactConnectionKept`, three connections); `EventuallyAttached` says that this ends.
* An orchestra loop that fails while the reader waits leaves it waiting: the
  timeouts begin after the stream (`RunEnds`). An update of the workforce's plan
  drops the subtask that was just finished (`FinishedSubtaskKept`, `data.py:66`).
* A prompt whose loop is done is reported as failed if its output file cannot be
  written, in a document that is `ok` (`DoneIsAnswered`, `agent_executor.py:507-528`).
* A transformers load that raises in `.to(device)` keeps the model and no name: the
  next task runs on it and answers with `"model": null`
  (`transformers_executor.py:157-171`; `ReportedModelIsLoaded` names this case).
* `runner.py:226` calls `executor.cleanup()`, which worker executors do not have;
  `cleanup_after_run` (`base_executor.py:71`) is not called, and the next task runs
  on the model of the first (`RightModel`).
* Every rank packs, replaces and uploads the same archive (`UploadedWhole`,
  `sft_executor.py:278`).
* `worker/main.py` only makes the executors `default` and `echo`; which others a
  deployment registers is its own choice. Nothing calls `BaseExecutor.prepare` of
  the SDK, and each reconnection starts another heartbeat thread (`mloc_sdk/worker.py:240`).

## 6. Not modelled

* **Results and manifests** (`results.py`, `manifest_utils.py`): one file per task,
  written and read back. That results are stored before a dependent task is
  rendered is in WorkflowGraph, that they are stored before `DONE` in MergeBatch;
  the rest is file output and directory listing.
* **Worker environment** (`config.py`, `hw.py`, `power.py`, `healthcheck.py`): pure
  I/O.
* Of the **metrics**, averages, percentiles, costs and report files; of the
  **parser**, the validation of single fields and YAML; of the **API**, read-only and
  file routes; of the **scheduler**, the weights; of the **WebSocket**, pings and
  statistics; of the **SDK**, executors' hooks and decorators.
* **Executors** call vLLM, transformers and TRL, which are external; RAG, diffusers
  and echo have no control beyond `run`. Of the **agent framework** (third-party
  `utu` code for the most part), tools, prompts, tracing and evaluation.

What would come next: a composition of StateSnapshot with the threads of
TaskDispatch.
