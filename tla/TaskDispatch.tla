---------------------------- MODULE TaskDispatch ----------------------------
(***************************************************************************)
(* The single-worker dispatch path of the orchestrator: the task pool      *)
(* (orchestrator/task_store.py), the dispatcher (orchestrator/dispatch.py),*)
(* the event handlers (orchestrator/main.py) and the worker's loop         *)
(* (worker/runner.py, worker/lifecycle.py) over the Redis transport.       *)
(*                                                                         *)
(* The orchestrator is one process with several threads: the API's event   *)
(* loop, the tasks.events listener, the workers.events listener and one    *)
(* thread per expired flush timer.  They share the records under TASKS_LOCK*)
(* and the pool under its own lock, but a handler takes and drops these    *)
(* locks many times: stack[th] holds what thread th has still to do, one   *)
(* frame per section that the locks (or one Redis call) make atomic.       *)
(***************************************************************************)
EXTENDS Integers, Sequences, FiniteSets

CONSTANTS
    Workers,        \* worker identifiers
    NoWorker,       \* None, where a worker identifier may stand
    NTasks,         \* tasks are numbered in submission order
    Deps,           \* Deps[t]: the tasks that t depends on
    BatchSize,      \* TASK_POOL_BATCH_SIZE
    MaxRetries,     \* TaskRecord.max_retries
    HttpResults,    \* do workers POST their result before they report success?
    PromptCommit,   \* is dispatch's bookkeeping faster than any execution?
    PromptCancel,   \* is no thread preempted between finding the pool empty
                    \* and cancelling the flush timer?
    Timers,         \* bound: flush timers that can be pending at a time
    CallDepth,      \* bound: no backoff expires inside a deeper chain of calls
    MaxFaults,      \* bound: Redis calls that raise around a publication
    MaxPoolFaults,  \* bound: Redis calls that raise with pool entries in hand
    MaxShutdowns,   \* bound: workers stopped by an interrupt
    MaxCrashes,     \* bound: workers killed
    MaxJoins,       \* bound: workers started again
    MaxTimeouts     \* bound: result POSTs whose answer comes too late

Tasks == 1..NTasks

ASSUME ConstantsAssumption ==
    /\ NTasks \in Nat \ {0}
    /\ NoWorker \notin Workers
    /\ Deps \in [Tasks -> SUBSET Tasks]
    /\ BatchSize \in Nat \ {0}
    /\ MaxRetries \in Nat
    /\ HttpResults \in BOOLEAN
    /\ PromptCommit \in BOOLEAN
    /\ PromptCancel \in BOOLEAN
    /\ Timers # {}
    /\ Timers \cap {"api", "tasks", "workers"} = {}
    /\ CallDepth \in Nat
    /\ {MaxFaults, MaxPoolFaults, MaxShutdowns, MaxCrashes, MaxJoins, MaxTimeouts} \subseteq Nat

NoTimer == "none"
Threads == {"api", "tasks", "workers"} \cup Timers

VARIABLES
    (* TaskRecord, one per task; "NEW" before the record exists *)
    status, retries, assigned,
    backoff,        \* next_retry_at lies in the future
    deadLetters,    \* TaskStore._dead_letters
    (* TaskPool and TaskPoolManager *)
    pool,           \* the Redis set of entries with their metadata
    armed,          \* timer threads that are waiting
    flushTimer,     \* TaskPoolManager._flush_timer
    (* threads, and the channels that feed the two listeners *)
    stack, taskEvents, workerEvents, posts,
    (* Redis' view of the workers *)
    registered,     \* in workers:ids, with a heartbeat that has not expired
    redisStatus,
    (* the worker processes *)
    up, inbox, current, phase,
    (* history: tasks an executor has finished, the use of the bounds, and  *)
    (* tasks whose entry, or submission, a failing call has dropped         *)
    ran, spent, dropped

records == <<status, retries, assigned, backoff, deadLetters>>
pooling == <<pool, armed, flushTimer>>
channels == <<taskEvents, workerEvents, posts>>
fleet == <<registered, redisStatus>>
processes == <<up, inbox, current, phase>>
vars == <<records, pooling, stack, channels, fleet, processes, ran, spent, dropped>>

Entry == [task : Tasks, worker : Workers \cup {NoWorker}]
TaskFrame == [op : {"add", "publish", "markRunning", "commit", "requeue",
                    "clear", "succeeded", "failed"},
              task : Tasks, worker : Workers \cup {NoWorker}]
BatchFrame == [op : {"batch", "defer", "plans", "lost"}, entries : SUBSET Entry]
PoolFrame == [op : {"flushDue", "flushAll", "ensureTimer", "cancelTimer", "endBatch"}]

Do(op) == <<[op |-> op]>>
DoTask(op, t, w) == <<[op |-> op, task |-> t, worker |-> w]>>
DoBatch(op, es) == IF es = {} THEN <<>> ELSE <<[op |-> op, entries |-> es]>>

Idle(th) == stack[th] = <<>>
Top(th) == Head(stack[th])
At(th, op) == ~Idle(th) /\ Top(th).op = op
(* The top frame of th has run; frames is the work it leaves in its place. *)
Continue(th, frames) == stack' = [stack EXCEPT ![th] = frames \o Tail(@)]
Call(th, frames) == Idle(th) /\ stack' = [stack EXCEPT ![th] = frames]

(* One of the sets that share a worker's or task's identity. *)
TasksOf(es) == {e.task : e \in es}
FrameTasks(f) == IF f \in TaskFrame THEN {f.task}
                 ELSE IF f \in BatchFrame THEN TasksOf(f.entries) ELSE {}
Spend(what, bound) == spent[what] < bound /\ spent' = [spent EXCEPT ![what] = @ + 1]

(* retries is compared with max_retries only: it saturates one above it. *)
UnboundedRetry(n) == n + 1  \* a mutant of OneMoreRetry
OneMoreRetry(n) == IF n > MaxRetries THEN n ELSE n + 1

-----------------------------------------------------------------------------
(* TaskPool. Tasks carry no SLO here, so _take_n_locked ranks by submission. *)

Put(p, es) == {e \in p : e.task \notin TasksOf(es)} \cup es

Earliest(p, n) == {e \in p : Cardinality({f \in p : f.task < e.task}) < n}

DueBatch(p) == IF Cardinality(p) >= BatchSize THEN Earliest(p, BatchSize) ELSE {}

(* TaskPoolManager.enqueue *)
AddToPool(th) ==
    /\ At(th, "add")
    /\ LET all == Put(pool, {[task |-> Top(th).task, worker |-> Top(th).worker]})
       IN  /\ pool' = all \ DueBatch(all)
           /\ Continue(th, DoBatch("batch", DueBatch(all)) \o Do("ensureTimer"))
    /\ dropped' = dropped \ {Top(th).task}
    /\ UNCHANGED <<records, armed, flushTimer, channels, fleet, processes, ran, spent>>

(* TaskPool.add when Redis raises: the error is swallowed, the entry is not *)
(* stored (an id without metadata is an entry nobody reads), and the scan   *)
(* goes on.                                                                 *)
AddFails(th) ==
    /\ At(th, "add")
    /\ Spend("poolFaults", MaxPoolFaults)
    /\ pool' = pool \ DueBatch(pool)
    /\ Continue(th, DoBatch("batch", DueBatch(pool)) \o Do("ensureTimer"))
    /\ dropped' = dropped \cup ({Top(th).task} \ TasksOf(pool))
    /\ UNCHANGED <<records, armed, flushTimer, channels, fleet, processes, ran>>

(* Mutant of FlushDue: the reference to the expired timer is kept.        *)
FlushDueKeepingTimer(th) ==
    /\ At(th, "flushDue")
    /\ pool' = pool \ DueBatch(pool)
    /\ Continue(th, IF DueBatch(pool) = {} THEN Do("ensureTimer")
                    ELSE DoBatch("batch", DueBatch(pool)))
    /\ UNCHANGED <<records, armed, flushTimer, channels, fleet, processes, ran, spent, dropped>>

FlushDue(th) ==
    /\ At(th, "flushDue")
    /\ flushTimer' = NoTimer
    /\ pool' = pool \ DueBatch(pool)
    /\ Continue(th, IF DueBatch(pool) = {} THEN Do("ensureTimer")
                    ELSE DoBatch("batch", DueBatch(pool)))
    /\ UNCHANGED <<records, armed, channels, fleet, processes, ran, spent, dropped>>

FlushAll(th) ==
    /\ At(th, "flushAll")
    /\ flushTimer' = NoTimer
    /\ pool' = {}
    /\ Continue(th, DoBatch("batch", pool) \o Do("ensureTimer"))
    /\ UNCHANGED <<records, armed, channels, fleet, processes, ran, spent, dropped>>

ClearFromPool(th) ==
    /\ At(th, "clear")
    /\ pool' = {e \in pool : e.task # Top(th).task}
    /\ Continue(th, IF pool' = {} THEN Do("cancelTimer") ELSE <<>>)
    /\ UNCHANGED <<records, armed, flushTimer, channels, fleet, processes, ran, spent, dropped>>

(* _cancel_flush_timer, under _flush_lock.                                 *)
Cancel ==
    /\ armed' = armed \ {flushTimer}
    /\ flushTimer' = NoTimer

(* _ensure_flush_timer looks at the pool, then takes _flush_lock to arm a   *)
(* timer or to cancel it. When every timer is pending, a new one coincides  *)
(* with one of them.                                                        *)
EnsureTimer(th) ==
    /\ At(th, "ensureTimer") \/ At(th, "endBatch")
    /\ \/ /\ pool = {}
          /\ IF PromptCancel
               THEN Cancel /\ Continue(th, <<>>)
               ELSE Continue(th, Do("cancelTimer")) /\ UNCHANGED <<armed, flushTimer>>
       \/ /\ pool # {}
          /\ Continue(th, <<>>)
          /\ IF flushTimer # NoTimer
               THEN UNCHANGED <<armed, flushTimer>>
               ELSE \E tm \in IF armed = Timers THEN Timers ELSE Timers \ armed :
                        armed' = armed \cup {tm} /\ flushTimer' = tm
    /\ UNCHANGED <<records, pool, channels, fleet, processes, ran, spent, dropped>>

CancelTimer(th) ==
    /\ At(th, "cancelTimer")
    /\ Cancel
    /\ Continue(th, <<>>)
    /\ UNCHANGED <<records, pool, channels, fleet, processes, ran, spent, dropped>>

TimerExpires(tm) ==
    /\ tm \in armed
    /\ armed' = armed \ {tm}
    /\ Call(tm, Do("flushDue"))
    /\ UNCHANGED <<records, pool, flushTimer, channels, fleet, processes, ran, spent, dropped>>

-----------------------------------------------------------------------------
(* TaskPoolManager._dispatch_batch: filter, put back, dispatch. *)

(* Mutant of DependencySatisfied: a failed dependency counts as finished. *)
DependencyFinished(t) == \A d \in Deps[t] : status[d] \in {"DONE", "FAILED"}

DependencySatisfied(t) == \A d \in Deps[t] : status[d] = "DONE"
Ready(t) == DependencySatisfied(t) /\ ~backoff[t] /\ status[t] = "PENDING"

(* Mutant of FilterBatch: ready entries are put back as well.             *)
FilterBatchKeepingReady(th) ==
    /\ At(th, "batch")
    /\ LET ready == {e \in Top(th).entries : Ready(e.task)}
       IN  Continue(th, DoBatch("defer", Top(th).entries)
                          \o DoBatch("plans", ready) \o Do("endBatch"))
    /\ UNCHANGED <<records, pooling, channels, fleet, processes, ran, spent, dropped>>

FilterBatch(th) ==
    /\ At(th, "batch")
    /\ LET ready == {e \in Top(th).entries : Ready(e.task)}
       IN  Continue(th, DoBatch("defer", Top(th).entries \ ready)
                          \o DoBatch("plans", ready) \o Do("endBatch"))
    /\ UNCHANGED <<records, pooling, channels, fleet, processes, ran, spent, dropped>>

(* Mutant of PutBackDeferred: deferred entries are dropped.               *)
DropDeferred(th) ==
    /\ At(th, "defer")
    /\ Continue(th, <<>>)
    /\ UNCHANGED <<records, pooling, channels, fleet, processes, ran, spent, dropped>>

PutBackDeferred(th) ==
    /\ At(th, "defer")
    /\ pool' = Put(pool, Top(th).entries)
    /\ Continue(th, <<>>)
    /\ dropped' = dropped \ TasksOf(Top(th).entries)
    /\ UNCHANGED <<records, armed, flushTimer, channels, fleet, processes, ran, spent>>

(* TaskPool.requeue when Redis raises at one of the entries: swallowed; the *)
(* entries from there on are not put back.                                  *)
PutBackFails(th) ==
    /\ At(th, "defer")
    /\ Spend("poolFaults", MaxPoolFaults)
    /\ \E n \in 0..Cardinality(Top(th).entries) - 1 :
         LET stored == Earliest(Top(th).entries, n)
         IN  /\ pool' = Put(pool, stored)
             /\ dropped' = (dropped \cup TasksOf(Top(th).entries)) \ TasksOf(pool')
    /\ Continue(th, <<>>)
    /\ UNCHANGED <<records, armed, flushTimer, channels, fleet, processes, ran>>

(* An exception ends the calls of a stack down to a loop over plans, which  *)
(* logs it and goes on, or all of them: what is left begins at n.           *)
Catches(f) == f.op \in {"plans", "endBatch"}
CaughtAt(s, n) == /\ \A i \in 1..n - 1 : ~Catches(s[i])
                  /\ n <= Len(s) => Catches(s[n])

(* _optimize_batch reads the workers from Redis, in no try: when that       *)
(* raises, the ready entries are in nobody's hands. The exception ends the  *)
(* submission that scanned, so that none of its further tasks is recorded,  *)
(* or the subscription to workers.events with what it had not yet read.     *)
(* (Where it passes the try around a publication that found nobody, that    *)
(* task is requeued once more; this is left out.)                           *)
PlanningFails(th) ==
    /\ At(th, "batch")
    /\ Spend("poolFaults", MaxPoolFaults)
    /\ \E n \in 1..Len(stack[th]) :
         LET ready == {e \in Top(th).entries : Ready(e.task)}
             calls == Tail(stack[th])
             caught == SubSeq(calls, n, Len(calls))
             ends(u) == th = u /\ caught = <<>>
         IN  /\ ready # {}
             /\ CaughtAt(calls, n)
             /\ stack' = [stack EXCEPT ![th] = DoBatch("defer", Top(th).entries \ ready)
                                                  \o caught]
             /\ dropped' = dropped \cup TasksOf(ready)
                   \cup (UNION {FrameTasks(calls[i]) : i \in 1..n - 1})
                   \cup IF ends("api") THEN {t \in Tasks : status[t] = "NEW"} ELSE {}
             /\ workerEvents' = IF ends("workers") THEN <<>> ELSE workerEvents
    /\ UNCHANGED <<records, pooling, taskEvents, posts, fleet, processes, ran>>

(* DispatchManager.try_dispatch_one, up to the choice of a worker. *)
IdleWorkers == {w \in registered : redisStatus[w] = "IDLE"}

PlanNext(th) ==
    /\ At(th, "plans")
    /\ \E e \in Earliest(Top(th).entries, 1) :
         LET rest == DoBatch("plans", Top(th).entries \ {e})
             candidates == IdleWorkers \ {e.worker}
         IN  \/ status[e.task] = "DISPATCHED" /\ Continue(th, rest)
             \/ /\ status[e.task] # "DISPATCHED"
                /\ candidates = {}
                /\ Continue(th, DoTask("requeue", e.task, e.worker) \o rest)
             \/ /\ status[e.task] # "DISPATCHED"
                /\ \E w \in candidates :
                       Continue(th, DoTask("publish", e.task, w) \o rest)
    /\ UNCHANGED <<records, pooling, channels, fleet, processes, ran, spent, dropped>>

(* try_dispatch_one asks Redis again before its own try: when that raises,  *)
(* the loop over plans logs it and goes on, and the entry is gone.          *)
LookupFails(th) ==
    /\ At(th, "plans")
    /\ Spend("poolFaults", MaxPoolFaults)
    /\ \E e \in Earliest(Top(th).entries, 1) :
         /\ status[e.task] # "DISPATCHED"
         /\ Continue(th, DoBatch("plans", Top(th).entries \ {e}))
         /\ dropped' = dropped \cup {e.task}
    /\ UNCHANGED <<records, pooling, channels, fleet, processes, ran>>

(* redis.publish reaches every subscriber; only the assigned one keeps it. *)
Publish(th) ==
    /\ At(th, "publish")
    /\ LET t == Top(th).task
           w == Top(th).worker
       IN  IF up = {}
             THEN Continue(th, DoTask("requeue", t, w)) /\ UNCHANGED inbox
             ELSE /\ Continue(th, DoTask("markRunning", t, w))
                  /\ inbox' = IF w \in up THEN [inbox EXCEPT ![w] = Append(@, t)]
                                          ELSE inbox
    /\ UNCHANGED <<records, pooling, channels, fleet, up, current, phase, ran, spent, dropped>>

MarkWorkerRunning(th) ==
    /\ At(th, "markRunning")
    /\ redisStatus' = [redisStatus EXCEPT ![Top(th).worker] = "RUNNING"]
    /\ Continue(th, DoTask("commit", Top(th).task, Top(th).worker))
    /\ UNCHANGED <<records, pooling, channels, registered, processes, ran, spent, dropped>>

(* Mutant of CommitDispatch: the worker is not recorded.                  *)
CommitDispatchUnassigned(th) ==
    /\ At(th, "commit")
    /\ status' = [status EXCEPT ![Top(th).task] = "DISPATCHED"]
    /\ backoff' = [backoff EXCEPT ![Top(th).task] = FALSE]
    /\ Continue(th, <<>>)
    /\ UNCHANGED <<retries, assigned, deadLetters, pooling, channels, fleet, processes,
                   ran, spent, dropped>>

CommitDispatch(th) ==
    /\ At(th, "commit")
    /\ status' = [status EXCEPT ![Top(th).task] = "DISPATCHED"]
    /\ assigned' = [assigned EXCEPT ![Top(th).task] = Top(th).worker]
    /\ backoff' = [backoff EXCEPT ![Top(th).task] = FALSE]
    /\ Continue(th, <<>>)
    /\ UNCHANGED <<retries, deadLetters, pooling, channels, fleet, processes, ran, spent, dropped>>

(* The except branch: a Redis call raises before or after the publication. *)
DispatchFault(th) ==
    /\ At(th, "publish") \/ At(th, "markRunning")
    /\ Spend("faults", MaxFaults)
    /\ Continue(th, DoTask("requeue", Top(th).task, Top(th).worker))
    /\ UNCHANGED <<records, pooling, channels, fleet, processes, ran, dropped>>

RequeueTask(th) ==
    /\ At(th, "requeue")
    /\ LET t == Top(th).task
       IN  /\ status' = [status EXCEPT ![t] = "PENDING"]
           /\ assigned' = [assigned EXCEPT ![t] = NoWorker]
           /\ retries' = [retries EXCEPT ![t] = OneMoreRetry(@)]
           /\ backoff' = [backoff EXCEPT ![t] = TRUE]
           /\ Continue(th, DoTask("add", t, Top(th).worker) \o Do("flushDue"))
    /\ UNCHANGED <<deadLetters, pooling, channels, fleet, processes, ran, spent, dropped>>

(* Time passes: next_retry_at of t is reached. *)
RetryDue(t) ==
    /\ backoff[t]
    /\ \A th \in Threads : Len(stack[th]) <= CallDepth
    /\ backoff' = [backoff EXCEPT ![t] = FALSE]
    /\ UNCHANGED <<status, retries, assigned, deadLetters, pooling, stack, channels,
                   fleet, processes, ran, spent, dropped>>

-----------------------------------------------------------------------------
(* The event handlers of main.py. *)

Submit(t) ==
    /\ status[t] = "NEW" /\ t \notin dropped
    /\ \A s \in Tasks : s < t => status[s] # "NEW"
    /\ status' = [status EXCEPT ![t] = "PENDING"]
    /\ Call("api", DoTask("add", t, NoWorker) \o Do("flushDue")
                     \o IF t = NTasks THEN Do("flushDue") ELSE <<>>)
    /\ UNCHANGED <<retries, assigned, backoff, deadLetters, pooling, channels, fleet,
                   processes, ran, spent, dropped>>

(* ingest_result runs on the API's event loop, between two of its requests. *)
IngestResult(e) ==
    /\ Idle("api")
    /\ e \in posts
    /\ posts' = posts \ {e}
    /\ status' = [status EXCEPT ![e.task] = "DONE"]
    /\ phase' = IF current[e.worker] = e.task /\ phase[e.worker] = "posting"
                  THEN [phase EXCEPT ![e.worker] = "answered"] ELSE phase
    /\ UNCHANGED <<retries, assigned, backoff, deadLetters, pooling, stack, taskEvents,
                   workerEvents, fleet, up, inbox, current, ran, spent, dropped>>

HandleTaskEvent ==
    /\ taskEvents # <<>>
    /\ taskEvents' = Tail(taskEvents)
    /\ LET ev == Head(taskEvents)
       IN  Call("tasks", DoTask("clear", ev.task, NoWorker)
                           \o DoTask(ev.type, ev.task, ev.worker))
    /\ UNCHANGED <<records, pooling, workerEvents, posts, fleet, processes, ran, spent, dropped>>

TaskSucceeded(th) ==
    /\ At(th, "succeeded")
    /\ status' = [status EXCEPT ![Top(th).task] = "DONE"]
    /\ redisStatus' = [redisStatus EXCEPT ![Top(th).worker] = "IDLE"]
    /\ Continue(th, Do("flushAll"))
    /\ UNCHANGED <<retries, assigned, backoff, deadLetters, pooling, channels, registered,
                   processes, ran, spent, dropped>>

RetriesLeft(t) == retries[t] < MaxRetries

(* Mutant of TaskFailed: the dead-letter branch requeues the task, too.   *)
TaskFailedFallingThrough(th) ==
    /\ At(th, "failed")
    /\ LET t == Top(th).task
       IN  /\ status' = [status EXCEPT ![t] = "FAILED"]
           /\ retries' = [retries EXCEPT ![t] = OneMoreRetry(@)]
           /\ deadLetters' = IF RetriesLeft(t) THEN deadLetters ELSE deadLetters \cup {t}
           /\ Continue(th, DoTask("requeue", t, Top(th).worker))
    /\ UNCHANGED <<assigned, backoff, pooling, channels, fleet, processes, ran, spent, dropped>>

TaskFailed(th) ==
    /\ At(th, "failed")
    /\ LET t == Top(th).task
       IN  /\ status' = [status EXCEPT ![t] = "FAILED"]
           /\ retries' = [retries EXCEPT ![t] = OneMoreRetry(@)]
           /\ IF RetriesLeft(t)
                THEN /\ Continue(th, DoTask("requeue", t, Top(th).worker))
                     /\ UNCHANGED <<backoff, deadLetters>>
                ELSE /\ Continue(th, Do("flushAll"))
                     /\ backoff' = [backoff EXCEPT ![t] = FALSE]
                     /\ deadLetters' = deadLetters \cup {t}
    /\ UNCHANGED <<assigned, pooling, channels, fleet, processes, ran, spent, dropped>>

(* _reschedule_tasks_for_worker: collect under the lock, requeue one by one. *)
HandleUnregister ==
    /\ workerEvents # <<>>
    /\ workerEvents' = Tail(workerEvents)
    /\ LET w == Head(workerEvents)
           lost == {t \in Tasks : status[t] = "DISPATCHED" /\ assigned[t] = w}
       IN  Call("workers", DoBatch("lost", {[task |-> t, worker |-> w] : t \in lost}))
    /\ UNCHANGED <<records, pooling, taskEvents, posts, fleet, processes, ran, spent, dropped>>

Reschedule(th) ==
    /\ At(th, "lost")
    /\ \E e \in Earliest(Top(th).entries, 1) :
         Continue(th, (IF assigned[e.task] = e.worker
                         THEN DoTask("requeue", e.task, e.worker) ELSE <<>>)
                        \o DoBatch("lost", Top(th).entries \ {e}))
    /\ UNCHANGED <<records, pooling, channels, fleet, processes, ran, spent, dropped>>

-----------------------------------------------------------------------------
(* The worker process: Runner._process_task_message and Lifecycle. *)

BeingCommitted(t) == \E th \in Threads : \E op \in {"markRunning", "commit"} :
                         At(th, op) /\ Top(th).task = t

Receive(w) ==
    /\ w \in up
    /\ current[w] = 0
    /\ inbox[w] # <<>>
    /\ PromptCommit => ~BeingCommitted(Head(inbox[w]))
    /\ inbox' = [inbox EXCEPT ![w] = Tail(@)]
    /\ current' = [current EXCEPT ![w] = Head(inbox[w])]
    /\ phase' = [phase EXCEPT ![w] = "running"]
    /\ redisStatus' = [redisStatus EXCEPT ![w] = "RUNNING"]
    /\ UNCHANGED <<records, pooling, stack, channels, registered, up, ran, spent, dropped>>

Report(w, type) ==
    /\ taskEvents' = Append(taskEvents, [type |-> type, task |-> current[w], worker |-> w])
    /\ phase' = [phase EXCEPT ![w] = "reported"]

(* Mutant of ExecutorRaises: the exception is swallowed.                  *)
ExecutorErrorSwallowed(w) ==
    /\ phase[w] = "running"
    /\ Report(w, "succeeded")
    /\ UNCHANGED <<records, pooling, stack, workerEvents, posts, fleet, up, inbox, current,
                   ran, spent, dropped>>

ExecutorRaises(w) ==
    /\ phase[w] = "running"
    /\ Report(w, "failed")
    /\ UNCHANGED <<records, pooling, stack, workerEvents, posts, fleet, up, inbox, current,
                   ran, spent, dropped>>

ExecutorReturns(w) ==
    /\ phase[w] = "running"
    /\ ran' = ran \cup {current[w]}
    /\ IF HttpResults
         THEN /\ posts' = posts \cup {[task |-> current[w], worker |-> w]}
              /\ phase' = [phase EXCEPT ![w] = "posting"]
              /\ UNCHANGED taskEvents
         ELSE Report(w, "succeeded") /\ UNCHANGED posts
    /\ UNCHANGED <<records, pooling, stack, workerEvents, fleet, up, inbox, current,
                   spent, dropped>>

ResultAccepted(w) ==
    /\ phase[w] = "answered"
    /\ Report(w, "succeeded")
    /\ UNCHANGED <<records, pooling, stack, workerEvents, posts, fleet, up, inbox, current,
                   ran, spent, dropped>>

(* The POST times out, whether or not the orchestrator gets to handle it. *)
ResultTimesOut(w) ==
    /\ phase[w] \in {"posting", "answered"}
    /\ Spend("timeouts", MaxTimeouts)
    /\ Report(w, "failed")
    /\ UNCHANGED <<records, pooling, stack, workerEvents, posts, fleet, up, inbox, current, ran, dropped>>

ReportIdle(w) ==
    /\ phase[w] = "reported"
    /\ phase' = [phase EXCEPT ![w] = "ready"]
    /\ current' = [current EXCEPT ![w] = 0]
    /\ redisStatus' = [redisStatus EXCEPT ![w] = "IDLE"]
    /\ UNCHANGED <<records, pooling, stack, channels, registered, up, inbox, ran, spent, dropped>>

(* The process ends: its subscription's backlog and its task go with it. *)
Stops(w) ==
    /\ w \in up
    /\ up' = up \ {w}
    /\ inbox' = [inbox EXCEPT ![w] = <<>>]
    /\ current' = [current EXCEPT ![w] = 0]
    /\ phase' = [phase EXCEPT ![w] = "ready"]

Shutdown(w) ==
    /\ Stops(w)
    /\ Spend("shutdowns", MaxShutdowns)
    /\ registered' = registered \ {w}
    /\ workerEvents' = Append(workerEvents, w)
    /\ UNCHANGED <<records, pooling, stack, taskEvents, posts, redisStatus, ran, dropped>>

Crash(w) ==
    /\ Stops(w)
    /\ Spend("crashes", MaxCrashes)
    /\ UNCHANGED <<records, pooling, stack, channels, fleet, ran, dropped>>

HeartbeatExpires(w) ==
    /\ w \in registered \ up
    /\ registered' = registered \ {w}
    /\ UNCHANGED <<records, pooling, stack, channels, redisStatus, processes, ran, spent, dropped>>

Join(w) ==
    /\ w \notin up
    /\ Spend("joins", MaxJoins)
    /\ up' = up \cup {w}
    /\ registered' = registered \cup {w}
    /\ redisStatus' = [redisStatus EXCEPT ![w] = "IDLE"]
    /\ UNCHANGED <<records, pooling, stack, channels, inbox, current, phase, ran, dropped>>

-----------------------------------------------------------------------------
Init ==
    /\ status = [t \in Tasks |-> "NEW"]
    /\ retries = [t \in Tasks |-> 0]
    /\ assigned = [t \in Tasks |-> NoWorker]
    /\ backoff = [t \in Tasks |-> FALSE]
    /\ deadLetters = {}
    /\ pool = {}
    /\ armed = {}
    /\ flushTimer = NoTimer
    /\ stack = [th \in Threads |-> <<>>]
    /\ taskEvents = <<>>
    /\ workerEvents = <<>>
    /\ posts = {}
    /\ registered = Workers
    /\ redisStatus = [w \in Workers |-> "IDLE"]
    /\ up = Workers
    /\ inbox = [w \in Workers |-> <<>>]
    /\ current = [w \in Workers |-> 0]
    /\ phase = [w \in Workers |-> "ready"]
    /\ ran = {}
    /\ dropped = {}
    /\ spent = [faults |-> 0, poolFaults |-> 0, shutdowns |-> 0, crashes |-> 0,
                joins |-> 0, timeouts |-> 0]

PoolStep(th) == AddToPool(th) \/ FlushDue(th) \/ FlushAll(th) \/ ClearFromPool(th)
                  \/ EnsureTimer(th) \/ CancelTimer(th)
DispatchStep(th) == FilterBatch(th) \/ PutBackDeferred(th) \/ PlanNext(th) \/ Publish(th)
                      \/ MarkWorkerRunning(th) \/ CommitDispatch(th) \/ RequeueTask(th)
PoolFault(th) == AddFails(th) \/ PutBackFails(th) \/ PlanningFails(th) \/ LookupFails(th)
HandlerStep(th) == TaskSucceeded(th) \/ TaskFailed(th) \/ Reschedule(th)
ThreadStep(th) == PoolStep(th) \/ DispatchStep(th) \/ HandlerStep(th)

WorkerStep(w) == Receive(w) \/ ExecutorRaises(w) \/ ExecutorReturns(w)
                   \/ ResultAccepted(w) \/ ReportIdle(w)
WorkerTrouble(w) == ResultTimesOut(w) \/ Shutdown(w) \/ Crash(w)
                      \/ HeartbeatExpires(w) \/ Join(w)

Next ==
    \/ \E th \in Threads : ThreadStep(th) \/ DispatchFault(th) \/ PoolFault(th)
    \/ \E tm \in Timers : TimerExpires(tm)
    \/ \E t \in Tasks : Submit(t) \/ RetryDue(t)
    \/ \E e \in posts : IngestResult(e)
    \/ HandleTaskEvent
    \/ HandleUnregister
    \/ \E w \in Workers : WorkerStep(w) \/ WorkerTrouble(w)

Spec == Init /\ [][Next]_vars

(* Every thread runs, timers and backoffs expire, and a worker that has a   *)
(* task runs it to an end; nothing has to fail, stop or start.             *)
Fairness ==
    /\ \A th \in Threads : WF_vars(ThreadStep(th))
    /\ \A tm \in Timers : WF_vars(TimerExpires(tm))
    /\ \A t \in Tasks : WF_vars(Submit(t)) /\ SF_vars(RetryDue(t))
    /\ WF_vars(\E e \in posts : IngestResult(e))
    /\ WF_vars(HandleTaskEvent) /\ WF_vars(HandleUnregister)
    /\ \A w \in Workers : WF_vars(WorkerStep(w))

FairSpec == Spec /\ Fairness

-----------------------------------------------------------------------------
TaskEvent == [type : {"succeeded", "failed"}, task : Tasks, worker : Workers]

(* The variables have their types; retries saturate, see OneMoreRetry.     *)
TypeOK ==
    /\ status \in [Tasks -> {"NEW", "PENDING", "DISPATCHED", "FAILED", "DONE"}]
    /\ retries \in [Tasks -> 0..MaxRetries + 1]
    /\ assigned \in [Tasks -> Workers \cup {NoWorker}]
    /\ backoff \in [Tasks -> BOOLEAN]
    /\ deadLetters \subseteq Tasks
    /\ pool \subseteq Entry
    /\ armed \subseteq Timers
    /\ flushTimer \in Timers \cup {NoTimer}
    /\ stack \in [Threads -> Seq(TaskFrame \cup BatchFrame \cup PoolFrame)]
    /\ taskEvents \in Seq(TaskEvent)
    /\ workerEvents \in Seq(Workers)
    /\ posts \subseteq [task : Tasks, worker : Workers]
    /\ registered \subseteq Workers
    /\ redisStatus \in [Workers -> {"IDLE", "RUNNING"}]
    /\ up \subseteq Workers
    /\ inbox \in [Workers -> Seq(Tasks)]
    /\ current \in [Workers -> 0..NTasks]
    /\ phase \in [Workers -> {"ready", "running", "posting", "answered", "reported"}]
    /\ ran \subseteq Tasks
    /\ spent \in [{"faults", "poolFaults", "shutdowns", "crashes", "joins", "timeouts"}
                    -> Nat]
    /\ dropped \subseteq Tasks

Frames(th) == {stack[th][i] : i \in DOMAIN stack[th]}
Held(t) == \E th \in Threads : \E f \in Frames(th) : t \in FrameTasks(f)

(* A pending task is not forgotten: it is in the pool, or a thread that     *)
(* took it out still has to dispatch it or to put it back, or the call that *)
(* was to store or to plan its entry raised and nothing has put it back.    *)
PendingNotLost == \A t \in Tasks :
    status[t] = "PENDING" => t \in TasksOf(pool) \/ Held(t) \/ t \in dropped

InHands(w) == {inbox[w][i] : i \in DOMAIN inbox[w]} \cup ({current[w]} \cap Tasks)

(* No worker is given a task before an executor has finished each of the   *)
(* tasks it depends on, whatever fails, repeats or arrives late.           *)
DependenciesRan == \A w \in Workers : \A t \in InHands(w) : Deps[t] \subseteq ran

(* The dispatch path implements the contract: a publication gives a task   *)
(* out, an executor's return runs it, everything else takes tasks back or  *)
(* does not concern it.                                                    *)
Contract == INSTANCE WorkflowContract WITH given <- UNION {InHands(w) : w \in Workers}
ContractSpec == Contract!Spec

(* DONE is never reported of a task that no executor has finished.         *)
DoneHasRun == \A t \in Tasks : status[t] = "DONE" => t \in ran

(* Why both hold: what the orchestrator may still act on carries the proof  *)
(* of its right to it.  A success, queued or being handled, is of a task   *)
(* that ran; a task that is planned, published or with a worker had its    *)
(* dependencies run before.                                                *)
Runnable == {t \in Tasks : Deps[t] \subseteq ran}
SoundFrame ==
    {f \in TaskFrame : /\ f.op = "succeeded" => f.task \in ran
                       /\ f.op = "publish" => f.task \in Runnable}
      \cup {f \in BatchFrame : f.op = "plans" => TasksOf(f.entries) \subseteq Runnable}
      \cup PoolFrame
SoundEvent == {e \in TaskEvent : e.type = "succeeded" => e.task \in ran}

Sound ==
    /\ stack \in [Threads -> Seq(SoundFrame)]
    /\ taskEvents \in Seq(SoundEvent)
    /\ posts \subseteq [task : ran, worker : Workers]
    /\ inbox \in [Workers -> Seq(Runnable)]
    /\ current \in [Workers -> Runnable \cup {0}]
    /\ \A w \in Workers : phase[w] # "ready" => current[w] # 0
    /\ \A w \in Workers : phase[w] \in {"posting", "answered"} => current[w] \in ran
    /\ DoneHasRun

Copies(t) ==
    (UNION {{<<w, i>> : i \in {j \in DOMAIN inbox[w] : inbox[w][j] = t}} : w \in Workers})
      \cup {<<w, 0>> : w \in {v \in Workers : current[v] = t /\ phase[v] # "reported"}}

(* No two copies of a task are with the workers at a time.                 *)
AtMostOneAttempt == \A t \in Tasks : Cardinality(Copies(t)) <= 1

(* A task that has run or has been given up is not handed out again, even   *)
(* where a late commit calls it DISPATCHED once more: until a POST times out, *)
(* a publication raises or a worker stops, it is in no pool and no inbox,  *)
(* and no executor runs it.                                                *)
NotRepeated == spent.timeouts = 0 /\ spent.faults = 0 /\ spent.shutdowns = 0 =>
    \A t \in ran \cup deadLetters :
        /\ t \notin TasksOf(pool)
        /\ \A w \in Workers : /\ \A i \in DOMAIN inbox[w] : inbox[w][i] # t
                             /\ ~(current[w] = t /\ phase[w] = "running")

(* Once DONE, a task stays DONE: its dependents may already run.           *)
DoneIsFinal == [][\A t \in Tasks : status[t] = "DONE" => status'[t] = "DONE"]_status

(* A dispatched task is not in the pool.                                   *)
DispatchedNotPooled == \A t \in TasksOf(pool) : status[t] # "DISPATCHED"

(* Somebody still answers for a dispatched task: its worker has it, a      *)
(* thread works on it, or an event that will move it on is on its way.     *)
DispatchedIsLive == \A t \in Tasks : status[t] = "DISPATCHED" =>
    \/ \E w \in Workers : w = assigned[t] /\ t \in InHands(w)
    \/ Held(t)
    \/ \E i \in DOMAIN taskEvents : taskEvents[i].task = t
    \/ \E i \in DOMAIN workerEvents : workerEvents[i] = assigned[t]

(* No task is forgotten, pending or dispatched, nor held in both ways.     *)
NoTaskLost == PendingNotLost /\ DispatchedNotPooled /\ DispatchedIsLive

(* When nothing is going on, a timer will scan a pool that is not empty.   *)
Quiet == \A th \in Threads : Idle(th)
TimerGuardsPool == Quiet /\ pool # {} => armed # {}

(* t waits for a task that has been given up.                              *)
Stranded(t) == \E d \in Deps[t] : d \in deadLetters

(* A pending task is run in the end or becomes a dead letter (or waits for  *)
(* a dead letter): retries, deferrals and timers never leave it hanging.   *)
EventuallySettled == \A t \in Tasks :
    status[t] = "PENDING" ~> (t \in ran \/ t \in deadLetters \/ Stranded(t))
=============================================================================
