-------------------------- MODULE ShardAggregation --------------------------
(***************************************************************************)
(* One data-parallel task: fan-out (_try_dispatch_sharded), collection and *)
(* aggregation of the shards' results (ingest_result,                      *)
(* maybe_aggregate_parent), the parent's status and the retry of shards    *)
(* (_handle_task_event_sync, _reschedule_tasks_for_worker).                *)
(*                                                                         *)
(* Four threads of the orchestrator take part: the dispatching one, the    *)
(* API's event loop and the two listeners.  Each has a variable with the   *)
(* section it runs next.  The pool and the single-worker path, which serve *)
(* a shard that is retried, are TaskDispatch's subject: here a retry is    *)
(* pooled and dispatched in one step each, to a worker without a job.      *)
(***************************************************************************)
EXTENDS Integers, Sequences, FiniteSets

CONSTANTS
    NShards,        \* shards are numbered as make_shard_messages yields them
    NWorkers,       \* shard i goes to worker i of the sorted pool
    MaxRetries,     \* TaskRecord.max_retries
    HttpResults,    \* have workers an orchestrator_url, to POST a result to before reporting?
    PromptEnroll,   \* is the fan-out over before a worker ends a job or stops?
    MaxFailures,    \* bound: executions that raise
    MaxFaults,      \* bound: publications of a shard that raise
    MaxShutdowns,   \* bound: workers that stop
    MaxJoins,       \* bound: workers that start again
    MaxTimeouts,    \* bound: result POSTs whose answer comes too late
    MaxBadWrites    \* bound: aggregate results whose construction or write raises

Shards == 1..NShards
Workers == 1..NWorkers

ASSUME ConstantsAssumption ==
    /\ NShards \in Nat \ {0}
    /\ NWorkers \in Nat
    /\ NShards <= NWorkers
    /\ MaxRetries \in Nat
    /\ HttpResults \in BOOLEAN
    /\ PromptEnroll \in BOOLEAN
    /\ {MaxFailures, MaxFaults, MaxShutdowns, MaxJoins, MaxTimeouts, MaxBadWrites}
         \subseteq Nat

VARIABLES
    parent,             \* the parent's status
    (* the shards' TaskRecords; "NONE" before a record exists *)
    status, assigned, retries,
    pooled,             \* shards in the task pool
    mapped,             \* the keys of CHILD_TO_PARENT
    (* PARENT_SHARDS[parent], absent when children is empty; its total is   *)
    (* Cardinality(children)                                               *)
    children, done, results, aggregating,
    (* the dispatching thread: its section, the shard it is at, and         *)
    (* created_children                                                    *)
    step, next, created,
    (* the other threads: Nothing, or the section that runs next           *)
    api, listener, rescheduler,
    (* channels *)
    posts, taskEvents, workerEvents,
    (* workers *)
    up, job, phase,
    (* history *)
    ran, delivered, gathered, spent

records == <<parent, status, assigned, retries, pooled>>
entry == <<children, done, results, aggregating>>
tables == <<mapped, entry>>
fanout == <<step, next, created>>
channels == <<posts, taskEvents, workerEvents>>
workers == <<up, job, phase>>
history == <<ran, delivered, gathered>>
vars == <<records, tables, fanout, api, listener, rescheduler, channels, workers,
          history, spent>>

Nothing == <<>>
Spend(what, bound) == spent[what] < bound /\ spent' = [spent EXCEPT ![what] = @ + 1]
(* retries is compared with max_retries only: it saturates there.          *)
UnboundedRetry(n) == n + 1  \* a mutant of OneMoreRetry
OneMoreRetry(n) == IF n < MaxRetries THEN n + 1 ELSE n
Give(w, c) == job' = [job EXCEPT ![w] = c] /\ phase' = [phase EXCEPT ![w] = "running"]

-----------------------------------------------------------------------------
(* _try_dispatch_sharded: publish and register each shard, then enroll all. *)

Skip == step' = "publish" /\ next' = next + 1

PublishShard ==
    /\ step = "publish"
    /\ next <= NShards
    /\ IF up = {}
         THEN Skip /\ UNCHANGED <<job, phase>>
         ELSE /\ step' = "register"
              /\ next' = next
              /\ IF next \in up THEN Give(next, next) ELSE UNCHANGED <<job, phase>>
    /\ UNCHANGED <<records, tables, created, api, listener, rescheduler, channels, up,
                   history, spent>>

RegisterShard ==
    /\ step = "register"
    /\ Skip
    /\ status' = [status EXCEPT ![next] = "DISPATCHED"]
    /\ assigned' = [assigned EXCEPT ![next] = next]
    /\ mapped' = mapped \cup {next}
    /\ created' = created \cup {next}
    /\ UNCHANGED <<parent, retries, pooled, entry, api, listener, rescheduler, channels,
                   workers, history, spent>>

(* The except branch: a Redis call raises, before or after the publication. *)
ShardFault ==
    /\ step # "over"
    /\ next <= NShards
    /\ Spend("faults", MaxFaults)
    /\ Skip
    /\ status' = [status EXCEPT ![next] = "FAILED"]
    /\ UNCHANGED <<parent, assigned, retries, pooled, tables, created, api, listener,
                   rescheduler, channels, workers, history>>

NewEntry(expected) ==
    /\ children' = expected
    /\ done' = 0
    /\ results' = {}
    /\ aggregating' = FALSE

(* Mutant of Enroll: the shards that were skipped are expected as well.    *)
EnrollAll ==
    /\ step = "publish"
    /\ next > NShards
    /\ step' = "over"
    /\ IF created = {}
         THEN UNCHANGED <<parent, entry>>
         ELSE parent' = "DISPATCHED" /\ NewEntry(Shards)
    /\ UNCHANGED <<status, assigned, retries, pooled, mapped, next, created, api, listener,
                   rescheduler, channels, workers, history, spent>>

(* Without any shard the parent takes the single-worker path.              *)
Enroll ==
    /\ step = "publish"
    /\ next > NShards
    /\ step' = "over"
    /\ IF created = {}
         THEN UNCHANGED <<parent, entry>>
         ELSE parent' = "DISPATCHED" /\ NewEntry(created)
    /\ UNCHANGED <<status, assigned, retries, pooled, mapped, next, created, api, listener,
                   rescheduler, channels, workers, history, spent>>

-----------------------------------------------------------------------------
(* ingest_result and maybe_aggregate_parent, on the API's event loop.      *)

StoreResult(p) ==
    /\ api = Nothing
    /\ posts' = posts \ {p}
    /\ status' = IF status[p.shard] = "NONE" THEN status
                 ELSE [status EXCEPT ![p.shard] = "DONE"]
    /\ api' = [step |-> "collect", shard |-> p.shard, worker |-> p.worker]
    /\ UNCHANGED <<parent, assigned, retries, pooled, tables, fanout, listener, rescheduler,
                   taskEvents, workerEvents, workers, history, spent>>

Ingesting(section) == api # Nothing /\ api.step = section
Ingest(section) == api' = [step |-> section, shard |-> api.shard, worker |-> api.worker]

Answer ==
    /\ api' = Nothing
    /\ delivered' = delivered \cup {api.shard}
    /\ phase' = IF job[api.worker] = api.shard /\ phase[api.worker] = "posting"
                  THEN [phase EXCEPT ![api.worker] = "answered"] ELSE phase

(* Mutant of Complete: one result too few is enough.                       *)
AlmostComplete(got) == Cardinality(got) + 1 >= Cardinality(children)

Complete(got) == children \subseteq got
Collects(c) == c \in mapped /\ children # {} /\ ~aggregating

Collect ==
    /\ Ingesting("collect")
    /\ results' = IF Collects(api.shard) THEN results \cup {api.shard} ELSE results
    /\ aggregating' = IF Collects(api.shard) THEN Complete(results') ELSE aggregating
    /\ IF Collects(api.shard) /\ aggregating'
         THEN Ingest("write") /\ UNCHANGED <<delivered, phase>>
         ELSE Answer
    /\ UNCHANGED <<records, mapped, children, done, fanout, listener, rescheduler, channels,
                   up, job, ran, gathered, spent>>

WriteAggregate ==
    /\ Ingesting("write")
    /\ gathered' = Append(gathered, results)
    /\ Ingest("finalize")
    /\ UNCHANGED <<records, tables, fanout, listener, rescheduler, channels, workers, ran,
                   delivered, spent>>

(* Building or writing the aggregate, or its manifest, raises: after the   *)
(* file was written, or before.  Nothing resets the flag, and the POST is  *)
(* answered with an error.  A write that raises before the collection      *)
(* (main.py 414) is a POST that is never ingested, one after it (456) an   *)
(* answer that does not arrive.                                            *)
WriteRaises ==
    /\ Ingesting("write")
    /\ Spend("badWrites", MaxBadWrites)
    /\ gathered' \in {gathered, Append(gathered, results)}
    /\ api' = Nothing
    /\ phase' = IF job[api.worker] = api.shard /\ phase[api.worker] = "posting"
                  THEN [phase EXCEPT ![api.worker] = "refused"] ELSE phase
    /\ UNCHANGED <<records, tables, fanout, listener, rescheduler, channels, up, job, ran,
                   delivered>>

(* Mutant of Finalize: the tables keep the parent's entry.                 *)
FinalizeKeepingTables ==
    /\ Ingesting("finalize")
    /\ aggregating' = FALSE
    /\ Answer
    /\ UNCHANGED <<records, mapped, children, done, results, fanout, listener, rescheduler,
                   channels, up, job, ran, gathered, spent>>

Finalize ==
    /\ Ingesting("finalize")
    /\ mapped' = mapped \ children
    /\ NewEntry({})
    /\ Answer
    /\ UNCHANGED <<records, fanout, listener, rescheduler, channels, up, job, ran, gathered,
                   spent>>

-----------------------------------------------------------------------------
(* The tasks.events listener. *)

(* It looks the shard up, and takes it out of the pool.                    *)
TakeTaskEvent ==
    /\ listener = Nothing
    /\ taskEvents # <<>>
    /\ taskEvents' = Tail(taskEvents)
    /\ LET c == Head(taskEvents).shard
       IN  /\ listener' = [step |-> Head(taskEvents).type, shard |-> c,
                           known |-> status[c] # "NONE", mapped |-> c \in mapped]
           /\ pooled' = pooled \ {c}
    /\ UNCHANGED <<parent, status, assigned, retries, tables, fanout, api, rescheduler,
                   posts, workerEvents, workers, history, spent>>

Handling(section) == listener # Nothing /\ listener.step = section
Proceed(section) == listener' = [step |-> section, shard |-> listener.shard,
                                 known |-> listener.known, mapped |-> listener.mapped]

ShardSucceeded ==
    /\ Handling("succeeded")
    /\ status' = IF listener.known THEN [status EXCEPT ![listener.shard] = "DONE"] ELSE status
    /\ IF listener.mapped THEN Proceed("count") ELSE listener' = Nothing
    /\ UNCHANGED <<parent, assigned, retries, pooled, tables, fanout, api, rescheduler,
                   channels, workers, history, spent>>

(* Mutant of CountShard: one shard more than reported is counted.          *)
CountShardTwice ==
    /\ Handling("count")
    /\ listener' = Nothing
    /\ IF children = {}
         THEN UNCHANGED <<done, parent>>
         ELSE /\ done' = done + 1
              /\ parent' = IF done' + 1 >= Cardinality(children) THEN "DONE" ELSE parent
    /\ UNCHANGED <<status, assigned, retries, pooled, mapped, children, results,
                   aggregating, fanout, api, rescheduler, channels, workers, history,
                   spent>>

CountShard ==
    /\ Handling("count")
    /\ listener' = Nothing
    /\ IF children = {}
         THEN UNCHANGED <<done, parent>>
         ELSE /\ done' = done + 1
              /\ parent' = IF done' >= Cardinality(children) THEN "DONE" ELSE parent
    /\ UNCHANGED <<status, assigned, retries, pooled, mapped, children, results,
                   aggregating, fanout, api, rescheduler, channels, workers, history,
                   spent>>

(* A shard that CHILD_TO_PARENT no longer knows has no parsed spec in the   *)
(* TaskStore either: it is not requeued.                                   *)
ShardFailed ==
    /\ Handling("failed")
    /\ LET c == listener.shard
           again == listener.known /\ retries[c] < MaxRetries
       IN  /\ status' = IF listener.known THEN [status EXCEPT ![c] = "FAILED"] ELSE status
           /\ retries' = IF listener.known THEN [retries EXCEPT ![c] = OneMoreRetry(@)]
                         ELSE retries
           /\ \/ ~listener.mapped /\ listener' = Nothing
              \/ listener.mapped /\ again /\ Proceed("retry")
              \/ listener.mapped /\ ~again /\ Proceed("exhausted")
    /\ UNCHANGED <<parent, assigned, pooled, tables, fanout, api, rescheduler, channels,
                   workers, history, spent>>

(* Mutant of Requeue: the shard is not put into the pool.                  *)
RequeueUnpooled(c) ==
    /\ status' = [status EXCEPT ![c] = "PENDING"]
    /\ assigned' = [assigned EXCEPT ![c] = 0]
    /\ retries' = [retries EXCEPT ![c] = OneMoreRetry(@)]
    /\ pooled' = pooled

Requeue(c) ==
    /\ status' = [status EXCEPT ![c] = "PENDING"]
    /\ assigned' = [assigned EXCEPT ![c] = 0]
    /\ retries' = [retries EXCEPT ![c] = OneMoreRetry(@)]
    /\ pooled' = pooled \cup {c}

RetryShard ==
    /\ Handling("retry")
    /\ Requeue(listener.shard)
    /\ Proceed("wait")
    /\ UNCHANGED <<parent, tables, fanout, api, rescheduler, channels, workers, history,
                   spent>>

SettleParent ==
    /\ Handling("wait") \/ Handling("exhausted")
    /\ parent' = IF Handling("wait") THEN "WAITING" ELSE "FAILED"
    /\ listener' = Nothing
    /\ UNCHANGED <<status, assigned, retries, pooled, tables, fanout, api, rescheduler,
                   channels, workers, history, spent>>

-----------------------------------------------------------------------------
(* The workers.events listener: _reschedule_tasks_for_worker. *)

TakeUnregister ==
    /\ rescheduler = Nothing
    /\ workerEvents # <<>>
    /\ workerEvents' = Tail(workerEvents)
    /\ LET w == Head(workerEvents)
           lost == {c \in Shards : status[c] = "DISPATCHED" /\ assigned[c] = w}
       IN  rescheduler' = IF lost = {} THEN Nothing
                          ELSE [worker |-> w, lost |-> lost, mapped |-> mapped \cap lost]
    /\ UNCHANGED <<records, tables, fanout, api, listener, posts, taskEvents, workers,
                   history, spent>>

RescheduleShard ==
    /\ rescheduler # Nothing
    /\ \E c \in rescheduler.lost :
         /\ rescheduler' = IF rescheduler.lost = {c} THEN Nothing
                           ELSE [worker |-> rescheduler.worker, lost |-> rescheduler.lost \ {c},
                                 mapped |-> rescheduler.mapped]
         /\ IF assigned[c] = rescheduler.worker
              THEN /\ Requeue(c)
                   /\ parent' = IF c \in rescheduler.mapped /\ parent = "DISPATCHED"
                                  THEN "WAITING" ELSE parent
              ELSE UNCHANGED records
    /\ UNCHANGED <<tables, fanout, api, listener, channels, workers, history, spent>>

(* The single-worker path serves a retried shard.                          *)
Redispatch(c, w) ==
    /\ c \in pooled
    /\ status[c] = "PENDING"
    /\ w \in up
    /\ job[w] = 0
    /\ pooled' = pooled \ {c}
    /\ status' = [status EXCEPT ![c] = "DISPATCHED"]
    /\ assigned' = [assigned EXCEPT ![c] = w]
    /\ Give(w, c)
    /\ UNCHANGED <<parent, retries, tables, fanout, api, listener, rescheduler, channels,
                   up, history, spent>>

-----------------------------------------------------------------------------
(* The workers. *)

Report(w, type) ==
    /\ taskEvents' = Append(taskEvents, [type |-> type, shard |-> job[w]])
    /\ job' = [job EXCEPT ![w] = 0]
    /\ phase' = [phase EXCEPT ![w] = "ready"]

Enrolled == PromptEnroll => step = "over"
MayEnd(w) == phase[w] = "running" /\ Enrolled

ExecutorReturns(w) ==
    /\ MayEnd(w)
    /\ ran' = ran \cup {job[w]}
    /\ IF HttpResults
         THEN /\ posts' = posts \cup {[shard |-> job[w], worker |-> w]}
              /\ phase' = [phase EXCEPT ![w] = "posting"]
              /\ UNCHANGED <<taskEvents, job>>
         ELSE Report(w, "succeeded") /\ UNCHANGED posts
    /\ UNCHANGED <<records, tables, fanout, api, listener, rescheduler, workerEvents, up,
                   delivered, gathered, spent>>

ExecutorRaises(w) ==
    /\ MayEnd(w)
    /\ Spend("failures", MaxFailures)
    /\ Report(w, "failed")
    /\ UNCHANGED <<records, tables, fanout, api, listener, rescheduler, posts, workerEvents,
                   up, history>>

ResultAccepted(w) ==
    /\ phase[w] = "answered"
    /\ Report(w, "succeeded")
    /\ UNCHANGED <<records, tables, fanout, api, listener, rescheduler, posts, workerEvents,
                   up, history, spent>>

ResultRefused(w) ==
    /\ phase[w] = "refused"
    /\ Report(w, "failed")
    /\ UNCHANGED <<records, tables, fanout, api, listener, rescheduler, posts, workerEvents,
                   up, history, spent>>

ResultTimesOut(w) ==
    /\ phase[w] \in {"posting", "answered"}
    /\ Spend("timeouts", MaxTimeouts)
    /\ Report(w, "failed")
    /\ UNCHANGED <<records, tables, fanout, api, listener, rescheduler, posts, workerEvents,
                   up, history>>

Shutdown(w) ==
    /\ w \in up
    /\ Enrolled
    /\ Spend("shutdowns", MaxShutdowns)
    /\ up' = up \ {w}
    /\ job' = [job EXCEPT ![w] = 0]
    /\ phase' = [phase EXCEPT ![w] = "ready"]
    /\ workerEvents' = Append(workerEvents, w)
    /\ UNCHANGED <<records, tables, fanout, api, listener, rescheduler, posts, taskEvents,
                   history>>

Join(w) ==
    /\ w \notin up
    /\ Spend("joins", MaxJoins)
    /\ up' = up \cup {w}
    /\ UNCHANGED <<records, tables, fanout, api, listener, rescheduler, channels, job,
                   phase, history>>

-----------------------------------------------------------------------------
Init ==
    /\ parent = "PENDING"
    /\ status = [c \in Shards |-> "NONE"]
    /\ assigned = [c \in Shards |-> 0]
    /\ retries = [c \in Shards |-> 0]
    /\ pooled = {}
    /\ mapped = {}
    /\ children = {}
    /\ done = 0
    /\ results = {}
    /\ aggregating = FALSE
    /\ step = "publish"
    /\ next = 1
    /\ created = {}
    /\ api = Nothing
    /\ listener = Nothing
    /\ rescheduler = Nothing
    /\ posts = {}
    /\ taskEvents = <<>>
    /\ workerEvents = <<>>
    /\ up = Workers
    /\ job = [w \in Workers |-> 0]
    /\ phase = [w \in Workers |-> "ready"]
    /\ ran = {}
    /\ delivered = {}
    /\ gathered = <<>>
    /\ spent = [failures |-> 0, faults |-> 0, shutdowns |-> 0, joins |-> 0, timeouts |-> 0,
                badWrites |-> 0]

FanOut == PublishShard \/ RegisterShard \/ Enroll
IngestResult == (\E p \in posts : StoreResult(p)) \/ Collect \/ WriteAggregate \/ Finalize
Listen == TakeTaskEvent \/ ShardSucceeded \/ CountShard \/ ShardFailed \/ RetryShard
            \/ SettleParent
Recover == TakeUnregister \/ RescheduleShard
Dispatch == \E c \in Shards, w \in Workers : Redispatch(c, w)
Work(w) == ExecutorReturns(w) \/ ResultAccepted(w) \/ ResultRefused(w)
Trouble(w) == ExecutorRaises(w) \/ ResultTimesOut(w) \/ Shutdown(w) \/ Join(w)

Next ==
    \/ FanOut \/ ShardFault
    \/ IngestResult \/ WriteRaises
    \/ Listen
    \/ Recover
    \/ Dispatch
    \/ \E w \in Workers : Work(w) \/ Trouble(w)

Spec == Init /\ [][Next]_vars

-----------------------------------------------------------------------------
(* Every thread runs and an execution ends; nothing has to fail.           *)
Fairness ==
    /\ WF_vars(FanOut) /\ WF_vars(IngestResult) /\ WF_vars(Listen) /\ WF_vars(Recover)
    /\ WF_vars(Dispatch)
    /\ \A w \in Workers : WF_vars(Work(w))

FairSpec == Spec /\ Fairness

-----------------------------------------------------------------------------
(* The variables have their types; a shard is not retried beyond           *)
(* max_retries.                                                            *)
TypeOK ==
    /\ parent \in {"PENDING", "DISPATCHED", "WAITING", "FAILED", "DONE"}
    /\ status \in [Shards -> {"NONE", "PENDING", "DISPATCHED", "FAILED", "DONE"}]
    /\ assigned \in [Shards -> Workers \cup {0}]
    /\ retries \in [Shards -> 0..MaxRetries]
    /\ pooled \subseteq Shards
    /\ mapped \subseteq Shards
    /\ children \subseteq Shards
    /\ done \in Nat
    /\ results \subseteq Shards
    /\ aggregating \in BOOLEAN
    /\ step \in {"publish", "register", "over"}
    /\ next \in 1..NShards + 1
    /\ created \subseteq Shards
    /\ api \in {Nothing} \cup [step : {"collect", "write", "finalize"}, shard : Shards,
                               worker : Workers]
    /\ listener \in {Nothing} \cup
         [step : {"succeeded", "count", "failed", "retry", "wait", "exhausted"},
          shard : Shards, known : BOOLEAN, mapped : BOOLEAN]
    /\ rescheduler \in {Nothing} \cup
         [worker : Workers, lost : SUBSET Shards, mapped : SUBSET Shards]
    /\ posts \subseteq [shard : Shards, worker : Workers]
    /\ taskEvents \in Seq([type : {"succeeded", "failed"}, shard : Shards])
    /\ workerEvents \in Seq(Workers)
    /\ up \subseteq Workers
    /\ job \in [Workers -> Shards \cup {0}]
    /\ phase \in [Workers -> {"ready", "running", "posting", "answered", "refused"}]
    /\ ran \subseteq Shards
    /\ delivered \subseteq Shards
    /\ gathered \in Seq(SUBSET Shards)
    /\ spent \in [{"failures", "faults", "shutdowns", "joins", "timeouts", "badWrites"} -> Nat]

(* The fan-out implements the contract: the parent's result is written at  *)
(* most once, and only from shards that ran, whatever is retried or late.  *)
Gathering == INSTANCE ShardGathering
GatheringSpec == Gathering!Spec

(* Why the parent is gathered once and from the whole fan-out.  Before the  *)
(* enrolment the table has no entry for it; an entry names exactly what was*)
(* created; the write finds all of it in the results; afterwards the entry *)
(* is gone for good, or its flag keeps every other thread out: until the   *)
(* thread that wrote removes it, for ever if a write raised.               *)
Evidence ==
    /\ \A p \in posts : p.shard \in ran
    /\ \A w \in Workers : phase[w] \in {"posting", "answered"} => job[w] \in ran
    /\ api # Nothing => api.shard \in ran
    /\ results \subseteq ran
Once ==
    /\ mapped \subseteq created
    /\ step # "over" => children = {} /\ results = {} /\ gathered = <<>>
    /\ children \in {{}, created}
    /\ results \subseteq created
    /\ Ingesting("write") => gathered = <<>>
    /\ Ingesting("write") \/ Ingesting("finalize") =>
         aggregating /\ results = children /\ children # {}
    /\ gathered # <<>> => gathered = <<created>> /\ (children = {} \/ aggregating)

GatheringSound == Evidence /\ Once

(* What is written has the result of every shard that was registered, even *)
(* if results arrive while others are still being dispatched.              *)
AggregateHasFanout == \A i \in DOMAIN gathered :
    step = "over" /\ gathered[i] = created

(* Once the results of all registered shards have been accepted, the parent*)
(* is aggregated: no result was dropped on the way.  The one exception is  *)
(* an aggregation whose write raised: its flag stays, the shards' later    *)
(* results are accepted and dropped, and the parent has no result; then    *)
(* the table still holds every shard's result.                             *)
CompleteIsAggregated ==
    api = Nothing /\ created # {} /\ created \subseteq delivered
        => \/ gathered # <<>>
           \/ spent.badWrites # 0 /\ aggregating /\ results = created

(* Some thread, worker or message will move a registered shard on, until it*)
(* is DONE or FAILED.                                                      *)
Events(c) == {i \in DOMAIN taskEvents : taskEvents[i].shard = c}
ShardNotForgotten == \A c \in mapped : status[c] \in {"PENDING", "DISPATCHED"} =>
    \/ c \in pooled
    \/ \E w \in up : w = assigned[c] /\ job[w] = c
    \/ Events(c) # {}
    \/ listener # Nothing /\ listener.shard = c
    \/ \E i \in DOMAIN workerEvents : workerEvents[i] = assigned[c]
    \/ rescheduler # Nothing /\ c \in rescheduler.lost

(* A parent that is DONE has had all its registered shards executed: the   *)
(* listener counts events, not shards.                                     *)
DoneShardsRan == parent = "DONE" => created \subseteq ran

(* The parent is not left DISPATCHED or WAITING.                           *)
ParentSettles == parent = "DISPATCHED" ~> parent \in {"DONE", "FAILED"}

(* An aggregated parent completes: when nothing is left to do, it is DONE. *)
Quiet ==
    /\ step = "over"
    /\ <<api, listener, rescheduler>> = <<Nothing, Nothing, Nothing>>
    /\ <<posts, taskEvents, workerEvents>> = <<{}, <<>>, <<>>>>
    /\ \A w \in Workers : job[w] = 0
AggregatedCompletes == Quiet /\ gathered # <<>> => parent = "DONE"
=============================================================================
