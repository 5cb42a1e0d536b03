---------------------------- MODULE MetricsLedger ----------------------------
(***************************************************************************)
(* What MetricsRecorder counts, against what happens: plain tasks and one  *)
(* sharded task, the events of their workers, the handler that records     *)
(* them (main.py) and the ledger (metrics.py).  The API's thread records   *)
(* submissions and aggregated parents, the tasks.events listener the rest. *)
(* A workload behind the pool, dispatcher and worker is abstracted to the  *)
(* order of its events, which TaskDispatch has in full.  Of times, the     *)
(* ledger's fields keep whether they are known.                            *)
(***************************************************************************)
EXTENDS Naturals, Sequences, FiniteSets

CONSTANTS
    PlainTasks,     \* tasks that one worker runs
    ParentTask,     \* the task that is split into shards
    ShardTasks,     \* its shards
    SloTasks,       \* the submitted tasks with a latency objective
    TryLimit,       \* TaskRecord.max_retries
    PostedResults,  \* are the shards' results POSTed before the reports?
    PromptRecord,   \* is a submission recorded before a worker can report?
    PromptReports,  \* are a worker's reports handled before its UNREGISTER?
    LossLimit       \* bound: workers that unregister while they run a task

ASSUME LedgerAssumption ==
    /\ IsFiniteSet(PlainTasks) /\ IsFiniteSet(ShardTasks)
    /\ ParentTask \notin PlainTasks \cup ShardTasks
    /\ PlainTasks \cap ShardTasks = {}
    /\ TryLimit \in Nat /\ LossLimit \in Nat
    /\ {PostedResults, PromptRecord, PromptReports} \subseteq BOOLEAN

Primaries == PlainTasks \cup {ParentTask}
RunTasks == PlainTasks \cup ShardTasks
Observed == Primaries \cup ShardTasks

VARIABLES
    (* the tasks: TaskRecords, CHILD_TO_PARENT, results of shards *)
    unrecorded,     \* submissions the API has yet to record
    jobState, failures, starts, mappedShards, posted, lostWorkers,
    (* tasks.events, and the event the listener has recorded and is handling *)
    eventQueue, handling,
    (* MetricsRecorder: _counters, _task_meta, _completed_tasks, sample counts *)
    counters, taskMeta, completed, samples,
    unanswered      \* history: shards with a counted failure nothing answered

work == <<unrecorded, jobState, failures, starts, mappedShards, posted, lostWorkers>>
ledger == <<counters, taskMeta, completed, samples>>
ledgerVars == <<work, eventQueue, handling, ledger, unanswered>>

NoEvent == [type |-> "none", task |-> ParentTask]
Events == [type : {"STARTED", "SUCCEEDED", "FAILED"}, task : RunTasks] \cup {NoEvent}
JobStates == {"queued", "running", "delivered", "reported", "settled"}

FreshMeta == [known |-> FALSE, queued |-> FALSE, started |-> FALSE, slo |-> FALSE,
              attempts |-> 0, failed |-> FALSE, finalized |-> FALSE]

LedgerInit ==
    /\ unrecorded = Primaries
    /\ jobState = [j \in RunTasks |-> "queued"]
    /\ failures = [j \in RunTasks |-> 0] /\ starts = [t \in PlainTasks |-> 0]
    /\ mappedShards = ShardTasks /\ posted = {} /\ lostWorkers = 0
    /\ eventQueue = <<>> /\ handling = NoEvent
    /\ counters = [submitted |-> 0, succeeded |-> 0, failed |-> 0, requeued |-> 0]
    /\ taskMeta = [t \in Observed |-> FreshMeta]
    /\ completed = {}
    /\ samples = [total |-> 0, execution |-> 0, withSlo |-> 0, missing |-> 0]
    /\ unanswered = {}

-----------------------------------------------------------------------------
(* MetricsRecorder. A child's event is appended to the log and not counted. *)

Count(name) == counters' = [counters EXCEPT ![name] = @ + 1]

(* _record_timing and _record_slo of one task; metaOf is its entry. *)
Sample(metaOf, hasRuntime) ==
    samples' = [total |-> samples.total + 1,
                execution |-> samples.execution + (IF hasRuntime \/ metaOf.started THEN 1 ELSE 0),
                withSlo |-> samples.withSlo + (IF metaOf.slo THEN 1 ELSE 0),
                missing |-> samples.missing + (IF metaOf.slo THEN 0 ELSE 1)]

(* _ensure_task_meta, then the fields that an event sets. *)
SetMeta(t, fields) ==
    taskMeta' = [taskMeta EXCEPT ![t] =
                    [name \in DOMAIN @ |-> IF name = "known" THEN TRUE
                                           ELSE IF name \in DOMAIN fields THEN fields[name]
                                           ELSE @[name]]]

RecordSubmitted(t) ==
    /\ Count("submitted")
    /\ SetMeta(t, [queued |-> TRUE, slo |-> taskMeta[t].slo \/ t \in SloTasks,
                   finalized |-> FALSE, attempts |-> 0])
    /\ UNCHANGED <<completed, samples>>

RecordStarted(t) ==
    /\ SetMeta(t, [started |-> TRUE, attempts |-> taskMeta[t].attempts + 1, failed |-> FALSE])
    /\ UNCHANGED <<counters, completed, samples>>

RecordSucceeded(t, hasRuntime) ==
    /\ Count("succeeded")
    /\ SetMeta(t, [finalized |-> TRUE])
    /\ Sample(taskMeta[t], hasRuntime)
    /\ completed' = completed \cup {t}

RecordFailedFinally(t) ==
    /\ Count("failed")
    /\ SetMeta(t, [failed |-> TRUE])
    /\ Sample(taskMeta[t], TRUE)
    /\ UNCHANGED completed

(* A failure is only pending: a retry may follow. *)
RecordFailed(t) ==
    /\ Count("failed")
    /\ SetMeta(t, [failed |-> TRUE])
    /\ UNCHANGED <<completed, samples>>

RecordRequeuedAfresh(t) ==
    /\ Count("requeued")
    /\ SetMeta(t, [queued |-> TRUE, started |-> FALSE, failed |-> FALSE, attempts |-> 0])
    /\ UNCHANGED <<completed, samples>>

RecordRequeued(t) ==
    /\ Count("requeued")
    /\ SetMeta(t, [queued |-> TRUE, started |-> FALSE, failed |-> FALSE])
    /\ UNCHANGED <<completed, samples>>

(* finalize_task_failure: of a task that is known and not final yet. *)
FinalizeFailure(t) ==
    IF taskMeta[t].known /\ ~ taskMeta[t].finalized
    THEN /\ SetMeta(t, [finalized |-> TRUE, failed |-> FALSE])
         /\ Sample(taskMeta[t], taskMeta[t].failed)
         /\ completed' = completed \cup {t}
         /\ UNCHANGED counters
    ELSE UNCHANGED ledger

IsChild(t) == t \in mappedShards

Record(event) ==
    IF IsChild(event.task) THEN UNCHANGED ledger
    ELSE CASE event.type = "STARTED" -> RecordStarted(event.task)
           [] event.type = "SUCCEEDED" -> RecordSucceeded(event.task, TRUE)
           [] event.type = "FAILED" -> RecordFailed(event.task)

-----------------------------------------------------------------------------
(* The API's thread: a task is queued before its submission is recorded. *)
Submit(t) ==
    /\ t \in unrecorded
    /\ unrecorded' = unrecorded \ {t}
    /\ RecordSubmitted(t)
    /\ UNCHANGED <<jobState, failures, starts, mappedShards, posted, lostWorkers, eventQueue, handling, unanswered>>

SubmissionOf(j) == IF j \in ShardTasks THEN ParentTask ELSE j

ReportsBeforeRecord(j) == jobState[j] = "queued"

MayReport(j) == jobState[j] = "queued" /\ (PromptRecord => SubmissionOf(j) \notin unrecorded)

(* A worker takes the job and reports that it has started. *)
StartJob(j) ==
    /\ MayReport(j)
    /\ jobState' = [jobState EXCEPT ![j] = "running"]
    /\ eventQueue' = Append(eventQueue, [type |-> "STARTED", task |-> j])
    /\ UNCHANGED <<unrecorded, failures, starts, mappedShards, posted, lostWorkers, handling, ledger,
                   unanswered>>

(* A shard's result is stored, and the shard DONE.  With the last one the   *)
(* parent is written, its shards are unmapped, and its success is recorded  *)
(* (ingest_result, maybe_aggregate_parent).                                 *)
PostResult(j) ==
    /\ PostedResults /\ j \in ShardTasks /\ jobState[j] = "running"
    /\ jobState' = [jobState EXCEPT ![j] = "delivered"]
    /\ posted' = posted \cup {j}
    /\ IF posted' = ShardTasks /\ posted # ShardTasks
       THEN mappedShards' = {} /\ RecordSucceeded(ParentTask, FALSE)
       ELSE UNCHANGED <<mappedShards, ledger>>
    /\ UNCHANGED <<unrecorded, failures, starts, lostWorkers, eventQueue, handling, unanswered>>

(* The executor returns, or raises before there is a result; the POST of a *)
(* result that was stored may still time out at the worker.                *)
EndJob(j) ==
    /\ jobState[j] \in {"running", "delivered"}
    /\ \E type \in {"SUCCEEDED", "FAILED"} :
        /\ PostedResults /\ j \in ShardTasks /\ jobState[j] = "running" => type = "FAILED"
        /\ eventQueue' = Append(eventQueue, [type |-> type, task |-> j])
    /\ jobState' = [jobState EXCEPT ![j] = "reported"]
    /\ UNCHANGED <<unrecorded, failures, starts, mappedShards, posted, lostWorkers, handling, ledger,
                   unanswered>>

(* _reschedule_tasks_for_worker records nothing of the requeued task; one *)
(* whose result is there is DONE and stays.                               *)
LoseWorker(j) ==
    /\ \/ jobState[j] \in {"running", "delivered"}
       \/ ~ PromptReports /\ jobState[j] = "reported" /\ j \notin posted
    /\ lostWorkers < LossLimit
    /\ lostWorkers' = lostWorkers + 1
    /\ jobState' = [jobState EXCEPT ![j] = IF @ = "delivered" THEN "settled" ELSE "queued"]
    /\ UNCHANGED <<unrecorded, failures, starts, mappedShards, posted, eventQueue, handling, ledger,
                   unanswered>>

(* The report is of an execution that another one has replaced. *)
Rerun(j) == jobState[j] \in {"running", "delivered"}

(* _handle_task_event_sync up to its branches: the event is recorded, and *)
(* whether its task is mapped to a parent is read for all that follows.   *)
TakeEvent ==
    /\ handling = NoEvent /\ eventQueue # <<>>
    /\ LET event == Head(eventQueue) IN
        /\ Record(event)
        /\ handling' = IF event.type # "FAILED" THEN NoEvent
                       ELSE IF IsChild(event.task) THEN [type |-> "SHARD_FAILED", task |-> event.task]
                       ELSE event
        /\ starts' = IF event.type = "STARTED" /\ event.task \in PlainTasks
                     THEN [starts EXCEPT ![event.task] = @ + 1] ELSE starts
        /\ jobState' = IF event.type = "SUCCEEDED" /\ ~ Rerun(event.task)
                       THEN [jobState EXCEPT ![event.task] = "settled"] ELSE jobState
    /\ eventQueue' = Tail(eventQueue)
    /\ UNCHANGED <<unrecorded, failures, mappedShards, posted, lostWorkers, unanswered>>

RetryRecordedAsPrimary(t) == RecordRequeued(t)

(* The record of a retry; of a shard, it is marked as a child's. *)
RecordRetry(t) == IF handling.type = "SHARD_FAILED" THEN UNCHANGED ledger ELSE RecordRequeued(t)

RetriesLeftOffByOne(t) == failures[t] <= TryLimit
RetriesLeft(t) == failures[t] < TryLimit

(* No parsed spec is stored under a shard's id: unmapped, it is not retried. *)
NothingToRetry(t) == handling.type = "FAILED" /\ t \in ShardTasks

(* The rest of the TASK_FAILED branch: a retry, nothing, or a dead letter. *)
HandleFailure ==
    /\ handling # NoEvent
    /\ LET t == handling.task
           after(state) == jobState' = [jobState EXCEPT ![t] = IF Rerun(t) THEN @ ELSE state]
       IN
        /\ failures' = [failures EXCEPT ![t] = @ + 1]
        /\ \/ RetriesLeft(t) /\ ~ NothingToRetry(t)
              /\ after("queued") /\ RecordRetry(t) /\ UNCHANGED unanswered
           \/ RetriesLeft(t) /\ NothingToRetry(t)
              /\ after("settled") /\ unanswered' = unanswered \cup {t} /\ UNCHANGED ledger
           \/ ~ RetriesLeft(t)
              /\ after("settled") /\ FinalizeFailure(t) /\ UNCHANGED unanswered
    /\ handling' = NoEvent
    /\ UNCHANGED <<unrecorded, starts, mappedShards, posted, lostWorkers, eventQueue>>

LedgerNext ==
    \/ \E t \in Primaries : Submit(t)
    \/ \E j \in RunTasks : StartJob(j) \/ PostResult(j) \/ EndJob(j) \/ LoseWorker(j)
    \/ TakeEvent \/ HandleFailure

LedgerSpec == LedgerInit /\ [][LedgerNext]_ledgerVars

-----------------------------------------------------------------------------
LedgerTypeOK ==
    /\ unrecorded \subseteq Primaries /\ lostWorkers \in 0 .. LossLimit
    /\ jobState \in [RunTasks -> JobStates]
    /\ failures \in [RunTasks -> 0 .. TryLimit + 1] /\ starts \in [PlainTasks -> Nat]
    /\ mappedShards \subseteq ShardTasks /\ posted \subseteq ShardTasks
    /\ eventQueue \in Seq(Events)
    /\ handling \in Events \cup [type : {"SHARD_FAILED"}, task : ShardTasks]
    /\ unanswered \subseteq ShardTasks
    /\ counters \in [{"submitted", "succeeded", "failed", "requeued"} -> Nat]
    /\ taskMeta \in [Observed -> [known : BOOLEAN, queued : BOOLEAN, started : BOOLEAN, slo : BOOLEAN,
                                  attempts : Nat, failed : BOOLEAN, finalized : BOOLEAN]]
    /\ completed \subseteq Observed
    /\ samples \in [{"total", "execution", "withSlo", "missing"} -> Nat]

(* The averages of the report are over the tasks it calls completed: a task *)
(* that fails, is retried and ends, or whose worker is lost on the way, has *)
(* one sample, and one without an end has none.                             *)
SamplesMatchCompleted == samples.total = Cardinality(completed)

(* Each recorded failure was answered by a recorded retry or ended its     *)
(* task, whatever shards fail and are retried in between; the rest are of  *)
(* shards that have been unmapped, whose parent has all the results.       *)
FailuresAccounted ==
    handling = NoEvent =>
        /\ counters.failed = counters.requeued + Cardinality(unanswered)
             + Cardinality({t \in completed : t \in RunTasks /\ failures[t] > TryLimit})
        /\ unanswered # {} => posted = ShardTasks /\ ParentTask \in completed

(* A task that is over is final in the ledger, and only then: its           *)
(* submission does not come after its end.                                  *)
SettledIsFinal ==
    handling = NoEvent => \A t \in PlainTasks : jobState[t] = "settled" <=> taskMeta[t].finalized

(* The attempts of the ledger and of the TaskRecord are the same. *)
AttemptsAgree == \A t \in PlainTasks : taskMeta[t].attempts = starts[t]

(* The report adds up, whatever is retried, sharded or lost: every task it  *)
(* averages over is over, every failure answered, every attempt counted.    *)
LedgerInv ==
    /\ LedgerTypeOK
    /\ SamplesMatchCompleted
    /\ FailuresAccounted
    /\ SettledIsFinal
    /\ AttemptsAgree

(* Violated when results are POSTed (main.py:565): aggregation unmaps the  *)
(* shards, and the last one's TASK_SUCCEEDED then counts as a task's.       *)
(* So does its TASK_FAILED, when the POST timed out at the worker; then    *)
(* the failure is in the report and neither a retry nor an end answers it. *)
OnlyPrimariesCounted == completed \subseteq Primaries
AllFailuresAnswered == unanswered = {}
=============================================================================
