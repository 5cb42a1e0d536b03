--------------------------- MODULE StateSnapshot ---------------------------
(***************************************************************************)
(* The orchestrator's persistence (orchestrator/state_store.py): the       *)
(* thread that writes task_state.json, the crash and the restart of the    *)
(* process, what is restored and what is queued again, while the Redis     *)
(* pool and the workers live on.  One submission of a few jobs, some of    *)
(* them sharded; how a job is matched with a worker, and when its retries  *)
(* are exhausted, are the subject of TaskDispatch.                         *)
(***************************************************************************)
EXTENDS Naturals, FiniteSets

CONSTANTS Jobs,          \* the jobs of the submission, 1 .. n in its order
          JobNeeds,      \* JobNeeds[j]: the jobs j depends on
          Sharded,       \* the jobs that are dispatched as shards
          MaxCrashes,    \* bound: crashes of the orchestrator
          MaxTaskFailures, \* bound: executions that fail,
          Failing,       \* ... and the jobs whose executions may
          PromptListen,  \* assumption: no worker ends what a starting
                         \* orchestrator sent before it listens
          JoinInTime     \* assumption: the writer ends before stop() gives up

ASSUME SnapshotAssumption ==
    /\ Jobs \subseteq Nat \ {0}
    /\ JobNeeds \in [Jobs -> SUBSET Jobs]
    /\ Sharded \subseteq Jobs /\ Failing \subseteq Jobs
    /\ MaxCrashes \in Nat /\ MaxTaskFailures \in Nat
    /\ PromptListen \in BOOLEAN /\ JoinInTime \in BOOLEAN

(* A task id: a job, or shard i of the job's g-th fan-out (fresh uuids). *)
Job(j) == <<j, 0, 0>>
JobIds == {Job(j) : j \in Jobs}
ShardIds(j, g) == {<<j, g, i>> : i \in 1 .. 2}
Gens == 1 .. MaxCrashes + 1
TaskIds == JobIds \cup UNION {ShardIds(j, g) : j \in Sharded, g \in Gens}
Writers == {"loop", "stop"}

VARIABLES
    life,       \* "down", "starting" (restoring) or "serving" (and listening)
    crashes,    \* crashes so far
    created,    \* entries of the submission that have a TaskRecord
    parsed,     \* jobs with a parsed spec in the TaskStore
    tasks,      \* TASKS: status of each known task
    entry,      \* PARENT_SHARDS: children and done count of each fanned-out job
    mapped,     \* CHILD_TO_PARENT: the shards that have a parent
    requeue,    \* restored tasks still to be queued
    fanouts,    \* fan-outs of each job so far
    pool,       \* Redis: pooled tasks
    out,        \* workers: how many are working on each task
    events,     \* ends of tasks published to a listening orchestrator
    stopping,   \* _stop_event
    dirty,      \* _dirty_event
    writer,     \* what each flushing thread is about to do, with its snapshot
    tmp, file,  \* task_state.tmp and task_state.json
    executed,   \* history: tasks some worker has run to the end,
    undone,     \* ... tasks that were DONE when the failure of a copy was handled,
    fails       \* ... and failed executions so far

memory == <<created, parsed, tasks, entry, mapped, requeue, fanouts>>
outside == <<pool, out, events>>
disk == <<writer, tmp, file>>
control == <<life, crashes, stopping, dirty>>
past == <<executed, undone, fails>>
snapVars == <<memory, outside, disk, control, past>>

Empty == [t \in {} |-> t]
Absent == [ok |-> "absent"]
Torn == [ok |-> "torn"]     \* a file that is not valid JSON
Idle == [at |-> "idle", snap |-> Absent]
Ended(t, ok) == [task |-> t, ok |-> ok]

SnapInit ==
    /\ life = "starting" /\ crashes = 0 /\ stopping = FALSE /\ dirty = FALSE
    /\ created = {} /\ parsed = {} /\ tasks = Empty /\ entry = Empty
    /\ mapped = {} /\ requeue = {} /\ fanouts = [j \in Jobs |-> 0]
    /\ pool = {} /\ out = [t \in TaskIds |-> 0] /\ events = {}
    /\ writer = [w \in Writers |-> Idle] /\ tmp = Absent /\ file = Absent
    /\ executed = {} /\ undone = {} /\ fails = 0

-----------------------------------------------------------------------------
(* submit_task: every entry is registered, then recorded and pooled one by *)
(* one; the client has its answer once the whole submission is.            *)

RegisterJobs ==
    /\ life = "serving" /\ ~ stopping /\ parsed = {} /\ created = {}
    /\ parsed' = Jobs
    /\ UNCHANGED <<created, tasks, entry, mapped, requeue, fanouts, outside, disk, control, past>>

CreateRecord(j) ==
    /\ life = "serving" /\ parsed = Jobs
    /\ j \notin created /\ \A i \in Jobs : i < j => i \in created
    /\ created' = created \cup {j}
    /\ tasks' = [t \in DOMAIN tasks \cup {Job(j)} |-> IF t = Job(j) THEN "PENDING" ELSE tasks[t]]
    /\ pool' = pool \cup {Job(j)}
    /\ dirty' = (dirty \/ created' = Jobs)
    /\ UNCHANGED <<parsed, entry, mapped, requeue, fanouts, out, events, disk, life, crashes, stopping, past>>

-----------------------------------------------------------------------------
(* Dispatch, execution and TASK_SUCCEEDED, each in one step. *)

NeedsDone(j) ==
    \A i \in JobNeeds[j] : Job(i) \in DOMAIN tasks /\ tasks[Job(i)] = "DONE"

Dispatchable(j) ==
    /\ life # "down" /\ Job(j) \in pool \cap DOMAIN tasks
    /\ tasks[Job(j)] = "PENDING"
    /\ j \in parsed => NeedsDone(j)

DispatchWhole(j) ==
    /\ Dispatchable(j) /\ j \notin Sharded
    /\ pool' = pool \ {Job(j)}
    /\ tasks' = [tasks EXCEPT ![Job(j)] = "DISPATCHED"]
    /\ out' = [out EXCEPT ![Job(j)] = @ + 1]
    /\ UNCHANGED <<created, parsed, entry, mapped, requeue, fanouts, events, disk, control, past>>

DispatchShards(j) ==
    /\ Dispatchable(j) /\ j \in Sharded /\ fanouts[j] + 1 \in Gens
    /\ LET shards == ShardIds(j, fanouts[j] + 1) IN
        /\ tasks' = [t \in DOMAIN tasks \cup shards |->
                        IF t \in shards \cup {Job(j)} THEN "DISPATCHED" ELSE tasks[t]]
        /\ entry' = [i \in DOMAIN entry \cup {j} |->
                        IF i = j THEN [children |-> shards, done |-> 0] ELSE entry[i]]
        /\ mapped' = mapped \cup shards
        /\ out' = [t \in TaskIds |-> IF t \in shards THEN out[t] + 1 ELSE out[t]]
    /\ fanouts' = [fanouts EXCEPT ![j] = @ + 1]
    /\ pool' = pool \ {Job(j)}
    /\ UNCHANGED <<created, parsed, requeue, events, disk, control, past>>

(* A shard that is retried goes to one worker, as in ShardAggregation. *)
DispatchRetried(t) ==
    /\ life # "down" /\ t \in (pool \cap DOMAIN tasks) \ JobIds
    /\ tasks[t] = "PENDING"
    /\ pool' = pool \ {t}
    /\ tasks' = [tasks EXCEPT ![t] = "DISPATCHED"]
    /\ out' = [out EXCEPT ![t] = @ + 1]
    /\ UNCHANGED <<created, parsed, entry, mapped, requeue, fanouts, events, disk, control, past>>

(* A popped entry without a TaskRecord is dropped. *)
DropUnknown(t) ==
    /\ life # "down" /\ t \in pool \ DOMAIN tasks
    /\ pool' = pool \ {t}
    /\ UNCHANGED <<memory, out, events, disk, control, past>>

(* A worker ends; its event reaches those who are subscribed at the time.  *)
(* Events are taken in any order: two listeners and the WebSocket handlers *)
(* read them.                                                              *)
WorkerEnds(t) ==
    /\ out[t] > 0
    /\ PromptListen => life # "starting"
    /\ out' = [out EXCEPT ![t] = @ - 1]
    /\ executed' = executed \cup {t}
    /\ events' = IF life = "serving" THEN events \cup {Ended(t, TRUE)} ELSE events
    /\ UNCHANGED <<memory, pool, disk, control, undone, fails>>

WorkerFails(t) ==
    /\ out[t] > 0 /\ fails < MaxTaskFailures /\ t[1] \in Failing
    /\ PromptListen => life # "starting"
    /\ fails' = fails + 1
    /\ out' = [out EXCEPT ![t] = @ - 1]
    /\ events' = IF life = "serving" THEN events \cup {Ended(t, FALSE)} ELSE events
    /\ UNCHANGED <<memory, pool, disk, control, executed, undone>>

(* The parent counts a shard whenever the two are mapped. *)
Counted(t) ==
    IF t \in mapped /\ t[1] \in DOMAIN entry
    THEN [entry EXCEPT ![t[1]].done = @ + 1]
    ELSE entry

TaskEnded(t) ==
    LET parent == Job(t[1])
        completes == /\ t \in mapped /\ t[1] \in DOMAIN entry
                     /\ Counted(t)[t[1]].done >= Cardinality(entry[t[1]].children)
    IN /\ life = "serving" /\ Ended(t, TRUE) \in events
       /\ events' = events \ {Ended(t, TRUE)}
       /\ pool' = pool \ {t}
       /\ tasks' = [u \in DOMAIN tasks |->
                      IF u = t \/ (completes /\ u = parent) THEN "DONE" ELSE tasks[u]]
       /\ entry' = Counted(t)
       /\ dirty' = TRUE
       /\ UNCHANGED <<created, parsed, mapped, requeue, fanouts, out, disk, life, crashes, stopping, past>>

(* TASK_FAILED, whatever the status of the task.  With retries left (again) *)
(* the task is PENDING and pooled, unless nothing is known of its spec; the *)
(* parent of a shard waits for the retry, or fails with the shard.          *)
TaskFailed(t) ==
    /\ life = "serving" /\ Ended(t, FALSE) \in events
    /\ events' = events \ {Ended(t, FALSE)}
    /\ \E again \in BOOLEAN :
         LET back == again /\ t \in DOMAIN tasks /\ (t \in mapped \/ \E j \in parsed : t = Job(j))
         IN /\ pool' = IF back THEN pool \cup {t} ELSE pool \ {t}
            /\ tasks' = [u \in DOMAIN tasks |->
                 CASE u = t -> IF back THEN "PENDING" ELSE "FAILED"
                   [] u # t /\ t \in mapped /\ u = Job(t[1]) -> IF back THEN "WAITING" ELSE "FAILED"
                   [] OTHER -> tasks[u]]
            /\ dirty' = (dirty \/ (t \in DOMAIN tasks /\ (t \in mapped \/ back \/ ~ again)))
    /\ undone' = undone \cup {u \in DOMAIN tasks : tasks[u] = "DONE" /\ tasks'[u] # "DONE"}
    /\ UNCHANGED <<created, parsed, entry, mapped, requeue, fanouts, out, disk, life, crashes,
                   stopping, executed, fails>>

-----------------------------------------------------------------------------
(* The writer thread and the final flush of stop(). *)

Snapshot == [ok |-> "whole", tasks |-> tasks, parsed |-> parsed, entry |-> entry, mapped |-> mapped]

(* _collect_snapshot holds TASKS_LOCK throughout. *)
Collect(w) == writer' = [writer EXCEPT ![w] = [at |-> "collected", snap |-> Snapshot]]

(* One round of _loop: woken by the event, or by its own timeout. *)
LoopRound ==
    /\ life = "serving" /\ ~ stopping /\ writer["loop"].at = "idle"
    /\ dirty' = FALSE
    /\ Collect("loop")
    /\ UNCHANGED <<memory, outside, tmp, file, life, crashes, stopping, past>>

OpenInPlace(w) ==   \* a mutant of OpenTmp: no temporary file
    /\ writer[w].at = "collected"
    /\ writer' = [writer EXCEPT ![w].at = "opened"]
    /\ file' = Torn
    /\ UNCHANGED <<memory, outside, tmp, control, past>>

(* write_text truncates the file, then fills it. *)
OpenTmp(w) ==
    /\ writer[w].at = "collected"
    /\ writer' = [writer EXCEPT ![w].at = "opened"]
    /\ tmp' = Torn
    /\ UNCHANGED <<memory, outside, file, control, past>>

WriteTmpOfNow(w) == \* a mutant of WriteTmp: the snapshot refers to live tables
    /\ writer[w].at = "opened"
    /\ writer' = [writer EXCEPT ![w].at = "written"]
    /\ tmp' = [writer[w].snap EXCEPT !.entry = entry, !.mapped = mapped]
    /\ UNCHANGED <<memory, outside, file, control, past>>

WriteTmp(w) ==
    /\ writer[w].at = "opened"
    /\ writer' = [writer EXCEPT ![w].at = "written"]
    /\ tmp' = writer[w].snap
    /\ UNCHANGED <<memory, outside, file, control, past>>

(* rename is atomic; a temporary file that is gone is a logged error. *)
ReplaceFile(w) ==
    /\ writer[w].at = "written"
    /\ writer' = [writer EXCEPT ![w] = IF w = "stop" THEN [at |-> "ended", snap |-> Absent] ELSE Idle]
    /\ file' = IF tmp = Absent THEN file ELSE tmp
    /\ tmp' = Absent
    /\ UNCHANGED <<memory, outside, control, past>>

StopRequested ==
    /\ life = "serving" /\ ~ stopping /\ crashes < MaxCrashes
    /\ parsed # {} => created = Jobs \* the server lets requests end first
    /\ stopping' = TRUE /\ dirty' = TRUE
    /\ UNCHANGED <<memory, outside, disk, life, crashes, past>>

FinalFlush ==
    /\ stopping /\ life = "serving" /\ writer["stop"].at = "idle"
    /\ JoinInTime => writer["loop"].at = "idle"
    /\ Collect("stop")
    /\ UNCHANGED <<memory, outside, tmp, file, control, past>>

-----------------------------------------------------------------------------
(* The end of the process, at any point or after stop(); Redis and the *)
(* workers stay.                                                       *)

ProcessGone ==
    /\ life' = "down" /\ crashes' = crashes + 1
    /\ stopping' = FALSE /\ dirty' = FALSE
    /\ created' = IF parsed = {} THEN created ELSE Jobs \* nobody submits again
    /\ parsed' = {} /\ tasks' = Empty /\ entry' = Empty /\ mapped' = {} /\ requeue' = {}
    /\ events' = {}
    /\ writer' = [w \in Writers |-> Idle]
    /\ UNCHANGED <<fanouts, pool, out, tmp, file, past>>

Crash == life # "down" /\ crashes < MaxCrashes /\ ProcessGone
Exit == stopping /\ life = "serving" /\ writer["stop"].at = "ended" /\ ProcessGone

Loadable == file.ok = "whole"

AnyStatus(s) == TRUE                   \* mutants of Unfinished
WasDispatched(s) == s = "DISPATCHED"
Unfinished(s) == s # "DONE"

(* What of a snapshot's record survives: only DONE is kept. *)
RestoredStatus(s) == IF Unfinished(s) THEN "PENDING" ELSE s

(* load_snapshot: without a readable file the orchestrator starts blank. *)
Restart ==
    /\ life = "down"
    /\ life' = "starting"
    /\ IF Loadable
       THEN /\ tasks' = [t \in DOMAIN file.tasks |-> RestoredStatus(file.tasks[t])]
            /\ parsed' = file.parsed /\ entry' = file.entry /\ mapped' = file.mapped
            /\ requeue' = {t \in DOMAIN file.tasks : Unfinished(file.tasks[t])}
       ELSE UNCHANGED <<tasks, parsed, entry, mapped, requeue>>
    /\ UNCHANGED <<created, fanouts, outside, disk, crashes, stopping, dirty, past>>

(* A restored task without a parsed spec, every shard, is skipped. *)
RequeueRestored(t) ==
    /\ life = "starting" /\ t \in requeue
    /\ requeue' = requeue \ {t}
    /\ pool' = IF t \in {Job(j) : j \in parsed} THEN pool \cup {t} ELSE pool
    /\ UNCHANGED <<created, parsed, tasks, entry, mapped, fanouts, out, events, disk, control, past>>

ServeAtOnce ==      \* a mutant of Serve
    /\ life = "starting"
    /\ life' = "serving"
    /\ UNCHANGED <<memory, outside, disk, crashes, stopping, dirty, past>>

(* _lifespan: the writer and the listeners start, requests are served. *)
Serve ==
    /\ life = "starting" /\ requeue = {}
    /\ life' = "serving"
    /\ UNCHANGED <<memory, outside, disk, crashes, stopping, dirty, past>>

WriterStep(w) == OpenTmp(w) \/ WriteTmp(w) \/ ReplaceFile(w)
DispatchStep(j) == DispatchWhole(j) \/ DispatchShards(j)
PoolStep(t) == DispatchRetried(t) \/ DropUnknown(t)
EventStep(t) == TaskEnded(t) \/ TaskFailed(t)

SnapNext ==
    \/ RegisterJobs \/ \E j \in Jobs : CreateRecord(j) \/ DispatchStep(j)
    \/ \E t \in TaskIds : WorkerEnds(t) \/ WorkerFails(t) \/ EventStep(t) \/ PoolStep(t)
                            \/ RequeueRestored(t)
    \/ LoopRound \/ \E w \in Writers : WriterStep(w)
    \/ StopRequested \/ FinalFlush \/ Exit \/ Crash \/ Restart \/ Serve

SnapSpec == SnapInit /\ [][SnapNext]_snapVars

(* The process is started again; its threads and the workers run. *)
SnapFairness ==
    /\ WF_snapVars(Restart) /\ WF_snapVars(Serve)
    /\ WF_snapVars(\E t \in TaskIds : RequeueRestored(t))
    /\ WF_snapVars(\E t \in TaskIds : WorkerEnds(t) \/ WorkerFails(t))
    /\ WF_snapVars(\E t \in TaskIds : EventStep(t))
    /\ WF_snapVars((\E t \in TaskIds : PoolStep(t)) \/ \E j \in Jobs : DispatchStep(j))
    /\ WF_snapVars(\E w \in Writers : WriterStep(w))
    /\ WF_snapVars(FinalFlush) /\ WF_snapVars(Exit)

SnapFairSpec == SnapSpec /\ SnapFairness

-----------------------------------------------------------------------------
(* Every field holds a value the code can store; what is to be queued again *)
(* is queued before the first request.                                      *)
SnapTypeOK ==
    /\ life \in {"down", "starting", "serving"} /\ crashes \in 0 .. MaxCrashes
    /\ stopping \in BOOLEAN /\ dirty \in BOOLEAN
    /\ created \subseteq Jobs /\ parsed \subseteq Jobs
    /\ DOMAIN tasks \subseteq TaskIds
    /\ \A t \in DOMAIN tasks : tasks[t] \in {"PENDING", "DISPATCHED", "WAITING", "FAILED", "DONE"}
    /\ DOMAIN entry \subseteq Sharded /\ mapped \subseteq TaskIds
    /\ requeue \subseteq TaskIds /\ (requeue # {} => life = "starting")
    /\ pool \subseteq TaskIds /\ events \subseteq [task : TaskIds, ok : BOOLEAN]
    /\ fanouts \in [Jobs -> 0 .. MaxCrashes + 1]
    /\ out \in [TaskIds -> Nat] /\ executed \subseteq TaskIds /\ undone \subseteq TaskIds
    /\ fails \in 0 .. MaxTaskFailures
    /\ \A w \in Writers : writer[w].at \in {"idle", "collected", "opened", "written", "ended"}
    /\ \A f \in {tmp, file} : f.ok \in {"absent", "torn", "whole"}

(* task_state.json can be loaded whenever the process dies: flush writes a *)
(* temporary file and renames it when it is complete.                      *)
SnapshotWhole == file # Torn

(* A snapshot is one moment of the tables: a job on its way has its         *)
(* dependencies recorded as DONE beside it (unless another copy of one      *)
(* failed since), the shards a parent waits for are recorded and mapped,    *)
(* and what is DONE was run, if by a copy that was handed out before a      *)
(* restart.                                                                 *)
SnapshotIsCut ==
    Loadable =>
        /\ \A j \in file.parsed : Job(j) \in DOMAIN file.tasks =>
              /\ file.tasks[Job(j)] = "DISPATCHED" =>
                    \A i \in JobNeeds[j] : Job(i) \in DOMAIN file.tasks
                                           /\ (file.tasks[Job(i)] = "DONE" \/ Job(i) \in undone)
              /\ file.tasks[Job(j)] = "DONE" /\ j \notin Sharded => Job(j) \in executed
        /\ \A j \in DOMAIN file.entry :
              file.entry[j].children \subseteq DOMAIN file.tasks \cap file.mapped

(* A job that is pending in memory is in the pool, or the restoring thread *)
(* still has it: no restart leaves a job that nobody will hand out.        *)
PendingIsPooled ==
    \A j \in parsed : Job(j) \in DOMAIN tasks /\ tasks[Job(j)] = "PENDING" =>
        Job(j) \in pool \cup requeue

(* What snapshots promise at every moment, however often the process dies:  *)
(* a file that loads, that is one moment of the tables, and that hands back *)
(* every unfinished job.                                                    *)
SnapInv ==
    /\ SnapTypeOK
    /\ SnapshotWhole
    /\ SnapshotIsCut
    /\ PendingIsPooled

(* A job recorded as DONE in a snapshot is not handed out again, whatever   *)
(* crashes and whichever copies of it are still with workers, unless a copy *)
(* that was out twice, after a restart, fails when the job is DONE: then    *)
(* the failure overwrites the status, and the job is retried.               *)
PersistedNotRepeated ==
    [][\A j \in Jobs :
          Loadable /\ Job(j) \in DOMAIN file.tasks /\ file.tasks[Job(j)] = "DONE" =>
              /\ fanouts'[j] = fanouts[j]
              /\ (out'[Job(j)] <= out[Job(j)] \/ Job(j) \in undone)]_snapVars

(* A job that once was in a snapshot is eventually DONE or FAILED for good, *)
(* or it waits for one that is not going to be DONE, or, after a restart,   *)
(* a sharded one keeps the WAITING it was given when a shard of an earlier  *)
(* fan-out failed: the entry it has in the pool is dropped as not PENDING.  *)
Persisted(j) == Loadable /\ Job(j) \in DOMAIN file.tasks
Settled(j) ==
    /\ Job(j) \in DOMAIN tasks
    /\ \/ tasks[Job(j)] \in {"DONE", "FAILED"}
       \/ tasks[Job(j)] = "PENDING" /\ ~ NeedsDone(j)
       \/ tasks[Job(j)] = "WAITING" /\ j \in Sharded /\ crashes > 0
PersistedSettles ==
    \A j \in Jobs : [](Persisted(j) => <>[]Settled(j))

(* What a restart promises for a job that is in the snapshot. *)
Persistence ==
    /\ PersistedNotRepeated
    /\ PersistedSettles

(* A sharded parent is only DONE when every shard of its data has run. *)
RestoredParentIsWhole ==
    \A j \in Sharded : Job(j) \in DOMAIN tasks /\ tasks[Job(j)] = "DONE" =>
        \A i \in 1 .. 2 : \E g \in Gens : <<j, g, i>> \in executed
=============================================================================
