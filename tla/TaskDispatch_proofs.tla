------------------------ MODULE TaskDispatch_proofs ------------------------
(***************************************************************************)
(* Proofs about the dispatch path, for every number of tasks and workers,  *)
(* every dependency graph, batch size and retry budget, and any number of  *)
(* faults, stopped, killed and restarted workers.                          *)
(***************************************************************************)
EXTENDS TaskDispatch, TLAPS

(* The inductive invariant: the types of the state that carries no evidence, *)
(* and Sound, which types the rest by the evidence it carries.             *)
RecordsTyped ==
    /\ status \in [Tasks -> {"NEW", "PENDING", "DISPATCHED", "FAILED", "DONE"}]
    /\ retries \in [Tasks -> 0..MaxRetries + 1]
    /\ assigned \in [Tasks -> Workers \cup {NoWorker}]
    /\ backoff \in [Tasks -> BOOLEAN]
    /\ deadLetters \subseteq Tasks
PoolingTyped ==
    /\ pool \subseteq Entry
    /\ armed \subseteq Timers
    /\ flushTimer \in Timers \cup {NoTimer}
FleetTyped ==
    /\ workerEvents \in Seq(Workers)
    /\ registered \subseteq Workers
    /\ redisStatus \in [Workers -> {"IDLE", "RUNNING"}]
    /\ up \subseteq Workers
    /\ phase \in [Workers -> {"ready", "running", "posting", "answered", "reported"}]
Counted == {"faults", "poolFaults", "shutdowns", "crashes", "joins", "timeouts"}
HistoryTyped ==
    /\ ran \subseteq Tasks
    /\ spent \in [Counted -> Nat]
    /\ dropped \subseteq Tasks

IInv == RecordsTyped /\ PoolingTyped /\ FleetTyped /\ HistoryTyped /\ Sound

-----------------------------------------------------------------------------
(* Sequences. *)

LEMMA HeadTailInSeq ==
    ASSUME NEW S, NEW s \in Seq(S), s # <<>>
    PROVE  Head(s) \in S /\ Tail(s) \in Seq(S)
  OBVIOUS

LEMMA SeqMonotone ==
    ASSUME NEW S, NEW U, S \subseteq U, NEW s \in Seq(S)
    PROVE  s \in Seq(U)
  OBVIOUS

LEMMA ConcatInSeq ==
    ASSUME NEW S, NEW s \in Seq(S), NEW u \in Seq(S)
    PROVE  s \o u \in Seq(S)
  OBVIOUS

LEMMA AppendRange ==
    ASSUME NEW S, NEW s \in Seq(S), NEW x \in S
    PROVE  {Append(s, x)[i] : i \in DOMAIN Append(s, x)} = {s[i] : i \in DOMAIN s} \cup {x}
  <1>1. Append(s, x) \in Seq(S) /\ Len(Append(s, x)) = Len(s) + 1 /\ Len(s) \in Nat
    OBVIOUS
  <1>2. \A i \in 1..Len(s) : Append(s, x)[i] = s[i]
    OBVIOUS
  <1>3. Append(s, x)[Len(s) + 1] = x
    OBVIOUS
  <1> QED
    BY <1>1, <1>2, <1>3

LEMMA TailRange ==
    ASSUME NEW S, NEW s \in Seq(S), s # <<>>
    PROVE  /\ {Tail(s)[i] : i \in DOMAIN Tail(s)} \subseteq {s[i] : i \in DOMAIN s}
           /\ Head(s) \in {s[i] : i \in DOMAIN s}
  OBVIOUS

(* Continue and Call replace the work of one thread only.                  *)
LEMMA ContinueInSeq ==
    ASSUME NEW S, stack \in [Threads -> Seq(S)], NEW th \in Threads, ~Idle(th),
           NEW frames \in Seq(S), Continue(th, frames)
    PROVE  stack' \in [Threads -> Seq(S)]
  <1>1. stack[th] \in Seq(S) /\ stack[th] # <<>>
    BY DEF Idle
  <1>2. Tail(stack[th]) \in Seq(S)
    BY <1>1, HeadTailInSeq
  <1>3. frames \o Tail(stack[th]) \in Seq(S)
    BY <1>2, ConcatInSeq
  <1> QED
    BY <1>3 DEF Continue

LEMMA CallInSeq ==
    ASSUME NEW S, stack \in [Threads -> Seq(S)], NEW th \in Threads,
           NEW frames \in Seq(S), Call(th, frames)
    PROVE  stack' \in [Threads -> Seq(S)]
  BY DEF Call

-----------------------------------------------------------------------------
(* The frames that the actions push. *)

LEMMA DoSound ==
    ASSUME NEW op \in {"flushDue", "flushAll", "ensureTimer", "cancelTimer", "endBatch"}
    PROVE  Do(op) \in Seq(SoundFrame)
  <1>1. [op |-> op] \in SoundFrame
    BY DEF SoundFrame, PoolFrame
  <1> QED
    BY <1>1 DEF Do

LEMMA DoTaskSound ==
    ASSUME NEW op \in {"add", "publish", "markRunning", "commit", "requeue", "clear",
                       "succeeded", "failed"},
           NEW t \in Tasks, NEW w \in Workers \cup {NoWorker},
           op = "succeeded" => t \in ran, op = "publish" => t \in Runnable
    PROVE  DoTask(op, t, w) \in Seq(SoundFrame)
  <1>1. [op |-> op, task |-> t, worker |-> w] \in SoundFrame
    BY DEF SoundFrame, TaskFrame
  <1> QED
    BY <1>1 DEF DoTask

LEMMA DoBatchSound ==
    ASSUME NEW op \in {"batch", "defer", "plans", "lost"}, NEW es \in SUBSET Entry,
           op = "plans" => TasksOf(es) \subseteq Runnable
    PROVE  DoBatch(op, es) \in Seq(SoundFrame)
  <1>1. [op |-> op, entries |-> es] \in SoundFrame
    BY DEF SoundFrame, BatchFrame
  <1> QED
    BY <1>1 DEF DoBatch

(* What the top frame of a thread holds, by its op. *)
LEMMA TopTask ==
    ASSUME Sound, NEW th \in Threads,
           NEW op \in {"add", "publish", "markRunning", "commit", "requeue", "clear",
                       "succeeded", "failed"},
           At(th, op)
    PROVE  /\ ~Idle(th)
           /\ Top(th) \in TaskFrame
           /\ Top(th).task \in Tasks
           /\ Top(th).worker \in Workers \cup {NoWorker}
           /\ op = "succeeded" => Top(th).task \in ran
           /\ op = "publish" => Top(th).task \in Runnable
  <1>1. ~Idle(th) /\ Top(th).op = op
    BY DEF At
  <1>2. Top(th) \in SoundFrame
    BY <1>1, HeadTailInSeq DEF Sound, Idle, Top
  <1>3. Top(th) \notin BatchFrame /\ Top(th) \notin PoolFrame
    BY <1>1 DEF BatchFrame, PoolFrame
  <1> QED
    BY <1>1, <1>2, <1>3 DEF SoundFrame, TaskFrame

LEMMA TopBatch ==
    ASSUME Sound, NEW th \in Threads, NEW op \in {"batch", "defer", "plans", "lost"},
           At(th, op)
    PROVE  /\ ~Idle(th)
           /\ Top(th).entries \subseteq Entry
           /\ op = "plans" => TasksOf(Top(th).entries) \subseteq Runnable
  <1>1. ~Idle(th) /\ Top(th).op = op
    BY DEF At
  <1>2. Top(th) \in SoundFrame
    BY <1>1, HeadTailInSeq DEF Sound, Idle, Top
  <1>3. Top(th) \notin TaskFrame /\ Top(th) \notin PoolFrame
    BY <1>1 DEF TaskFrame, PoolFrame
  <1> QED
    BY <1>1, <1>2, <1>3 DEF SoundFrame, BatchFrame

(* What an action of the orchestrator must show: the new stack is sound and *)
(* a task that it marks DONE has run; workers and channels stay as they are. *)
LEMMA SoundPreserved ==
    ASSUME Sound, UNCHANGED <<ran, inbox, current, phase, taskEvents, posts>>,
           stack' \in [Threads -> Seq(SoundFrame)], DoneHasRun'
    PROVE  Sound'
  <1>1. Runnable' = Runnable
    BY DEF Runnable
  <1>2. SoundFrame' = SoundFrame /\ SoundEvent' = SoundEvent
    BY <1>1 DEF SoundFrame, SoundEvent, TasksOf
  <1> QED
    BY <1>1, <1>2 DEF Sound

LEMMA EmptySeq ==
    ASSUME NEW S
    PROVE  <<>> \in Seq(S)
  OBVIOUS

LEMMA StatusKept ==
    ASSUME Sound, UNCHANGED <<status, ran>>
    PROVE  DoneHasRun'
  BY DEF Sound, DoneHasRun

LEMMA OneMoreRetryTyped ==
    ASSUME NEW n \in 0..MaxRetries + 1
    PROVE  OneMoreRetry(n) \in 0..MaxRetries + 1
  BY ConstantsAssumption DEF OneMoreRetry

LEMMA DueBatchInPool ==
    ASSUME NEW p \in SUBSET Entry
    PROVE  DueBatch(p) \subseteq p /\ DueBatch(p) \subseteq Entry
  BY DEF DueBatch, Earliest

LEMMA PutTyped ==
    ASSUME NEW p \in SUBSET Entry, NEW es \in SUBSET Entry
    PROVE  Put(p, es) \subseteq Entry
  BY DEF Put

-----------------------------------------------------------------------------
(* The pool's steps. *)

LEMMA PoolStepInv ==
    ASSUME IInv, NEW th \in Threads, PoolStep(th)
    PROVE  IInv'
  <1> USE DEF IInv
  <1>1. CASE AddToPool(th)
    <2> DEFINE all == Put(pool, {[task |-> Top(th).task, worker |-> Top(th).worker]})
               frames == DoBatch("batch", DueBatch(all)) \o Do("ensureTimer")
    <2>1. Top(th).task \in Tasks /\ Top(th).worker \in Workers \cup {NoWorker} /\ ~Idle(th)
      BY <1>1, TopTask DEF AddToPool
    <2>2. all \subseteq Entry
      BY <2>1, PutTyped DEF PoolingTyped, Entry
    <2>3. frames \in Seq(SoundFrame)
      BY <2>2, DueBatchInPool, DoBatchSound, DoSound, ConcatInSeq
    <2>4. stack' \in [Threads -> Seq(SoundFrame)]
      BY <1>1, <2>1, <2>3, ContinueInSeq DEF Sound, AddToPool
    <2> QED
      BY <1>1, <2>2, <2>4, StatusKept, SoundPreserved DEF AddToPool, RecordsTyped,
         PoolingTyped, FleetTyped, HistoryTyped, records, channels, fleet, processes
  <1>2. CASE FlushDue(th)
    <2> DEFINE frames == IF DueBatch(pool) = {} THEN Do("ensureTimer")
                         ELSE DoBatch("batch", DueBatch(pool))
    <2>1. frames \in Seq(SoundFrame)
      BY DueBatchInPool, DoBatchSound, DoSound DEF PoolingTyped
    <2>2. stack' \in [Threads -> Seq(SoundFrame)]
      BY <1>2, <2>1, ContinueInSeq DEF Sound, FlushDue, At
    <2> QED
      BY <1>2, <2>2, StatusKept, SoundPreserved DEF FlushDue, RecordsTyped,
         PoolingTyped, FleetTyped, HistoryTyped, records, channels, fleet, processes
  <1>3. CASE FlushAll(th)
    <2>1. DoBatch("batch", pool) \o Do("ensureTimer") \in Seq(SoundFrame)
      BY DoBatchSound, DoSound, ConcatInSeq DEF PoolingTyped
    <2>2. stack' \in [Threads -> Seq(SoundFrame)]
      BY <1>3, <2>1, ContinueInSeq DEF Sound, FlushAll, At
    <2> QED
      BY <1>3, <2>2, StatusKept, SoundPreserved DEF FlushAll, RecordsTyped,
         PoolingTyped, FleetTyped, HistoryTyped, records, channels, fleet, processes
  <1>4. CASE ClearFromPool(th)
    <2> DEFINE frames == IF pool' = {} THEN Do("cancelTimer") ELSE <<>>
    <2>1. frames \in Seq(SoundFrame)
      BY DoSound
    <2>2. stack' \in [Threads -> Seq(SoundFrame)]
      BY <1>4, <2>1, ContinueInSeq DEF Sound, ClearFromPool, At
    <2> QED
      BY <1>4, <2>2, StatusKept, SoundPreserved DEF ClearFromPool, RecordsTyped,
         PoolingTyped, FleetTyped, HistoryTyped, records, channels, fleet, processes
  <1>5. CASE EnsureTimer(th)
    <2>1. stack' \in [Threads -> Seq(SoundFrame)]
      <3>1. <<>> \in Seq(SoundFrame) /\ Do("cancelTimer") \in Seq(SoundFrame)
        BY DoSound
      <3>2. Continue(th, <<>>) \/ Continue(th, Do("cancelTimer"))
        BY <1>5 DEF EnsureTimer
      <3> QED
        BY <1>5, <3>1, <3>2, ContinueInSeq DEF Sound, EnsureTimer, At
    <2>2. armed' \subseteq Timers /\ flushTimer' \in Timers \cup {NoTimer}
      BY <1>5 DEF EnsureTimer, Cancel, PoolingTyped
    <2> QED
      BY <1>5, <2>1, <2>2, StatusKept, SoundPreserved DEF EnsureTimer, RecordsTyped,
         PoolingTyped, FleetTyped, HistoryTyped, records, channels, fleet, processes
  <1>6. CASE CancelTimer(th)
    <2>1. stack' \in [Threads -> Seq(SoundFrame)]
      BY <1>6, ContinueInSeq, EmptySeq DEF Sound, CancelTimer, At
    <2> QED
      BY <1>6, <2>1, StatusKept, SoundPreserved DEF CancelTimer, Cancel, RecordsTyped,
         PoolingTyped, FleetTyped, HistoryTyped, records, channels, fleet, processes
  <1> QED
    BY <1>1, <1>2, <1>3, <1>4, <1>5, <1>6 DEF PoolStep

-----------------------------------------------------------------------------
(* The dispatcher's steps. *)

(* The filter's verdict on a task is sound: its dependencies are DONE, and *)
(* what is DONE has run.                                                   *)
LEMMA ReadyIsRunnable ==
    ASSUME Sound, NEW t \in Tasks, Ready(t)
    PROVE  t \in Runnable
  <1>1. Deps[t] \subseteq Tasks
    BY ConstantsAssumption
  <1> QED
    BY <1>1 DEF Ready, DependencySatisfied, Sound, DoneHasRun, Runnable

LEMMA FilterBatchInv ==
    ASSUME IInv, NEW th \in Threads, FilterBatch(th)
    PROVE  IInv'
  <1> USE DEF IInv
  <1> DEFINE es == Top(th).entries
             ready == {e \in es : Ready(e.task)}
             frames == DoBatch("defer", es \ ready) \o DoBatch("plans", ready)
                         \o Do("endBatch")
  <1>1. es \subseteq Entry /\ ~Idle(th)
    BY TopBatch DEF FilterBatch
  <1>2. TasksOf(ready) \subseteq Runnable
    BY <1>1, ReadyIsRunnable DEF TasksOf, Entry
  <1>3. /\ DoBatch("defer", es \ ready) \in Seq(SoundFrame)
        /\ DoBatch("plans", ready) \in Seq(SoundFrame)
        /\ Do("endBatch") \in Seq(SoundFrame)
    BY <1>1, <1>2, DoBatchSound, DoSound
  <1>4. frames \in Seq(SoundFrame)
    BY <1>3, ConcatInSeq
  <1>5. stack' \in [Threads -> Seq(SoundFrame)]
    BY <1>1, <1>4, ContinueInSeq DEF Sound, FilterBatch
  <1> QED
    BY <1>5, StatusKept, SoundPreserved DEF FilterBatch, RecordsTyped, PoolingTyped,
       FleetTyped, HistoryTyped, records, pooling, channels, fleet, processes

LEMMA PlanNextInv ==
    ASSUME IInv, NEW th \in Threads, PlanNext(th)
    PROVE  IInv'
  <1> USE DEF IInv
  <1> DEFINE rest(e) == DoBatch("plans", Top(th).entries \ {e})
  <1>1. /\ Top(th).entries \subseteq Entry /\ ~Idle(th)
        /\ TasksOf(Top(th).entries) \subseteq Runnable
    BY TopBatch DEF PlanNext
  <1>2. PICK e \in Top(th).entries :
          \/ Continue(th, rest(e))
          \/ Continue(th, DoTask("requeue", e.task, e.worker) \o rest(e))
          \/ \E w \in IdleWorkers : Continue(th, DoTask("publish", e.task, w) \o rest(e))
    BY DEF PlanNext, Earliest
  <1>3. e.task \in Tasks /\ e.worker \in Workers \cup {NoWorker} /\ e.task \in Runnable
    BY <1>1 DEF Entry, TasksOf
  <1>4. rest(e) \in Seq(SoundFrame)
    BY <1>1, DoBatchSound DEF TasksOf
  <1>5. \A w \in IdleWorkers : w \in Workers
    BY DEF IdleWorkers, FleetTyped
  <1>6. /\ DoTask("requeue", e.task, e.worker) \o rest(e) \in Seq(SoundFrame)
        /\ \A w \in IdleWorkers : DoTask("publish", e.task, w) \o rest(e) \in Seq(SoundFrame)
    BY <1>3, <1>4, <1>5, DoTaskSound, ConcatInSeq
  <1>7. stack' \in [Threads -> Seq(SoundFrame)]
    BY <1>1, <1>2, <1>4, <1>6, ContinueInSeq DEF Sound
  <1> QED
    BY <1>7, StatusKept, SoundPreserved DEF PlanNext, RecordsTyped, PoolingTyped,
       FleetTyped, HistoryTyped, records, pooling, channels, fleet, processes

(* A publication hands a runnable task to a subscriber.                    *)
LEMMA PublishInv ==
    ASSUME IInv, NEW th \in Threads, Publish(th)
    PROVE  IInv'
  <1> USE DEF IInv
  <1> DEFINE t == Top(th).task
             w == Top(th).worker
  <1>1. t \in Runnable /\ t \in Tasks /\ w \in Workers \cup {NoWorker} /\ ~Idle(th)
    BY TopTask DEF Publish
  <1>2. DoTask("requeue", t, w) \in Seq(SoundFrame)
          /\ DoTask("markRunning", t, w) \in Seq(SoundFrame)
    BY <1>1, DoTaskSound
  <1>3. Continue(th, DoTask("requeue", t, w)) \/ Continue(th, DoTask("markRunning", t, w))
    BY DEF Publish
  <1>4. stack' \in [Threads -> Seq(SoundFrame)]
    BY <1>1, <1>2, <1>3, ContinueInSeq DEF Sound
  <1>5. inbox' \in [Workers -> Seq(Runnable)]
    <2>1. inbox' = inbox \/ inbox' = [inbox EXCEPT ![w] = Append(@, t)]
      BY DEF Publish
    <2>2. inbox \in [Workers -> Seq(Runnable)]
      BY DEF Sound
    <2>3. \A v \in Workers : Append(inbox[v], t) \in Seq(Runnable)
      BY <1>1, <2>2
    <2> QED
      BY <2>1, <2>2, <2>3
  <1>6. UNCHANGED <<records, pooling, channels, fleet, up, current, phase, ran, spent, dropped>>
    BY DEF Publish
  <1>7. SoundFrame' = SoundFrame /\ SoundEvent' = SoundEvent /\ Runnable' = Runnable
    BY <1>6 DEF SoundFrame, SoundEvent, Runnable, TasksOf
  <1>8. Sound'
    <2>1. UNCHANGED <<status, ran, taskEvents, posts, current, phase>>
      BY <1>6 DEF records, channels
    <2>2. DoneHasRun'
      BY <2>1, StatusKept
    <2> QED
      BY <1>4, <1>5, <1>7, <2>1, <2>2 DEF Sound
  <1> QED
    BY <1>6, <1>8 DEF RecordsTyped, PoolingTyped, FleetTyped, HistoryTyped, records, pooling,
       channels, fleet

LEMMA DispatchStepInv ==
    ASSUME IInv, NEW th \in Threads, DispatchStep(th) \/ DispatchFault(th)
    PROVE  IInv'
  <1> USE DEF IInv
  <1>1. CASE PutBackDeferred(th)
    <2>1. Top(th).entries \subseteq Entry /\ ~Idle(th)
      BY <1>1, TopBatch DEF PutBackDeferred
    <2>2. pool' \subseteq Entry
      BY <1>1, <2>1, PutTyped DEF PutBackDeferred, PoolingTyped
    <2>3. stack' \in [Threads -> Seq(SoundFrame)]
      BY <1>1, <2>1, EmptySeq, ContinueInSeq DEF PutBackDeferred, Sound
    <2> QED
      BY <1>1, <2>2, <2>3, StatusKept, SoundPreserved DEF PutBackDeferred, RecordsTyped,
         PoolingTyped, FleetTyped, HistoryTyped, records, channels, fleet, processes
  <1>2. CASE MarkWorkerRunning(th)
    <2>1. DoTask("commit", Top(th).task, Top(th).worker) \in Seq(SoundFrame) /\ ~Idle(th)
      BY <1>2, TopTask, DoTaskSound DEF MarkWorkerRunning
    <2>2. stack' \in [Threads -> Seq(SoundFrame)]
      BY <1>2, <2>1, ContinueInSeq DEF MarkWorkerRunning, Sound
    <2> QED
      BY <1>2, <2>2, StatusKept, SoundPreserved DEF MarkWorkerRunning, RecordsTyped, PoolingTyped,
         FleetTyped, HistoryTyped, records, pooling, channels, processes
  <1>3. CASE CommitDispatch(th)
    <2>1. Top(th).task \in Tasks /\ Top(th).worker \in Workers \cup {NoWorker} /\ ~Idle(th)
      BY <1>3, TopTask DEF CommitDispatch
    <2>2. stack' \in [Threads -> Seq(SoundFrame)]
      BY <1>3, <2>1, EmptySeq, ContinueInSeq DEF CommitDispatch, Sound
    <2>3. RecordsTyped'
      BY <1>3, <2>1 DEF CommitDispatch, RecordsTyped
    <2>4. DoneHasRun'
      BY <1>3, <2>1 DEF CommitDispatch, RecordsTyped, Sound, DoneHasRun
    <2> QED
      BY <1>3, <2>2, <2>3, <2>4, SoundPreserved DEF CommitDispatch, PoolingTyped,
         FleetTyped, HistoryTyped, pooling, channels, fleet, processes
  <1>4. CASE RequeueTask(th)
    <2> DEFINE t == Top(th).task
               frames == DoTask("add", t, Top(th).worker) \o Do("flushDue")
    <2>1. t \in Tasks /\ Top(th).worker \in Workers \cup {NoWorker} /\ ~Idle(th)
      BY <1>4, TopTask DEF RequeueTask
    <2>2. frames \in Seq(SoundFrame)
      BY <2>1, DoTaskSound, DoSound, ConcatInSeq
    <2>3. stack' \in [Threads -> Seq(SoundFrame)]
      BY <1>4, <2>1, <2>2, ContinueInSeq DEF RequeueTask, Sound
    <2>4. RecordsTyped'
      <3>1. OneMoreRetry(retries[t]) \in 0..MaxRetries + 1
        BY <2>1, OneMoreRetryTyped DEF RecordsTyped
      <3> QED
        BY <1>4, <2>1, <3>1 DEF RequeueTask, RecordsTyped
    <2>5. DoneHasRun'
      BY <1>4, <2>1 DEF RequeueTask, RecordsTyped, Sound, DoneHasRun
    <2> QED
      BY <1>4, <2>3, <2>4, <2>5, SoundPreserved DEF RequeueTask, PoolingTyped,
         FleetTyped, HistoryTyped, pooling, channels, fleet, processes
  <1>5. CASE DispatchFault(th)
    <2>1. DoTask("requeue", Top(th).task, Top(th).worker) \in Seq(SoundFrame) /\ ~Idle(th)
      BY <1>5, TopTask, DoTaskSound DEF DispatchFault
    <2>2. stack' \in [Threads -> Seq(SoundFrame)]
      BY <1>5, <2>1, ContinueInSeq DEF DispatchFault, Sound
    <2>3. spent' \in [Counted -> Nat]
      BY <1>5 DEF DispatchFault, Spend, HistoryTyped, Counted
    <2> QED
      BY <1>5, <2>2, <2>3, StatusKept, SoundPreserved DEF DispatchFault, RecordsTyped,
         PoolingTyped, FleetTyped, HistoryTyped, records, pooling, channels, fleet, processes
  <1> QED
    BY <1>1, <1>2, <1>3, <1>4, <1>5, FilterBatchInv, PlanNextInv, PublishInv DEF DispatchStep

-----------------------------------------------------------------------------
(* The handlers' steps. *)

LEMMA HandlerStepInv ==
    ASSUME IInv, NEW th \in Threads, HandlerStep(th)
    PROVE  IInv'
  <1> USE DEF IInv
  <1>1. CASE TaskSucceeded(th)
    <2>1. Top(th).task \in ran /\ Top(th).task \in Tasks /\ ~Idle(th)
      BY <1>1, TopTask DEF TaskSucceeded
    <2>2. stack' \in [Threads -> Seq(SoundFrame)]
      BY <1>1, <2>1, DoSound, ContinueInSeq DEF TaskSucceeded, Sound
    <2>3. DoneHasRun'
      BY <1>1, <2>1 DEF TaskSucceeded, RecordsTyped, Sound, DoneHasRun
    <2>4. RecordsTyped'
      BY <1>1, <2>1 DEF TaskSucceeded, RecordsTyped
    <2> QED
      BY <1>1, <2>2, <2>3, <2>4, SoundPreserved DEF TaskSucceeded, PoolingTyped,
         FleetTyped, HistoryTyped, pooling, channels, processes
  <1>2. CASE TaskFailed(th)
    <2> DEFINE t == Top(th).task
    <2>1. t \in Tasks /\ Top(th).worker \in Workers \cup {NoWorker} /\ ~Idle(th)
      BY <1>2, TopTask DEF TaskFailed
    <2>2. DoTask("requeue", t, Top(th).worker) \in Seq(SoundFrame)
            /\ Do("flushAll") \in Seq(SoundFrame)
      BY <2>1, DoTaskSound, DoSound
    <2>3. Continue(th, DoTask("requeue", t, Top(th).worker)) \/ Continue(th, Do("flushAll"))
      BY <1>2 DEF TaskFailed
    <2>4. stack' \in [Threads -> Seq(SoundFrame)]
      BY <2>1, <2>2, <2>3, ContinueInSeq DEF Sound
    <2>5. RecordsTyped'
      <3>1. OneMoreRetry(retries[t]) \in 0..MaxRetries + 1
        BY <2>1, OneMoreRetryTyped DEF RecordsTyped
      <3>2. /\ status' \in [Tasks -> {"NEW", "PENDING", "DISPATCHED", "FAILED", "DONE"}]
            /\ retries' \in [Tasks -> 0..MaxRetries + 1]
            /\ assigned' = assigned
        BY <1>2, <2>1, <3>1 DEF TaskFailed, RecordsTyped
      <3>3. backoff' \in [Tasks -> BOOLEAN] /\ deadLetters' \subseteq Tasks
        BY <1>2, <2>1 DEF TaskFailed, RecordsTyped
      <3> QED
        BY <3>2, <3>3 DEF RecordsTyped
    <2>6. DoneHasRun'
      BY <1>2, <2>1 DEF TaskFailed, RecordsTyped, Sound, DoneHasRun
    <2> QED
      BY <1>2, <2>4, <2>5, <2>6, SoundPreserved DEF TaskFailed, PoolingTyped,
         FleetTyped, HistoryTyped, pooling, channels, fleet, processes
  <1>3. CASE Reschedule(th)
    <2>1. Top(th).entries \subseteq Entry /\ ~Idle(th)
      BY <1>3, TopBatch DEF Reschedule
    <2> DEFINE rest(e) == DoBatch("lost", Top(th).entries \ {e})
    <2>2. PICK e \in Top(th).entries :
            \/ Continue(th, DoTask("requeue", e.task, e.worker) \o rest(e))
            \/ Continue(th, <<>> \o rest(e))
      BY <1>3 DEF Reschedule, Earliest
    <2>3. DoTask("requeue", e.task, e.worker) \in Seq(SoundFrame) /\ <<>> \in Seq(SoundFrame)
      BY <2>1, DoTaskSound DEF Entry
    <2>4. rest(e) \in Seq(SoundFrame)
      BY <2>1, DoBatchSound
    <2>5. stack' \in [Threads -> Seq(SoundFrame)]
      BY <2>1, <2>2, <2>3, <2>4, ConcatInSeq, ContinueInSeq DEF Sound
    <2> QED
      BY <1>3, <2>5, StatusKept, SoundPreserved DEF Reschedule, RecordsTyped, PoolingTyped,
         FleetTyped, HistoryTyped, records, pooling, channels, fleet, processes
  <1> QED
    BY <1>1, <1>2, <1>3 DEF HandlerStep

(* A success that arrives in an event is of a task that ran.               *)
LEMMA HandleTaskEventInv ==
    ASSUME IInv, HandleTaskEvent
    PROVE  IInv'
  <1> USE DEF IInv
  <1> DEFINE ev == Head(taskEvents)
             frames == DoTask("clear", ev.task, NoWorker) \o DoTask(ev.type, ev.task, ev.worker)
  <1>1. ev \in SoundEvent /\ taskEvents' \in Seq(SoundEvent)
    BY HeadTailInSeq DEF HandleTaskEvent, Sound
  <1>2. /\ ev.type \in {"succeeded", "failed"} /\ ev.task \in Tasks /\ ev.worker \in Workers
        /\ ev.type = "succeeded" => ev.task \in ran
    BY <1>1 DEF SoundEvent, TaskEvent
  <1>3. frames \in Seq(SoundFrame)
    <2>1. DoTask("clear", ev.task, NoWorker) \in Seq(SoundFrame)
      BY <1>2, DoTaskSound
    <2>2. DoTask(ev.type, ev.task, ev.worker) \in Seq(SoundFrame)
      BY <1>2, DoTaskSound
    <2> QED
      BY <2>1, <2>2, ConcatInSeq
  <1>4. stack' \in [Threads -> Seq(SoundFrame)]
    BY <1>3, CallInSeq DEF HandleTaskEvent, Sound, Threads
  <1>5. UNCHANGED <<records, pooling, workerEvents, posts, fleet, processes, ran, spent, dropped>>
    BY DEF HandleTaskEvent
  <1>6. UNCHANGED <<status, ran, posts, inbox, current, phase>>
    BY <1>5 DEF records, processes
  <1>7. SoundFrame' = SoundFrame /\ SoundEvent' = SoundEvent /\ Runnable' = Runnable
    BY <1>6 DEF SoundFrame, SoundEvent, Runnable, TasksOf
  <1>8. Sound'
    BY <1>1, <1>4, <1>6, <1>7, StatusKept DEF Sound
  <1> QED
    BY <1>5, <1>8 DEF RecordsTyped, PoolingTyped, FleetTyped, HistoryTyped, records, pooling,
       fleet, processes

LEMMA HandleUnregisterInv ==
    ASSUME IInv, HandleUnregister
    PROVE  IInv'
  <1> USE DEF IInv
  <1> DEFINE w == Head(workerEvents)
             lost == {t \in Tasks : status[t] = "DISPATCHED" /\ assigned[t] = w}
             entries == {[task |-> t, worker |-> w] : t \in lost}
  <1>1. w \in Workers /\ workerEvents' \in Seq(Workers)
    BY HeadTailInSeq DEF HandleUnregister, FleetTyped
  <1>2. entries \subseteq Entry
    BY <1>1 DEF Entry
  <1>3. DoBatch("lost", entries) \in Seq(SoundFrame)
    BY <1>2, DoBatchSound
  <1>4. stack' \in [Threads -> Seq(SoundFrame)]
    BY <1>3, CallInSeq DEF HandleUnregister, Sound, Threads
  <1> QED
    BY <1>1, <1>4, StatusKept, SoundPreserved DEF HandleUnregister, RecordsTyped, PoolingTyped,
       FleetTyped, HistoryTyped, records, pooling, fleet, processes

(* A stored result is of a task that ran.                                  *)
LEMMA IngestResultInv ==
    ASSUME IInv, NEW e \in posts, IngestResult(e)
    PROVE  IInv'
  <1> USE DEF IInv
  <1>1. e.task \in ran /\ e.task \in Tasks /\ e.worker \in Workers
    BY DEF Sound, HistoryTyped
  <1>2. RecordsTyped'
    BY <1>1 DEF IngestResult, RecordsTyped
  <1>3. DoneHasRun'
    BY <1>1 DEF IngestResult, RecordsTyped, Sound, DoneHasRun
  <1>4. UNCHANGED <<pooling, stack, taskEvents, workerEvents, fleet, up, inbox, current,
                    ran, spent, dropped>> /\ posts' \subseteq posts
    BY DEF IngestResult
  <1>5. \/ phase' = phase
        \/ phase' = [phase EXCEPT ![e.worker] = "answered"] /\ phase[e.worker] = "posting"
    BY DEF IngestResult
  <1>6. FleetTyped'
    BY <1>4, <1>5 DEF FleetTyped, fleet
  <1>7. SoundFrame' = SoundFrame /\ SoundEvent' = SoundEvent /\ Runnable' = Runnable /\ ran' = ran
    BY <1>4 DEF SoundFrame, SoundEvent, Runnable, TasksOf
  <1>8. /\ \A w \in Workers : phase'[w] # "ready" => current'[w] # 0
        /\ \A w \in Workers : phase'[w] \in {"posting", "answered"} => current'[w] \in ran
    BY <1>1, <1>4, <1>5 DEF Sound, FleetTyped
  <1>9. Sound'
    <2>1. posts' \subseteq [task : ran, worker : Workers]
      BY <1>4 DEF Sound
    <2> QED
      BY <1>3, <1>4, <1>7, <1>8, <2>1 DEF Sound
  <1> QED
    BY <1>2, <1>4, <1>6, <1>9 DEF PoolingTyped, HistoryTyped, pooling

LEMMA EnvironmentInv ==
    ASSUME IInv, \/ \E tm \in Timers : TimerExpires(tm)
                 \/ \E t \in Tasks : Submit(t) \/ RetryDue(t)
    PROVE  IInv'
  <1> USE DEF IInv
  <1>1. ASSUME NEW tm \in Timers, TimerExpires(tm)
        PROVE  IInv'
    <2>1. stack' \in [Threads -> Seq(SoundFrame)]
      BY <1>1, DoSound, CallInSeq DEF TimerExpires, Sound, Threads
    <2> QED
      BY <1>1, <2>1, StatusKept, SoundPreserved DEF TimerExpires, RecordsTyped, PoolingTyped,
         FleetTyped, HistoryTyped, records, channels, fleet, processes
  <1>2. ASSUME NEW t \in Tasks, Submit(t)
        PROVE  IInv'
    <2> DEFINE last == IF t = NTasks THEN Do("flushDue") ELSE <<>>
    <2>1. DoTask("add", t, NoWorker) \in Seq(SoundFrame) /\ Do("flushDue") \in Seq(SoundFrame)
            /\ last \in Seq(SoundFrame)
      BY DoTaskSound, DoSound, EmptySeq
    <2>2. DoTask("add", t, NoWorker) \o Do("flushDue") \o last \in Seq(SoundFrame)
      BY <2>1, ConcatInSeq
    <2>3. stack' \in [Threads -> Seq(SoundFrame)]
      BY <1>2, <2>2, CallInSeq DEF Submit, Sound, Threads
    <2>4. RecordsTyped' /\ DoneHasRun'
      BY <1>2 DEF Submit, RecordsTyped, Sound, DoneHasRun
    <2> QED
      BY <1>2, <2>3, <2>4, SoundPreserved DEF Submit, PoolingTyped, FleetTyped,
         HistoryTyped, pooling, channels, fleet, processes
  <1>3. ASSUME NEW t \in Tasks, RetryDue(t)
        PROVE  IInv'
    <2>1. RecordsTyped' /\ stack' \in [Threads -> Seq(SoundFrame)]
      BY <1>3 DEF RetryDue, RecordsTyped, Sound
    <2> QED
      BY <1>3, <2>1, StatusKept, SoundPreserved DEF RetryDue, PoolingTyped, FleetTyped,
         HistoryTyped, pooling, channels, fleet, processes
  <1> QED
    BY <1>1, <1>2, <1>3

-----------------------------------------------------------------------------
(* The workers' steps. *)

(* What a worker's step must show when nothing new has run.                *)
LEMMA WorkerSound ==
    ASSUME Sound, UNCHANGED <<status, ran, stack>>,
           taskEvents' \in Seq(SoundEvent), posts' = posts,
           inbox' \in [Workers -> Seq(Runnable)], current' \in [Workers -> Runnable \cup {0}],
           \A w \in Workers : phase'[w] # "ready" => current'[w] # 0,
           \A w \in Workers : phase'[w] \in {"posting", "answered"} => current'[w] \in ran
    PROVE  Sound'
  <1>1. SoundFrame' = SoundFrame /\ SoundEvent' = SoundEvent /\ Runnable' = Runnable
    BY DEF SoundFrame, SoundEvent, Runnable, TasksOf
  <1>2. DoneHasRun'
    BY StatusKept
  <1> QED
    BY <1>1, <1>2 DEF Sound

LEMMA BusyHasTask ==
    ASSUME IInv, NEW w \in Workers, phase[w] # "ready"
    PROVE  current[w] \in Tasks /\ current[w] \in Runnable
  BY DEF IInv, Sound, Runnable

LEMMA ReceiveInv ==
    ASSUME IInv, NEW w \in Workers, Receive(w)
    PROVE  IInv'
  <1> USE DEF IInv
  <1>1. inbox[w] \in Seq(Runnable) /\ inbox[w] # <<>>
    BY DEF Receive, Sound
  <1>2. Head(inbox[w]) \in Runnable /\ Tail(inbox[w]) \in Seq(Runnable)
    BY <1>1, HeadTailInSeq
  <1>3. Head(inbox[w]) # 0
    BY <1>2, ConstantsAssumption DEF Runnable, Tasks
  <1>4. inbox' \in [Workers -> Seq(Runnable)] /\ current' \in [Workers -> Runnable \cup {0}]
    BY <1>2 DEF Receive, Sound
  <1>5. /\ \A v \in Workers : phase'[v] # "ready" => current'[v] # 0
        /\ \A v \in Workers : phase'[v] \in {"posting", "answered"} => current'[v] \in ran
    BY <1>3 DEF Receive, Sound, FleetTyped
  <1>6. FleetTyped'
    BY DEF Receive, FleetTyped, channels
  <1>7. Sound'
    BY <1>4, <1>5, WorkerSound DEF Receive, Sound, records, channels
  <1> QED
    BY <1>6, <1>7 DEF Receive, RecordsTyped, PoolingTyped, HistoryTyped, records, pooling

(* An execution that ended is reported: a success only after it has run.   *)
LEMMA ReportInv ==
    ASSUME IInv, NEW w \in Workers, NEW type \in {"succeeded", "failed"}, Report(w, type),
           phase[w] # "ready", type = "succeeded" => current[w] \in ran,
           UNCHANGED <<records, pooling, stack, workerEvents, posts, fleet, up, inbox, current, ran>>,
           HistoryTyped'
    PROVE  IInv'
  <1> USE DEF IInv
  <1>1. [type |-> type, task |-> current[w], worker |-> w] \in SoundEvent
    BY BusyHasTask DEF SoundEvent, TaskEvent
  <1>2. taskEvents' \in Seq(SoundEvent)
    BY <1>1 DEF Report, Sound
  <1>3. FleetTyped'
    BY DEF Report, FleetTyped, fleet
  <1>4. /\ \A v \in Workers : phase'[v] # "ready" => current'[v] # 0
        /\ \A v \in Workers : phase'[v] \in {"posting", "answered"} => current'[v] \in ran
    BY DEF Report, Sound, FleetTyped
  <1>5. Sound'
    BY <1>2, <1>4, WorkerSound DEF Sound, records
  <1> QED
    BY <1>3, <1>5 DEF RecordsTyped, PoolingTyped, records, pooling

(* The only step that makes a task run: all evidence of earlier runs keeps. *)
LEMMA ExecutorReturnsInv ==
    ASSUME IInv, NEW w \in Workers, ExecutorReturns(w)
    PROVE  IInv'
  <1> USE DEF IInv
  <1> DEFINE event == [type |-> "succeeded", task |-> current[w], worker |-> w]
  <1>1. current[w] \in Tasks /\ current[w] \in Runnable
    BY BusyHasTask DEF ExecutorReturns
  <1>2. UNCHANGED <<records, pooling, stack, workerEvents, fleet, up, inbox, current,
                    spent, dropped>> /\ ran' = ran \cup {current[w]}
    BY DEF ExecutorReturns
  <1>3. Runnable \subseteq Runnable'
    BY <1>2 DEF Runnable
  <1>4. SoundFrame \subseteq SoundFrame' /\ SoundEvent \subseteq SoundEvent'
    BY <1>2, <1>3 DEF SoundFrame, SoundEvent
  <1>5. stack' \in [Threads -> Seq(SoundFrame')] /\ inbox' \in [Workers -> Seq(Runnable')]
          /\ current' \in [Workers -> Runnable' \cup {0}]
    <2>1. stack \in [Threads -> Seq(SoundFrame')]
      <3>1. \A th \in Threads : stack[th] \in Seq(SoundFrame')
        BY <1>4, SeqMonotone DEF Sound
      <3> QED
        BY <3>1 DEF Sound
    <2>2. inbox \in [Workers -> Seq(Runnable')]
      <3>1. \A v \in Workers : inbox[v] \in Seq(Runnable')
        BY <1>3, SeqMonotone DEF Sound
      <3> QED
        BY <3>1 DEF Sound
    <2>3. current \in [Workers -> Runnable' \cup {0}]
      BY <1>3 DEF Sound
    <2> QED
      BY <1>2, <2>1, <2>2, <2>3
  <1>6. taskEvents' \in Seq(SoundEvent')
    <2>1. event \in SoundEvent'
      BY <1>1, <1>2 DEF SoundEvent, TaskEvent
    <2>2. taskEvents \in Seq(SoundEvent')
      BY <1>4, SeqMonotone DEF Sound
    <2>3. taskEvents' = taskEvents \/ taskEvents' = Append(taskEvents, event)
      BY DEF ExecutorReturns, Report
    <2> QED
      BY <2>1, <2>2, <2>3
  <1>7. posts' \subseteq [task : ran', worker : Workers]
    <2>1. posts' = posts \/ posts' = posts \cup {[task |-> current[w], worker |-> w]}
      BY DEF ExecutorReturns
    <2> QED
      BY <1>2, <2>1 DEF Sound
  <1>8. phase' = [phase EXCEPT ![w] = "posting"] \/ phase' = [phase EXCEPT ![w] = "reported"]
    BY DEF ExecutorReturns, Report
  <1>9. /\ \A v \in Workers : phase'[v] # "ready" => current'[v] # 0
        /\ \A v \in Workers : phase'[v] \in {"posting", "answered"} => current'[v] \in ran'
    <2>1. phase[w] # "ready"
      BY DEF ExecutorReturns
    <2> QED
      BY <1>2, <1>8, <2>1 DEF Sound, FleetTyped
  <1>10. DoneHasRun'
    BY <1>2 DEF Sound, DoneHasRun, records
  <1>11. Sound'
    BY <1>5, <1>6, <1>7, <1>9, <1>10 DEF Sound
  <1>12. FleetTyped'
    BY <1>2, <1>8 DEF FleetTyped, fleet
  <1>13. HistoryTyped'
    BY <1>1, <1>2 DEF HistoryTyped
  <1> QED
    BY <1>2, <1>11, <1>12, <1>13 DEF RecordsTyped, PoolingTyped, records, pooling

(* A worker that ends loses its backlog and its task.                      *)
LEMMA StopsInv ==
    ASSUME IInv, NEW w \in Workers, Stops(w),
           UNCHANGED <<records, pooling, stack, taskEvents, posts, ran, dropped>>,
           spent' \in [Counted -> Nat],
           registered' \subseteq Workers, redisStatus' = redisStatus, workerEvents' \in Seq(Workers)
    PROVE  IInv'
  <1> USE DEF IInv
  <1>1. inbox' \in [Workers -> Seq(Runnable)] /\ current' \in [Workers -> Runnable \cup {0}]
    BY EmptySeq DEF Stops, Sound
  <1>2. /\ \A v \in Workers : phase'[v] # "ready" => current'[v] # 0
        /\ \A v \in Workers : phase'[v] \in {"posting", "answered"} => current'[v] \in ran
    BY DEF Stops, Sound, FleetTyped
  <1>3. Sound'
    BY <1>1, <1>2, WorkerSound DEF Sound, records
  <1>4. FleetTyped'
    BY DEF Stops, FleetTyped
  <1> QED
    BY <1>3, <1>4 DEF RecordsTyped, PoolingTyped, HistoryTyped, records, pooling

LEMMA SpendTyped ==
    ASSUME HistoryTyped,
           NEW what \in Counted,
           NEW bound, Spend(what, bound)
    PROVE  spent' \in [Counted -> Nat]
  BY DEF HistoryTyped, Spend, Counted

LEMMA WorkerStepInv ==
    ASSUME IInv, NEW w \in Workers, WorkerStep(w)
    PROVE  IInv'
  <1> USE DEF IInv
  <1>1. CASE ExecutorRaises(w)
    <2>1. HistoryTyped'
      BY <1>1 DEF ExecutorRaises, HistoryTyped
    <2> QED
      BY <1>1, <2>1, ReportInv DEF ExecutorRaises
  <1>2. CASE ResultAccepted(w)
    <2>1. HistoryTyped' /\ current[w] \in ran
      BY <1>2 DEF ResultAccepted, HistoryTyped, Sound
    <2> QED
      BY <1>2, <2>1, ReportInv DEF ResultAccepted
  <1>3. CASE ReportIdle(w)
    <2>1. current' \in [Workers -> Runnable \cup {0}]
      BY <1>3 DEF ReportIdle, Sound
    <2>2. /\ \A v \in Workers : phase'[v] # "ready" => current'[v] # 0
          /\ \A v \in Workers : phase'[v] \in {"posting", "answered"} => current'[v] \in ran
      BY <1>3 DEF ReportIdle, Sound, FleetTyped
    <2>3. Sound'
      BY <1>3, <2>1, <2>2, WorkerSound DEF ReportIdle, Sound, records, channels
    <2>4. FleetTyped'
      BY <1>3 DEF ReportIdle, FleetTyped, channels
    <2> QED
      BY <1>3, <2>3, <2>4 DEF ReportIdle, RecordsTyped, PoolingTyped, HistoryTyped, records,
         pooling
  <1> QED
    BY <1>1, <1>2, <1>3, ReceiveInv, ExecutorReturnsInv DEF WorkerStep

LEMMA WorkerTroubleInv ==
    ASSUME IInv, NEW w \in Workers, WorkerTrouble(w)
    PROVE  IInv'
  <1> USE DEF IInv
  <1>1. CASE ResultTimesOut(w)
    <2>1. HistoryTyped'
      BY <1>1, SpendTyped DEF ResultTimesOut, HistoryTyped, Counted
    <2> QED
      BY <1>1, <2>1, ReportInv DEF ResultTimesOut
  <1>2. CASE Shutdown(w)
    <2>1. workerEvents' \in Seq(Workers) /\ registered' \subseteq Workers
      BY <1>2 DEF Shutdown, FleetTyped
    <2> QED
      BY <1>2, <2>1, StopsInv, SpendTyped DEF Shutdown, Counted
  <1>3. CASE Crash(w)
    <2>1. workerEvents' \in Seq(Workers) /\ registered' \subseteq Workers
      BY <1>3 DEF Crash, FleetTyped, channels, fleet
    <2> QED
      BY <1>3, <2>1, StopsInv, SpendTyped DEF Crash, Counted, channels, fleet
  <1>4. CASE HeartbeatExpires(w)
    <2>1. Sound'
      BY <1>4, WorkerSound DEF HeartbeatExpires, Sound, records, channels, processes
    <2> QED
      BY <1>4, <2>1 DEF HeartbeatExpires, RecordsTyped, PoolingTyped, FleetTyped, HistoryTyped,
         records, pooling, channels, processes
  <1>5. CASE Join(w)
    <2>1. Sound'
      BY <1>5, WorkerSound DEF Join, Sound, records, channels
    <2>2. FleetTyped' /\ HistoryTyped'
      BY <1>5, SpendTyped DEF Join, FleetTyped, HistoryTyped, Counted, channels
    <2> QED
      BY <1>5, <2>1, <2>2 DEF Join, RecordsTyped, PoolingTyped, records, pooling
  <1> QED
    BY <1>1, <1>2, <1>3, <1>4, <1>5 DEF WorkerTrouble

-----------------------------------------------------------------------------
(* The failing calls. *)

(* The work that an exception leaves to a thread is the end of its stack.  *)
LEMMA CaughtIs ==
    ASSUME NEW S, NEW s \in Seq(S), NEW n \in 1..Len(s) + 1
    PROVE  /\ SubSeq(s, n, Len(s)) \in Seq(S)
           /\ DOMAIN SubSeq(s, n, Len(s)) = 1..Len(s) + 1 - n
           /\ \A i \in 1..Len(s) + 1 - n : SubSeq(s, n, Len(s))[i] = s[i + n - 1]
  OBVIOUS

LEMMA StackAfterFault ==
    ASSUME Sound, NEW th \in Threads, ~Idle(th), NEW frames \in Seq(SoundFrame),
           NEW n \in 1..Len(stack[th]),
           stack' = [stack EXCEPT ![th] = frames \o SubSeq(Tail(stack[th]), n, Len(Tail(stack[th])))]
    PROVE  stack' \in [Threads -> Seq(SoundFrame)]
  <1>1. stack[th] \in Seq(SoundFrame) /\ stack[th] # <<>>
    BY DEF Sound, Idle
  <1>2. Tail(stack[th]) \in Seq(SoundFrame) /\ Len(Tail(stack[th])) = Len(stack[th]) - 1
          /\ n \in 1..Len(Tail(stack[th])) + 1
    BY <1>1
  <1>3. SubSeq(Tail(stack[th]), n, Len(Tail(stack[th]))) \in Seq(SoundFrame)
    BY <1>2, CaughtIs
  <1>4. frames \o SubSeq(Tail(stack[th]), n, Len(Tail(stack[th]))) \in Seq(SoundFrame)
    BY <1>3, ConcatInSeq
  <1> QED
    BY <1>4 DEF Sound

LEMMA PoolFaultInv ==
    ASSUME IInv, NEW th \in Threads, PoolFault(th)
    PROVE  IInv'
  <1> USE DEF IInv
  <1>1. HistoryTyped /\ Spend("poolFaults", MaxPoolFaults)
    BY DEF PoolFault, AddFails, PutBackFails, PlanningFails, LookupFails
  <1>2. spent' \in [Counted -> Nat]
    BY <1>1, SpendTyped DEF Counted
  <1>3. UNCHANGED <<records, armed, flushTimer, taskEvents, posts, fleet, processes, ran>>
    BY DEF PoolFault, AddFails, PutBackFails, PlanningFails, LookupFails, pooling, channels
  <1> SUFFICES /\ stack' \in [Threads -> Seq(SoundFrame)] /\ pool' \subseteq Entry
               /\ dropped' \subseteq Tasks /\ workerEvents' \in Seq(Workers)
    BY <1>2, <1>3, StatusKept, SoundPreserved DEF RecordsTyped, PoolingTyped, FleetTyped,
       HistoryTyped, records, fleet, processes
  <1>4. CASE AddFails(th)
    <2> DEFINE frames == DoBatch("batch", DueBatch(pool)) \o Do("ensureTimer")
    <2>1. Top(th).task \in Tasks /\ ~Idle(th)
      BY <1>4, TopTask DEF AddFails
    <2>2. frames \in Seq(SoundFrame)
      BY DueBatchInPool, DoBatchSound, DoSound, ConcatInSeq DEF PoolingTyped
    <2>3. stack' \in [Threads -> Seq(SoundFrame)]
      BY <1>4, <2>1, <2>2, ContinueInSeq DEF AddFails, Sound
    <2> QED
      BY <1>4, <2>1, <2>3 DEF AddFails, PoolingTyped, HistoryTyped, FleetTyped, channels
  <1>5. CASE PutBackFails(th)
    <2>1. Top(th).entries \subseteq Entry /\ ~Idle(th)
      BY <1>5, TopBatch DEF PutBackFails
    <2>2. PICK n \in 0..Cardinality(Top(th).entries) - 1 :
            /\ pool' = Put(pool, Earliest(Top(th).entries, n))
            /\ dropped' = (dropped \cup TasksOf(Top(th).entries)) \ TasksOf(pool')
      BY <1>5 DEF PutBackFails
    <2>3. Earliest(Top(th).entries, n) \subseteq Entry
      BY <2>1 DEF Earliest
    <2>4. pool' \subseteq Entry
      BY <2>2, <2>3, PutTyped DEF PoolingTyped
    <2>5. dropped' \subseteq Tasks
      BY <2>1, <2>2 DEF HistoryTyped, TasksOf, Entry
    <2>6. stack' \in [Threads -> Seq(SoundFrame)]
      BY <1>5, <2>1, EmptySeq, ContinueInSeq DEF PutBackFails, Sound
    <2> QED
      BY <1>5, <2>4, <2>5, <2>6 DEF PutBackFails, FleetTyped, channels
  <1>6. CASE PlanningFails(th)
    <2> DEFINE ready == {e \in Top(th).entries : Ready(e.task)}
    <2>1. Top(th).entries \subseteq Entry /\ ~Idle(th)
      BY <1>6, TopBatch DEF PlanningFails
    <2>2. PICK n \in 1..Len(stack[th]) :
            /\ stack' = [stack EXCEPT ![th] = DoBatch("defer", Top(th).entries \ ready)
                           \o SubSeq(Tail(stack[th]), n, Len(Tail(stack[th])))]
            /\ dropped' \subseteq dropped \cup TasksOf(ready)
                   \cup (UNION {FrameTasks(Tail(stack[th])[i]) : i \in 1..n - 1}) \cup Tasks
      BY <1>6 DEF PlanningFails
    <2>3. DoBatch("defer", Top(th).entries \ ready) \in Seq(SoundFrame)
      BY <2>1, DoBatchSound
    <2>4. stack' \in [Threads -> Seq(SoundFrame)]
      BY <2>1, <2>2, <2>3, StackAfterFault
    <2>5. dropped' \subseteq Tasks
      <3>1. TasksOf(ready) \subseteq Tasks
        BY <2>1 DEF TasksOf, Entry
      <3>2. \A f \in SoundFrame : FrameTasks(f) \subseteq Tasks
        BY DEF SoundFrame, FrameTasks, TaskFrame, BatchFrame, TasksOf, Entry
      <3>3. \A i \in 1..n - 1 : Tail(stack[th])[i] \in SoundFrame
        <4>1. stack[th] \in Seq(SoundFrame) /\ stack[th] # <<>>
          BY <2>1 DEF Sound, Idle
        <4> QED
          BY <4>1
      <3>4. UNION {FrameTasks(Tail(stack[th])[i]) : i \in 1..n - 1} \subseteq Tasks
        BY <3>2, <3>3
      <3> DEFINE cut == UNION {FrameTasks(Tail(stack[th])[i]) : i \in 1..n - 1}
      <3>5. dropped' \subseteq dropped \cup TasksOf(ready) \cup cut \cup Tasks
        BY <2>2
      <3> HIDE DEF cut, ready
      <3> QED
        BY <3>1, <3>4, <3>5 DEF HistoryTyped, cut
    <2>6. workerEvents' \in Seq(Workers) /\ pool' = pool
      BY <1>6, EmptySeq DEF PlanningFails, FleetTyped, pooling
    <2> QED
      BY <2>4, <2>5, <2>6 DEF PoolingTyped
  <1>7. CASE LookupFails(th)
    <2>1. /\ Top(th).entries \subseteq Entry /\ ~Idle(th)
          /\ TasksOf(Top(th).entries) \subseteq Runnable
      BY <1>7, TopBatch DEF LookupFails
    <2>2. PICK e \in Top(th).entries :
            /\ Continue(th, DoBatch("plans", Top(th).entries \ {e}))
            /\ dropped' = dropped \cup {e.task}
      BY <1>7 DEF LookupFails, Earliest
    <2>3. DoBatch("plans", Top(th).entries \ {e}) \in Seq(SoundFrame)
      BY <2>1, DoBatchSound DEF TasksOf
    <2>4. stack' \in [Threads -> Seq(SoundFrame)]
      BY <2>1, <2>2, <2>3, ContinueInSeq DEF Sound
    <2> QED
      BY <1>7, <2>1, <2>2, <2>4 DEF LookupFails, PoolingTyped, HistoryTyped, FleetTyped, Entry,
         pooling, channels
  <1> QED
    BY <1>4, <1>5, <1>6, <1>7 DEF PoolFault

-----------------------------------------------------------------------------
(* The invariant of the specification. *)

LEMMA InitInv == Init => IInv
  <1> SUFFICES ASSUME Init PROVE IInv
    OBVIOUS
  <1>1. RecordsTyped /\ PoolingTyped /\ FleetTyped /\ HistoryTyped
    BY ConstantsAssumption DEF Init, RecordsTyped, PoolingTyped, FleetTyped, HistoryTyped, Counted
  <1>2. Sound
    BY EmptySeq DEF Init, Sound, DoneHasRun
  <1> QED
    BY <1>1, <1>2 DEF IInv

LEMMA StepInv == IInv /\ [Next]_vars => IInv'
  <1> SUFFICES ASSUME IInv, [Next]_vars PROVE IInv'
    OBVIOUS
  <1>1. CASE UNCHANGED vars
    <2>1. Sound'
      BY <1>1, WorkerSound DEF IInv, Sound, vars, records, channels, processes
    <2> QED
      BY <1>1, <2>1 DEF IInv, RecordsTyped, PoolingTyped, FleetTyped, HistoryTyped, vars, records,
         pooling, channels, fleet, processes
  <1>2. CASE \E th \in Threads : ThreadStep(th) \/ DispatchFault(th)
    BY <1>2, PoolStepInv, DispatchStepInv, HandlerStepInv DEF ThreadStep
  <1>8. CASE \E th \in Threads : PoolFault(th)
    BY <1>8, PoolFaultInv
  <1>3. CASE \/ \E tm \in Timers : TimerExpires(tm)
             \/ \E t \in Tasks : Submit(t) \/ RetryDue(t)
    BY <1>3, EnvironmentInv
  <1>4. CASE \E e \in posts : IngestResult(e)
    BY <1>4, IngestResultInv
  <1>5. CASE HandleTaskEvent
    BY <1>5, HandleTaskEventInv
  <1>6. CASE HandleUnregister
    BY <1>6, HandleUnregisterInv
  <1>7. CASE \E w \in Workers : WorkerStep(w) \/ WorkerTrouble(w)
    BY <1>7, WorkerStepInv, WorkerTroubleInv
  <1> QED
    BY <1>1, <1>2, <1>3, <1>4, <1>5, <1>6, <1>7, <1>8 DEF Next

THEOREM Invariance == Spec => []IInv
  BY InitInv, StepInv, PTL DEF Spec

LEMMA InvTyped == IInv => TypeOK
  <1> SUFFICES ASSUME IInv PROVE TypeOK
    OBVIOUS
  <1> DEFINE Frame == TaskFrame \cup BatchFrame \cup PoolFrame
  <1>1. stack \in [Threads -> Seq(Frame)]
    <2>1. SoundFrame \subseteq Frame
      BY DEF SoundFrame
    <2>2. \A th \in Threads : stack[th] \in Seq(Frame)
      BY <2>1, SeqMonotone DEF IInv, Sound
    <2> QED
      BY <2>2 DEF IInv, Sound
  <1>2. taskEvents \in Seq(TaskEvent)
    BY SeqMonotone DEF IInv, Sound, SoundEvent
  <1>3. posts \subseteq [task : Tasks, worker : Workers]
    BY DEF IInv, HistoryTyped, Sound
  <1>4. inbox \in [Workers -> Seq(Tasks)]
    <2>1. \A w \in Workers : inbox[w] \in Seq(Tasks)
      BY SeqMonotone DEF IInv, Sound, Runnable
    <2> QED
      BY <2>1 DEF IInv, Sound
  <1>5. current \in [Workers -> 0..NTasks]
    BY ConstantsAssumption DEF IInv, Sound, Runnable, Tasks
  <1> QED
    BY <1>1, <1>2, <1>3, <1>4, <1>5 DEF IInv, RecordsTyped, PoolingTyped, FleetTyped,
       HistoryTyped, Counted, TypeOK

LEMMA HandsTyped ==
    ASSUME IInv, NEW w \in Workers
    PROVE  /\ inbox[w] \in Seq(Runnable)
           /\ InHands(w) \subseteq Runnable
  <1>1. inbox[w] \in Seq(Runnable) /\ current[w] \in Runnable \cup {0}
    BY DEF IInv, Sound
  <1>2. \A i \in DOMAIN inbox[w] : inbox[w][i] \in Runnable
    BY <1>1
  <1>3. 0 \notin Tasks
    BY ConstantsAssumption DEF Tasks
  <1> QED
    BY <1>1, <1>2, <1>3 DEF InHands

LEMMA InvDependencies == IInv => DependenciesRan
  BY HandsTyped DEF DependenciesRan, Runnable

(* The state of the dispatch path is always well typed.                    *)
THEOREM TypeCorrect == Spec => []TypeOK
  BY Invariance, InvTyped, PTL

(* No worker ever holds a task one of whose dependencies has not run,      *)
(* whatever tasks fail and whatever is repeated, late or lost.             *)
THEOREM DependenciesRespected == Spec => []DependenciesRan
  BY Invariance, InvDependencies, PTL

(* A task is only recorded as DONE after an executor has finished it.      *)
THEOREM DoneIsTrue == Spec => []DoneHasRun
  <1>1. IInv => DoneHasRun
    BY DEF IInv, Sound
  <1> QED
    BY <1>1, Invariance, PTL

(* What threads, events, posted results, messages and workers still carry  *)
(* is sound at every moment: a worker only has tasks whose dependencies    *)
(* have run, and a result or report of success only those it has executed, *)
(* whatever is late, repeated, lost or left over from before a restart.    *)
THEOREM Soundness == Spec => []Sound
  <1>1. IInv => Sound
    BY DEF IInv
  <1> QED
    BY <1>1, Invariance, PTL

-----------------------------------------------------------------------------
(* The dispatch path implements the workflow contract. *)

Given == UNION {InHands(w) : w \in Workers}

(* A step that gives no worker a task it did not have takes tasks back.    *)
LEMMA ShrinkTakesBack ==
    ASSUME UNCHANGED ran, \A w \in Workers : InHands(w)' \subseteq InHands(w)
    PROVE  Contract!TakeBack
  BY DEF Contract!TakeBack

LEMMA SameHands ==
    ASSUME UNCHANGED <<inbox, current>>
    PROVE  \A w \in Workers : InHands(w)' = InHands(w)
  BY DEF InHands

LEMMA PublishGives ==
    ASSUME IInv, NEW th \in Threads, Publish(th)
    PROVE  Contract!Next
  <1>1. PICK t \in Runnable, w \in Workers \cup {NoWorker} :
          t = Top(th).task /\ w = Top(th).worker
    BY TopTask DEF Publish, IInv
  <1>t. t \in Tasks
    BY DEF Runnable
  <1>2. UNCHANGED <<ran, current>>
    BY DEF Publish
  <1>3. CASE inbox' = inbox
    BY <1>2, <1>3, SameHands, ShrinkTakesBack DEF Contract!Next
  <1>4. CASE w \in Workers /\ inbox' = [inbox EXCEPT ![w] = Append(@, t)]
    <2>1. inbox \in [Workers -> Seq(Runnable)]
      BY DEF IInv, Sound
    <2>2. \A v \in Workers \ {w} : InHands(v)' = InHands(v)
      BY <1>2, <1>4, <2>1 DEF InHands
    <2>3. InHands(w)' = InHands(w) \cup {t}
      <3>1. inbox'[w] = Append(inbox[w], t)
        BY <1>4, <2>1
      <3>2. {inbox'[w][i] : i \in DOMAIN inbox'[w]}
              = {inbox[w][i] : i \in DOMAIN inbox[w]} \cup {t}
        BY <2>1, <3>1, AppendRange
      <3> QED
        BY <1>2, <1>t, <3>2 DEF InHands
    <2>4. Given' = Given \cup {t}
      BY <1>4, <2>2, <2>3 DEF Given
    <2>5. Contract!Give(t)
      BY <1>2, <2>4 DEF Contract!Give, Given, Runnable
    <2> QED
      BY <1>t, <2>5 DEF Contract!Next
  <1> QED
    BY <1>1, <1>3, <1>4 DEF Publish, IInv, FleetTyped

LEMMA ReturnRuns ==
    ASSUME IInv, NEW w \in Workers, ExecutorReturns(w)
    PROVE  Contract!Next
  <1>1. current[w] \in Tasks
    BY BusyHasTask DEF ExecutorReturns
  <1>2. current[w] \in Given /\ ran' = ran \cup {current[w]}
    BY <1>1 DEF ExecutorReturns, Given, InHands
  <1>3. Given' = Given
    BY SameHands DEF ExecutorReturns, Given
  <1> QED
    BY <1>1, <1>2, <1>3 DEF Contract!Next, Contract!Run, Given

(* Every other step of a worker keeps or shrinks what is in its hands.     *)
LEMMA WorkerTakesBack ==
    ASSUME IInv, NEW w \in Workers, Receive(w) \/ ReportIdle(w) \/ Stops(w), UNCHANGED ran
    PROVE  Contract!Next
  <1>1. \A v \in Workers \ {w} : inbox'[v] = inbox[v] /\ current'[v] = current[v]
    BY DEF Receive, ReportIdle, Stops, IInv, Sound
  <1>2. \A v \in Workers \ {w} : InHands(v)' = InHands(v)
    BY <1>1 DEF InHands
  <1>3. InHands(w)' \subseteq InHands(w)
    <2>1. CASE Receive(w)
      <3>1. inbox[w] \in Seq(Runnable) /\ inbox[w] # <<>>
        BY <2>1, HandsTyped DEF Receive
      <3>2. inbox'[w] = Tail(inbox[w]) /\ current'[w] = Head(inbox[w])
        BY <2>1 DEF Receive, IInv, Sound
      <3>3. /\ {Tail(inbox[w])[i] : i \in DOMAIN Tail(inbox[w])}
                 \subseteq {inbox[w][i] : i \in DOMAIN inbox[w]}
            /\ Head(inbox[w]) \in {inbox[w][i] : i \in DOMAIN inbox[w]}
        BY <3>1, TailRange
      <3> QED
        BY <3>2, <3>3 DEF InHands
    <2>2. CASE ReportIdle(w)
      <3>1. inbox'[w] = inbox[w] /\ current'[w] = 0
        BY <2>2 DEF ReportIdle, IInv, Sound
      <3> QED
        BY <3>1, ConstantsAssumption DEF InHands, Tasks
    <2>3. CASE Stops(w)
      <3>1. inbox'[w] = <<>> /\ current'[w] = 0
        BY <2>3 DEF Stops, IInv, Sound
      <3> QED
        BY <3>1, ConstantsAssumption DEF InHands, Tasks
    <2> QED
      BY <2>1, <2>2, <2>3
  <1> QED
    BY <1>2, <1>3, ShrinkTakesBack DEF Contract!Next

LEMMA OthersTakeBack ==
    ASSUME UNCHANGED <<inbox, current, ran>>
    PROVE  Contract!Next
  BY SameHands, ShrinkTakesBack DEF Contract!Next

LEMMA StepImplements == IInv /\ [Next]_vars => [Contract!Next]_<<Given, ran>>
  <1> SUFFICES ASSUME IInv, [Next]_vars PROVE Contract!Next
    OBVIOUS
  <1>1. CASE UNCHANGED vars
    BY <1>1, OthersTakeBack DEF vars, processes
  <1>2. CASE \E th \in Threads : ThreadStep(th) \/ DispatchFault(th)
    <2>1. PICK th \in Threads : ThreadStep(th) \/ DispatchFault(th)
      BY <1>2
    <2>2. CASE Publish(th)
      BY <2>2, PublishGives
    <2>3. CASE PoolStep(th)
      BY <2>3, OthersTakeBack DEF PoolStep, AddToPool, FlushDue, FlushAll, ClearFromPool,
         EnsureTimer, CancelTimer, processes
    <2>4. CASE HandlerStep(th)
      BY <2>4, OthersTakeBack DEF HandlerStep, TaskSucceeded, TaskFailed, Reschedule, processes
    <2>5. CASE (DispatchStep(th) \/ DispatchFault(th)) /\ ~Publish(th)
      BY <2>5, OthersTakeBack DEF DispatchStep, FilterBatch, PutBackDeferred, PlanNext,
         MarkWorkerRunning, CommitDispatch, RequeueTask, DispatchFault, processes
    <2> QED
      BY <2>1, <2>2, <2>3, <2>4, <2>5 DEF ThreadStep
  <1>3. CASE \/ \E tm \in Timers : TimerExpires(tm)
             \/ \E t \in Tasks : Submit(t) \/ RetryDue(t)
             \/ \E e \in posts : IngestResult(e)
             \/ HandleTaskEvent
             \/ HandleUnregister
    BY <1>3, OthersTakeBack DEF TimerExpires, Submit, RetryDue, IngestResult, HandleTaskEvent,
       HandleUnregister, processes
  <1>4. CASE \E w \in Workers : WorkerStep(w) \/ WorkerTrouble(w)
    <2>1. PICK w \in Workers : WorkerStep(w) \/ WorkerTrouble(w)
      BY <1>4
    <2>2. CASE ExecutorReturns(w)
      BY <2>2, ReturnRuns
    <2>3. CASE Receive(w) \/ ReportIdle(w)
      BY <2>3, WorkerTakesBack DEF Receive, ReportIdle
    <2>4. CASE Shutdown(w) \/ Crash(w)
      BY <2>4, WorkerTakesBack DEF Shutdown, Crash
    <2>5. CASE \/ ExecutorRaises(w) \/ ResultAccepted(w) \/ ResultTimesOut(w)
               \/ HeartbeatExpires(w) \/ Join(w)
      BY <2>5, OthersTakeBack DEF ExecutorRaises, ResultAccepted, ResultTimesOut,
         HeartbeatExpires, Join, processes
    <2> QED
      BY <2>1, <2>2, <2>3, <2>4, <2>5 DEF WorkerStep, WorkerTrouble
  <1>5. CASE \E th \in Threads : PoolFault(th)
    BY <1>5, OthersTakeBack DEF PoolFault, AddFails, PutBackFails, PlanningFails, LookupFails,
       processes
  <1> QED
    BY <1>1, <1>2, <1>3, <1>4, <1>5 DEF Next

(* Every behaviour of the dispatch path is one the workflow contract       *)
(* allows: publications give out runnable tasks, executors run given ones, *)
(* and nothing that ran is ever undone.                                    *)
THEOREM ImplementsContract == Spec => ContractSpec
  <1>1. Init => Contract!Init
    BY ConstantsAssumption DEF Init, Contract!Init, InHands, Tasks
  <1>2. IInv /\ [Next]_vars => [Contract!Next]_<<UNION {InHands(w) : w \in Workers}, ran>>
    BY StepImplements DEF Given
  <1> QED
    BY <1>1, <1>2, Invariance, PTL DEF Spec, ContractSpec, Contract!Spec
=============================================================================
