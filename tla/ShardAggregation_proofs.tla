----------------------- MODULE ShardAggregation_proofs -----------------------
(***************************************************************************)
(* Theorems about ShardAggregation, for every number of shards, workers,   *)
(* retries and failures, with and without the timing assumption.           *)
(***************************************************************************)
EXTENDS ShardAggregation, FiniteSetTheorems, TLAPS

(* The variables of TypeOK in groups that most actions leave alone.        *)
RecordsTyped ==
    /\ parent \in {"PENDING", "DISPATCHED", "WAITING", "FAILED", "DONE"}
    /\ status \in [Shards -> {"NONE", "PENDING", "DISPATCHED", "FAILED", "DONE"}]
    /\ assigned \in [Shards -> Workers \cup {0}]
    /\ retries \in [Shards -> 0..MaxRetries]
    /\ pooled \subseteq Shards
TablesTyped ==
    /\ mapped \subseteq Shards
    /\ children \subseteq Shards
    /\ done \in Nat
    /\ results \subseteq Shards
FlagTyped == aggregating \in BOOLEAN
FanoutTyped ==
    /\ step \in {"publish", "register", "over"}
    /\ next \in 1..NShards + 1
    /\ step = "register" => next <= NShards
    /\ created \subseteq Shards
ThreadsTyped ==
    /\ api \in {Nothing} \cup [step : {"collect", "write", "finalize"}, shard : Shards,
                               worker : Workers]
    /\ listener \in {Nothing} \cup
         [step : {"succeeded", "count", "failed", "retry", "wait", "exhausted"},
          shard : Shards, known : BOOLEAN, mapped : BOOLEAN]
    /\ rescheduler \in {Nothing} \cup
         [worker : Workers, lost : SUBSET Shards, mapped : SUBSET Shards]
ChannelsTyped ==
    /\ posts \subseteq [shard : Shards, worker : Workers]
    /\ taskEvents \in Seq([type : {"succeeded", "failed"}, shard : Shards])
    /\ workerEvents \in Seq(Workers)
WorkersTyped ==
    /\ up \subseteq Workers
    /\ job \in [Workers -> Shards \cup {0}]
    /\ phase \in [Workers -> {"ready", "running", "posting", "answered", "refused"}]
    /\ \A w \in Workers : phase[w] # "ready" => job[w] # 0
Budgets == {"failures", "faults", "shutdowns", "joins", "timeouts", "badWrites"}
HistoryTyped ==
    /\ ran \subseteq Shards
    /\ delivered \subseteq Shards
    /\ gathered \in Seq(SUBSET Shards)
    /\ spent \in [Budgets -> Nat]
Typed == RecordsTyped /\ TablesTyped /\ FlagTyped /\ FanoutTyped /\ ThreadsTyped
    /\ ChannelsTyped
           /\ WorkersTyped /\ HistoryTyped

IInv == Typed /\ GatheringSound

-----------------------------------------------------------------------------
USE DEF IInv, Typed, GatheringSound, records, tables, entry, fanout, channels, workers,
        history

(* One lemma per action: the groups it changes, then those it leaves alone. *)

LEMMA Zero == 0 \notin Shards /\ 0 \notin Workers
  BY SMT DEF Shards, Workers

LEMMA SpentTyped ==
    ASSUME HistoryTyped, NEW what \in Budgets, NEW bound, Spend(what, bound),
           UNCHANGED <<ran, delivered, gathered>>
    PROVE  HistoryTyped'
  <1>1. spent \in [Budgets -> Nat] /\ spent' = [spent EXCEPT ![what] = @ + 1]
    BY DEF HistoryTyped, Spend
  <1>2. spent' \in [Budgets -> Nat]
    <2> HIDE DEF Budgets
    <2> QED
      BY <1>1
  <1> QED
    BY <1>2 DEF HistoryTyped

LEMMA PublishShardLemma ==
    ASSUME IInv, PublishShard
    PROVE  IInv'
  <1> USE ConstantsAssumption, Zero
  <1>1. FanoutTyped'
    BY SMT DEF FanoutTyped, PublishShard, Skip, Shards
  <1>2. WorkersTyped'
    <2>1. next \in Shards \cap Workers
      BY SMT DEF FanoutTyped, PublishShard, Shards, Workers, ConstantsAssumption
    <2>2. next # 0
      BY <2>1, Zero
    <2>3. CASE UNCHANGED workers
      BY <2>3, SMT DEF WorkersTyped
    <2>4. CASE Give(next, next) /\ UNCHANGED up
      BY <2>1, <2>2, <2>4, SMT DEF WorkersTyped, Give
    <2> QED
      BY <2>3, <2>4, SMT DEF PublishShard, Skip
  <1>3. Evidence'
    BY SMT DEF Evidence, WorkersTyped, FanoutTyped, PublishShard, Skip, Give, Shards,
               Workers
  <1>4. Once'
    BY SMT DEF Once, PublishShard, Skip, Ingesting
  <1>5. UNCHANGED <<parent, status, assigned, retries, pooled, mapped, children, done,
                    results, aggregating, api, listener, rescheduler, posts,
                    taskEvents, workerEvents, ran, delivered, gathered, spent>>
    BY SMT DEF PublishShard
  <1>6. RecordsTyped'
    BY <1>5 DEF RecordsTyped
  <1>7. TablesTyped'
    BY <1>5 DEF TablesTyped
  <1>8. FlagTyped'
    <2>1. UNCHANGED aggregating
      BY SMT DEF PublishShard
    <2> QED
      BY <2>1, Zenon DEF FlagTyped
  <1>9. ThreadsTyped'
    BY <1>5 DEF ThreadsTyped
  <1>10. ChannelsTyped'
    BY <1>5 DEF ChannelsTyped
  <1>11. HistoryTyped'
    BY <1>5 DEF HistoryTyped
  <1> QED
    BY <1>1, <1>2, <1>3, <1>4, <1>5, <1>6, <1>7, <1>8, <1>9, <1>10, <1>11

LEMMA RegisterShardLemma ==
    ASSUME IInv, RegisterShard
    PROVE  IInv'
  <1> USE ConstantsAssumption, Zero
  <1>1. RecordsTyped'
    BY SMT DEF RecordsTyped, FanoutTyped, RegisterShard, Skip, Shards, Workers
  <1>2. TablesTyped'
    BY SMT DEF TablesTyped, FanoutTyped, RegisterShard, Skip, Shards
  <1>3. FanoutTyped'
    BY SMT DEF FanoutTyped, RegisterShard, Skip, Shards
  <1>4. Once'
    BY SMT DEF Once, FanoutTyped, RegisterShard, Skip, Ingesting
  <1>5. UNCHANGED <<results, api, listener, rescheduler, posts, taskEvents,
                    workerEvents, up, job, phase, ran, delivered, gathered, spent>>
    BY SMT DEF RegisterShard
  <1>6. FlagTyped'
    <2>1. UNCHANGED aggregating
      BY SMT DEF RegisterShard
    <2> QED
      BY <2>1, Zenon DEF FlagTyped
  <1>7. ThreadsTyped'
    BY <1>5 DEF ThreadsTyped
  <1>8. ChannelsTyped'
    BY <1>5 DEF ChannelsTyped
  <1>9. WorkersTyped'
    BY <1>5 DEF WorkersTyped
  <1>10. HistoryTyped'
    BY <1>5 DEF HistoryTyped
  <1>11. Evidence'
    BY <1>5 DEF Evidence
  <1> QED
    BY <1>1, <1>2, <1>3, <1>4, <1>5, <1>6, <1>7, <1>8, <1>9, <1>10, <1>11

LEMMA EnrollLemma ==
    ASSUME IInv, Enroll
    PROVE  IInv'
  <1> USE ConstantsAssumption, Zero
  <1>1. RecordsTyped'
    BY SMT DEF RecordsTyped, Enroll
  <1>2. TablesTyped'
    BY SMT DEF TablesTyped, FanoutTyped, Enroll, NewEntry
  <1>3. FlagTyped'
    BY DEF FlagTyped, Enroll, NewEntry
  <1>4. FanoutTyped'
    BY SMT DEF FanoutTyped, Enroll
  <1>5. Evidence'
    BY SMT DEF Evidence, Enroll, NewEntry
  <1>6. Once'
    BY SMT DEF Once, TablesTyped, FanoutTyped, Enroll, NewEntry, Ingesting
  <1>7. UNCHANGED <<api, listener, rescheduler, posts, taskEvents, workerEvents, up,
                    job, phase, ran, delivered, gathered, spent>>
    BY SMT DEF Enroll
  <1>8. (ThreadsTyped /\ ChannelsTyped /\ WorkersTyped /\ HistoryTyped)'
    BY <1>7 DEF ThreadsTyped, ChannelsTyped, WorkersTyped, HistoryTyped
  <1> QED
    BY <1>1, <1>2, <1>3, <1>4, <1>5, <1>6, <1>7, <1>8

LEMMA ShardFaultLemma ==
    ASSUME IInv, ShardFault
    PROVE  IInv'
  <1> USE ConstantsAssumption, Zero
  <1>1. RecordsTyped'
    BY SMT DEF RecordsTyped, FanoutTyped, ShardFault, Skip, Shards
  <1>2. FanoutTyped'
    BY SMT DEF FanoutTyped, ShardFault, Skip
  <1>3. HistoryTyped'
    BY SpentTyped DEF ShardFault, Budgets
  <1>4. Once'
    BY SMT DEF Once, ShardFault, Skip, Ingesting
  <1>5. UNCHANGED <<mapped, children, done, results, aggregating, api, listener,
                    rescheduler, posts, taskEvents, workerEvents, up, job, phase,
                    ran>>
    BY SMT DEF ShardFault
  <1>6. (TablesTyped /\ FlagTyped /\ ThreadsTyped /\ ChannelsTyped /\ WorkersTyped
         /\ Evidence)'
    BY <1>5 DEF TablesTyped, FlagTyped, ThreadsTyped, ChannelsTyped, WorkersTyped,
                Evidence
  <1> QED
    BY <1>1, <1>2, <1>3, <1>4, <1>5, <1>6

LEMMA StoreResultLemma ==
    ASSUME IInv, NEW p \in posts, StoreResult(p)
    PROVE  IInv'
  <1> USE ConstantsAssumption, Zero
  <1>1. RecordsTyped'
    BY SMT DEF RecordsTyped, ChannelsTyped, StoreResult
  <1>2. ThreadsTyped'
    BY SMT DEF ThreadsTyped, ChannelsTyped, StoreResult, Nothing
  <1>3. ChannelsTyped'
    BY SMT DEF ChannelsTyped, StoreResult
  <1>4. Evidence'
    BY SMT DEF Evidence, ChannelsTyped, StoreResult, Nothing
  <1>5. Once'
    BY SMT DEF Once, ChannelsTyped, StoreResult, Ingesting, Nothing
  <1>6. UNCHANGED <<mapped, children, done, results, aggregating, step, next, created,
                    up, job, phase, ran, delivered, gathered, spent>>
    BY SMT DEF StoreResult
  <1>7. (TablesTyped /\ FlagTyped /\ FanoutTyped /\ WorkersTyped /\ HistoryTyped)'
    BY <1>6 DEF TablesTyped, FlagTyped, FanoutTyped, WorkersTyped, HistoryTyped
  <1> QED
    BY <1>1, <1>2, <1>3, <1>4, <1>5, <1>6, <1>7

LEMMA CollectLemma ==
    ASSUME IInv, Collect
    PROVE  IInv'
  <1> USE ConstantsAssumption, Zero
  <1>1. TablesTyped'
    BY SMT DEF TablesTyped, ThreadsTyped, Collect, Ingesting, Nothing, Collects
  <1>2. FlagTyped'
    BY DEF FlagTyped, Collect, Complete
  <1>3. ThreadsTyped'
    BY SMT DEF ThreadsTyped, Collect, Ingesting, Ingest, Nothing, Answer
  <1>4. WorkersTyped'
    BY SMT DEF WorkersTyped, ThreadsTyped, Collect, Ingesting, Nothing, Answer
  <1>5. HistoryTyped'
    BY SMT DEF HistoryTyped, ThreadsTyped, Collect, Ingesting, Nothing, Answer
  <1>6. Evidence'
    BY SMT DEF Evidence, ThreadsTyped, WorkersTyped, Collect, Ingesting, Ingest,
               Nothing, Answer, Collects
  <1>7. Once'
    <2>1. CASE Collects(api.shard) /\ aggregating'
      <3>a. Complete(results') /\ results' = results \cup {api.shard}
        BY <2>1 DEF Collect
      <3>1. results' = children /\ children # {} /\ gathered = <<>>
        BY <2>1, <3>a, SMT DEF Once, Collect, Collects, Complete, Ingesting, Nothing
      <3> QED
        BY <2>1, <3>1, SMT DEF Once, Collect, Ingest, Ingesting, Nothing
    <2>2. CASE ~Collects(api.shard)
      BY <2>2, SMT DEF Once, Collect, Answer, Ingesting, Nothing
    <2>3. CASE Collects(api.shard) /\ ~aggregating'
      <3>1. api.shard \in created /\ children # {} /\ ~aggregating
        BY <2>3 DEF Once, Collects
      <3>2. gathered = <<>> /\ UNCHANGED <<gathered, mapped, created, step, children>>
        BY <3>1 DEF Once, Collect
      <3>3. results' = results \cup {api.shard} /\ api' = Nothing
        BY <2>3 DEF Collect, Answer
      <3> QED
        BY <3>1, <3>2, <3>3 DEF Once, Ingesting, Nothing
    <2> QED
      BY <2>1, <2>2, <2>3
  <1>8. UNCHANGED <<parent, status, assigned, retries, pooled, step, next, created,
                    posts, taskEvents, workerEvents>>
    BY SMT DEF Collect
  <1>9. (RecordsTyped /\ FanoutTyped /\ ChannelsTyped)'
    BY <1>8 DEF RecordsTyped, FanoutTyped, ChannelsTyped
  <1> QED
    BY <1>1, <1>2, <1>3, <1>4, <1>5, <1>6, <1>7, <1>8, <1>9

LEMMA WriteAggregateLemma ==
    ASSUME IInv, WriteAggregate
    PROVE  IInv'
  <1> USE ConstantsAssumption, Zero
  <1>1. ThreadsTyped'
    BY SMT DEF ThreadsTyped, WriteAggregate, Ingesting, Ingest, Nothing
  <1>2. HistoryTyped'
    BY SMT DEF HistoryTyped, TablesTyped, WriteAggregate
  <1>3. Evidence'
    BY SMT DEF Evidence, WriteAggregate, Ingesting, Ingest, Nothing
  <1>4. Once'
    BY SMT DEF Once, TablesTyped, WriteAggregate, Ingesting, Ingest, Nothing
  <1>5. UNCHANGED <<parent, status, assigned, retries, pooled, mapped, children, done,
                    results, aggregating, step, next, created, posts, taskEvents,
                    workerEvents, up, job, phase>>
    BY SMT DEF WriteAggregate
  <1>6. (RecordsTyped /\ TablesTyped /\ FlagTyped /\ FanoutTyped /\ ChannelsTyped
         /\ WorkersTyped)'
    BY <1>5 DEF RecordsTyped, TablesTyped, FlagTyped, FanoutTyped, ChannelsTyped,
                WorkersTyped
  <1> QED
    BY <1>1, <1>2, <1>3, <1>4, <1>5, <1>6

LEMMA WriteRaisesLemma ==
    ASSUME IInv, WriteRaises
    PROVE  IInv'
  <1> USE ConstantsAssumption, Zero
  <1>1. ThreadsTyped'
    BY SMT DEF ThreadsTyped, WriteRaises
  <1>2. WorkersTyped'
    BY SMT DEF WorkersTyped, ThreadsTyped, WriteRaises, Ingesting, Nothing
  <1>3. HistoryTyped'
    <2>1. UNCHANGED <<ran, delivered>> /\ gathered' \in {gathered, Append(gathered, results)}
      BY DEF WriteRaises
    <2>2. results \in SUBSET Shards /\ gathered \in Seq(SUBSET Shards)
      BY DEF HistoryTyped, TablesTyped
    <2> DEFINE E == SUBSET Shards
    <2>3. gathered' \in Seq(E)
      <3>1. results \in E /\ gathered \in Seq(E)
        BY <2>2
      <3> HIDE DEF E
      <3> QED
        BY <2>1, <3>1
    <2>4. spent \in [Budgets -> Nat] /\ spent' = [spent EXCEPT !["badWrites"] = @ + 1]
      BY DEF HistoryTyped, WriteRaises, Spend
    <2>5. spent' \in [Budgets -> Nat]
      <3>1. "badWrites" \in Budgets
        BY DEF Budgets
      <3> HIDE DEF Budgets
      <3> QED
        BY <2>4, <3>1
    <2>6. ran' \subseteq Shards /\ delivered' \subseteq Shards
      BY <2>1 DEF HistoryTyped
    <2> QED
      BY <2>3, <2>5, <2>6 DEF HistoryTyped
  <1>4. Evidence'
    BY SMT DEF Evidence, WorkersTyped, ThreadsTyped, WriteRaises, Ingesting, Nothing
  <1>5. Once'
    <2>1. /\ gathered' \in {gathered, Append(gathered, results)} /\ api' = Nothing
          /\ Ingesting("write")
      BY DEF WriteRaises
    <2>2. UNCHANGED <<mapped, created, step, children, results, aggregating>>
      BY DEF WriteRaises
    <2>3. gathered = <<>> /\ results = children /\ children # {} /\ aggregating
            /\ step = "over" /\ children = created
      BY <2>1 DEF Once
    <2>4. gathered' \in {<<>>, <<created>>}
      BY <2>1, <2>3, SMT
    <2> QED
      BY <2>1, <2>2, <2>3, <2>4, Zenon DEF Once, Ingesting
  <1>6. UNCHANGED <<parent, status, assigned, retries, pooled, mapped, children, done,
                    results, step, next, created, posts, taskEvents, workerEvents>>
    BY SMT DEF WriteRaises
  <1>7. FlagTyped'
    <2>1. UNCHANGED aggregating
      BY SMT DEF WriteRaises
    <2> QED
      BY <2>1, Zenon DEF FlagTyped
  <1>8. (RecordsTyped /\ TablesTyped /\ FanoutTyped /\ ChannelsTyped)'
    BY <1>6 DEF RecordsTyped, TablesTyped, FanoutTyped, ChannelsTyped
  <1> QED
    BY <1>1, <1>2, <1>3, <1>4, <1>5, <1>7, <1>8

LEMMA FinalizeLemma ==
    ASSUME IInv, Finalize
    PROVE  IInv'
  <1> USE ConstantsAssumption, Zero
  <1>1. TablesTyped'
    BY SMT DEF TablesTyped, Finalize, NewEntry
  <1>2. FlagTyped'
    BY DEF FlagTyped, Finalize, NewEntry
  <1>3. ThreadsTyped'
    BY SMT DEF ThreadsTyped, Finalize, Answer
  <1>4. WorkersTyped'
    BY SMT DEF WorkersTyped, ThreadsTyped, Finalize, Ingesting, Nothing, Answer
  <1>5. HistoryTyped'
    BY SMT DEF HistoryTyped, ThreadsTyped, Finalize, Ingesting, Nothing, Answer
  <1>6. Evidence'
    BY SMT DEF Evidence, WorkersTyped, ThreadsTyped, Finalize, Ingesting, Answer,
               Nothing, NewEntry
  <1>7. Once'
    BY SMT DEF Once, TablesTyped, HistoryTyped, Finalize, Ingesting, Answer, Nothing,
               NewEntry
  <1>8. UNCHANGED <<parent, status, assigned, retries, pooled, step, next, created,
                    posts, taskEvents, workerEvents>>
    BY SMT DEF Finalize
  <1>9. (RecordsTyped /\ FanoutTyped /\ ChannelsTyped)'
    BY <1>8 DEF RecordsTyped, FanoutTyped, ChannelsTyped
  <1> QED
    BY <1>1, <1>2, <1>3, <1>4, <1>5, <1>6, <1>7, <1>8, <1>9

LEMMA TakeTaskEventLemma ==
    ASSUME IInv, TakeTaskEvent
    PROVE  IInv'
  <1> USE ConstantsAssumption, Zero
  <1>1. RecordsTyped'
    BY SMT DEF RecordsTyped, ChannelsTyped, TakeTaskEvent
  <1>2. ThreadsTyped'
    <2> DEFINE E == [type : {"succeeded", "failed"}, shard : Shards]
               e == Head(taskEvents)
    <2>a. taskEvents # <<>> /\ taskEvents \in Seq(E)
      BY DEF ChannelsTyped, TakeTaskEvent
    <2>1. e \in E
      <3> HIDE DEF E
      <3> QED
        BY <2>a, SMT
    <2>2. listener' = [step |-> e.type, shard |-> e.shard,
                       known |-> status[e.shard] # "NONE", mapped |-> e.shard \in mapped]
      BY SMT DEF TakeTaskEvent
    <2>3. (status[e.shard] # "NONE") \in BOOLEAN /\ (e.shard \in mapped) \in BOOLEAN
      OBVIOUS
    <2> HIDE DEF e
    <2>4. listener' \in [step : {"succeeded", "failed"}, shard : Shards,
                          known : BOOLEAN, mapped : BOOLEAN]
      BY <2>1, <2>2, <2>3
    <2> QED
      BY <2>4, SMT DEF ThreadsTyped, TakeTaskEvent
  <1>3. ChannelsTyped'
    BY SMT DEF ChannelsTyped, TakeTaskEvent
  <1>4. UNCHANGED <<mapped, children, done, results, aggregating, step, next, created,
                    api, posts, up, job, phase, ran, delivered, gathered, spent>>
    BY SMT DEF TakeTaskEvent
  <1>5. (TablesTyped /\ FlagTyped /\ FanoutTyped /\ WorkersTyped /\ HistoryTyped
         /\ Evidence /\ Once)'
    BY <1>4 DEF TablesTyped, FlagTyped, FanoutTyped, WorkersTyped, HistoryTyped,
                Evidence, Once, Ingesting
  <1> QED
    BY <1>1, <1>2, <1>3, <1>4, <1>5

LEMMA ShardSucceededLemma ==
    ASSUME IInv, ShardSucceeded
    PROVE  IInv'
  <1> USE ConstantsAssumption, Zero
  <1>1. RecordsTyped'
    BY SMT DEF RecordsTyped, ThreadsTyped, ShardSucceeded, Handling, Nothing
  <1>2. ThreadsTyped'
    BY SMT DEF ThreadsTyped, ShardSucceeded, Handling, Proceed, Nothing
  <1>3. UNCHANGED <<mapped, children, done, results, aggregating, step, next, created,
                    api, posts, taskEvents, workerEvents, up, job, phase, ran,
                    delivered, gathered, spent>>
    BY SMT DEF ShardSucceeded
  <1>4. (TablesTyped /\ FlagTyped /\ FanoutTyped /\ ChannelsTyped /\ WorkersTyped
         /\ HistoryTyped /\ Evidence /\ Once)'
    BY <1>3 DEF TablesTyped, FlagTyped, FanoutTyped, ChannelsTyped, WorkersTyped,
                HistoryTyped, Evidence, Once, Ingesting
  <1> QED
    BY <1>1, <1>2, <1>3, <1>4

LEMMA CountShardLemma ==
    ASSUME IInv, CountShard
    PROVE  IInv'
  <1> USE ConstantsAssumption, Zero
  <1>1. RecordsTyped'
    BY SMT DEF RecordsTyped, CountShard
  <1>2. TablesTyped'
    BY SMT DEF TablesTyped, CountShard
  <1>3. ThreadsTyped'
    BY SMT DEF ThreadsTyped, CountShard, Nothing
  <1>4. UNCHANGED <<mapped, children, results, step, next, created, api, posts,
                    taskEvents, workerEvents, up, job, phase, ran, delivered, gathered,
                    spent>>
    BY SMT DEF CountShard
  <1>5. FlagTyped'
    <2>1. UNCHANGED aggregating
      BY SMT DEF CountShard
    <2> QED
      BY <2>1, Zenon DEF FlagTyped
  <1>6. FanoutTyped'
    BY <1>4 DEF FanoutTyped, Ingesting
  <1>7. ChannelsTyped'
    BY <1>4 DEF ChannelsTyped, Ingesting
  <1>8. WorkersTyped'
    BY <1>4 DEF WorkersTyped, Ingesting
  <1>9. HistoryTyped'
    BY <1>4 DEF HistoryTyped, Ingesting
  <1>10. Evidence'
    BY <1>4 DEF Evidence, Ingesting
  <1>11. Once'
    <2>1. UNCHANGED aggregating
      BY SMT DEF CountShard
    <2> QED
      BY <1>4, <2>1, Zenon DEF Once, Ingesting
  <1> QED
    BY <1>1, <1>2, <1>3, <1>4, <1>5, <1>6, <1>7, <1>8, <1>9, <1>10, <1>11

LEMMA ShardFailedLemma ==
    ASSUME IInv, ShardFailed
    PROVE  IInv'
  <1> USE ConstantsAssumption, Zero
  <1>1. RecordsTyped'
    BY SMT DEF RecordsTyped, ThreadsTyped, ShardFailed, Handling, Nothing,
               OneMoreRetry
  <1>2. ThreadsTyped'
    BY SMT DEF ThreadsTyped, ShardFailed, Handling, Proceed, Nothing
  <1>3. UNCHANGED <<mapped, children, done, results, aggregating, step, next, created,
                    api, posts, taskEvents, workerEvents, up, job, phase, ran,
                    delivered, gathered, spent>>
    BY SMT DEF ShardFailed
  <1>4. (TablesTyped /\ FlagTyped /\ FanoutTyped /\ ChannelsTyped /\ WorkersTyped
         /\ HistoryTyped /\ Evidence /\ Once)'
    BY <1>3 DEF TablesTyped, FlagTyped, FanoutTyped, ChannelsTyped, WorkersTyped,
                HistoryTyped, Evidence, Once, Ingesting
  <1> QED
    BY <1>1, <1>2, <1>3, <1>4

LEMMA RetryShardLemma ==
    ASSUME IInv, RetryShard
    PROVE  IInv'
  <1> USE ConstantsAssumption, Zero
  <1>1. RecordsTyped'
    BY SMT DEF RecordsTyped, ThreadsTyped, RetryShard, Handling, Nothing, OneMoreRetry,
               Requeue
  <1>2. ThreadsTyped'
    BY SMT DEF ThreadsTyped, RetryShard, Handling, Proceed, Nothing
  <1>3. UNCHANGED <<mapped, children, done, results, aggregating, step, next, created,
                    api, posts, taskEvents, workerEvents, up, job, phase, ran,
                    delivered, gathered, spent>>
    BY SMT DEF RetryShard
  <1>4. (TablesTyped /\ FlagTyped /\ FanoutTyped /\ ChannelsTyped /\ WorkersTyped
         /\ HistoryTyped /\ Evidence /\ Once)'
    BY <1>3 DEF TablesTyped, FlagTyped, FanoutTyped, ChannelsTyped, WorkersTyped,
                HistoryTyped, Evidence, Once, Ingesting
  <1> QED
    BY <1>1, <1>2, <1>3, <1>4

LEMMA SettleParentLemma ==
    ASSUME IInv, SettleParent
    PROVE  IInv'
  <1> USE ConstantsAssumption, Zero
  <1>1. RecordsTyped'
    BY SMT DEF RecordsTyped, SettleParent
  <1>2. ThreadsTyped'
    BY SMT DEF ThreadsTyped, SettleParent, Nothing
  <1>3. UNCHANGED <<mapped, children, done, results, aggregating, step, next, created,
                    api, posts, taskEvents, workerEvents, up, job, phase, ran,
                    delivered, gathered, spent>>
    BY SMT DEF SettleParent
  <1>4. (TablesTyped /\ FlagTyped /\ FanoutTyped /\ ChannelsTyped /\ WorkersTyped
         /\ HistoryTyped /\ Evidence /\ Once)'
    BY <1>3 DEF TablesTyped, FlagTyped, FanoutTyped, ChannelsTyped, WorkersTyped,
                HistoryTyped, Evidence, Once, Ingesting
  <1> QED
    BY <1>1, <1>2, <1>3, <1>4

LEMMA TakeUnregisterLemma ==
    ASSUME IInv, TakeUnregister
    PROVE  IInv'
  <1> USE ConstantsAssumption, Zero
  <1>1. ThreadsTyped'
    BY SMT DEF ThreadsTyped, ChannelsTyped, TablesTyped, TakeUnregister, Nothing
  <1>2. ChannelsTyped'
    BY SMT DEF ChannelsTyped, TakeUnregister
  <1>3. UNCHANGED <<parent, status, assigned, retries, pooled, mapped, children, done,
                    results, aggregating, step, next, created, api, posts, up, job,
                    phase, ran, delivered, gathered, spent>>
    BY SMT DEF TakeUnregister
  <1>4. (RecordsTyped /\ TablesTyped /\ FlagTyped /\ FanoutTyped /\ WorkersTyped
         /\ HistoryTyped /\ Evidence /\ Once)'
    BY <1>3 DEF RecordsTyped, TablesTyped, FlagTyped, FanoutTyped, WorkersTyped,
                HistoryTyped, Evidence, Once, Ingesting
  <1> QED
    BY <1>1, <1>2, <1>3, <1>4

LEMMA RescheduleShardLemma ==
    ASSUME IInv, RescheduleShard
    PROVE  IInv'
  <1> USE ConstantsAssumption, Zero
  <1>1. RecordsTyped'
    <2>1. CASE UNCHANGED records
      BY <2>1, SMT DEF RecordsTyped
    <2>2. ASSUME NEW c \in Shards, Requeue(c), parent' \in {"WAITING", parent}
          PROVE  RecordsTyped'
      BY <2>2, SMT DEF RecordsTyped, Requeue, OneMoreRetry, ConstantsAssumption
    <2>3. rescheduler # Nothing => rescheduler.lost \subseteq Shards
      BY SMT DEF ThreadsTyped
    <2> QED
      BY <2>1, <2>2, <2>3, SMT DEF RescheduleShard
  <1>2. ThreadsTyped'
    BY SMT DEF ThreadsTyped, RescheduleShard, Nothing
  <1>3. UNCHANGED <<mapped, children, done, results, aggregating, step, next, created,
                    api, posts, taskEvents, workerEvents, up, job, phase, ran,
                    delivered, gathered, spent>>
    BY SMT DEF RescheduleShard
  <1>4. (TablesTyped /\ FlagTyped /\ FanoutTyped /\ ChannelsTyped /\ WorkersTyped
         /\ HistoryTyped /\ Evidence /\ Once)'
    BY <1>3 DEF TablesTyped, FlagTyped, FanoutTyped, ChannelsTyped, WorkersTyped,
                HistoryTyped, Evidence, Once, Ingesting
  <1> QED
    BY <1>1, <1>2, <1>3, <1>4

LEMMA RedispatchLemma ==
    ASSUME IInv, NEW c \in Shards, NEW w \in Workers, Redispatch(c, w)
    PROVE  IInv'
  <1> USE ConstantsAssumption, Zero
  <1>1. RecordsTyped'
    BY SMT DEF RecordsTyped, Redispatch
  <1>2. WorkersTyped'
    BY SMT DEF WorkersTyped, Redispatch, Give
  <1>3. Evidence'
    BY SMT DEF Evidence, WorkersTyped, Redispatch, Give
  <1>4. UNCHANGED <<mapped, children, done, results, aggregating, step, next, created,
                    api, listener, rescheduler, posts, taskEvents, workerEvents, ran,
                    delivered, gathered, spent>>
    BY SMT DEF Redispatch
  <1>5. (TablesTyped /\ FlagTyped /\ FanoutTyped /\ ThreadsTyped /\ ChannelsTyped
         /\ HistoryTyped /\ Once)'
    BY <1>4 DEF TablesTyped, FlagTyped, FanoutTyped, ThreadsTyped, ChannelsTyped,
                HistoryTyped, Once, Ingesting
  <1> QED
    BY <1>1, <1>2, <1>3, <1>4, <1>5

LEMMA ExecutorReturnsLemma ==
    ASSUME IInv, NEW w \in Workers, ExecutorReturns(w)
    PROVE  IInv'
  <1> USE ConstantsAssumption, Zero
  <1>a. job[w] \in Shards /\ MayEnd(w) /\ ran' = ran \cup {job[w]}
    BY SMT DEF WorkersTyped, ExecutorReturns, MayEnd
  <1>b. \/ Report(w, "succeeded") /\ UNCHANGED posts
        \/ /\ posts' = posts \cup {[shard |-> job[w], worker |-> w]}
           /\ phase' = [phase EXCEPT ![w] = "posting"]
           /\ UNCHANGED <<taskEvents, job>>
    BY DEF ExecutorReturns
  <1>c. UNCHANGED <<up, workerEvents, api, results>>
    BY SMT DEF ExecutorReturns
  <1>1. ChannelsTyped'
    <2> DEFINE E == [type : {"succeeded", "failed"}, shard : Shards]
               e == [type |-> "succeeded", shard |-> job[w]]
    <2>1. e \in E /\ taskEvents \in Seq(E)
      BY <1>a DEF ChannelsTyped
    <2>2. taskEvents' \in {taskEvents, Append(taskEvents, e)}
      BY <1>b DEF Report
    <2>3. taskEvents' \in Seq(E)
      <3> HIDE DEF E, e
      <3> QED
        BY <2>1, <2>2, SMT
    <2>4. posts' \subseteq [shard : Shards, worker : Workers]
      BY <1>a, <1>b, SMT DEF ChannelsTyped
    <2> QED
      BY <1>c, <2>3, <2>4 DEF ChannelsTyped
  <1>2. WorkersTyped'
    <2>1. CASE Report(w, "succeeded")
      BY <1>a, <1>c, <2>1, SMT DEF WorkersTyped, Report
    <2>2. CASE phase' = [phase EXCEPT ![w] = "posting"] /\ UNCHANGED job
      BY <1>a, <1>c, <2>2, SMT DEF WorkersTyped, MayEnd
    <2> QED
      BY <1>b, <2>1, <2>2
  <1>3. HistoryTyped'
    BY SMT DEF HistoryTyped, WorkersTyped, ExecutorReturns, MayEnd
  <1>4. Evidence'
    <2>1. CASE Report(w, "succeeded") /\ UNCHANGED posts
      BY <2>1, <1>a, <1>c, SMT DEF WorkersTyped, Evidence, Report
    <2>2. CASE /\ posts' = posts \cup {[shard |-> job[w], worker |-> w]}
               /\ phase' = [phase EXCEPT ![w] = "posting"]
               /\ UNCHANGED <<taskEvents, job>>
      BY <2>2, <1>a, <1>c, SMT DEF WorkersTyped, Evidence
    <2> QED
      BY <1>b, <2>1, <2>2
  <1>5. UNCHANGED <<parent, status, assigned, retries, pooled, mapped, children, done,
                    results, aggregating, step, next, created, api, listener,
                    rescheduler, gathered>>
    BY SMT DEF ExecutorReturns
  <1>6. (RecordsTyped /\ TablesTyped /\ FlagTyped /\ FanoutTyped /\ ThreadsTyped
         /\ Once)'
    BY <1>5 DEF RecordsTyped, TablesTyped, FlagTyped, FanoutTyped, ThreadsTyped, Once,
                Ingesting
  <1> QED
    BY <1>1, <1>2, <1>3, <1>4, <1>5, <1>6

LEMMA ResultAcceptedLemma ==
    ASSUME IInv, NEW w \in Workers, ResultAccepted(w)
    PROVE  IInv'
  <1> USE ConstantsAssumption, Zero
  <1>1. ChannelsTyped'
    BY SMT DEF ChannelsTyped, WorkersTyped, ResultAccepted, Report
  <1>2. WorkersTyped'
    BY SMT DEF WorkersTyped, ResultAccepted, Report
  <1>3. Evidence'
    BY SMT DEF Evidence, WorkersTyped, ResultAccepted, Report
  <1>4. UNCHANGED <<parent, status, assigned, retries, pooled, mapped, children, done,
                    results, aggregating, step, next, created, api, listener,
                    rescheduler, ran, delivered, gathered, spent>>
    BY SMT DEF ResultAccepted
  <1>5. (RecordsTyped /\ TablesTyped /\ FlagTyped /\ FanoutTyped /\ ThreadsTyped
         /\ HistoryTyped /\ Once)'
    BY <1>4 DEF RecordsTyped, TablesTyped, FlagTyped, FanoutTyped, ThreadsTyped,
                HistoryTyped, Once, Ingesting
  <1> QED
    BY <1>1, <1>2, <1>3, <1>4, <1>5

LEMMA ResultRefusedLemma ==
    ASSUME IInv, NEW w \in Workers, ResultRefused(w)
    PROVE  IInv'
  <1> USE ConstantsAssumption, Zero
  <1>1. ChannelsTyped'
    BY SMT DEF ChannelsTyped, WorkersTyped, ResultRefused, Report
  <1>2. WorkersTyped'
    BY SMT DEF WorkersTyped, ResultRefused, Report
  <1>3. Evidence'
    BY SMT DEF Evidence, WorkersTyped, ResultRefused, Report
  <1>4. UNCHANGED <<parent, status, assigned, retries, pooled, mapped, children, done,
                    results, aggregating, step, next, created, api, listener,
                    rescheduler, ran, delivered, gathered, spent>>
    BY SMT DEF ResultRefused
  <1>5. (RecordsTyped /\ TablesTyped /\ FlagTyped /\ FanoutTyped /\ ThreadsTyped
         /\ HistoryTyped /\ Once)'
    BY <1>4 DEF RecordsTyped, TablesTyped, FlagTyped, FanoutTyped, ThreadsTyped,
                HistoryTyped, Once, Ingesting
  <1> QED
    BY <1>1, <1>2, <1>3, <1>4, <1>5

LEMMA ExecutorRaisesLemma ==
    ASSUME IInv, NEW w \in Workers, ExecutorRaises(w)
    PROVE  IInv'
  <1> USE ConstantsAssumption, Zero
  <1>1. ChannelsTyped'
    BY SMT DEF ChannelsTyped, WorkersTyped, ExecutorRaises, Report, MayEnd
  <1>2. WorkersTyped'
    BY SMT DEF WorkersTyped, ExecutorRaises, Report
  <1>3. HistoryTyped'
    BY SpentTyped DEF ExecutorRaises, Budgets
  <1>4. Evidence'
    BY SMT DEF Evidence, WorkersTyped, ExecutorRaises, Report
  <1>5. UNCHANGED <<parent, status, assigned, retries, pooled, mapped, children, done,
                    results, aggregating, step, next, created, api, listener,
                    rescheduler, gathered>>
    BY SMT DEF ExecutorRaises
  <1>6. (RecordsTyped /\ TablesTyped /\ FlagTyped /\ FanoutTyped /\ ThreadsTyped
         /\ Once)'
    BY <1>5 DEF RecordsTyped, TablesTyped, FlagTyped, FanoutTyped, ThreadsTyped, Once,
                Ingesting
  <1> QED
    BY <1>1, <1>2, <1>3, <1>4, <1>5, <1>6

LEMMA ResultTimesOutLemma ==
    ASSUME IInv, NEW w \in Workers, ResultTimesOut(w)
    PROVE  IInv'
  <1> USE ConstantsAssumption, Zero
  <1>1. ChannelsTyped'
    BY SMT DEF ChannelsTyped, WorkersTyped, ResultTimesOut, Report
  <1>2. WorkersTyped'
    BY SMT DEF WorkersTyped, ResultTimesOut, Report
  <1>3. HistoryTyped'
    BY SpentTyped DEF ResultTimesOut, Budgets
  <1>4. Evidence'
    BY SMT DEF Evidence, WorkersTyped, ResultTimesOut, Report
  <1>5. UNCHANGED <<parent, status, assigned, retries, pooled, mapped, children, done,
                    results, aggregating, step, next, created, api, listener,
                    rescheduler, gathered>>
    BY SMT DEF ResultTimesOut
  <1>6. (RecordsTyped /\ TablesTyped /\ FlagTyped /\ FanoutTyped /\ ThreadsTyped
         /\ Once)'
    BY <1>5 DEF RecordsTyped, TablesTyped, FlagTyped, FanoutTyped, ThreadsTyped, Once,
                Ingesting
  <1> QED
    BY <1>1, <1>2, <1>3, <1>4, <1>5, <1>6

LEMMA ShutdownLemma ==
    ASSUME IInv, NEW w \in Workers, Shutdown(w)
    PROVE  IInv'
  <1> USE ConstantsAssumption, Zero
  <1>1. ChannelsTyped'
    BY SMT DEF ChannelsTyped, Shutdown
  <1>2. WorkersTyped'
    BY SMT DEF WorkersTyped, Shutdown
  <1>3. HistoryTyped'
    BY SpentTyped DEF Shutdown, Budgets
  <1>4. Evidence'
    BY SMT DEF Evidence, WorkersTyped, Shutdown
  <1>5. UNCHANGED <<parent, status, assigned, retries, pooled, mapped, children, done,
                    results, aggregating, step, next, created, api, listener,
                    rescheduler, gathered>>
    BY SMT DEF Shutdown
  <1>6. (RecordsTyped /\ TablesTyped /\ FlagTyped /\ FanoutTyped /\ ThreadsTyped
         /\ Once)'
    BY <1>5 DEF RecordsTyped, TablesTyped, FlagTyped, FanoutTyped, ThreadsTyped, Once,
                Ingesting
  <1> QED
    BY <1>1, <1>2, <1>3, <1>4, <1>5, <1>6

LEMMA JoinLemma ==
    ASSUME IInv, NEW w \in Workers, Join(w)
    PROVE  IInv'
  <1> USE ConstantsAssumption, Zero
  <1>1. WorkersTyped'
    BY SMT DEF WorkersTyped, Join
  <1>2. HistoryTyped'
    BY SpentTyped DEF Join, Budgets
  <1>3. UNCHANGED <<parent, status, assigned, retries, pooled, mapped, children, done,
                    results, aggregating, step, next, created, api, listener,
                    rescheduler, posts, taskEvents, workerEvents, job, phase, ran,
                    gathered>>
    BY SMT DEF Join
  <1>4. (RecordsTyped /\ TablesTyped /\ FlagTyped /\ FanoutTyped /\ ThreadsTyped
         /\ ChannelsTyped /\ Evidence /\ Once)'
    BY <1>3 DEF RecordsTyped, TablesTyped, FlagTyped, FanoutTyped, ThreadsTyped,
                ChannelsTyped, Evidence, Once, Ingesting
  <1> QED
    BY <1>1, <1>2, <1>3, <1>4

-----------------------------------------------------------------------------
LEMMA InitIInv == Init => IInv
  <1> USE ConstantsAssumption DEF Init, Nothing
  <1> SUFFICES ASSUME Init PROVE IInv
    OBVIOUS
  <1>1. RecordsTyped
    BY SMT DEF RecordsTyped, ConstantsAssumption
  <1>2. TablesTyped
    BY SMT DEF TablesTyped
  <1>a. aggregating = FALSE
    OBVIOUS
  <1>b. FlagTyped
    BY <1>a, Zenon DEF FlagTyped
  <1>3. FanoutTyped
    BY SMT DEF FanoutTyped, ConstantsAssumption
  <1>4. ThreadsTyped
    BY SMT DEF ThreadsTyped
  <1>5. ChannelsTyped
    BY SMT DEF ChannelsTyped
  <1>6. WorkersTyped
    BY SMT DEF WorkersTyped
  <1>7. HistoryTyped
    BY SMT DEF HistoryTyped, Budgets
  <1>8. Evidence
    BY SMT DEF Evidence
  <1>9. Once
    BY SMT DEF Once, Ingesting
  <1> QED
    BY <1>1, <1>2, <1>3, <1>4, <1>5, <1>6, <1>7, <1>8, <1>9, <1>b

LEMMA StutterIInv == IInv /\ UNCHANGED vars => IInv'
  <1> SUFFICES ASSUME IInv, UNCHANGED vars PROVE IInv'
    OBVIOUS
  <1>1. UNCHANGED <<parent, status, assigned, retries, pooled, mapped, children, done,
                    results, step, next, created, api, listener, rescheduler, posts,
                    taskEvents, workerEvents, up, job, phase, ran, delivered, gathered,
                    spent>>
    BY SMT DEF vars
  <1>2. UNCHANGED aggregating
    BY SMT DEF vars
  <1>3. FlagTyped'
    BY <1>2, Zenon DEF FlagTyped
  <1>4. (RecordsTyped /\ TablesTyped /\ FanoutTyped /\ ThreadsTyped)'
    BY <1>1 DEF RecordsTyped, TablesTyped, FanoutTyped, ThreadsTyped
  <1>5. (ChannelsTyped /\ WorkersTyped /\ HistoryTyped)'
    BY <1>1 DEF ChannelsTyped, WorkersTyped, HistoryTyped
  <1>6. Evidence'
    BY <1>1 DEF Evidence
  <1>7. Once'
    BY <1>1, <1>2, Zenon DEF Once, Ingesting
  <1> QED
    BY <1>3, <1>4, <1>5, <1>6, <1>7

HIDE DEF IInv, Typed, GatheringSound

LEMMA NextIInv == IInv /\ Next => IInv'
  <1> SUFFICES ASSUME IInv, Next PROVE IInv'
    OBVIOUS
  <1>1. CASE FanOut \/ ShardFault
    BY <1>1, PublishShardLemma, RegisterShardLemma, EnrollLemma, ShardFaultLemma DEF FanOut
  <1>2. CASE IngestResult \/ WriteRaises
    BY <1>2, StoreResultLemma, CollectLemma, WriteAggregateLemma, WriteRaisesLemma,
       FinalizeLemma DEF IngestResult
  <1>3. CASE Listen
    BY <1>3, TakeTaskEventLemma, ShardSucceededLemma, CountShardLemma, ShardFailedLemma,
       RetryShardLemma, SettleParentLemma DEF Listen
  <1>4. CASE Recover
    BY <1>4, TakeUnregisterLemma, RescheduleShardLemma DEF Recover
  <1>5. CASE Dispatch
    BY <1>5, RedispatchLemma DEF Dispatch
  <1>6. ASSUME NEW w \in Workers, Work(w) PROVE IInv'
    BY <1>6, ExecutorReturnsLemma, ResultAcceptedLemma, ResultRefusedLemma DEF Work
  <1>7. ASSUME NEW w \in Workers, Trouble(w) PROVE IInv'
    BY <1>7, ExecutorRaisesLemma, ResultTimesOutLemma, ShutdownLemma, JoinLemma DEF Trouble
  <1> QED
    BY <1>1, <1>2, <1>3, <1>4, <1>5, <1>6, <1>7 DEF Next

(* The types and the evidence for the aggregate hold in every reachable    *)
(* state.                                                                  *)
THEOREM Invariance == Spec => []IInv
  <1>1. IInv /\ [Next]_vars => IInv'
    BY NextIInv, StutterIInv
  <1> QED
    BY InitIInv, <1>1, PTL DEF Spec

(* The variables keep their types whatever the number of shards, workers   *)
(* and retries: in particular a worker that is running has a shard.        *)
THEOREM TypeCorrect == Spec => []TypeOK
  <1>1. IInv => TypeOK
    BY Zenon DEF IInv, Typed, TypeOK, RecordsTyped, TablesTyped, FlagTyped, FanoutTyped,
       ThreadsTyped, ChannelsTyped, WorkersTyped, HistoryTyped, Budgets
  <1> QED
    BY Invariance, <1>1, PTL

(* The aggregation state is consistent: a result in the table comes from an*)
(* execution, and the thread that writes the aggregate is alone, has the   *)
(* whole entry before it and leaves none behind (aggregation.py 66-151).   *)
THEOREM SoundGathering == Spec => []GatheringSound
  <1>1. IInv => GatheringSound
    BY DEF IInv
  <1> QED
    BY Invariance, <1>1, PTL

(* Whatever is written for the parent holds the result of every shard that *)
(* was registered, and is written after the fan-out: for every number of   *)
(* shards and workers, with early results, retries, timeouts and losses.   *)
THEOREM AggregatesTheFanout == Spec => []AggregateHasFanout
  <1>1. IInv => AggregateHasFanout
    BY SMT DEF IInv, GatheringSound, Once, AggregateHasFanout
  <1> QED
    BY Invariance, <1>1, PTL

-----------------------------------------------------------------------------
LEMMA GatherStep == IInv /\ Next => [Gathering!Next]_<<ran, gathered>>
  <1> SUFFICES ASSUME IInv, Next PROVE [Gathering!Next]_<<ran, gathered>>
    OBVIOUS
  <1>1. CASE WriteAggregate
    <2>1. gathered = <<>> /\ results # {} /\ results \subseteq ran
      BY <1>1, SMT DEF WriteAggregate, IInv, GatheringSound, Evidence, Once
    <2>2. results \in SUBSET Shards
      BY DEF IInv, Typed, TablesTyped
    <2>3. Gathering!Gather(results)
      BY <1>1, <2>1, SMT DEF WriteAggregate, Gathering!Gather, history
    <2> QED
      BY <2>2, <2>3 DEF Gathering!Next
  <1>2. ASSUME NEW w \in Workers, ExecutorReturns(w) PROVE Gathering!Next
    <2>1. job[w] \in Shards
      BY <1>2, Zero, SMT DEF ExecutorReturns, MayEnd, IInv, Typed, WorkersTyped
    <2>2. Gathering!Run(job[w])
      BY <1>2, SMT DEF ExecutorReturns, Gathering!Run
    <2> QED
      BY <2>1, <2>2 DEF Gathering!Next
  <1>3. CASE FanOut \/ ShardFault \/ Dispatch
    BY <1>3, SMT DEF FanOut, PublishShard, RegisterShard, Enroll, ShardFault, Dispatch,
       Redispatch, history
  <1>8. CASE WriteRaises
    <2>1. gathered = <<>> /\ results # {} /\ results \subseteq ran
      BY <1>8, SMT DEF WriteRaises, IInv, GatheringSound, Evidence, Once
    <2>2. results \in SUBSET Shards
      BY DEF IInv, Typed, TablesTyped
    <2>3. gathered' \in {gathered, Append(gathered, results)} /\ ran' = ran
      BY <1>8 DEF WriteRaises
    <2>4. CASE gathered' = Append(gathered, results)
      <3>1. Gathering!Gather(results)
        BY <2>1, <2>3, <2>4, SMT DEF Gathering!Gather
      <3> QED
        BY <2>2, <3>1 DEF Gathering!Next
    <2> QED
      BY <2>2, <2>3, <2>4 DEF Gathering!Next
  <1>4. CASE IngestResult
    BY <1>1, <1>4, SMT DEF IngestResult, StoreResult, Collect, Finalize, history
  <1>5. CASE Listen
    BY <1>5, SMT DEF Listen, TakeTaskEvent, ShardSucceeded, CountShard, ShardFailed,
       RetryShard, SettleParent, history
  <1>6. CASE Recover
    BY <1>6, SMT DEF Recover, TakeUnregister, RescheduleShard, history
  <1>7. ASSUME NEW w \in Workers, Work(w) \/ Trouble(w)
        PROVE  [Gathering!Next]_<<ran, gathered>>
    BY <1>2, <1>7, SMT DEF Work, Trouble, ResultAccepted, ResultRefused, ExecutorRaises, ResultTimesOut,
       Shutdown, Join, history
  <1> QED
    BY <1>3, <1>4, <1>5, <1>6, <1>7, <1>8 DEF Next

(* The fan-out, collection and aggregation code implements the contract of *)
(* ShardGathering: the parent's result is written at most once, and only   *)
(* from shards that an executor has finished.                              *)
THEOREM ImplementsGathering == Spec => GatheringSpec
  <1>1. Init => Gathering!Init
    BY DEF Init, Gathering!Init
  <1>2. IInv /\ [Next]_vars => [Gathering!Next]_<<ran, gathered>>
    <2>1. ASSUME UNCHANGED vars PROVE UNCHANGED <<ran, gathered>>
      BY <2>1, SMT DEF vars, history
    <2> QED
      BY GatherStep, <2>1
  <1> QED
    BY Invariance, <1>1, <1>2, PTL DEF Spec, GatheringSpec, Gathering!Spec

-----------------------------------------------------------------------------
(* No shard and no result is lost, when the fan-out is over before a worker *)
(* ends a job or stops (PromptEnroll).                                     *)

(* Until the enrolment only the fan-out has anything to do.                *)
BeforeEnrolment == step # "over" =>
    /\ posts = {} /\ delivered = {} /\ api = Nothing
    /\ taskEvents = <<>> /\ listener = Nothing /\ pooled = {}
    /\ workerEvents = <<>> /\ rescheduler = Nothing /\ up = Workers
    /\ \A w \in Workers : job[w] \in {0, w} /\ phase[w] \in {"ready", "running"}
    /\ step = "register" => job[next] = next

(* Until the aggregate is written the tables know every registered shard,  *)
(* they hold each accepted result, and the last one starts the aggregation. *)
Collected ==
    /\ gathered = <<>> =>
         /\ mapped = created
         /\ step = "over" => children = created
         /\ delivered \cap created \subseteq results
         /\ aggregating => children \subseteq results
         /\ aggregating \/ children = {} \/ ~(children \subseteq results)
    /\ Ingesting("finalize") => gathered # <<>>
    /\ aggregating => \/ Ingesting("write") \/ Ingesting("finalize")
                      \/ spent.badWrites # 0

LEMMA OnlyFanOut ==
    ASSUME IInv, PromptEnroll, BeforeEnrolment, Next, step # "over"
    PROVE  PublishShard \/ RegisterShard \/ Enroll \/ ShardFault
  <1>1. \A w \in Workers : phase[w] \in {"ready", "running"} /\ ~Enrolled /\ w \in up
    BY DEF BeforeEnrolment, Enrolled
  <1>2. ~IngestResult /\ ~WriteRaises
    BY DEF BeforeEnrolment, IngestResult, Collect, WriteAggregate, WriteRaises, Finalize, Ingesting
  <1>3. ~Listen
    BY DEF BeforeEnrolment, Listen, TakeTaskEvent, ShardSucceeded, CountShard, ShardFailed,
       RetryShard, SettleParent, Handling
  <1>4. ~Recover /\ ~Dispatch
    BY DEF BeforeEnrolment, Recover, TakeUnregister, RescheduleShard, Dispatch, Redispatch
  <1>5. \A w \in Workers : ~Work(w) /\ ~Trouble(w)
    BY <1>1 DEF Work, Trouble, ExecutorReturns, ExecutorRaises, ResultAccepted, ResultRefused, ResultTimesOut,
       Shutdown, Join, MayEnd
  <1> QED
    BY <1>2, <1>3, <1>4, <1>5 DEF Next, FanOut

(* The steps of the other threads leave the fan-out where it is.           *)
LEMMA FanoutKept ==
    ASSUME Next, ~(PublishShard \/ RegisterShard \/ Enroll \/ ShardFault)
    PROVE  UNCHANGED fanout
  <1>1. CASE IngestResult \/ WriteRaises
    BY <1>1 DEF IngestResult, StoreResult, Collect, WriteAggregate, WriteRaises, Finalize
  <1>2. CASE Listen
    BY <1>2 DEF Listen, TakeTaskEvent, ShardSucceeded, CountShard, ShardFailed, RetryShard,
       SettleParent
  <1>3. CASE Recover \/ Dispatch
    BY <1>3 DEF Recover, TakeUnregister, RescheduleShard, Dispatch, Redispatch
  <1>4. ASSUME NEW w \in Workers, Work(w) \/ Trouble(w) PROVE UNCHANGED fanout
    BY <1>4 DEF Work, Trouble, ExecutorReturns, ExecutorRaises, ResultAccepted, ResultRefused, ResultTimesOut,
       Shutdown, Join
  <1> QED
    BY <1>1, <1>2, <1>3, <1>4 DEF Next, FanOut

LEMMA NextIsWorker ==
    ASSUME IInv, next <= NShards
    PROVE  next \in Shards /\ next \in Workers
  BY ConstantsAssumption, SMT DEF IInv, Typed, FanoutTyped, Shards, Workers

LEMMA BeforeEnrolmentStep ==
    ASSUME IInv, PromptEnroll, BeforeEnrolment, Next
    PROVE  BeforeEnrolment'
  <1>1. CASE step = "over"
    <2>1. step' = "over"
      BY <1>1, FanoutKept DEF PublishShard, RegisterShard, Enroll, ShardFault, fanout
    <2> QED
      BY <2>1 DEF BeforeEnrolment
  <1>2. CASE step # "over"
    <2>a. UNCHANGED <<posts, api, taskEvents, listener, pooled, workerEvents, rescheduler, up,
                      delivered>>
      BY <1>2, OnlyFanOut DEF PublishShard, RegisterShard, Enroll, ShardFault, records, tables,
         entry, channels, workers, history
    <2>b. job \in [Workers -> Shards \cup {0}]
            /\ phase \in [Workers -> {"ready", "running", "posting", "answered", "refused"}]
      BY DEF IInv, Typed, WorkersTyped
    <2>c. /\ \A w \in Workers : job[w] \in {0, w} /\ phase[w] \in {"ready", "running"}
          /\ up = Workers
      BY <1>2 DEF BeforeEnrolment
    <2>1. CASE PublishShard
      <3>1. next \in Shards /\ next \in Workers
        BY <2>1, NextIsWorker DEF PublishShard
      <3>2. CASE UNCHANGED <<job, phase>> /\ step' = "publish"
        BY <1>2, <2>a, <3>2 DEF BeforeEnrolment
      <3>3. CASE Give(next, next) /\ next' = next
        BY <1>2, <2>a, <2>b, <2>c, <3>1, <3>3 DEF BeforeEnrolment, Give
      <3> QED
        BY <2>1, <2>c, <3>1, <3>2, <3>3 DEF PublishShard, Skip
    <2>2. CASE RegisterShard \/ Enroll \/ ShardFault
      BY <1>2, <2>2, <2>a DEF BeforeEnrolment, RegisterShard, Enroll, ShardFault, Skip, workers
    <2> QED
      BY <1>2, <2>1, <2>2, OnlyFanOut
  <1> QED
    BY <1>1, <1>2

(* Only a write that raises is counted as one.                             *)
LEMMA BadWritesKept ==
    ASSUME IInv, Next
    PROVE  /\ spent.badWrites # 0 => spent'.badWrites # 0
           /\ WriteRaises => spent'.badWrites # 0
  <1>t. spent \in [Budgets -> Nat]
    BY DEF IInv, Typed, HistoryTyped, Budgets
  <1>1. CASE WriteRaises
    BY <1>t, <1>1, SMT DEF WriteRaises, Spend, Budgets
  <1>2. CASE ~WriteRaises
    <2>1. ASSUME FanOut \/ IngestResult \/ Listen \/ Recover \/ Dispatch
          PROVE  spent'.badWrites = spent.badWrites
      BY <2>1 DEF FanOut, PublishShard, RegisterShard, Enroll, IngestResult, StoreResult,
         Collect, WriteAggregate, Finalize, Listen, TakeTaskEvent, ShardSucceeded,
         CountShard, ShardFailed, RetryShard, SettleParent, Recover, TakeUnregister,
         RescheduleShard, Dispatch, Redispatch
    <2>2. ASSUME ShardFault
          PROVE  spent'.badWrites = spent.badWrites
      <3>1. spent' = [spent EXCEPT !["faults"] = @ + 1]
        BY <2>2 DEF ShardFault, Spend
      <3> QED
        BY <1>t, <3>1
    <2>3. ASSUME NEW w \in Workers, Work(w) \/ Trouble(w)
          PROVE  spent'.badWrites = spent.badWrites
      <3>1. \/ UNCHANGED spent
            \/ \E what \in {"failures", "timeouts", "shutdowns", "joins"} :
                 spent' = [spent EXCEPT ![what] = @ + 1]
        BY <2>3 DEF Work, Trouble, ExecutorReturns, ResultAccepted, ResultRefused,
           ExecutorRaises, ResultTimesOut, Shutdown, Join, Spend
      <3> QED
        BY <1>t, <3>1 DEF Budgets
    <2>4. spent'.badWrites = spent.badWrites
      BY <1>2, <2>1, <2>2, <2>3 DEF Next
    <2> QED
      BY <1>2, <2>4
  <1> QED
    BY <1>1, <1>2

LEMMA CollectedStep ==
    ASSUME IInv, PromptEnroll, BeforeEnrolment, Collected, Next
    PROVE  Collected'
  <1>w. spent.badWrites # 0 => spent'.badWrites # 0
    BY BadWritesKept
  <1> DEFINE seen == <<gathered, mapped, created, step, children, delivered, results,
                       aggregating, api>>
  <1>1. CASE PublishShard \/ ShardFault
    <2>1. UNCHANGED <<gathered, mapped, created, children, delivered, results, aggregating, api>>
            /\ step' # "over"
      BY <1>1 DEF PublishShard, ShardFault, Skip, tables, entry, history
    <2> QED
      BY <2>1, <1>w DEF Collected, Ingesting
  <1>2. CASE RegisterShard
    <2>1. UNCHANGED <<gathered, children, delivered, results, aggregating, api>>
            /\ mapped' = mapped \cup {next} /\ created' = created \cup {next} /\ step' # "over"
            /\ delivered = {}
      BY <1>2 DEF BeforeEnrolment, RegisterShard, Skip, tables, entry, history
    <2> QED
      BY <2>1, <1>w DEF Collected, Ingesting
  <1>3. CASE Enroll
    <2>1. UNCHANGED <<gathered, mapped, created, delivered, api>> /\ delivered = {}
            /\ api = Nothing /\ children = {} /\ results = {}
      BY <1>3 DEF BeforeEnrolment, Enroll, tables, entry, history, IInv, GatheringSound, Once
    <2>2. CASE created = {} /\ UNCHANGED entry
      BY <2>1, <2>2, <1>w DEF Collected, Ingesting, entry
    <2>3. CASE created # {} /\ NewEntry(created)
      BY <2>1, <2>3, <1>w DEF Collected, Ingesting, NewEntry
    <2> QED
      BY <1>3, <2>2, <2>3 DEF Enroll
  <1>4. CASE \E p \in posts : StoreResult(p)
    <2>1. UNCHANGED <<gathered, mapped, created, step, children, delivered, results, aggregating>>
            /\ api = Nothing /\ api'.step = "collect" /\ api' # Nothing
      BY <1>4 DEF StoreResult, tables, entry, history, fanout, Nothing
    <2> QED
      BY <2>1, <1>w DEF Collected, Ingesting
  <1>5. CASE Collect
    <2>1. /\ UNCHANGED <<gathered, mapped, created, step, children>> /\ api # Nothing
          /\ step = "over" /\ api.step = "collect"
      BY <1>5 DEF Collect, Ingesting, Collected, BeforeEnrolment, history, fanout
    <2>2. CASE Collects(api.shard)
      <3>1. results' = results \cup {api.shard} /\ aggregating' = Complete(results')
        BY <1>5, <2>2 DEF Collect
      <3>2. CASE aggregating'
        <4>1. Complete(results')
          BY <3>1, <3>2, Zenon
        <4>2. Ingest("write") /\ UNCHANGED delivered
          BY <1>5, <2>2, <3>2, Zenon DEF Collect
        <4>3. api' # Nothing /\ api'.step = "write" /\ children \subseteq results'
                /\ UNCHANGED delivered
          BY <4>1, <4>2 DEF Ingest, Complete, Nothing
        <4> QED
          BY <2>1, <3>1, <3>2, <4>3 DEF Collected, Ingesting
      <3>3. CASE ~aggregating'
        BY <1>5, <2>1, <2>2, <3>1, <3>3, <1>w DEF Collect, Collected, Ingesting, Answer, Complete
      <3> QED
        BY <3>2, <3>3
    <2>3. CASE ~Collects(api.shard)
      <3>1. UNCHANGED <<results, aggregating>> /\ api' = Nothing
              /\ delivered' = delivered \cup {api.shard}
        BY <1>5, <2>3 DEF Collect, Answer
      <3>2. gathered = <<>> => api.shard \notin created \/ api.shard \in results
        BY <2>1, <2>3 DEF Collects, Collected
      <3> QED
        BY <2>1, <3>1, <3>2, <1>w DEF Collected, Ingesting
    <2> QED
      BY <2>2, <2>3
  <1>6. CASE WriteAggregate
    <2>1. UNCHANGED <<aggregating>> /\ gathered' # <<>> /\ api' # Nothing
            /\ api'.step = "finalize"
      <3>1. gathered \in Seq(SUBSET Shards) /\ results \in SUBSET Shards
        BY DEF IInv, Typed, HistoryTyped, TablesTyped
      <3>2. Append(gathered, results) # <<>>
        BY <3>1
      <3> QED
        BY <1>6, <3>2 DEF WriteAggregate, tables, entry, Ingest, Nothing
    <2> QED
      BY <2>1, <1>w DEF Collected, Ingesting
  <1>7. CASE Finalize
    <2>1. gathered # <<>> /\ gathered' = gathered /\ api' = Nothing /\ aggregating' = FALSE
      BY <1>7 DEF Finalize, Collected, Answer, NewEntry
    <2> QED
      BY <2>1, <1>w DEF Collected, Ingesting
  <1>8. CASE Listen
    <2>1. UNCHANGED seen
      BY <1>8 DEF Listen, TakeTaskEvent, ShardSucceeded, CountShard, ShardFailed, RetryShard,
         SettleParent, tables, entry, history, fanout
    <2> QED
      BY <2>1, <1>w DEF Collected, Ingesting
  <1>9. CASE Recover \/ Dispatch
    <2>1. UNCHANGED seen
      BY <1>9 DEF Recover, TakeUnregister, RescheduleShard, Dispatch, Redispatch, tables, entry,
         history, fanout
    <2> QED
      BY <2>1, <1>w DEF Collected, Ingesting
  <1>10. CASE \E w \in Workers : Work(w) \/ Trouble(w)
    <2>1. UNCHANGED seen
      BY <1>10 DEF Work, Trouble, ExecutorReturns, ExecutorRaises, ResultAccepted, ResultRefused,
         ResultTimesOut, Shutdown, Join, tables, entry, history, fanout
    <2> QED
      BY <2>1, <1>w DEF Collected, Ingesting
  <1>11. CASE WriteRaises
    <2>1. UNCHANGED <<mapped, created, step, children, results, delivered>> /\ api' = Nothing
            /\ aggregating' = aggregating /\ Ingesting("write")
      BY <1>11 DEF WriteRaises, tables, entry, fanout
    <2>2. /\ spent'.badWrites # 0 /\ gathered = <<>>
      BY <1>11, <2>1, BadWritesKept DEF IInv, GatheringSound, Once
    <2> QED
      BY <2>1, <2>2 DEF Collected, Ingesting
  <1> QED
    BY <1>11, <1>1, <1>2, <1>3, <1>4, <1>5, <1>6, <1>7, <1>8, <1>9, <1>10 DEF Next, FanOut, IngestResult

Prompt == BeforeEnrolment /\ Collected

LEMMA NothingChangedPrompt ==
    ASSUME Prompt, UNCHANGED vars
    PROVE  Prompt'
  <1>1. BeforeEnrolment'
    BY DEF Prompt, BeforeEnrolment, vars, records, fanout, channels, workers, history
  <1>2. Collected'
    BY DEF Prompt, Collected, Ingesting, vars, tables, entry, fanout, history
  <1> QED
    BY <1>1, <1>2 DEF Prompt

LEMMA InitPrompt == Init => Prompt
  <1> SUFFICES ASSUME Init PROVE Prompt
    OBVIOUS
  <1>1. BeforeEnrolment /\ Collected
    BY DEF Init, BeforeEnrolment, Collected, Ingesting
  <1> QED
    BY <1>1 DEF Prompt

LEMMA PromptInvariance ==
    ASSUME PromptEnroll
    PROVE  Spec => []Prompt
  <1>1. IInv /\ Prompt /\ [Next]_vars => Prompt'
    BY BeforeEnrolmentStep, CollectedStep, NothingChangedPrompt DEF Prompt
  <1> QED
    BY <1>1, Invariance, InitPrompt, PTL DEF Spec

(* When the fan-out is over before a worker ends a job, no accepted result *)
(* is dropped: once those of all registered shards have been accepted, the *)
(* parent's result is written (aggregation.py 66-151), for every number of *)
(* shards and workers and any faults, failures, timeouts and retries.  If a*)
(* write raised instead, the table still has all the results.              *)
THEOREM NoResultDropped ==
    ASSUME PromptEnroll
    PROVE  Spec => []CompleteIsAggregated
  <1>1. IInv /\ Prompt => CompleteIsAggregated
    BY DEF IInv, GatheringSound, Once, Prompt, BeforeEnrolment, Collected, CompleteIsAggregated, Ingesting
  <1> QED
    BY <1>1, Invariance, PromptInvariance, PTL

-----------------------------------------------------------------------------
(* What will move a shard that is PENDING or DISPATCHED on, in the form    *)
(* that every step keeps: a section of the listener counts only while it   *)
(* still has to write the shard's status, a lost shard only while it is    *)
(* assigned to the lost worker.                                            *)
Reported(c) == \E i \in DOMAIN taskEvents : taskEvents[i].shard = c
AtWork(c) == assigned[c] \in up /\ job[assigned[c]] = c
Settling(c) == listener # Nothing /\ listener.shard = c
                 /\ listener.step \in {"succeeded", "failed", "retry"}
Announced(w) == \E i \in DOMAIN workerEvents : workerEvents[i] = w
BeingRescued(c) == rescheduler # Nothing /\ c \in rescheduler.lost
                     /\ assigned[c] = rescheduler.worker
Moving(c) == \/ c \in pooled \/ AtWork(c) \/ Reported(c) \/ Settling(c)
             \/ Announced(assigned[c]) \/ BeingRescued(c)

Followed ==
    /\ \A c \in mapped : status[c] \in {"PENDING", "DISPATCHED"} => Moving(c)
    /\ \A c \in mapped : status[c] # "NONE"
    /\ \A c \in Shards : status[c] = "PENDING" => assigned[c] = 0
    /\ listener # Nothing => listener.known \/ listener.shard \notin mapped

(* The events after one is appended or taken, index by index.              *)
LEMMA AppendedEvents ==
    ASSUME IInv, NEW t \in {"succeeded", "failed"}, NEW d \in Shards,
           taskEvents' = Append(taskEvents, [type |-> t, shard |-> d])
    PROVE  /\ DOMAIN taskEvents' = DOMAIN taskEvents \cup {Len(taskEvents) + 1}
           /\ Len(taskEvents) + 1 \notin DOMAIN taskEvents
           /\ \A i \in DOMAIN taskEvents : taskEvents'[i] = taskEvents[i]
           /\ taskEvents'[Len(taskEvents) + 1].type = t
           /\ taskEvents'[Len(taskEvents) + 1].shard = d
  <1> DEFINE E == [type : {"succeeded", "failed"}, shard : Shards]
             e == [type |-> t, shard |-> d]
  <1>1. taskEvents \in Seq(E) /\ e \in E
    BY DEF IInv, Typed, ChannelsTyped
  <1>2. e.shard = d /\ e.type = t
    OBVIOUS
  <1> HIDE DEF E, e
  <1>3. /\ DOMAIN taskEvents' = 1..Len(taskEvents) + 1
        /\ DOMAIN taskEvents = 1..Len(taskEvents)
        /\ Len(taskEvents) \in Nat
        /\ \A i \in 1..Len(taskEvents) : taskEvents'[i] = taskEvents[i]
        /\ taskEvents'[Len(taskEvents) + 1] = e
    BY <1>1 DEF e
  <1> QED
    BY <1>2, <1>3

LEMMA TakenEvents ==
    ASSUME IInv, taskEvents # <<>>, taskEvents' = Tail(taskEvents)
    PROVE  /\ 1 \in DOMAIN taskEvents /\ Head(taskEvents) = taskEvents[1]
           /\ \A i \in DOMAIN taskEvents' :
                /\ i + 1 \in DOMAIN taskEvents /\ i + 1 # 1 /\ i \in Nat
                /\ taskEvents'[i] = taskEvents[i + 1]
           /\ \A i \in DOMAIN taskEvents : i # 1 =>
                i - 1 \in DOMAIN taskEvents' /\ taskEvents'[i - 1] = taskEvents[i]
  <1> DEFINE E == [type : {"succeeded", "failed"}, shard : Shards]
  <1>1. taskEvents \in Seq(E)
    BY DEF IInv, Typed, ChannelsTyped
  <1> HIDE DEF E
  <1>2. /\ DOMAIN taskEvents = 1..Len(taskEvents) /\ Len(taskEvents) \in Nat
        /\ Len(taskEvents) > 0
        /\ DOMAIN taskEvents' = 1..Len(taskEvents) - 1
        /\ \A i \in 1..Len(taskEvents) - 1 : taskEvents'[i] = taskEvents[i + 1]
        /\ Head(taskEvents) = taskEvents[1]
    BY <1>1
  <1>3. ASSUME NEW i \in 1..Len(taskEvents), i # 1
        PROVE  i - 1 \in 1..Len(taskEvents) - 1 /\ taskEvents'[i - 1] = taskEvents[i]
    BY <1>2, <1>3
  <1>4. ASSUME NEW i \in 1..Len(taskEvents) - 1
        PROVE  i + 1 \in 1..Len(taskEvents) /\ i + 1 # 1 /\ i \in Nat
    BY <1>2
  <1> QED
    BY <1>2, <1>3, <1>4

LEMMA AppendReports ==
    ASSUME IInv, NEW t \in {"succeeded", "failed"}, NEW d \in Shards,
           taskEvents' = Append(taskEvents, [type |-> t, shard |-> d])
    PROVE  \A c : Reported(c)' <=> Reported(c) \/ c = d
  BY AppendedEvents DEF Reported

LEMMA TakenReport ==
    ASSUME IInv, taskEvents # <<>>, taskEvents' = Tail(taskEvents)
    PROVE  /\ \A c : Reported(c) => Reported(c)' \/ c = Head(taskEvents).shard
           /\ \A c : Reported(c)' => Reported(c)
  <1>1. ASSUME NEW c, Reported(c), c # Head(taskEvents).shard PROVE Reported(c)'
    <2>1. PICK i \in DOMAIN taskEvents : taskEvents[i].shard = c
      BY <1>1 DEF Reported
    <2>2. i # 1
      BY <1>1, <2>1, TakenEvents
    <2> QED
      BY <2>1, <2>2, TakenEvents DEF Reported
  <1>2. ASSUME NEW c, Reported(c)' PROVE Reported(c)
    BY <1>2, TakenEvents DEF Reported
  <1> QED
    BY <1>1, <1>2

LEMMA AppendAnnounces ==
    ASSUME IInv, NEW w \in Workers, workerEvents' = Append(workerEvents, w)
    PROVE  \A v : Announced(v)' <=> Announced(v) \/ v = w
  <1>1. /\ DOMAIN workerEvents' = 1..Len(workerEvents) + 1
        /\ DOMAIN workerEvents = 1..Len(workerEvents)
        /\ Len(workerEvents) \in Nat
        /\ \A i \in 1..Len(workerEvents) : workerEvents'[i] = workerEvents[i]
        /\ workerEvents'[Len(workerEvents) + 1] = w
    BY DEF IInv, Typed, ChannelsTyped
  <1> QED
    BY <1>1 DEF Announced

LEMMA TakenAnnouncement ==
    ASSUME IInv, workerEvents # <<>>, workerEvents' = Tail(workerEvents)
    PROVE  \A v : Announced(v) => Announced(v)' \/ v = Head(workerEvents)
  <1>1. /\ DOMAIN workerEvents = 1..Len(workerEvents) /\ Len(workerEvents) \in Nat
        /\ Len(workerEvents) > 0
        /\ DOMAIN workerEvents' = 1..Len(workerEvents) - 1
        /\ \A i \in 1..Len(workerEvents) - 1 : workerEvents'[i] = workerEvents[i + 1]
        /\ Head(workerEvents) = workerEvents[1]
    BY DEF IInv, Typed, ChannelsTyped
  <1>2. ASSUME NEW i \in 1..Len(workerEvents), i # 1
        PROVE  i - 1 \in 1..Len(workerEvents) - 1 /\ workerEvents'[i - 1] = workerEvents[i]
    BY <1>1, <1>2
  <1> QED
    BY <1>1, <1>2 DEF Announced

(* A step that touches nothing that moves a shard, and no status but those *)
(* it makes final.                                                         *)
LEMMA FollowedKept ==
    ASSUME Followed, mapped' \subseteq mapped,
           UNCHANGED <<assigned, pooled, up, job, taskEvents, listener, workerEvents, rescheduler>>,
           \A c \in Shards : status'[c] = status[c] \/ status'[c] \in {"DONE", "FAILED"},
           mapped \subseteq Shards
    PROVE  Followed'
  <1>1. \A c : Moving(c)' <=> Moving(c)
    BY DEF Moving, AtWork, Reported, Settling, Announced, BeingRescued
  <1> QED
    BY <1>1 DEF Followed

LEMMA FanOutFollows ==
    ASSUME IInv, BeforeEnrolment, Followed, FanOut \/ ShardFault
    PROVE  Followed'
  <1>t. /\ status \in [Shards -> {"NONE", "PENDING", "DISPATCHED", "FAILED", "DONE"}]
        /\ assigned \in [Shards -> Workers \cup {0}] /\ mapped \subseteq Shards
        /\ job \in [Workers -> Shards \cup {0}]
    BY DEF IInv, Typed, RecordsTyped, TablesTyped, WorkersTyped
  <1>1. CASE PublishShard
    <2>1. UNCHANGED <<mapped, status, assigned, pooled, up, taskEvents, listener, workerEvents,
                      rescheduler>>
      BY <1>1 DEF PublishShard, records, tables, channels
    <2>2. next \in Shards /\ \A w \in Workers : job[w] \in {0, w}
      BY <1>1, NextIsWorker DEF PublishShard, BeforeEnrolment
    <2>3. UNCHANGED job \/ job' = [job EXCEPT ![next] = next]
      BY <1>1 DEF PublishShard, Give
    <2>4. ASSUME NEW c \in mapped, AtWork(c) PROVE AtWork(c)'
      <3>1. assigned[c] \in Workers /\ job[assigned[c]] = c /\ c # 0
        BY <1>t, <2>4, Zero DEF AtWork, IInv, Typed, WorkersTyped
      <3>2. job'[assigned[c]] = c
        BY <1>t, <2>2, <2>3, <3>1
      <3> QED
        BY <2>1, <2>4, <3>2 DEF AtWork
    <2>5. \A c \in mapped : Moving(c) => Moving(c)'
      BY <2>1, <2>4 DEF Moving, Reported, Settling, Announced, BeingRescued
    <2> QED
      BY <2>1, <2>5 DEF Followed
  <1>2. CASE RegisterShard
    <2>1. PICK c \in Shards : c = next
      BY <1>2, NextIsWorker DEF RegisterShard, IInv, Typed, FanoutTyped
    <2>2. UNCHANGED <<pooled, up, job, taskEvents, listener, workerEvents, rescheduler>>
            /\ mapped' = mapped \cup {c} /\ listener = Nothing
            /\ status' = [status EXCEPT ![c] = "DISPATCHED"]
            /\ assigned' = [assigned EXCEPT ![c] = c]
      BY <1>2, <2>1 DEF RegisterShard, channels, workers, BeforeEnrolment
    <2>3. c \in Workers /\ up = Workers /\ job[c] = c
      BY <1>2, <2>1, NextIsWorker DEF RegisterShard, BeforeEnrolment, IInv, Typed, FanoutTyped
    <2>4. Moving(c)'
      BY <1>t, <2>2, <2>3 DEF Moving, AtWork
    <2>5. \A d \in Shards : d # c => status'[d] = status[d] /\ assigned'[d] = assigned[d]
      BY <1>t, <2>2
    <2>6. ASSUME NEW d \in mapped, d # c, Moving(d) PROVE Moving(d)'
      BY <1>t, <2>2, <2>5, <2>6 DEF Moving, AtWork, Reported, Settling, Announced, BeingRescued
    <2>7. status'[c] = "DISPATCHED"
      BY <1>t, <2>2
    <2> QED
      BY <1>t, <2>2, <2>4, <2>5, <2>6, <2>7 DEF Followed
  <1>3. CASE Enroll
    <2>1. UNCHANGED <<mapped, status, assigned, pooled, up, job, taskEvents, listener,
                      workerEvents, rescheduler>>
      BY <1>3 DEF Enroll, channels, workers
    <2> QED
      BY <1>t, <2>1, FollowedKept
  <1>4. CASE ShardFault
    <2>1. UNCHANGED <<mapped, assigned, pooled, up, job, taskEvents, listener,
                      workerEvents, rescheduler>>
            /\ status' = [status EXCEPT ![next] = "FAILED"]
      BY <1>4 DEF ShardFault, tables, channels, workers
    <2>2. \A c \in Shards : status'[c] = status[c] \/ status'[c] \in {"DONE", "FAILED"}
      BY <1>t, <2>1
    <2> QED
      BY <1>t, <2>1, <2>2, FollowedKept
  <1> QED
    BY <1>1, <1>2, <1>3, <1>4 DEF FanOut

LEMMA IngestFollows ==
    ASSUME IInv, Followed, IngestResult \/ WriteRaises
    PROVE  Followed'
  <1>t. /\ status \in [Shards -> {"NONE", "PENDING", "DISPATCHED", "FAILED", "DONE"}]
        /\ mapped \subseteq Shards
    BY DEF IInv, Typed, RecordsTyped, TablesTyped
  <1>1. UNCHANGED <<assigned, pooled, up, job, taskEvents, listener, workerEvents, rescheduler>>
          /\ mapped' \subseteq mapped
    BY DEF IngestResult, StoreResult, Collect, WriteAggregate, WriteRaises, Finalize, Answer, records,
       channels, workers, tables
  <1>2. \A c \in Shards : status'[c] = status[c] \/ status'[c] \in {"DONE", "FAILED"}
    <2>1. UNCHANGED status \/ \E p \in posts : status' = [status EXCEPT ![p.shard] = "DONE"]
      BY DEF IngestResult, StoreResult, Collect, WriteAggregate, WriteRaises, Finalize, records
    <2> QED
      BY <1>t, <2>1
  <1> QED
    BY <1>t, <1>1, <1>2, FollowedKept

LEMMA ListenFollows ==
    ASSUME IInv, Followed, Listen
    PROVE  Followed'
  <1>t. /\ status \in [Shards -> {"NONE", "PENDING", "DISPATCHED", "FAILED", "DONE"}]
        /\ assigned \in [Shards -> Workers \cup {0}] /\ mapped \subseteq Shards
        /\ pooled \subseteq Shards
        /\ taskEvents \in Seq([type : {"succeeded", "failed"}, shard : Shards])
        /\ listener # Nothing => listener \in
             [step : {"succeeded", "count", "failed", "retry", "wait", "exhausted"},
              shard : Shards, known : BOOLEAN, mapped : BOOLEAN]
    BY DEF IInv, Typed, RecordsTyped, TablesTyped, ThreadsTyped, ChannelsTyped
  <1>u. UNCHANGED <<mapped, up, job, workerEvents, rescheduler>>
    BY DEF Listen, TakeTaskEvent, ShardSucceeded, CountShard, ShardFailed, RetryShard,
       SettleParent, tables, channels, workers
  <1>1. CASE TakeTaskEvent
    <2> DEFINE E == [type : {"succeeded", "failed"}, shard : Shards]
    <2>1. taskEvents # <<>> /\ taskEvents' = Tail(taskEvents) /\ taskEvents \in Seq(E)
      BY <1>1, <1>t DEF TakeTaskEvent
    <2> HIDE DEF E
    <2>2. Head(taskEvents) \in E
      BY <2>1
    <2>3. PICK c \in Shards, type \in {"succeeded", "failed"} :
            c = Head(taskEvents).shard /\ type = Head(taskEvents).type
      BY <2>2 DEF E
    <2>4. /\ listener = Nothing
          /\ listener' = [step |-> type, shard |-> c, known |-> status[c] # "NONE",
                          mapped |-> c \in mapped]
          /\ pooled' = pooled \ {c}
          /\ UNCHANGED <<status, assigned>>
      BY <1>1, <2>3 DEF TakeTaskEvent
    <2>5. Moving(c)'
      BY <2>4 DEF Moving, Settling, Nothing
    <2>6. ASSUME NEW d, d # c, Moving(d) PROVE Moving(d)'
      <3>1. Reported(d) => Reported(d)'
        BY <1>t, <2>1, <2>3, <2>6, TakenReport
      <3> QED
        BY <1>u, <2>4, <2>6, <3>1 DEF Moving, AtWork, Settling, Announced, BeingRescued
    <2>7. listener'.known \/ listener'.shard \notin mapped'
      BY <1>u, <2>4 DEF Followed
    <2> QED
      BY <1>u, <2>4, <2>5, <2>6, <2>7 DEF Followed
  <1>2. CASE ShardSucceeded \/ ShardFailed
    <2>1. /\ listener # Nothing /\ listener.shard \in Shards
          /\ UNCHANGED <<assigned, pooled, taskEvents>>
      BY <1>2, <1>t DEF ShardSucceeded, ShardFailed, Handling, channels
    <2>2. /\ listener.known => status'[listener.shard] \in {"DONE", "FAILED"}
          /\ \A d \in Shards : d # listener.shard => status'[d] = status[d]
          /\ ~listener.known => status' = status
      BY <1>2, <1>t, <2>1 DEF ShardSucceeded, ShardFailed
    <2>3. listener' = Nothing \/ (listener' # Nothing /\ listener'.shard = listener.shard
                                    /\ listener'.known = listener.known)
      BY <1>2 DEF ShardSucceeded, ShardFailed, Proceed, Nothing
    <2>4. ASSUME NEW d, d # listener.shard, Moving(d) PROVE Moving(d)'
      BY <1>u, <2>1, <2>4 DEF Moving, AtWork, Reported, Settling, Announced, BeingRescued
    <2>5. \A d \in mapped : status'[d] # "NONE"
      BY <1>t, <2>1, <2>2 DEF Followed
    <2>6. \A d \in Shards : status'[d] = "PENDING" => assigned'[d] = 0
      BY <2>1, <2>2 DEF Followed
    <2>7. \A d \in mapped : status'[d] \in {"PENDING", "DISPATCHED"} => Moving(d)'
      BY <1>t, <2>1, <2>2, <2>4 DEF Followed
    <2>8. listener' # Nothing => listener'.known \/ listener'.shard \notin mapped'
      BY <1>u, <2>1, <2>3 DEF Followed
    <2> QED
      BY <1>u, <2>5, <2>6, <2>7, <2>8 DEF Followed
  <1>3. CASE CountShard \/ SettleParent
    <2>1. /\ UNCHANGED <<status, assigned, pooled, taskEvents>> /\ listener' = Nothing
          /\ listener.step \in {"count", "wait", "exhausted"}
      BY <1>3 DEF CountShard, SettleParent, Handling, channels
    <2>2. \A d : Moving(d) => Moving(d)'
      BY <1>u, <2>1 DEF Moving, AtWork, Reported, Settling, Announced, BeingRescued
    <2> QED
      BY <1>u, <2>1, <2>2 DEF Followed
  <1>4. CASE RetryShard
    <2>1. PICK c \in Shards : c = listener.shard
      BY <1>4, <1>t DEF RetryShard, Handling
    <2>2. /\ UNCHANGED taskEvents /\ listener # Nothing
          /\ status' = [status EXCEPT ![c] = "PENDING"]
          /\ assigned' = [assigned EXCEPT ![c] = 0]
          /\ pooled' = pooled \cup {c}
          /\ listener' # Nothing /\ listener'.shard = c /\ listener'.known = listener.known
      BY <1>4, <2>1 DEF RetryShard, Requeue, Handling, Proceed, channels, Nothing
    <2>3. Moving(c)'
      BY <2>2 DEF Moving
    <2>4. \A d \in Shards : d # c => status'[d] = status[d] /\ assigned'[d] = assigned[d]
      BY <1>t, <2>2
    <2>5. ASSUME NEW d \in Shards, d # c, Moving(d) PROVE Moving(d)'
      <3>1. ~Settling(d) /\ assigned'[d] = assigned[d]
        BY <2>1, <2>4, <2>5 DEF Settling
      <3> QED
        BY <1>u, <2>2, <2>5, <3>1 DEF Moving, AtWork, Reported, Announced, BeingRescued
    <2>6. status'[c] = "PENDING" /\ assigned'[c] = 0
      BY <1>t, <2>2
    <2>7. listener'.known \/ listener'.shard \notin mapped'
      BY <1>u, <2>1, <2>2 DEF Followed
    <2> QED
      BY <1>t, <1>u, <2>3, <2>4, <2>5, <2>6, <2>7 DEF Followed
  <1> QED
    BY <1>1, <1>2, <1>3, <1>4 DEF Listen

(* A shard's rescuer is chosen by its status and its worker; the shards it *)
(* leaves alone have been taken over by another worker or by the pool.     *)
LEMMA RecoverFollows ==
    ASSUME IInv, Followed, Recover
    PROVE  Followed'
  <1>t. /\ status \in [Shards -> {"NONE", "PENDING", "DISPATCHED", "FAILED", "DONE"}]
        /\ assigned \in [Shards -> Workers \cup {0}] /\ mapped \subseteq Shards
        /\ workerEvents \in Seq(Workers)
        /\ rescheduler # Nothing => rescheduler \in
             [worker : Workers, lost : SUBSET Shards, mapped : SUBSET Shards]
    BY DEF IInv, Typed, RecordsTyped, TablesTyped, ThreadsTyped, ChannelsTyped
  <1>u. UNCHANGED <<mapped, up, job, taskEvents, listener>>
    BY DEF Recover, TakeUnregister, RescheduleShard, tables, channels, workers
  <1>1. CASE TakeUnregister
    <2>1. workerEvents # <<>> /\ workerEvents' = Tail(workerEvents) /\ rescheduler = Nothing
            /\ UNCHANGED <<status, assigned, pooled>>
      BY <1>1 DEF TakeUnregister, records
    <2>2. PICK w \in Workers : w = Head(workerEvents)
      BY <1>t, <2>1
    <2>3. PICK lost : lost = {c \in Shards : status[c] = "DISPATCHED" /\ assigned[c] = w}
      OBVIOUS
    <2>4. rescheduler' = IF lost = {} THEN Nothing
                         ELSE [worker |-> w, lost |-> lost, mapped |-> mapped \cap lost]
      BY <1>1, <2>2, <2>3 DEF TakeUnregister
    <2>5. ASSUME NEW c \in mapped, status[c] \in {"PENDING", "DISPATCHED"}, Moving(c)
          PROVE  Moving(c)'
      <3>1. CASE Announced(assigned[c]) /\ assigned[c] = w
        <4>1. c \in lost
          BY <1>t, <2>3, <2>5, <3>1, Zero DEF Followed
        <4>2. BeingRescued(c)'
          BY <2>1, <2>4, <3>1, <4>1 DEF BeingRescued, Nothing
        <4> QED
          BY <4>2 DEF Moving
      <3>2. CASE Announced(assigned[c]) /\ assigned[c] # w
        <4>1. PICK v : v = assigned[c]
          OBVIOUS
        <4>2. Announced(v)'
          BY <2>1, <2>2, <3>2, <4>1, TakenAnnouncement
        <4> QED
          BY <2>1, <4>1, <4>2 DEF Moving
      <3>3. CASE ~Announced(assigned[c])
        BY <1>u, <2>1, <2>5, <3>3 DEF Moving, AtWork, Reported, Settling, BeingRescued
      <3> QED
        BY <3>1, <3>2, <3>3
    <2> QED
      BY <1>u, <2>1, <2>5 DEF Followed
  <1>2. CASE RescheduleShard
    <2>1. PICK c \in rescheduler.lost :
            /\ rescheduler' = IF rescheduler.lost = {c} THEN Nothing
                              ELSE [worker |-> rescheduler.worker,
                                    lost |-> rescheduler.lost \ {c},
                                    mapped |-> rescheduler.mapped]
            /\ assigned[c] = rescheduler.worker => Requeue(c)
            /\ assigned[c] # rescheduler.worker => UNCHANGED records
      BY <1>2 DEF RescheduleShard
    <2>2. c \in Shards /\ rescheduler # Nothing /\ UNCHANGED workerEvents
      BY <1>2, <1>t, <2>1 DEF RescheduleShard, channels
    <2>3. \A d : d # c /\ BeingRescued(d) => rescheduler.lost # {c}
      BY DEF BeingRescued
    <2>4. CASE assigned[c] = rescheduler.worker
      <3>1. /\ status' = [status EXCEPT ![c] = "PENDING"]
            /\ assigned' = [assigned EXCEPT ![c] = 0]
            /\ pooled' = pooled \cup {c}
        BY <2>1, <2>4 DEF Requeue
      <3>2. \A d \in Shards : d # c => status'[d] = status[d] /\ assigned'[d] = assigned[d]
        BY <1>t, <3>1
      <3>3. status'[c] = "PENDING" /\ assigned'[c] = 0
        BY <1>t, <2>2, <3>1
      <3>4. Moving(c)'
        BY <3>1 DEF Moving
      <3>5. ASSUME NEW d \in Shards, d # c, Moving(d) PROVE Moving(d)'
        <4>1. BeingRescued(d) => BeingRescued(d)'
          BY <2>1, <2>3, <3>2, <3>5 DEF BeingRescued, Nothing
        <4> QED
          BY <1>u, <2>2, <3>1, <3>2, <3>5, <4>1 DEF Moving, AtWork, Reported, Settling, Announced
      <3> QED
        BY <1>t, <1>u, <3>2, <3>3, <3>4, <3>5 DEF Followed
    <2>5. CASE assigned[c] # rescheduler.worker
      <3>1. UNCHANGED <<status, assigned, pooled>>
        BY <2>1, <2>5 DEF records
      <3>2. ASSUME NEW d, Moving(d) PROVE Moving(d)'
        <4>1. BeingRescued(d) => BeingRescued(d)'
          BY <2>1, <2>3, <2>5, <3>1 DEF BeingRescued, Nothing
        <4> QED
          BY <1>u, <2>2, <3>1, <3>2, <4>1 DEF Moving, AtWork, Reported, Settling, Announced
      <3> QED
        BY <1>u, <3>1, <3>2 DEF Followed
    <2> QED
      BY <2>4, <2>5
  <1> QED
    BY <1>1, <1>2 DEF Recover

LEMMA DispatchFollows ==
    ASSUME IInv, Followed, NEW c \in Shards, NEW w \in Workers, Redispatch(c, w)
    PROVE  Followed'
  <1>t. /\ status \in [Shards -> {"NONE", "PENDING", "DISPATCHED", "FAILED", "DONE"}]
        /\ assigned \in [Shards -> Workers \cup {0}] /\ mapped \subseteq Shards
        /\ job \in [Workers -> Shards \cup {0}] /\ up \subseteq Workers
    BY DEF IInv, Typed, RecordsTyped, TablesTyped, WorkersTyped
  <1>1. /\ UNCHANGED <<mapped, up, taskEvents, listener, workerEvents, rescheduler>>
        /\ w \in up /\ job[w] = 0
        /\ pooled' = pooled \ {c} /\ job' = [job EXCEPT ![w] = c]
        /\ status' = [status EXCEPT ![c] = "DISPATCHED"]
        /\ assigned' = [assigned EXCEPT ![c] = w]
    BY DEF Redispatch, Give, tables, channels
  <1>2. status'[c] = "DISPATCHED" /\ assigned'[c] = w /\ job'[w] = c
    BY <1>t, <1>1
  <1>3. Moving(c)'
    BY <1>1, <1>2 DEF Moving, AtWork
  <1>4. \A d \in Shards : d # c => status'[d] = status[d] /\ assigned'[d] = assigned[d]
    BY <1>t, <1>1
  <1>5. ASSUME NEW d \in Shards, d # c, Moving(d) PROVE Moving(d)'
    <2>1. AtWork(d) => AtWork(d)'
      <3>1. ASSUME AtWork(d) PROVE assigned[d] # w
        BY <1>1, <3>1, Zero DEF AtWork
      <3> QED
        BY <1>t, <1>1, <1>4, <1>5, <3>1 DEF AtWork
    <2> QED
      BY <1>1, <1>4, <1>5, <2>1 DEF Moving, Reported, Settling, Announced, BeingRescued
  <1> QED
    BY <1>t, <1>1, <1>2, <1>3, <1>4, <1>5 DEF Followed

(* A worker that ends a job reports it before it lets go of the shard.     *)
LEMMA ReportFollows ==
    ASSUME IInv, Followed, NEW w \in Workers, NEW type \in {"succeeded", "failed"},
           Report(w, type), job[w] # 0,
           UNCHANGED <<mapped, status, assigned, pooled, up, listener, workerEvents, rescheduler>>
    PROVE  Followed'
  <1>t. job \in [Workers -> Shards \cup {0}] /\ up \subseteq Workers
    BY DEF IInv, Typed, WorkersTyped
  <1>1. PICK c \in Shards : c = job[w]
    BY <1>t
  <1>2. taskEvents' = Append(taskEvents, [type |-> type, shard |-> c])
          /\ job' = [job EXCEPT ![w] = 0]
    BY <1>1 DEF Report
  <1>3. \A d : Reported(d)' <=> Reported(d) \/ d = c
    BY <1>2, AppendReports
  <1>4. ASSUME NEW d, AtWork(d), d # c PROVE AtWork(d)'
    BY <1>t, <1>1, <1>2, <1>4 DEF AtWork
  <1>5. ASSUME NEW d, Moving(d) PROVE Moving(d)'
    BY <1>3, <1>4, <1>5 DEF Moving, Settling, Announced, BeingRescued
  <1> QED
    BY <1>5 DEF Followed

LEMMA WorkerFollows ==
    ASSUME IInv, Followed, NEW w \in Workers, Work(w) \/ Trouble(w)
    PROVE  Followed'
  <1>t. /\ job \in [Workers -> Shards \cup {0}] /\ up \subseteq Workers
        /\ mapped \subseteq Shards
        /\ \A v \in Workers : phase[v] # "ready" => job[v] # 0
    BY DEF IInv, Typed, WorkersTyped, TablesTyped
  <1>u. UNCHANGED <<mapped, status, assigned, pooled, listener, rescheduler>>
    BY DEF Work, Trouble, ExecutorReturns, ExecutorRaises, ResultAccepted, ResultRefused, ResultTimesOut,
       Shutdown, Join, records, tables
  <1>1. CASE ExecutorReturns(w)
    <2>1. UNCHANGED <<up, workerEvents>> /\ job[w] # 0
      BY <1>1, <1>t DEF ExecutorReturns, MayEnd
    <2>2. Report(w, "succeeded") \/ UNCHANGED <<taskEvents, job>>
      BY <1>1 DEF ExecutorReturns
    <2> QED
      BY <1>t, <1>u, <2>1, <2>2, ReportFollows, FollowedKept
  <1>2. CASE ExecutorRaises(w) \/ ResultAccepted(w) \/ ResultRefused(w) \/ ResultTimesOut(w)
    <2>1. UNCHANGED <<up, workerEvents>> /\ job[w] # 0
      BY <1>2, <1>t DEF ExecutorRaises, ResultAccepted, ResultRefused, ResultTimesOut, MayEnd
    <2>2. Report(w, "succeeded") \/ Report(w, "failed")
      BY <1>2 DEF ExecutorRaises, ResultAccepted, ResultRefused, ResultTimesOut
    <2> QED
      BY <1>u, <2>1, <2>2, ReportFollows
  <1>3. CASE Shutdown(w)
    <2>1. UNCHANGED taskEvents /\ up' = up \ {w} /\ job' = [job EXCEPT ![w] = 0]
            /\ workerEvents' = Append(workerEvents, w)
      BY <1>3 DEF Shutdown
    <2>2. \A v : Announced(v)' <=> Announced(v) \/ v = w
      BY <2>1, AppendAnnounces
    <2>3. ASSUME NEW c, Moving(c) PROVE Moving(c)'
      <3>1. PICK v : v = assigned[c]
        OBVIOUS
      <3>2. CASE v = w
        <4>1. Announced(v)'
          BY <2>2, <3>2
        <4> QED
          BY <1>u, <3>1, <4>1 DEF Moving
      <3>3. CASE v # w
        <4>1. AtWork(c) => AtWork(c)'
          BY <1>t, <1>u, <2>1, <3>1, <3>3 DEF AtWork
        <4>2. Announced(assigned[c]) => Announced(v)'
          BY <2>2, <3>1
        <4> QED
          BY <1>u, <2>1, <2>3, <3>1, <4>1, <4>2 DEF Moving, Reported, Settling, BeingRescued
      <3> QED
        BY <3>2, <3>3
    <2> QED
      BY <1>u, <2>3 DEF Followed
  <1>4. CASE Join(w)
    <2>1. UNCHANGED <<taskEvents, job, workerEvents>> /\ up \subseteq up'
      BY <1>4 DEF Join, channels
    <2>2. \A c : Moving(c) => Moving(c)'
      BY <1>u, <2>1 DEF Moving, AtWork, Reported, Settling, Announced, BeingRescued
    <2> QED
      BY <1>u, <2>2 DEF Followed
  <1> QED
    BY <1>1, <1>2, <1>3, <1>4 DEF Work, Trouble

LEMMA FollowedStep ==
    ASSUME IInv, BeforeEnrolment, Followed, [Next]_vars
    PROVE  Followed'
  <1>1. CASE UNCHANGED vars
    <2>1. UNCHANGED <<assigned, pooled, up, job, taskEvents, listener, workerEvents, rescheduler>>
            /\ status' = status /\ mapped' = mapped
      BY <1>1 DEF vars, records, tables, channels, workers
    <2> QED
      BY <2>1, FollowedKept DEF IInv, Typed, TablesTyped
  <1>2. CASE Next
    BY <1>2, FanOutFollows, IngestFollows, ListenFollows, RecoverFollows, DispatchFollows,
       WorkerFollows DEF Next, Dispatch
  <1> QED
    BY <1>1, <1>2

LEMMA FollowedInvariance ==
    ASSUME PromptEnroll
    PROVE  Spec => []Followed
  <1>1. Init => Followed
    BY DEF Init, Followed
  <1>2. IInv /\ Prompt /\ Followed /\ [Next]_vars => Followed'
    BY FollowedStep DEF Prompt
  <1> QED
    BY <1>1, <1>2, Invariance, PromptInvariance, PTL DEF Spec

(* When the fan-out is over before a worker ends a job or stops, a shard   *)
(* that is PENDING or DISPATCHED is never abandoned: it is pooled, with a  *)
(* live worker, or named by a message or a thread that will settle it, for *)
(* every number of shards, workers, failures, stops and joins.             *)
THEOREM NoShardForgotten ==
    ASSUME PromptEnroll
    PROVE  Spec => []ShardNotForgotten
  <1>1. IInv /\ Followed => ShardNotForgotten
    <2> SUFFICES ASSUME IInv, Followed, NEW c \in mapped, Moving(c)
                 PROVE  \/ c \in pooled
                        \/ \E w \in up : w = assigned[c] /\ job[w] = c
                        \/ Events(c) # {}
                        \/ listener # Nothing /\ listener.shard = c
                        \/ \E i \in DOMAIN workerEvents : workerEvents[i] = assigned[c]
                        \/ rescheduler # Nothing /\ c \in rescheduler.lost
      BY DEF Followed, ShardNotForgotten
    <2> QED
      BY DEF Moving, AtWork, Reported, Settling, Announced, BeingRescued, Events
  <1> QED
    BY <1>1, Invariance, FollowedInvariance, PTL

-----------------------------------------------------------------------------
(* A parent that is DONE has had all its shards executed, as long as no    *)
(* worker stops (MaxShutdowns = 0).  The listener counts reports of success*)
(* and not shards: the count is right because a shard is in one place at a *)
(* time, and one that is reported, handled and not retried stays settled.  *)
Working(c) == \E w \in Workers : job[w] = c
Handled(c) == listener # Nothing /\ listener.shard = c
                /\ listener.step \in {"succeeded", "count", "failed", "retry"}
Nowhere(c) == ~Working(c) /\ ~Reported(c) /\ ~Handled(c) /\ c \notin pooled
Unpublished == {c \in Shards : c > next \/ (c = next /\ step = "publish")}

NobodyStops == workerEvents = <<>> /\ rescheduler = Nothing
OnePlace ==
    /\ \A v, w \in Workers : job[v] = job[w] /\ job[v] # 0 => v = w
    /\ \A i, j \in DOMAIN taskEvents : taskEvents[i].shard = taskEvents[j].shard => i = j
    /\ \A c \in Shards : Working(c) => ~Reported(c) /\ ~Handled(c) /\ c \notin pooled
    /\ \A c \in Shards : Reported(c) => ~Handled(c) /\ c \notin pooled
    /\ \A c \in Shards : Handled(c) => c \notin pooled
    /\ \A c \in Unpublished : Nowhere(c) /\ c \notin created
Truthful ==
    /\ \A i \in DOMAIN taskEvents :
         taskEvents[i].type = "succeeded" => taskEvents[i].shard \in ran
    /\ Handling("succeeded") \/ Handling("count") => listener.shard \in ran
    /\ listener # Nothing /\ listener.mapped => listener.shard \in created
    /\ Handling("count") => listener.mapped
Settled == {c \in created \cap ran : Nowhere(c)}
Counted ==
    /\ done <= Cardinality(Settled)
    /\ parent = "DONE" => step = "over" /\ created \subseteq ran

LEMMA NobodyStopsStep ==
    ASSUME MaxShutdowns = 0, IInv, NobodyStops, Next
    PROVE  /\ NobodyStops' /\ ~Recover
           /\ \A w \in Workers : ~Shutdown(w)
  <1>1. ~Recover
    BY DEF NobodyStops, Recover, TakeUnregister, RescheduleShard
  <1>2. \A w \in Workers : ~Shutdown(w)
    BY DEF Shutdown, Spend, IInv, Typed, HistoryTyped, Budgets
  <1>3. NobodyStops'
    <2>1. CASE FanOut \/ ShardFault \/ IngestResult \/ WriteRaises \/ Dispatch
      BY <2>1 DEF NobodyStops, FanOut, PublishShard, RegisterShard, Enroll, ShardFault,
         IngestResult, StoreResult, Collect, WriteAggregate, WriteRaises, Finalize, Dispatch, Redispatch,
         channels
    <2>2. CASE Listen
      BY <2>2 DEF NobodyStops, Listen, TakeTaskEvent, ShardSucceeded, CountShard, ShardFailed,
         RetryShard, SettleParent, channels
    <2>3. ASSUME NEW w \in Workers, Work(w) \/ Trouble(w) PROVE NobodyStops'
      BY <1>2, <2>3 DEF NobodyStops, Work, Trouble, ExecutorReturns, ExecutorRaises,
         ResultAccepted, ResultRefused, ResultTimesOut, Join, channels
    <2> QED
      BY <1>1, <2>1, <2>2, <2>3 DEF Next
  <1> QED
    BY <1>1, <1>2, <1>3

(* What a shard's settlement rests on only grows.                          *)
LEMMA Growth ==
    ASSUME IInv, Next
    PROVE  /\ created \subseteq created' /\ ran \subseteq ran'
           /\ step = "over" => step' = "over" /\ created' = created
           /\ Unpublished' \subseteq Unpublished
  <1>1. CASE PublishShard \/ RegisterShard \/ ShardFault \/ Enroll
    <2>1. next \in Nat /\ Shards \subseteq Nat
      BY SMT DEF IInv, Typed, FanoutTyped, Shards
    <2>2. created \subseteq created' /\ ran' = ran /\ step # "over"
      BY <1>1 DEF PublishShard, RegisterShard, ShardFault, Enroll, Skip, history
    <2>3. CASE next' = next + 1
      <3>1. ASSUME NEW c \in Unpublished' PROVE c \in Unpublished
        <4>1. c \in Shards /\ c \in Nat /\ (c > next + 1 \/ c = next + 1)
          BY <2>1, <2>3 DEF Unpublished
        <4>2. c > next
          BY <2>1, <4>1
        <4> QED
          BY <4>1, <4>2 DEF Unpublished
      <3> QED
        BY <2>2, <3>1
    <2>4. CASE next' = next /\ step' # "publish"
      BY <2>1, <2>2, <2>4 DEF Unpublished
    <2> QED
      BY <1>1, <2>2, <2>3, <2>4 DEF PublishShard, RegisterShard, ShardFault, Enroll, Skip
  <1>2. CASE ~(PublishShard \/ RegisterShard \/ ShardFault \/ Enroll)
    <2>1. UNCHANGED fanout
      BY <1>2, FanoutKept
    <2>2. ran \subseteq ran'
      <3>1. CASE IngestResult \/ WriteRaises \/ Recover \/ Dispatch
        BY <3>1 DEF IngestResult, StoreResult, Collect, WriteAggregate, WriteRaises, Finalize, Recover,
           TakeUnregister, RescheduleShard, Dispatch, Redispatch, history
      <3>2. CASE Listen
        BY <3>2 DEF Listen, TakeTaskEvent, ShardSucceeded, CountShard, ShardFailed,
           RetryShard, SettleParent, history
      <3>3. ASSUME NEW w \in Workers, Work(w) \/ Trouble(w) PROVE ran \subseteq ran'
        BY <3>3 DEF Work, Trouble, ExecutorReturns, ExecutorRaises, ResultAccepted, ResultRefused,
           ResultTimesOut, Shutdown, Join, history
      <3> QED
        BY <1>2, <3>1, <3>2, <3>3 DEF Next, FanOut
    <2> QED
      BY <2>1, <2>2 DEF fanout, Unpublished
  <1> QED
    BY <1>1, <1>2

(* Steps by which shards leave places, or stay. *)
LEMMA FewerPlaces ==
    ASSUME OnePlace, \A w \in Workers : job'[w] \in {0, job[w]}, UNCHANGED taskEvents,
           \A c \in Shards : Handled(c)' => Handled(c), pooled' \subseteq pooled,
           Unpublished' \subseteq Unpublished, created' \cap Unpublished' \subseteq created
    PROVE  OnePlace' /\ \A c \in Shards : Nowhere(c) => Nowhere(c)'
  <1>1. \A c \in Shards : (Working(c)' => Working(c)) /\ (Reported(c)' <=> Reported(c))
    BY Zero DEF Working, Reported
  <1>2. \A c \in Shards : Nowhere(c) => Nowhere(c)'
    BY <1>1 DEF Nowhere
  <1>3. \A v, w \in Workers : job'[v] = job'[w] /\ job'[v] # 0 => v = w
    BY DEF OnePlace
  <1>4. \A c \in Unpublished' : c \in Shards
    BY DEF Unpublished
  <1>5. \A c \in Unpublished' : Nowhere(c)' /\ c \notin created'
    BY <1>2, <1>4 DEF OnePlace
  <1> QED
    BY <1>1, <1>2, <1>3, <1>5 DEF OnePlace

LEMMA PublishPlaces ==
    ASSUME IInv, OnePlace, PublishShard
    PROVE  OnePlace' /\ \A c \in created : Nowhere(c) => Nowhere(c)'
  <1>1. PICK c \in Shards : c = next /\ c \in Workers
    BY NextIsWorker DEF PublishShard
  <1>t. job \in [Workers -> Shards \cup {0}] /\ created \subseteq Shards
    BY DEF IInv, Typed, WorkersTyped, FanoutTyped
  <1>2. /\ UNCHANGED <<taskEvents, listener, pooled, created>>
        /\ c \in Unpublished /\ c # 0
        /\ UNCHANGED job \/ (job' = [job EXCEPT ![c] = c] /\ next' = next /\ step' = "register")
      BY <1>1, Zero DEF PublishShard, Give, Unpublished, channels, records
  <1>3. Unpublished' \subseteq Unpublished
    BY Growth DEF Next, FanOut
  <1>h. \A d : Handled(d)' <=> Handled(d)
    BY <1>2 DEF Handled
  <1>4. CASE UNCHANGED job
    BY <1>2, <1>3, <1>4, <1>t, <1>h, FewerPlaces
  <1>5. CASE job' = [job EXCEPT ![c] = c] /\ next' = next /\ step' = "register"
    <2>1. Nowhere(c) /\ c \notin created
      BY <1>2 DEF OnePlace
    <2>2. \A w \in Workers : job'[w] = IF w = c THEN c ELSE job[w]
      BY <1>1, <1>5, <1>t
    <2>3. \A v, w \in Workers : job'[v] = job'[w] /\ job'[v] # 0 => v = w
      BY <1>1, <2>1, <2>2 DEF OnePlace, Nowhere, Working
    <2>4. \A d \in Shards : d # c => (Working(d)' => Working(d))
      BY <2>2 DEF Working
    <2>5. \A d \in Shards : Reported(d)' <=> Reported(d)
      BY <1>2 DEF Reported
    <2>6. \A d \in Shards : d # c => (Nowhere(d) => Nowhere(d)')
      BY <1>2, <1>h, <2>4, <2>5 DEF Nowhere
    <2>7. \A d \in Unpublished' : d # c
      BY <1>1, <1>5, SMT DEF Unpublished, Shards
    <2>8. \A d \in Unpublished' : Nowhere(d)' /\ d \notin created'
      BY <1>2, <1>3, <2>6, <2>7 DEF OnePlace, Unpublished
    <2>9. ~Reported(c) /\ ~Handled(c) /\ c \notin pooled
      BY <2>1 DEF Nowhere
    <2> QED
      BY <1>t, <1>2, <1>h, <2>1, <2>3, <2>4, <2>5, <2>6, <2>8, <2>9 DEF OnePlace
  <1> QED
    BY <1>2, <1>4, <1>5

LEMMA ListenPlaces ==
    ASSUME IInv, OnePlace, Listen, Next
    PROVE  OnePlace' /\ \A c \in created : Nowhere(c) => Nowhere(c)'
  <1>t. /\ listener # Nothing => listener.shard \in Shards
        /\ pooled \subseteq Shards /\ created \subseteq Shards
        /\ job \in [Workers -> Shards \cup {0}]
    BY DEF IInv, Typed, ThreadsTyped, RecordsTyped, WorkersTyped, FanoutTyped
  <1>u. UNCHANGED <<job, created>> /\ Unpublished' = Unpublished
    BY DEF Listen, TakeTaskEvent, ShardSucceeded, CountShard, ShardFailed, RetryShard,
       SettleParent, workers, fanout, Unpublished
  <1>w. \A d : Working(d)' <=> Working(d)
    BY <1>u DEF Working
  <1>1. CASE TakeTaskEvent
    <2>1. taskEvents # <<>> /\ taskEvents' = Tail(taskEvents) /\ listener = Nothing
      BY <1>1 DEF TakeTaskEvent
    <2>2. PICK c : c = Head(taskEvents).shard
      OBVIOUS
    <2>3. pooled' = pooled \ {c} /\ listener'.shard = c
      BY <1>1, <2>2 DEF TakeTaskEvent
    <2>4. /\ \A i, j \in DOMAIN taskEvents' : taskEvents'[i].shard = taskEvents'[j].shard => i = j
          /\ \A i \in DOMAIN taskEvents' : taskEvents'[i].shard # c
          /\ Reported(c)
      <3>1. 1 \in DOMAIN taskEvents /\ taskEvents[1].shard = c
        BY <2>1, <2>2, TakenEvents
      <3>2. ASSUME NEW i \in DOMAIN taskEvents', NEW j \in DOMAIN taskEvents',
                   taskEvents'[i].shard = taskEvents'[j].shard
            PROVE  i = j
        <4>1. /\ i + 1 \in DOMAIN taskEvents /\ j + 1 \in DOMAIN taskEvents
              /\ i \in Nat /\ j \in Nat
              /\ taskEvents[i + 1].shard = taskEvents[j + 1].shard
          BY <2>1, <3>2, TakenEvents
        <4>2. i + 1 = j + 1
          BY <4>1 DEF OnePlace
        <4> QED
          BY <4>1, <4>2
      <3>3. ASSUME NEW i \in DOMAIN taskEvents', taskEvents'[i].shard = c PROVE FALSE
        <4>1. i + 1 \in DOMAIN taskEvents /\ i + 1 # 1 /\ taskEvents[i + 1].shard = c
          BY <2>1, <3>3, TakenEvents
        <4> QED
          BY <3>1, <4>1 DEF OnePlace
      <3> QED
        BY <3>1, <3>2, <3>3 DEF Reported
    <2>5. /\ \A d : Reported(d)' => Reported(d)
          /\ ~Reported(c)'
      BY <2>1, <2>4, TakenReport DEF Reported
    <2>6. \A d : Handled(d)' => d = c
      BY <2>3 DEF Handled
    <2>7. \A d : Nowhere(d) => Nowhere(d)'
      BY <1>w, <2>3, <2>4, <2>5, <2>6 DEF Nowhere
    <2>8. ~Working(c) \/ c \notin Shards
      BY <2>4 DEF OnePlace
    <2> QED
      BY <1>u, <1>w, <2>3, <2>4, <2>5, <2>6, <2>7, <2>8 DEF OnePlace
  <1>2. CASE ShardSucceeded \/ CountShard \/ ShardFailed \/ SettleParent
    <2>1. UNCHANGED <<taskEvents, pooled>> /\ listener # Nothing
      BY <1>2 DEF ShardSucceeded, CountShard, ShardFailed, SettleParent, Handling, channels
    <2>2. listener' = Nothing \/ (listener'.shard = listener.shard
            /\ listener.step \in {"succeeded", "failed"})
      BY <1>2 DEF ShardSucceeded, CountShard, ShardFailed, SettleParent, Handling, Proceed
    <2>3. \A d \in Shards : Handled(d)' => Handled(d)
      BY <2>1, <2>2 DEF Handled
    <2> QED
      BY <1>t, <1>u, <2>1, <2>3, FewerPlaces
  <1>3. CASE RetryShard
    <2>1. PICK c \in Shards : c = listener.shard /\ Handled(c)
      BY <1>3, <1>t DEF RetryShard, Handling, Handled
    <2>2. UNCHANGED taskEvents /\ pooled' = pooled \cup {c} /\ listener'.step = "wait"
      BY <1>3, <2>1 DEF RetryShard, Requeue, Proceed, channels
    <2>3. \A d : ~Handled(d)' /\ (Reported(d)' <=> Reported(d))
      BY <2>2 DEF Handled, Reported
    <2>4. \A d : Nowhere(d) => Nowhere(d)'
      BY <1>w, <2>1, <2>2, <2>3 DEF Nowhere
    <2>5. ~Working(c) /\ ~Reported(c)
      BY <2>1 DEF OnePlace
    <2> QED
      BY <1>u, <1>w, <2>2, <2>3, <2>4, <2>5 DEF OnePlace
  <1> QED
    BY <1>1, <1>2, <1>3 DEF Listen

LEMMA DispatchPlaces ==
    ASSUME IInv, OnePlace, NEW c \in Shards, NEW w \in Workers, Redispatch(c, w)
    PROVE  OnePlace' /\ \A d \in created : Nowhere(d) => Nowhere(d)'
  <1>t. job \in [Workers -> Shards \cup {0}] /\ created \subseteq Shards
    BY DEF IInv, Typed, WorkersTyped, FanoutTyped
  <1>1. /\ c \in pooled /\ pooled' = pooled \ {c} /\ job[w] = 0
        /\ job' = [job EXCEPT ![w] = c] /\ UNCHANGED <<taskEvents, listener, created>>
        /\ Unpublished' = Unpublished
    BY DEF Redispatch, Give, channels, fanout, Unpublished
  <1>2. \A v \in Workers : job'[v] = IF v = w THEN c ELSE job[v]
    BY <1>1, <1>t
  <1>3. \A d \in Shards : Working(d)' => Working(d) \/ d = c
    BY <1>2 DEF Working
  <1>4. \A d : (Handled(d)' <=> Handled(d)) /\ (Reported(d)' <=> Reported(d))
    BY <1>1 DEF Handled, Reported
  <1>5. ~Working(c) /\ ~Reported(c) /\ ~Handled(c)
    BY <1>1 DEF OnePlace
  <1>6. \A u, v \in Workers : job'[u] = job'[v] /\ job'[u] # 0 => u = v
    BY <1>2, <1>5 DEF OnePlace, Working
  <1>7. \A d \in Shards : Nowhere(d) => Nowhere(d)'
    BY <1>1, <1>3, <1>4 DEF Nowhere
  <1>8. \A d \in Unpublished' : Nowhere(d)' /\ d \notin created'
    BY <1>1, <1>7 DEF OnePlace, Unpublished
  <1> QED
    BY <1>t, <1>1, <1>3, <1>4, <1>5, <1>6, <1>7, <1>8 DEF OnePlace

LEMMA ReportPlaces ==
    ASSUME IInv, OnePlace, NEW w \in Workers, NEW type \in {"succeeded", "failed"},
           Report(w, type), job[w] # 0, UNCHANGED <<listener, pooled, fanout>>
    PROVE  OnePlace' /\ \A d \in created : Nowhere(d) => Nowhere(d)'
  <1>t. job \in [Workers -> Shards \cup {0}] /\ created \subseteq Shards
    BY DEF IInv, Typed, WorkersTyped, FanoutTyped
  <1>1. PICK c \in Shards : c = job[w] /\ Working(c)
    BY <1>t DEF Working
  <1>2. taskEvents' = Append(taskEvents, [type |-> type, shard |-> c])
          /\ job' = [job EXCEPT ![w] = 0]
    BY <1>1 DEF Report
  <1>3. \A d : Reported(d)' <=> Reported(d) \/ d = c
    BY <1>2, AppendReports
  <1>4. \A v \in Workers : job'[v] = IF v = w THEN 0 ELSE job[v]
    BY <1>2, <1>t
  <1>5. (\A d \in Shards : Working(d)' => Working(d)) /\ ~Working(c)'
    BY <1>1, <1>4, Zero DEF OnePlace, Working
  <1>6. \A d : Handled(d)' <=> Handled(d)
    BY DEF Handled
  <1>7. ~Reported(c) /\ ~Handled(c) /\ c \notin pooled
    BY <1>1 DEF OnePlace
  <1>8. \A i, j \in DOMAIN taskEvents' : taskEvents'[i].shard = taskEvents'[j].shard => i = j
    BY <1>2, <1>7, AppendedEvents DEF OnePlace, Reported
  <1>9. \A d \in Shards : Nowhere(d) => Nowhere(d)'
    BY <1>1, <1>3, <1>5, <1>6 DEF Nowhere
  <1>10. \A d \in Unpublished' : Nowhere(d)' /\ d \notin created'
    BY <1>9 DEF OnePlace, Unpublished, fanout
  <1>11. \A u, v \in Workers : job'[u] = job'[v] /\ job'[u] # 0 => u = v
    BY <1>4 DEF OnePlace
  <1> QED
    BY <1>t, <1>3, <1>5, <1>6, <1>7, <1>8, <1>9, <1>10, <1>11 DEF OnePlace

LEMMA PlacesStep ==
    ASSUME MaxShutdowns = 0, IInv, NobodyStops, OnePlace, Next
    PROVE  OnePlace' /\ \A c \in created : Nowhere(c) => Nowhere(c)'
  <1>t. /\ created \subseteq Shards /\ next \in Nat /\ Shards \subseteq Nat
        /\ \A w \in Workers : phase[w] # "ready" => job[w] # 0
    BY SMT DEF IInv, Typed, FanoutTyped, WorkersTyped, Shards
  <1>g. Unpublished' \subseteq Unpublished
    BY Growth
  <1>1. CASE RegisterShard \/ Enroll \/ ShardFault
    <2>1. UNCHANGED <<job, taskEvents, listener, pooled>>
      BY <1>1 DEF RegisterShard, Enroll, ShardFault, workers, channels
    <2>2. created' \cap Unpublished' \subseteq created
      <3>1. CASE created' = created
        BY <3>1
      <3>2. CASE created' = created \cup {next} /\ next' = next + 1
        <4>1. next \notin Unpublished'
          BY <1>t, <3>2 DEF Unpublished
        <4> QED
          BY <3>2, <4>1
      <3> QED
        BY <1>1, <3>1, <3>2 DEF RegisterShard, Enroll, ShardFault, Skip
    <2> QED
      BY <1>t, <1>g, <2>1, <2>2, FewerPlaces DEF Handled
  <1>2. CASE IngestResult \/ WriteRaises
    <2>1. UNCHANGED <<job, taskEvents, listener, pooled, created>>
      BY <1>2 DEF IngestResult, StoreResult, Collect, WriteAggregate, WriteRaises, Finalize, records,
         workers, channels, fanout
    <2> QED
      BY <1>t, <1>g, <2>1, FewerPlaces DEF Handled
  <1>3. ASSUME NEW w \in Workers, Work(w) \/ Trouble(w)
        PROVE  OnePlace' /\ \A c \in created : Nowhere(c) => Nowhere(c)'
    <2>1. UNCHANGED <<pooled, listener, fanout, created>>
      BY <1>3 DEF Work, Trouble, ExecutorReturns, ExecutorRaises, ResultAccepted, ResultRefused,
         ResultTimesOut, Shutdown, Join, records, fanout
    <2>2. \/ UNCHANGED <<job, taskEvents>>
          \/ job[w] # 0 /\ (Report(w, "succeeded") \/ Report(w, "failed"))
      BY <1>3, <1>t, NobodyStopsStep DEF Work, Trouble, ExecutorReturns, ExecutorRaises,
         ResultAccepted, ResultRefused, ResultTimesOut, Join, MayEnd, channels
    <2> QED
      BY <1>t, <1>g, <2>1, <2>2, ReportPlaces, FewerPlaces DEF Handled
  <1> QED
    BY <1>1, <1>2, <1>3, PublishPlaces, ListenPlaces, DispatchPlaces, NobodyStopsStep
       DEF Next, FanOut, Dispatch

LEMMA TruthfulStep ==
    ASSUME IInv, Truthful, Next
    PROVE  Truthful'
  <1>g. created \subseteq created' /\ ran \subseteq ran'
    BY Growth
  <1>1. CASE FanOut \/ ShardFault \/ IngestResult \/ WriteRaises \/ Recover \/ Dispatch
    <2>1. UNCHANGED <<taskEvents, listener>>
      BY <1>1 DEF FanOut, PublishShard, RegisterShard, Enroll, ShardFault, IngestResult,
         StoreResult, Collect, WriteAggregate, WriteRaises, Finalize, Recover, TakeUnregister,
         RescheduleShard, Dispatch, Redispatch, channels
    <2> QED
      BY <1>g, <2>1 DEF Truthful, Handling
  <1>2. CASE TakeTaskEvent
    <2>1. taskEvents # <<>> /\ taskEvents' = Tail(taskEvents)
      BY <1>2 DEF TakeTaskEvent
    <2>2. /\ listener'.step = taskEvents[1].type /\ listener'.shard = taskEvents[1].shard
          /\ listener'.mapped => taskEvents[1].shard \in mapped
          /\ taskEvents[1].type \in {"succeeded", "failed"}
      <3>1. Head(taskEvents) = taskEvents[1] /\ 1 \in DOMAIN taskEvents
        BY <2>1, TakenEvents
      <3>2. taskEvents[1].type \in {"succeeded", "failed"}
        <4> DEFINE E == [type : {"succeeded", "failed"}, shard : Shards]
        <4>1. taskEvents \in Seq(E)
          BY DEF IInv, Typed, ChannelsTyped
        <4>2. taskEvents[1] \in E
          <5> HIDE DEF E
          <5> QED
            BY <3>1, <4>1
        <4> QED
          BY <4>2
      <3> QED
        BY <1>2, <3>1, <3>2 DEF TakeTaskEvent
    <2>3. mapped \subseteq created
      BY DEF IInv, GatheringSound, Once
    <2>4. \A i \in DOMAIN taskEvents' :
            taskEvents'[i].type = "succeeded" => taskEvents'[i].shard \in ran'
      BY <1>g, <2>1, TakenEvents DEF Truthful
    <2>5. listener'.step = "succeeded" => listener'.shard \in ran'
      BY <1>g, <2>1, <2>2, TakenEvents DEF Truthful
    <2> QED
      BY <1>g, <2>2, <2>3, <2>4, <2>5 DEF Truthful, Handling
  <1>3. CASE ShardSucceeded \/ CountShard \/ ShardFailed \/ RetryShard \/ SettleParent
    <2>1. UNCHANGED taskEvents
      BY <1>3 DEF ShardSucceeded, CountShard, ShardFailed, RetryShard, SettleParent, channels
    <2>2. \/ listener' = Nothing
          \/ /\ listener # Nothing /\ listener'.shard = listener.shard
             /\ listener'.mapped = listener.mapped
             /\ listener'.step # "succeeded"
             /\ listener'.step = "count" => listener.step = "succeeded" /\ listener.mapped
      BY <1>3 DEF ShardSucceeded, CountShard, ShardFailed, RetryShard, SettleParent, Handling,
         Proceed
    <2> QED
      BY <1>g, <2>1, <2>2 DEF Truthful, Handling
  <1>4. ASSUME NEW w \in Workers, Work(w) \/ Trouble(w) PROVE Truthful'
    <2>t. job \in [Workers -> Shards \cup {0}] /\ \A v \in Workers : phase[v] # "ready" => job[v] # 0
      BY DEF IInv, Typed, WorkersTyped
    <2>1. UNCHANGED listener
      BY <1>4 DEF Work, Trouble, ExecutorReturns, ExecutorRaises, ResultAccepted, ResultRefused,
         ResultTimesOut, Shutdown, Join
    <2>2. CASE UNCHANGED taskEvents
      BY <1>g, <2>1, <2>2 DEF Truthful, Handling
    <2>3. CASE ~UNCHANGED taskEvents
      <3>1. PICK type \in {"succeeded", "failed"} :
              Report(w, type) /\ (type = "succeeded" => job[w] \in ran') /\ job[w] # 0
        BY <1>4, <2>3, <2>t DEF Work, Trouble, ExecutorReturns, ExecutorRaises, ResultAccepted, ResultRefused,
           ResultTimesOut, Shutdown, Join, MayEnd, channels, IInv, GatheringSound, Evidence,
           history
      <3>2. job[w] \in Shards /\ taskEvents' = Append(taskEvents, [type |-> type, shard |-> job[w]])
        BY <2>t, <3>1 DEF Report
      <3>3. \A i \in DOMAIN taskEvents' :
              taskEvents'[i].type = "succeeded" => taskEvents'[i].shard \in ran'
        BY <1>g, <3>1, <3>2, AppendedEvents DEF Truthful
      <3> QED
        BY <1>g, <2>1, <3>3 DEF Truthful, Handling
    <2> QED
      BY <2>2, <2>3
  <1> QED
    BY <1>1, <1>2, <1>3, <1>4 DEF Next, Listen

LEMMA FiniteShards ==
    /\ IsFiniteSet(Shards)
    /\ \A S \in SUBSET Shards : IsFiniteSet(S) /\ Cardinality(S) \in Nat
  <1>1. IsFiniteSet(Shards)
    BY ConstantsAssumption, FS_Interval DEF Shards
  <1> QED
    BY <1>1, FS_Subset, FS_CardinalityType

LEMMA CountedStep ==
    ASSUME MaxShutdowns = 0, IInv, NobodyStops, OnePlace, Truthful, Counted, Next
    PROVE  Counted'
  <1>g. /\ created \subseteq created' /\ ran \subseteq ran'
        /\ step = "over" => step' = "over" /\ created' = created
    BY Growth
  <1>p. /\ created \subseteq Shards /\ created' \subseteq Shards
        /\ \A c \in created : Nowhere(c) => Nowhere(c)'
    BY PlacesStep, NextIInv DEF IInv, Typed, FanoutTyped
  <1>1. Settled \subseteq Settled'
    BY <1>g, <1>p DEF Settled
  <1>2. /\ Cardinality(Settled) \in Nat /\ Cardinality(Settled') \in Nat
        /\ Cardinality(Settled) <= Cardinality(Settled')
    <2>1. Settled \in SUBSET Shards /\ Settled' \in SUBSET Shards
      BY <1>p DEF Settled
    <2>2. IsFiniteSet(Settled')
      BY <2>1, FiniteShards
    <2> QED
      BY <1>1, <2>1, <2>2, FiniteShards, FS_Subset
  <1>t. done \in Nat
    BY DEF IInv, Typed, TablesTyped
  <1>3. CASE CountShard /\ children # {}
    <2>1. PICK c \in created \cap ran : c = listener.shard /\ Handled(c)
      BY <1>3 DEF CountShard, Handling, Handled, Truthful
    <2>2. c \notin Settled
      BY <2>1 DEF Settled, Nowhere
    <2>3. c \in Settled'
      <3>1. UNCHANGED <<job, taskEvents, pooled>> /\ listener' = Nothing
        BY <1>3 DEF CountShard, workers, channels
      <3>2. ~Working(c) /\ ~Reported(c) /\ c \notin pooled
        BY <1>p, <2>1 DEF OnePlace
      <3>3. Nowhere(c)'
        BY <3>1, <3>2 DEF Nowhere, Working, Reported, Handled
      <3> QED
        BY <1>g, <2>1, <3>3 DEF Settled
    <2>4. Cardinality(Settled) + 1 <= Cardinality(Settled')
      <3>1. Settled \in SUBSET Shards /\ Settled' \in SUBSET Shards
        BY <1>p DEF Settled
      <3>2. IsFiniteSet(Settled) /\ IsFiniteSet(Settled')
        BY <3>1, FiniteShards
      <3>3. Cardinality(Settled \cup {c}) = Cardinality(Settled) + 1
        BY <2>2, <3>2, FS_AddElement
      <3>4. Settled \cup {c} \subseteq Settled'
        BY <1>1, <2>3
      <3> QED
        BY <3>2, <3>3, <3>4, FS_Subset
    <2>5. done' = done + 1 /\ parent' = IF done' >= Cardinality(children) THEN "DONE" ELSE parent
      BY <1>3 DEF CountShard
    <2>6. done' <= Cardinality(Settled')
      BY <1>2, <1>t, <2>4, <2>5 DEF Counted
    <2>7. ASSUME parent' = "DONE" PROVE step' = "over" /\ created' \subseteq ran'
      <3>1. step = "over" /\ children = created
        BY <1>3 DEF IInv, GatheringSound, Once
      <3>2. CASE done' >= Cardinality(created)
        <4>1. Settled' \subseteq created /\ IsFiniteSet(created)
          BY <1>g, <1>p, <3>1, FiniteShards DEF Settled
        <4>2. Cardinality(created) \in Nat /\ done' \in Nat
          BY <1>p, <1>t, <2>5, FiniteShards
        <4>3. Cardinality(Settled') = Cardinality(created)
          BY <1>2, <2>6, <3>2, <4>1, <4>2, FS_Subset
        <4>4. Settled' = created
          BY <4>1, <4>3, FS_Subset
        <4> QED
          BY <1>g, <3>1, <4>4 DEF Settled
      <3>3. CASE parent = "DONE"
        BY <1>g, <3>3 DEF Counted
      <3> QED
        BY <2>5, <2>7, <3>1, <3>2, <3>3
    <2> QED
      BY <2>6, <2>7 DEF Counted
  <1>4. CASE ~(CountShard /\ children # {})
    <2>1. (done' = done \/ done' = 0) /\ (parent' = "DONE" => parent = "DONE")
      <3>1. CASE FanOut \/ ShardFault \/ IngestResult \/ WriteRaises \/ Dispatch
        BY <3>1 DEF FanOut, PublishShard, RegisterShard, Enroll, ShardFault, IngestResult,
           StoreResult, Collect, WriteAggregate, WriteRaises, Finalize, Dispatch, Redispatch, NewEntry,
           tables, entry, records
      <3>2. CASE Listen
        BY <1>4, <3>2 DEF Listen, TakeTaskEvent, ShardSucceeded, CountShard, ShardFailed,
           RetryShard, SettleParent, tables, entry
      <3>3. ASSUME NEW w \in Workers, Work(w) \/ Trouble(w)
            PROVE  done' = done /\ parent' = parent
        BY <3>3 DEF Work, Trouble, ExecutorReturns, ExecutorRaises, ResultAccepted, ResultRefused,
           ResultTimesOut, Shutdown, Join, tables, entry, records
      <3> QED
        BY <3>1, <3>2, <3>3, NobodyStopsStep DEF Next
    <2> QED
      BY <1>2, <1>g, <1>t, <2>1 DEF Counted
  <1> QED
    BY <1>3, <1>4

Census == NobodyStops /\ OnePlace /\ Truthful /\ Counted

LEMMA InitCensus == Init => Census
  <1> SUFFICES ASSUME Init PROVE Census
    OBVIOUS
  <1>1. NobodyStops /\ Truthful
    BY DEF Init, NobodyStops, Truthful, Handling
  <1>2. \A c \in Shards : Nowhere(c)
    BY Zero DEF Init, Nowhere, Working, Reported, Handled
  <1>3. OnePlace
    BY <1>2 DEF Init, OnePlace, Unpublished, Nowhere
  <1>4. Counted
    <2>1. Settled = {}
      BY DEF Init, Settled
    <2> QED
      BY <2>1, FS_EmptySet DEF Init, Counted
  <1> QED
    BY <1>1, <1>3, <1>4 DEF Census

LEMMA StutterCensus ==
    ASSUME Census, UNCHANGED vars
    PROVE  Census'
  <1>1. UNCHANGED <<workerEvents, rescheduler, job, taskEvents, listener, pooled, created, next,
                    step, ran, done, parent>>
    BY DEF vars, records, tables, entry, fanout, channels, workers, history
  <1> QED
    BY <1>1 DEF Census, NobodyStops, OnePlace, Truthful, Counted, Settled, Unpublished, Nowhere,
       Working, Reported, Handled, Handling

LEMMA CensusInvariance ==
    ASSUME MaxShutdowns = 0
    PROVE  Spec => []Census
  <1>1. IInv /\ Census /\ [Next]_vars => Census'
    BY NobodyStopsStep, PlacesStep, TruthfulStep, CountedStep, StutterCensus DEF Census
  <1> QED
    BY <1>1, Invariance, InitCensus, PTL DEF Spec

(* As long as no worker stops, a parent that the listener has set to DONE  *)
(* has had every registered shard executed, though it counts the reports   *)
(* of success (main.py _handle_task_event_sync): with any number of shards,*)
(* failures, retries, publication faults and late answers, and with shards *)
(* that are reported while others are still being dispatched.              *)
THEOREM DoneParentRan ==
    ASSUME MaxShutdowns = 0
    PROVE  Spec => []DoneShardsRan
  <1>1. Census => DoneShardsRan
    BY DEF Census, Counted, DoneShardsRan
  <1> QED
    BY <1>1, CensusInvariance, PTL
=============================================================================
