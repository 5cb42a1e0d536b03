--------------------------- MODULE BatchPlanning ---------------------------
(***************************************************************************)
(* How a batch of inference tasks is taken from the pool and matched with  *)
(* workers: TaskPool._take_n_locked ranks, TaskPoolManager._optimize_batch *)
(* co-locates, remembers which worker holds which model and decides which  *)
(* engines stay loaded (orchestrator/task_store.py), choose_strategy and   *)
(* select_workers_for_task pick one worker or several                      *)
(* (orchestrator/scheduler.py).  One thread plans at a time and the rest   *)
(* of a nested scan waits for its plans (TaskDispatch has the threads);    *)
(* merges are in MergeBatch.  Hardware is a number of CPU cores, 0 when    *)
(* not reported, and of GPUs (orchestrator/worker_cls.py).                 *)
(***************************************************************************)
EXTENDS Naturals, Sequences, FiniteSets

SeqExt == INSTANCE SequencesExt
SetExt == INSTANCE FiniteSetsExt

CONSTANTS PlanTasks,     \* 1 .. n in the order of submission
          Needs,         \* Needs[t]: the tasks t depends on
          ModelOf,       \* ModelOf[t]: the model it infers with
          Timed,         \* tasks with an SLO, all of the same length
          Parallel,      \* tasks with spec.parallel.enabled
          MaxShards,     \* spec.parallel.max_shards
          Hardware,      \* Hardware[w] = [cores, gpus] of the workers 1 .. n
          Requires,      \* Requires[t] = [cores, gpus]
          PoolBatch,     \* TASK_POOL_BATCH_SIZE
          CacheSize,     \* MODEL_STICKINESS_MAX_ENTRIES
          MaxFailures,   \* bound: attempts that fail
          MaxLateEnds    \* bound: late successes of attempts that were retried

ASSUME PlanningAssumption ==
    /\ PlanTasks \subseteq Nat \ {0} /\ IsFiniteSet(PlanTasks)
    /\ Parallel \subseteq PlanTasks
    /\ PoolBatch \in Nat \ {0} /\ CacheSize \in Nat \ {0} /\ MaxShards \in Nat \ {0}
    /\ \A t \in PlanTasks : Needs[t] \subseteq PlanTasks
    /\ Hardware \in Seq([cores : Nat, gpus : Nat])
    /\ Requires \in [PlanTasks -> [cores : Nat, gpus : Nat]]

Fleet == DOMAIN Hardware
Nobody == 0

ModelNames == {ModelOf[t] : t \in PlanTasks}
OfModel(ts, m) == {t \in ts : ModelOf[t] = m}

VARIABLES
    mark,       \* the tasks' status
    tried,      \* tasks that have been in workers' hands
    released,   \* TaskStore._released
    held,       \* the pool
    overdue,    \* timed tasks past TASK_POOL_SLO_FRACTION of their SLO
    plans,      \* DispatchPlans still to be dispatched
    counts,     \* _model_queue_counts
    cache,      \* _model_worker_cache, oldest first
    idle,       \* IDLE workers
    busyWith,   \* each worker's task
    flushAll,   \* has a worker's event asked for flush_all_pending?
    failedRuns, lateEnds

planVars == <<mark, tried, released, held, overdue, plans, counts, cache,
              idle, busyWith, flushAll, failedRuns, lateEnds>>
taskVars == <<mark, tried, released>>
fleetVars == <<idle, busyWith>>

PlanInit ==
    /\ mark = [t \in PlanTasks |-> "new"] /\ tried = {} /\ released = {}
    /\ held = {} /\ overdue = {} /\ plans = <<>>
    /\ counts = [m \in ModelNames |-> 0] /\ cache = <<>>
    /\ idle = Fleet /\ busyWith = [w \in Fleet |-> Nobody]
    /\ flushAll = FALSE /\ failedRuns = 0 /\ lateEnds = 0

-----------------------------------------------------------------------------
(* Pool and ranking                                                        *)

(* _take_n_locked: progress of the SLO first, submission next.             *)
Before(t, u) == \/ t \in Timed /\ u \notin Timed
                \/ (t \in Timed <=> u \in Timed) /\ t < u
Ahead(ts, t) == Cardinality({u \in ts : Before(u, t)})
Ranked(ts) == [k \in 1..Cardinality(ts) |-> CHOOSE t \in ts : Ahead(ts, t) = k - 1]
Most(ts, n) == {t \in ts : Ahead(ts, t) < n}

DueTasks == IF Cardinality(held) >= PoolBatch \/ held \cap overdue # {}
              THEN Most(held, PoolBatch) ELSE {}

AddCount(t) == [counts EXCEPT ![ModelOf[t]] = @ + 1]

(* enqueue: submit_task puts the tasks into the pool one by one.           *)
Enqueue(t) ==
    /\ mark[t] = "new" /\ \A u \in PlanTasks : u < t => mark[u] # "new"
    /\ mark' = [mark EXCEPT ![t] = "pending"]
    /\ held' = held \cup {t}
    /\ counts' = AddCount(t)
    /\ UNCHANGED <<tried, released, overdue, plans, cache, fleetVars, flushAll, failedRuns, lateEnds>>

TimePasses(t) ==
    /\ t \in Timed \ overdue /\ mark[t] # "new"
    /\ overdue' = overdue \cup {t}
    /\ UNCHANGED <<taskVars, held, plans, counts, cache, fleetVars, flushAll, failedRuns, lateEnds>>

-----------------------------------------------------------------------------
(* _optimize_batch                                                         *)

(* _hw_satisfies: what a worker does not report about its CPU is taken to  *)
(* be enough, GPUs are not.                                                *)
Suits(w, t) ==
    /\ Hardware[w].cores = 0 \/ Hardware[w].cores >= Requires[t].cores
    /\ Hardware[w].gpus >= Requires[t].gpus

(* idle_satisfying_pool                                                    *)
PoolFor(t) == {w \in idle : Suits(w, t)}

(* sort_workers: GPUs, then cores.                                         *)
Better(v, w) ==
    \/ Hardware[v].gpus > Hardware[w].gpus
    \/ Hardware[v].gpus = Hardware[w].gpus /\ Hardware[v].cores > Hardware[w].cores
    \/ Hardware[v] = Hardware[w] /\ v > w
Best(ws) == CHOOSE w \in ws : \A v \in ws \ {w} : Better(w, v)

ReadyOf(ts) == {t \in ts : mark[t] = "pending" /\ \A u \in Needs[t] : mark[u] = "done"}

(* Fewer eligible workers than tasks: each task, in submission order, is   *)
(* paired with the next one that shares an eligible worker with it, and    *)
(* both prefer the best of those they share.                               *)
PairUp(ts, prefs, t) ==
    LET partners == {u \in ts : u > t /\ prefs[u] = Nobody /\ PoolFor(t) \cap PoolFor(u) # {}}
        u == SetExt!Min(partners)
    IN  IF prefs[t] # Nobody \/ partners = {} THEN prefs
        ELSE [prefs EXCEPT ![t] = Best(PoolFor(t) \cap PoolFor(u)),
                           ![u] = Best(PoolFor(t) \cap PoolFor(u))]
Pairs(ts) ==
    LET alone == [t \in ts |-> Nobody]
    IN  IF Cardinality(UNION {PoolFor(t) : t \in ts}) >= Cardinality(ts) THEN alone
        ELSE SeqExt!FoldLeft(LAMBDA prefs, t : PairUp(ts, prefs, t), alone,
                             SeqExt!SetToSortSeq(ts, <))

Cached(m) == {e.worker : e \in {x \in SeqExt!ToSet(cache) : x.model = m}}

Preference(ts, t) ==
    LET sticky == Cached(ModelOf[t]) \cap PoolFor(t)
    IN  IF Pairs(ts)[t] # Nobody THEN Pairs(ts)[t]
        ELSE IF Cardinality(OfModel(ts, ModelOf[t])) >= 2 /\ sticky # {}
               THEN SetExt!Max(sticky) ELSE Nobody

(* The engine stays loaded when later plans of the batch, or entries left  *)
(* in the pool, have its model.                                            *)
RetainCountingItself(order, i, left) ==         \* a mutant of Retain
    left[ModelOf[order[i]]] > 0
        \/ \E j \in DOMAIN order : j >= i /\ ModelOf[order[j]] = ModelOf[order[i]]
Retain(order, i, left) ==
    left[ModelOf[order[i]]] > 0
        \/ \E j \in DOMAIN order : j > i /\ ModelOf[order[j]] = ModelOf[order[i]]

(* _update_model_queue_counts drops to no less than 0.                     *)
LowerByBatch(cs, ts, batch) ==                  \* a mutant of Lowered
    [m \in DOMAIN cs |-> LET n == Cardinality(OfModel(batch, m))
                         IN  IF n >= cs[m] THEN 0 ELSE cs[m] - n]
Lowered(cs, ts, batch) ==
    [m \in DOMAIN cs |-> LET n == Cardinality(OfModel(ts, m))
                         IN  IF n >= cs[m] THEN 0 ELSE cs[m] - n]

(* _dispatch_batch: what cannot go yet returns to the pool.                *)
PlanBatch(batch) ==
    LET ts == ReadyOf(batch)
        left == Lowered(counts, ts, batch)
        order == Ranked(ts)
    IN  /\ held' = (held \ batch) \cup (batch \ ts)
        /\ counts' = left
        /\ plans' = [i \in DOMAIN order |->
                        [task |-> order[i], prefers |-> Preference(ts, order[i]),
                         retain |-> Retain(order, i, left),
                         rest |-> OfModel(held' \cup {order[j] : j \in (i + 1)..Len(order)},
                                          ModelOf[order[i]])]]

(* The flush timer, or an enqueue, finds a batch due.                      *)
FlushWhenDue ==
    /\ plans = <<>> /\ DueTasks # {}
    /\ PlanBatch(DueTasks)
    /\ UNCHANGED <<taskVars, overdue, cache, fleetVars, flushAll, failedRuns, lateEnds>>

(* flush_all_pending, after a worker's event.                              *)
FlushEverything ==
    /\ plans = <<>> /\ flushAll
    /\ flushAll' = FALSE
    /\ PlanBatch(held)
    /\ UNCHANGED <<taskVars, overdue, cache, fleetVars, failedRuns, lateEnds>>

-----------------------------------------------------------------------------
(* try_dispatch_one                                                        *)

Weight(ws) == LET cpuOnly == {w \in ws : Hardware[w].gpus = 0}
              IN  10 * Cardinality(ws \ cpuOnly) + 6 * Cardinality(cpuOnly)

(* estimate_queue_length: tasks never released, the waiting ones included. *)
Queued == Cardinality({t \in PlanTasks : mark[t] # "new"} \ released)
Demand == SetExt!Max({1, Queued})

WantsShards(t) == /\ t \in Parallel
              /\ Weight(PoolFor(t)) >= 20 * Demand
              /\ Cardinality(PoolFor(t)) > 1

(* choose_strategy: as many shards as allowed, less those kept for the     *)
(* other tasks that wait.                                                  *)
ShardsForAll(t) ==      \* a mutant of ShardTarget
    SetExt!Min({Cardinality(PoolFor(t)), MaxShards})
ShardTarget(t) ==
    LET n == Cardinality(PoolFor(t))
        others == IF Queued = 0 THEN 0 ELSE Queued - 1
    IN  SetExt!Max({1, SetExt!Min({n, MaxShards, n - SetExt!Min({n, others})})})

FirstFit(ws) == 10 * Weight(ws) <= 60 * Demand

(* select_workers_for_task: unless the fleet is short, sorting by hardware *)
(* undoes the order by preference.                                         *)
CandidatesAnyIdle(p, ws) ==     \* a mutant of Candidates
    IF ~FirstFit(ws) THEN {Best(ws)}
    ELSE IF p.prefers = Nobody THEN idle ELSE {p.prefers} \cap idle
Candidates(p, ws) ==
    IF ~FirstFit(ws) THEN {Best(ws)}
    ELSE IF p.prefers = Nobody THEN ws
    ELSE IF p.prefers \in ws THEN {p.prefers}
    ELSE {SetExt!Min(ws)}

NextPlan == Head(plans)

(* The entries of the cache at these places, in their order.               *)
KeptAt(places) ==
    [k \in 1..Cardinality(places) |->
        cache[CHOOSE i \in places : Cardinality({j \in places : j < i}) = k - 1]]

(* record_assignment: the newest entry last, the oldest dropped.           *)
RememberAtEnd(m, w) == Append(cache, [model |-> m, worker |-> w])   \* a mutant of Remember
Remember(m, w) ==
    LET others == KeptAt({i \in DOMAIN cache : cache[i].model # m})
        kept == Append(others, [model |-> m, worker |-> w])
    IN  IF Len(kept) > CacheSize THEN Tail(kept) ELSE kept

GiveTo(p, ws) ==
    /\ mark' = [mark EXCEPT ![p.task] = "given"]
    /\ tried' = tried \cup {p.task}
    /\ released' = released \cup {p.task}
    /\ idle' = idle \ ws
    /\ busyWith' = [w \in Fleet |-> IF w \in ws THEN p.task ELSE busyWith[w]]
    /\ plans' = Tail(plans)

GoesSharded == WantsShards(NextPlan.task) /\ ShardTarget(NextPlan.task) > 1

DispatchParallel ==
    /\ plans # <<>> /\ GoesSharded
    /\ LET ws == PoolFor(NextPlan.task)
       IN  GiveTo(NextPlan, {w \in ws : Cardinality({v \in ws : Better(v, w)})
                                          < ShardTarget(NextPlan.task)})
    /\ UNCHANGED <<held, overdue, counts, cache, flushAll, failedRuns, lateEnds>>

DispatchAlone ==
    /\ plans # <<>> /\ PoolFor(NextPlan.task) # {} /\ ~GoesSharded
    /\ \E w \in Candidates(NextPlan, PoolFor(NextPlan.task)) :
         /\ GiveTo(NextPlan, {w})
         /\ cache' = Remember(ModelOf[NextPlan.task], w)
    /\ UNCHANGED <<held, overdue, counts, flushAll, failedRuns, lateEnds>>

(* No worker in the pool: requeue_task.                                    *)
DispatchDeferred ==
    /\ plans # <<>> /\ PoolFor(NextPlan.task) = {}
    /\ held' = held \cup {NextPlan.task}
    /\ counts' = AddCount(NextPlan.task)
    /\ plans' = Tail(plans)
    /\ UNCHANGED <<taskVars, overdue, cache, fleetVars, flushAll, failedRuns, lateEnds>>

-----------------------------------------------------------------------------
(* Workers' events                                                         *)

Forgotten(w) == KeptAt({i \in DOMAIN cache : cache[i].worker # w})     \* forget_worker

(* TASK_SUCCEEDED, of the last shard if there are several.                 *)
Finish(w) ==
    /\ busyWith[w] # Nobody
    /\ idle' = idle \cup {w}
    /\ busyWith' = [busyWith EXCEPT ![w] = Nobody]
    /\ mark' = [mark EXCEPT ![busyWith[w]] =
                  IF \A v \in Fleet \ {w} : busyWith[v] # busyWith[w] THEN "done" ELSE @]
    /\ flushAll' = TRUE
    /\ UNCHANGED <<tried, released, held, overdue, plans, counts, cache, failedRuns, lateEnds>>

(* TASK_FAILED of a task on one worker, with retries left.                 *)
FailOn(w) ==
    /\ failedRuns < MaxFailures
    /\ busyWith[w] # Nobody /\ \A v \in Fleet \ {w} : busyWith[v] # busyWith[w]
    /\ mark[busyWith[w]] = "given"
    /\ failedRuns' = failedRuns + 1
    /\ idle' = idle \cup {w}
    /\ busyWith' = [busyWith EXCEPT ![w] = Nobody]
    /\ mark' = [mark EXCEPT ![busyWith[w]] = "pending"]
    /\ held' = held \cup {busyWith[w]}
    /\ counts' = AddCount(busyWith[w])
    /\ cache' = Forgotten(w)
    /\ UNCHANGED <<tried, released, overdue, plans, flushAll, lateEnds>>

(* The success of an attempt given up before: the task leaves the pool     *)
(* (clear_from_pool), its model's count stays.                             *)
LateEnd(t) ==
    /\ lateEnds < MaxLateEnds
    /\ t \in held \cap tried
    /\ lateEnds' = lateEnds + 1
    /\ mark' = [mark EXCEPT ![t] = "done"]
    /\ held' = held \ {t}
    /\ flushAll' = TRUE
    /\ UNCHANGED <<tried, released, overdue, plans, counts, cache, fleetVars, failedRuns>>

(* UNREGISTER of an idle worker.                                           *)
LeaveFleet(w) ==
    /\ w \in idle
    /\ idle' = idle \ {w}
    /\ cache' = Forgotten(w)
    /\ UNCHANGED <<taskVars, held, overdue, plans, counts, busyWith, flushAll, failedRuns, lateEnds>>

(* MODEL_STICKINESS_TTL_SEC has passed.                                    *)
CacheExpires ==
    /\ cache # <<>>
    /\ cache' = Tail(cache)
    /\ UNCHANGED <<taskVars, held, overdue, plans, counts, fleetVars, flushAll, failedRuns, lateEnds>>

PlanNext ==
    \/ \E t \in PlanTasks : Enqueue(t) \/ TimePasses(t) \/ LateEnd(t)
    \/ FlushWhenDue \/ FlushEverything
    \/ DispatchParallel \/ DispatchAlone \/ DispatchDeferred
    \/ \E w \in Fleet : Finish(w) \/ FailOn(w) \/ LeaveFleet(w)
    \/ CacheExpires

PlanSpec == PlanInit /\ [][PlanNext]_planVars

-----------------------------------------------------------------------------
(* Every field holds a value the code can store; a model has one entry in  *)
(* the stickiness cache, which never outgrows its capacity.                *)
PlanTypeOK ==
    /\ \A t \in PlanTasks : mark[t] \in {"new", "pending", "given", "done"}
    /\ held \subseteq PlanTasks /\ tried \subseteq released
    /\ idle \subseteq Fleet
    /\ \A w \in Fleet : busyWith[w] \in PlanTasks \cup {Nobody}
    /\ \A m \in ModelNames : counts[m] \in Nat
    /\ Len(cache) <= CacheSize
    /\ \A i, j \in DOMAIN cache : cache[i].model = cache[j].model => i = j

(* The queue counts never understate what waits for a model, so that no    *)
(* engine is told to unload while the pool still holds work for it; a late *)
(* success that empties the pool behind the counter's back overstates it.  *)
CountsCoverPool ==
    \A m \in ModelNames : Cardinality(OfModel(held, m)) <= counts[m]

(* An engine is kept for something: when a plan says so, a later plan of   *)
(* the batch or an entry of the pool had the same model, unless a late     *)
(* success has been counted.                                               *)
RetainedForWork ==
    lateEnds = 0 => \A i \in DOMAIN plans : plans[i].retain <=> plans[i].rest # {}

(* Whatever was preferred, paired or sharded when the batch was planned, a *)
(* worker that reports less than a task requires never has it, although    *)
(* workers come and go between planning and dispatch.                      *)
OnlySuitedWork ==
    \A w \in Fleet : busyWith[w] # Nobody =>
        /\ Requires[busyWith[w]].gpus <= Hardware[w].gpus
        /\ Hardware[w].cores > 0 => Requires[busyWith[w]].cores <= Hardware[w].cores

(* The planner's counters, caches and worker lists are good enough for what *)
(* it decides from them.                                                    *)
PlanInv ==
    /\ PlanTypeOK
    /\ CountsCoverPool
    /\ RetainedForWork
    /\ OnlySuitedWork

(* A task that is sharded when it is first dispatched leaves an idle       *)
(* worker for each other task that was submitted and has never been        *)
(* dispatched: "Reserve capacity so remaining queued tasks can still       *)
(* dispatch" (scheduler.py:201).                                           *)
Fresh == {t \in PlanTasks : mark[t] # "new"} \ released
ReserveKept ==
    [][\A t \in Parallel \ released :
         Cardinality({w \in Fleet : busyWith'[w] = t /\ busyWith[w] # t}) > 1 =>
            Cardinality(idle') >= Cardinality(Fresh \ {t})]_planVars

(* The same for every task that waits: broken for tasks that are retried,  *)
(* which stay released for ever and are counted no more.                   *)
ReserveForAll ==
    [][\A t \in Parallel :
         Cardinality({w \in Fleet : busyWith'[w] = t /\ busyWith[w] # t}) > 1 =>
            Cardinality(idle') >= Cardinality({u \in PlanTasks \ {t} : mark[u] = "pending"})]_planVars

(* The counts are the pool's: broken by a late success.                    *)
CountsMatchPool ==
    \A m \in ModelNames : Cardinality(OfModel(held, m)) = counts[m]

(* A due batch has a task that can go if the pool has one: broken when     *)
(* timed tasks that wait for others fill the batch and the tasks they wait *)
(* for have no SLO.                                                        *)
BatchCanGo ==
    DueTasks # {} /\ ReadyOf(held) # {} => ReadyOf(DueTasks) # {}

(* A worker chosen for holding the model is given the task: broken while   *)
(* idle workers are plentiful, where the sort by hardware decides.         *)
PreferenceHonoured ==
    [][\A w \in Fleet : plans # <<>> /\ busyWith'[w] = NextPlan.task /\ busyWith[w] = Nobody =>
          NextPlan.prefers \in {Nobody, w}]_planVars
=============================================================================
