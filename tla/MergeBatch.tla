----------------------------- MODULE MergeBatch -----------------------------
(***************************************************************************)
(* Merged inference: a batch's tasks with one merge signature are joined   *)
(* pairwise (_apply_inference_merges), the combined result is cut into the *)
(* children's (ingest_result, _finalize_merge_children), a failure is      *)
(* passed on to them (_propagate_merge_failure).                           *)
(*                                                                         *)
(* Three threads take part: one that plans a batch, the API's event loop   *)
(* and the tasks.events listener.  Which worker runs a task, and when the  *)
(* pool is scanned, is TaskDispatch's subject: here any pending tasks of   *)
(* the pool may form a batch, and a dispatched task is on a worker of its  *)
(* own.                                                                    *)
(***************************************************************************)
EXTENDS Integers, Sequences, FiniteSets, SequencesExt

CONSTANTS
    NTasks,         \* tasks of one signature, numbered as they are ranked
    Size,           \* the items of each; 0: its data cannot be expanded
    MaxRetries,     \* TaskRecord.max_retries
    PromptIngest,   \* is a POST ingested before its worker gives up on it?
    MaxFailures,    \* bound: executions that raise
    MaxTimeouts,    \* bound: result POSTs whose answer comes too late
    MaxFaults       \* bound: results of children that cannot be written

Tasks == 1..NTasks
None == 0

ASSUME ConstantsAssumption ==
    /\ NTasks \in Nat
    /\ Size \in [Tasks -> Nat]
    /\ PromptIngest \in BOOLEAN
    /\ {MaxRetries, MaxFailures, MaxTimeouts, MaxFaults} \subseteq Nat

VARIABLES
    (* the TaskRecords *)
    status, retries,
    spec,           \* the items of parsed, each named by the task it is from
    children,       \* merged_children
    parent,         \* merged_parent_id
    slices,         \* TaskStore._merge_slices: the slice each parent cuts for each task
    pooled,         \* tasks with an entry in the pool
    (* the planning thread: entries to look at, the pending partner, plans *)
    scan, partner, plans,
    (* the other threads: the section that runs next, of which task, what  *)
    (* it cuts and the children it has still to settle                     *)
    api, listener,
    posts, taskEvents,
    out,            \* the items that each task's attempt runs on
    phase,          \* ready, running, posting or answered
    stored,         \* the result file of each task
    spent           \* history

records == <<status, retries, spec, children, parent>>
planner == <<scan, partner, plans>>
work == <<out, phase>>
vars == <<records, slices, pooled, planner, api, listener, posts, taskEvents, work,
          stored, spent>>

Own(t) == [i \in 1..Size[t] |-> t]
NoSlice == <<0, 0>>
Idle == [step |-> "idle"]
Spend(what, bound) == spent[what] < bound /\ spent' = [spent EXCEPT ![what] = @ + 1]
UnboundedRetry(n) == n + 1  \* a mutant of OneMoreRetry
OneMoreRetry(n) == IF n < MaxRetries THEN n + 1 ELSE n

-----------------------------------------------------------------------------
(* The planner: _dispatch_batch, _optimize_batch. *)

TakeBatch ==
    /\ scan = {} /\ plans = {}
    /\ \E B \in (SUBSET {t \in pooled : status[t] = "PENDING"}) \ {{}} :
         /\ scan' = B
         /\ plans' = B
         /\ pooled' = pooled \ B
    /\ partner' = None
    /\ UNCHANGED <<records, slices, api, listener, posts, taskEvents, work, stored, spent>>

(* Mutant of Merge: the child's slice is not shifted by the parent's items. *)
MergeUnshifted(p, t) ==
    LET bound == Len(spec[p])
    IN  /\ spec' = [spec EXCEPT ![p] = @ \o spec[t]]
        /\ children' = [children EXCEPT ![p] = @ \cup {t}, ![t] = {}]
        /\ parent' = [parent EXCEPT ![t] = p]
        /\ status' = [status EXCEPT ![t] = "WAITING"]
        /\ slices' = [slices EXCEPT ![p] = [@ EXCEPT ![p] = <<0, bound>>,
                                                     ![t] = <<0, Len(spec[t])>>]]

(* _merge_pair, _update_merge_state, register_merge: t joins p.            *)
Merge(p, t) ==
    LET bound == Len(spec[p])
        end == bound + Len(spec[t])
    IN  /\ spec' = [spec EXCEPT ![p] = @ \o spec[t]]
        /\ children' = [children EXCEPT ![p] = @ \cup {t}, ![t] = {}]
        /\ parent' = [parent EXCEPT ![t] = p]
        /\ status' = [status EXCEPT ![t] = "WAITING"]
        /\ slices' = [slices EXCEPT ![p] = [@ EXCEPT ![p] = <<0, bound>>,
                                                     ![t] = <<bound, end>>]]

Mergeable(p, t) == p # None /\ spec[p] # <<>> /\ spec[t] # <<>>

First(t) == t \in scan /\ \A u \in scan : t <= u

(* Mutant of ScanEntry: a child's plan is kept.                            *)
ScanKeepingPlan ==
    /\ \E t \in Tasks :
         /\ First(t)
         /\ scan' = scan \ {t}
         /\ \/ /\ Mergeable(partner, t)
               /\ Merge(partner, t)
               /\ partner' = None
            \/ /\ ~Mergeable(partner, t)
               /\ partner' = t
               /\ UNCHANGED <<status, spec, children, parent, slices>>
    /\ UNCHANGED <<retries, pooled, plans, api, listener, posts, taskEvents, work, stored,
                   spent>>

(* The entries are looked at as they are ranked: the first joins its       *)
(* partner, or becomes the partner of the next.                            *)
ScanEntry ==
    /\ \E t \in Tasks :
         /\ First(t)
         /\ scan' = scan \ {t}
         /\ \/ /\ Mergeable(partner, t)
               /\ Merge(partner, t)
               /\ partner' = None
               /\ plans' = plans \ {t}
            \/ /\ ~Mergeable(partner, t)
               /\ partner' = t
               /\ UNCHANGED <<status, spec, children, parent, slices, plans>>
    /\ UNCHANGED <<retries, pooled, api, listener, posts, taskEvents, work, stored, spent>>

(* try_dispatch_one, with a worker for the task or without.                *)
Dispatch(t) ==
    /\ scan = {}
    /\ t \in plans
    /\ plans' = plans \ {t}
    /\ IF status[t] = "DISPATCHED"
         THEN UNCHANGED <<status, work>>
         ELSE /\ phase[t] = "ready"
              /\ status' = [status EXCEPT ![t] = "DISPATCHED"]
              /\ out' = [out EXCEPT ![t] = spec[t]]
              /\ phase' = [phase EXCEPT ![t] = "running"]
    /\ UNCHANGED <<retries, spec, children, parent, slices, pooled, scan, partner, api,
                   listener, posts, taskEvents, stored, spent>>

Requeue(t) ==
    /\ status' = [status EXCEPT ![t] = "PENDING"]
    /\ retries' = [retries EXCEPT ![t] = OneMoreRetry(@)]
    /\ pooled' = pooled \cup {t}

Defer(t) ==
    /\ scan = {}
    /\ t \in plans
    /\ plans' = plans \ {t}
    /\ status[t] # "DISPATCHED"
    /\ Requeue(t)
    /\ UNCHANGED <<spec, children, parent, slices, scan, partner, api, listener, posts,
                   taskEvents, work, stored, spent>>

-----------------------------------------------------------------------------
(* ingest_result on the API's event loop. *)

Least(a, b) == IF a <= b THEN a ELSE b
(* _slice_result_section                                                   *)
Cut(items, slice) == SubSeq(items, slice[1] + 1, Least(slice[2], Len(items)))

(* _split_merged_result, and the result of the posted task is written.     *)
SplitResult(p) ==
    /\ api = Idle
    /\ posts' = posts \ {p}
    /\ LET t == p.task
           own == slices[t][t]
           others == {c \in Tasks \ {t} : slices[t][c] # NoSlice}
       IN  /\ stored' = [stored EXCEPT ![t] = IF own = NoSlice THEN p.items ELSE Cut(p.items, own)]
           /\ api' = [step |-> "done", task |-> t, todo |-> others,
                      cut |-> [c \in Tasks |-> Cut(p.items, slices[t][c])]]
    /\ UNCHANGED <<records, slices, pooled, planner, listener, taskEvents, work, spent>>

At(thread, section) == thread.step = section
Answer(t) == phase' = IF phase[t] = "posting" THEN [phase EXCEPT ![t] = "answered"] ELSE phase

MarkDone ==
    /\ At(api, "done")
    /\ status' = [status EXCEPT ![api.task] = "DONE"]
    /\ IF api.todo = {}
         THEN api' = Idle /\ Answer(api.task)
         ELSE api' = [api EXCEPT !.step = "detach"] /\ UNCHANGED phase
    /\ UNCHANGED <<retries, spec, children, parent, slices, pooled, planner, listener, posts,
                   taskEvents, out, stored, spent>>

(* _finalize_merge_children                                                *)
DetachChildren ==
    /\ At(api, "detach")
    /\ children' = [children EXCEPT ![api.task] = {}]
    /\ api' = [api EXCEPT !.step = "children"]
    /\ UNCHANGED <<status, retries, spec, parent, slices, pooled, planner, listener, posts,
                   taskEvents, work, stored, spent>>

NextChild(c) == api' = [api EXCEPT !.todo = @ \ {c},
                               !.step = IF api.todo = {c} THEN "clear" ELSE "children"]

StoreChild(c) ==
    /\ At(api, "children")
    /\ c \in api.todo
    /\ stored' = [stored EXCEPT ![c] = api.cut[c]]
    /\ status' = [status EXCEPT ![c] = "DONE"]
    /\ parent' = [parent EXCEPT ![c] = None]
    /\ NextChild(c)
    /\ UNCHANGED <<retries, spec, children, slices, pooled, planner, listener, posts,
                   taskEvents, work, spent>>

(* Mutant of SkipChild: it does not skip the record.                       *)
SkipFileOnly(c) ==
    /\ At(api, "children")
    /\ c \in api.todo
    /\ Spend("faults", MaxFaults)
    /\ status' = [status EXCEPT ![c] = "DONE"]
    /\ NextChild(c)
    /\ UNCHANGED <<retries, spec, children, parent, slices, pooled, planner, listener, posts,
                   taskEvents, work, stored>>

(* Its result cannot be written.                                           *)
SkipChild(c) ==
    /\ At(api, "children")
    /\ c \in api.todo
    /\ Spend("faults", MaxFaults)
    /\ NextChild(c)
    /\ UNCHANGED <<records, slices, pooled, planner, listener, posts, taskEvents, work, stored>>

ClearMerge(t) == slices' = [slices EXCEPT ![t] = [c \in Tasks |-> NoSlice]]

ClearFinalized ==
    /\ At(api, "clear")
    /\ ClearMerge(api.task)
    /\ api' = Idle
    /\ Answer(api.task)
    /\ UNCHANGED <<records, pooled, planner, listener, posts, taskEvents, out, stored, spent>>

-----------------------------------------------------------------------------
(* The tasks.events listener. *)

TaskSucceeded ==
    /\ listener = Idle
    /\ taskEvents # <<>>
    /\ Head(taskEvents).type = "succeeded"
    /\ taskEvents' = Tail(taskEvents)
    /\ pooled' = pooled \ {Head(taskEvents).task}
    /\ status' = [status EXCEPT ![Head(taskEvents).task] = "DONE"]
    /\ UNCHANGED <<retries, spec, children, parent, slices, planner, api, listener, posts,
                   work, stored, spent>>

TaskFailed ==
    /\ listener = Idle
    /\ taskEvents # <<>>
    /\ Head(taskEvents).type = "failed"
    /\ taskEvents' = Tail(taskEvents)
    /\ LET t == Head(taskEvents).task
       IN  /\ pooled' = pooled \ {t}
           /\ status' = [status EXCEPT ![t] = "FAILED"]
           /\ retries' = [retries EXCEPT ![t] = OneMoreRetry(@)]
           /\ listener' = [step |-> IF retries[t] < MaxRetries THEN "requeue" ELSE "detach",
                           task |-> t, todo |-> {}]
    /\ UNCHANGED <<spec, children, parent, slices, planner, api, posts, work, stored, spent>>

RetryTask ==
    /\ At(listener, "requeue")
    /\ Requeue(listener.task)
    /\ listener' = Idle
    /\ UNCHANGED <<spec, children, parent, slices, planner, api, posts, taskEvents, work,
                   stored, spent>>

(* _propagate_merge_failure                                                *)
PassFailureOn ==
    /\ At(listener, "detach")
    /\ children' = [children EXCEPT ![listener.task] = {}]
    /\ listener' = IF children[listener.task] = {} THEN Idle
                   ELSE [step |-> "children", task |-> listener.task,
                         todo |-> children[listener.task]]
    /\ UNCHANGED <<status, retries, spec, parent, slices, pooled, planner, api, posts,
                   taskEvents, work, stored, spent>>

FailChild(c) ==
    /\ At(listener, "children")
    /\ c \in listener.todo
    /\ status' = [status EXCEPT ![c] = "FAILED"]
    /\ parent' = [parent EXCEPT ![c] = None]
    /\ listener' = [listener EXCEPT !.todo = @ \ {c},
                                    !.step = IF listener.todo = {c} THEN "clear" ELSE "children"]
    /\ UNCHANGED <<retries, spec, children, slices, pooled, planner, api, posts, taskEvents,
                   work, stored, spent>>

ClearFailed ==
    /\ At(listener, "clear")
    /\ ClearMerge(listener.task)
    /\ listener' = Idle
    /\ UNCHANGED <<records, pooled, planner, api, posts, taskEvents, work, stored, spent>>

-----------------------------------------------------------------------------
(* The workers: one answer or report per attempt; Report ends it. *)

Report(t, type) ==
    /\ taskEvents' = Append(taskEvents, [type |-> type, task |-> t])
    /\ out' = [out EXCEPT ![t] = <<>>]
    /\ phase' = [phase EXCEPT ![t] = "ready"]

ExecutorReturns(t) ==
    /\ phase[t] = "running"
    /\ posts' = posts \cup {[task |-> t, items |-> out[t]]}
    /\ phase' = [phase EXCEPT ![t] = "posting"]
    /\ UNCHANGED <<records, slices, pooled, planner, api, listener, taskEvents, out, stored,
                   spent>>

ExecutorRaises(t) ==
    /\ phase[t] = "running"
    /\ Spend("failures", MaxFailures)
    /\ Report(t, "failed")
    /\ UNCHANGED <<records, slices, pooled, planner, api, listener, posts, stored>>

ResultAccepted(t) ==
    /\ phase[t] = "answered"
    /\ Report(t, "succeeded")
    /\ UNCHANGED <<records, slices, pooled, planner, api, listener, posts, stored, spent>>

ResultTimesOut(t) ==
    /\ phase[t] \in {"answered"} \cup (IF PromptIngest THEN {} ELSE {"posting"})
    /\ Spend("timeouts", MaxTimeouts)
    /\ Report(t, "failed")
    /\ UNCHANGED <<records, slices, pooled, planner, api, listener, posts, stored>>

-----------------------------------------------------------------------------
Init ==
    /\ status = [t \in Tasks |-> "PENDING"]
    /\ retries = [t \in Tasks |-> 0]
    /\ spec = [t \in Tasks |-> Own(t)]
    /\ children = [t \in Tasks |-> {}]
    /\ parent = [t \in Tasks |-> None]
    /\ slices = [t \in Tasks |-> [c \in Tasks |-> NoSlice]]
    /\ pooled = Tasks
    /\ scan = {}
    /\ partner = None
    /\ plans = {}
    /\ api = Idle
    /\ listener = Idle
    /\ posts = {}
    /\ taskEvents = <<>>
    /\ out = [t \in Tasks |-> <<>>]
    /\ phase = [t \in Tasks |-> "ready"]
    /\ stored = [t \in Tasks |-> <<>>]
    /\ spent = [failures |-> 0, timeouts |-> 0, faults |-> 0]

Plan == TakeBatch \/ ScanEntry \/ \E t \in Tasks : Dispatch(t)
IngestResult ==
    \/ \E p \in posts : SplitResult(p)
    \/ MarkDone \/ DetachChildren \/ ClearFinalized
    \/ \E c \in Tasks : StoreChild(c)
Listen ==
    \/ TaskSucceeded \/ TaskFailed \/ RetryTask \/ PassFailureOn \/ ClearFailed
    \/ \E c \in Tasks : FailChild(c)
Work(t) == ExecutorReturns(t) \/ ResultAccepted(t)
Trouble(t) == Defer(t) \/ SkipChild(t) \/ ExecutorRaises(t) \/ ResultTimesOut(t)

Next == Plan \/ IngestResult \/ Listen \/ \E t \in Tasks : Work(t) \/ Trouble(t)

Spec == Init /\ [][Next]_vars

(* Every thread runs, an execution ends, and a task that is planned again  *)
(* and again finds a worker once.                                          *)
FairSpec ==
    /\ Spec
    /\ WF_vars(Plan) /\ WF_vars(IngestResult) /\ WF_vars(Listen)
    /\ \A t \in Tasks : WF_vars(Work(t)) /\ SF_vars(Dispatch(t))

-----------------------------------------------------------------------------
(* The variables have their types; a task is not retried beyond max_retries. *)
TypeOK ==
    /\ status \in [Tasks -> {"PENDING", "DISPATCHED", "WAITING", "DONE", "FAILED"}]
    /\ retries \in [Tasks -> 0..MaxRetries]
    /\ spec \in [Tasks -> Seq(Tasks)]
    /\ children \in [Tasks -> SUBSET Tasks]
    /\ parent \in [Tasks -> Tasks \cup {None}]
    /\ slices \in [Tasks -> [Tasks -> Nat \X Nat]]
    /\ pooled \subseteq Tasks
    /\ scan \subseteq Tasks
    /\ partner \in Tasks \cup {None}
    /\ plans \subseteq Tasks
    /\ api = Idle \/ api \in [step : {"done", "detach", "children", "clear"}, task : Tasks,
                              todo : SUBSET Tasks, cut : [Tasks -> Seq(Tasks)]]
    /\ listener = Idle \/ listener \in [step : {"requeue", "detach", "children", "clear"},
                                        task : Tasks, todo : SUBSET Tasks]
    /\ posts \subseteq [task : Tasks, items : Seq(Tasks)]
    /\ taskEvents \in Seq([type : {"succeeded", "failed"}, task : Tasks])
    /\ out \in [Tasks -> Seq(Tasks)]
    /\ phase \in [Tasks -> {"ready", "running", "posting", "answered"}]
    /\ stored \in [Tasks -> Seq(Tasks)]
    /\ spent \in [{"failures", "timeouts", "faults"} -> Nat]

(* A result file never has another task's items where its own belong,      *)
(* although slices may have been registered anew since the attempt that    *)
(* ingest_result cuts (_split_merged_result) was published.                *)
StartsWithOwn(t, items) == items = <<>> \/ IsPrefix(Own(t), items)
OwnItemsFirst == \A t \in Tasks : StartsWithOwn(t, stored[t])

(* A DONE task has its results, whether it was executed itself or a merged *)
(* parent's result was cut for it (_finalize_merge_children).              *)
DoneHasResult == \A t \in Tasks :
    status[t] = "DONE" /\ Size[t] > 0 => IsPrefix(Own(t), stored[t])

(* No item is on two workers at the same time: _apply_inference_merges      *)
(* drops the plan of a task that joins another.                            *)
ItemsOutOnce == \A t, u \in Tasks : t # u => ToSet(out[t]) \cap ToSet(out[u]) = {}

(* A task that is waiting on its merged parent gets a result or a failure. *)
ChildSettles == \A c \in Tasks : status[c] = "WAITING" ~> status[c] \in {"DONE", "FAILED"}
=============================================================================
