---------------------------- MODULE WorkforcePlan ----------------------------
(***************************************************************************)
(* WorkforceAgent.run: a planner splits the task, an assigner and an       *)
(* executor work on the first open subtask, the planner checks it and may  *)
(* replace the rest of the plan.  The answers of the models are chosen     *)
(* freely.  A subtask is an object: it keeps its status when an update     *)
(* drops it from the plan, and its task_id when its position changes.      *)
(* A status of two words is written with an underscore.                    *)
(***************************************************************************)
EXTENDS Naturals, Sequences, SequencesExt

CONSTANTS PlanLength,  \* bound: subtasks in an answer of the planner
          MaxUpdates,  \* bound: updates of the plan
          MaxTries     \* max_tries of the executor's configuration

ASSUME WorkforceAssumption ==
    PlanLength \in Nat \ {0} /\ MaxUpdates \in Nat /\ MaxTries \in Nat \ {0}

MaxObjects == PlanLength * (MaxUpdates + 1)
Objects == 1 .. MaxObjects
Settled == {"success", "failed", "partial_success"}
Statuses == Settled \cup {"not_started", "in_progress", "completed"}

VARIABLES
    plan,      \* task_plan, as the objects in it
    taskId,    \* task_id of each object
    status,    \* task_status of each object
    created,   \* objects made so far
    subtask,   \* next_task: the object at hand
    step,      \* what run() awaits
    tries,     \* attempts of the executor
    answered,  \* executor_res is not None
    updates,   \* updates of the plan so far
    executed   \* history: how often execute_task was given each object

workforceVars == <<plan, taskId, status, created, subtask, step, tries, answered, updates, executed>>
objectVars == <<taskId, status, created, executed>>
planVars == <<plan, created, taskId, updates>>
trialVars == <<tries, answered>>

WorkforceInit ==
    /\ plan = <<>> /\ created = 0 /\ subtask = 1 /\ updates = 0
    /\ taskId = [o \in Objects |-> 0]
    /\ status = [o \in Objects |-> "not_started"]
    /\ executed = [o \in Objects |-> 0]
    /\ step = "plan"
    /\ tries = 1 /\ answered = FALSE

Open(p) == {k \in DOMAIN p : status[p[k]] = "not_started"}
HasUncompleted == Open(plan) # {}
Fresh(n) == [k \in 1 .. n |-> created + k]

-----------------------------------------------------------------------------
(* plan_task: subtasks 1, 2, ... of the answer; no match is an empty plan. *)
PlanTask ==
    /\ step = "plan"
    /\ \E n \in 0 .. PlanLength :
        /\ plan' = Fresh(n)
        /\ created' = n
        /\ taskId' = [o \in Objects |-> IF o <= n THEN o ELSE 0]
        /\ step' = IF n = 0 THEN "answer" ELSE "assign"
    /\ UNCHANGED <<status, subtask, trialVars, updates, executed>>

LastOpen == CHOOSE k \in Open(plan) : \A j \in Open(plan) : j <= k

(* get_next_task: the first open subtask of the plan. *)
NextTask == CHOOSE k \in Open(plan) : \A j \in Open(plan) : k <= j

(* assign_task: an answer that does not parse raises, and so does the name *)
(* of an executor that does not exist.                                     *)
AssignTask ==
    /\ step = "assign"
    /\ subtask' = plan[NextTask]
    /\ \/ step' = "execute"
       \/ step' = "raised"
    /\ UNCHANGED <<plan, objectVars, trialVars, updates>>

(* execute_task begins. *)
BeginSubtask ==
    /\ step = "execute"
    /\ status' = [status EXCEPT ![subtask] = "in_progress"]
    /\ executed' = [executed EXCEPT ![subtask] = @ + 1]
    /\ tries' = 1 /\ answered' = FALSE
    /\ step' = "try"
    /\ UNCHANGED <<planVars, subtask>>

NoTryLeftOffByOne == tries > MaxTries

NoTryLeft == tries + 1 > MaxTries

(* One attempt: it satisfies the check, does not and is reflected upon, or  *)
(* raises before or after executor_res is there.                            *)
Attempt ==
    /\ step = "try"
    /\ \/ /\ answered' = TRUE            \* the check says yes
          /\ step' = "tried"
          /\ UNCHANGED tries
       \/ /\ answered' \in {answered, TRUE}  \* it says no, or an exception
          /\ tries' = tries + 1
          /\ step' = IF NoTryLeft THEN "tried" ELSE "try"
    /\ UNCHANGED <<planVars, status, executed, subtask>>

(* The end of execute_task; the summary it may ask for can raise. *)
EndSubtask ==
    /\ step = "tried"
    /\ status' = [status EXCEPT ![subtask] = IF answered THEN "completed" ELSE "failed"]
    /\ step' \in IF answered THEN {"check", "raised"} ELSE {"check"}
    /\ UNCHANGED <<planVars, executed, subtask, trialVars>>

CheckResultAsWritten(written) == IF written = "none" THEN "partial_success" ELSE written

(* _parse_check_response: what the planner wrote, made one of three. *)
CheckResult(written) ==
    IF written \in Settled THEN written ELSE "partial_success"

(* plan_check, and the early stop after it. *)
PlanCheck ==
    /\ step = "check"
    /\ \E written \in Statuses \cup {"none"} :
        status' = [status EXCEPT ![subtask] = CheckResult(written)]
    /\ step' = IF \E k \in DOMAIN plan : status'[plan[k]] = "not_started"
               THEN "update" ELSE "answer"
    /\ UNCHANGED <<planVars, executed, subtask, trialVars>>

(* WorkspaceTaskRecorder.plan_update: the plan up to position task_id, then *)
(* new subtasks, of which the first again has the number task_id.           *)
UpdatedPlan(n) == SubSeq(plan, 1, taskId[subtask]) \o Fresh(n)
UpdatedIds(n) ==
    [o \in Objects |-> IF o \in created + 1 .. created + n
                       THEN taskId[subtask] + (o - created - 1)
                       ELSE taskId[o]]

(* plan_update says "continue", "stop" or "update"; an update without *)
(* subtasks raises.                                                   *)
PlanUpdate ==
    /\ step = "update"
    /\ \/ /\ step' \in {"assign", "answer", "raised"}
          /\ UNCHANGED <<plan, taskId, created, updates>>
       \/ /\ updates < MaxUpdates
          /\ \E n \in 1 .. PlanLength :
                /\ plan' = UpdatedPlan(n)
                /\ taskId' = UpdatedIds(n)
                /\ created' = created + n
          /\ updates' = updates + 1
          /\ step' = "assign"
    /\ UNCHANGED <<status, executed, subtask, trialVars>>

(* extract_final_answer raises when there is no <answer>. *)
FinalAnswer ==
    /\ step = "answer"
    /\ step' \in {"returned", "raised"}
    /\ UNCHANGED <<plan, objectVars, subtask, trialVars, updates>>

WorkforceNext ==
    PlanTask \/ AssignTask \/ BeginSubtask \/ Attempt \/ EndSubtask
        \/ PlanCheck \/ PlanUpdate \/ FinalAnswer

WorkforceSpec == WorkforceInit /\ [][WorkforceNext]_workforceVars

-----------------------------------------------------------------------------
WorkforceTypeOK ==
    /\ plan \in Seq(Objects) /\ IsInjective(plan)
    /\ taskId \in [Objects -> 0 .. MaxObjects]
    /\ status \in [Objects -> Statuses]
    /\ created \in 0 .. MaxObjects
    /\ subtask \in Objects
    /\ step \in {"plan", "assign", "execute", "try", "tried", "check",
                 "update", "answer", "returned", "raised"}
    /\ tries \in 1 .. MaxTries + 1 /\ answered \in BOOLEAN
    /\ updates \in 0 .. MaxUpdates
    /\ executed \in [Objects -> Nat]

(* No subtask is executed twice, whatever the planner writes about it. *)
ExecutedOnce == \A o \in Objects : executed[o] <= 1

(* Through all renumberings the plan is a settled prefix, the subtask at   *)
(* hand, and open ones: the executor never works behind an open subtask.   *)
SettledPrefix ==
    \A j, k \in DOMAIN plan :
        j < k /\ status[plan[j]] = "not_started" => status[plan[k]] = "not_started"

(* The plan is worked off from the front, once, whatever updates it gets.   *)
WorkforceInv ==
    /\ WorkforceTypeOK
    /\ ExecutedOnce
    /\ SettledPrefix

(* Violated by two updates (data.py:66-69): the ids of new subtasks lag one *)
(* behind their positions, so the next update cuts off the subtask that was *)
(* just finished, although plan_update (planner.py:42) is to update the     *)
(* plan "based on completed tasks".  The answerer never sees its result.    *)
FinishedSubtaskKept ==
    step = "answer" =>
        \A o \in Objects : executed[o] > 0 => \E k \in DOMAIN plan : plan[k] = o

=============================================================================
