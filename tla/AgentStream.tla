----------------------------- MODULE AgentStream -----------------------------
(***************************************************************************)
(* A task of type "agent" on a worker: AgentExecutor.run and the agent it  *)
(* drives.  Everything runs in one asyncio event loop, so a step is what a *)
(* coroutine does between two awaits.  The executor's coroutine reads      *)
(* stream_events() and then awaits _run_impl_task; the agent's loop is a   *)
(* background task that fills the queue.  OrchestraAgent fills it itself,  *)
(* SimpleAgent through the Runner of openai-agents, which puts the         *)
(* sentinel on the queue also when it fails; WorkforceAgent cannot stream. *)
(***************************************************************************)
EXTENDS Naturals, FiniteSets

CONSTANTS MaxPrompts,  \* bound: prompts that prepare_data may find
          MaxSubtasks  \* bound: subtasks of an orchestra plan

ASSUME AgentAssumption == MaxPrompts \in Nat \ {0} /\ MaxSubtasks \in Nat

AgentKinds == {"simple", "orchestra", "workforce"}
Prompts == 1 .. MaxPrompts

VARIABLES
    agent,     \* the type of the agent's configuration
    prompts,   \* _tasks: how many prompts the task has
    runPhase,  \* where the executor's coroutine is
    item,      \* the prompt it is at
    loop,      \* each prompt's _run_impl_task
    stage,     \* what the loop waits for: the plan, a subtask, the report
    todo,      \* subtasks of the plan left to do
    unread,    \* the event queue is not empty
    waits,     \* the reader is suspended in _event_queue.get()
    answers,   \* all_items: what became of each prompt
    response,  \* responses.json
    unwritten  \* history: prompts whose answer could not be written to its file

agentVars == <<agent, prompts, runPhase, item, loop, stage, todo, unread, waits, answers, response,
               unwritten>>
loopVars == <<stage, todo>>
setting == <<agent, prompts>>

AgentInit ==
    /\ agent \in AgentKinds
    /\ prompts = 0 /\ item = 1
    /\ runPhase = "prepare"
    /\ loop = [i \in Prompts |-> "none"]
    /\ stage = "plan" /\ todo = 0
    /\ unread = FALSE /\ waits = FALSE
    /\ answers = [i \in Prompts |-> "none"]
    /\ response = "none" /\ unwritten = {}

Over == runPhase \in {"returned", "raised"}
Batch == prompts > 1

-----------------------------------------------------------------------------
(* prepare_data: the prompts, or an ExecutionError. *)
PrepareData ==
    /\ runPhase = "prepare"
    /\ \/ /\ prompts' \in Prompts
          /\ runPhase' = "build"
       \/ /\ runPhase' = "raised"
          /\ UNCHANGED prompts
    /\ UNCHANGED <<agent, item, loop, loopVars, unread, waits, answers, response, unwritten>>

(* The agent is built once.  A single run that times out here stumbles over *)
(* the unset task_timeout, which run() answers with an error document.      *)
BuildSingle ==
    /\ runPhase = "build" /\ ~ Batch
    /\ \/ runPhase' = "start" /\ UNCHANGED response
       \/ runPhase' = "raised" /\ response' \in {"none", "failed"}
    /\ UNCHANGED <<setting, item, loop, loopVars, unread, waits, answers, unwritten>>

BuildBatch ==
    /\ runPhase = "build" /\ Batch
    /\ runPhase' \in {"start", "raised"}
    /\ UNCHANGED <<setting, item, loop, loopVars, unread, waits, answers, response, unwritten>>

(* What the executor does when a prompt is done with: a batch records it *)
(* and goes on, a single run cleans up or raises.                        *)
ItemOver(status) ==
    /\ answers' = [answers EXCEPT ![item] = status]
    /\ IF Batch
       THEN /\ item' = IF item < prompts THEN item + 1 ELSE item
            /\ runPhase' = IF item < prompts THEN "start" ELSE "cleanup"
       ELSE /\ runPhase' = IF status = "completed" THEN "cleanup" ELSE "raised"
            /\ UNCHANGED item

(* agent.run_streamed(input): an AttributeError for a WorkforceAgent. *)
RunStreamed ==
    /\ runPhase = "start"
    /\ \/ /\ agent = "workforce"
          /\ ItemOver("failed")
          /\ UNCHANGED <<loop, stage, unread, waits>>
       \/ /\ agent # "workforce"
          /\ loop' = [loop EXCEPT ![item] = "running"]
          /\ stage' = "plan"
          /\ runPhase' = "reading"
          /\ unread' = FALSE /\ waits' = FALSE
          /\ UNCHANGED <<item, answers>>
    /\ UNCHANGED <<setting, todo, response, unwritten>>

StreamOverWhenEmpty == ~ unread \/ loop[item] # "running"

(* stream_events() up to its next suspension: the reader drains the queue, *)
(* and ends when it meets the sentinel or finds the loop failed.           *)
StreamOver == loop[item] # "running"

ReadEvents ==
    /\ runPhase = "reading"
    /\ ~ waits \/ unread
    /\ unread' = FALSE
    /\ waits' = ~ StreamOver
    /\ runPhase' = IF StreamOver THEN "await" ELSE "reading"
    /\ UNCHANGED <<setting, item, loop, loopVars, answers, response, unwritten>>

AwaitIgnoringFailure ==
    /\ runPhase = "await"
    /\ ItemOver("completed")
    /\ UNCHANGED <<setting, loop, loopVars, unread, waits, response, unwritten>>

(* wait_for(_run_impl_task): its exception, or its result, which is written *)
(* to a file of the prompt.                                                 *)
AwaitLoop ==
    /\ runPhase = "await"
    /\ loop[item] # "running"
    /\ ItemOver(IF loop[item] = "done" THEN "completed" ELSE "failed")
    /\ UNCHANGED <<setting, loop, loopVars, unread, waits, response, unwritten>>

(* That write raises: a batch marks the prompt as failed, a single run is *)
(* answered with an error document, if that one can be written.           *)
OutputWriteRaises ==
    /\ runPhase = "await"
    /\ loop[item] = "done"
    /\ ItemOver("failed")
    /\ unwritten' = unwritten \cup {item}
    /\ response' \in IF Batch THEN {response} ELSE {"none", "failed"}
    /\ UNCHANGED <<setting, loop, loopVars, unread, waits>>

(* agent.cleanup(), whose failures are only logged, and responses.json. *)
CleanUp ==
    /\ runPhase = "cleanup"
    /\ runPhase' = "returned"
    /\ response' = "ok"
    /\ UNCHANGED <<setting, item, loop, loopVars, unread, waits, answers, unwritten>>

(* batch_summary.json or responses.json cannot be written. *)
DocumentWriteRaises ==
    /\ runPhase = "cleanup"
    /\ runPhase' = "raised"
    /\ response' \in {"none", "failed"}
    /\ UNCHANGED <<setting, item, loop, loopVars, unread, waits, answers, unwritten>>

-----------------------------------------------------------------------------
(* The background loop. *)
Running(kind) == /\ agent = kind
                 /\ loop[item] = "running"

(* OrchestraAgent.plan, and the first of the subtasks is begun. *)
OrchestraPlan ==
    /\ Running("orchestra") /\ stage = "plan"
    /\ todo' \in 0 .. MaxSubtasks
    /\ stage' = IF todo' = 0 THEN "report" ELSE "work"
    /\ unread' = TRUE
    /\ UNCHANGED <<setting, runPhase, item, loop, waits, answers, response, unwritten>>

SubtaskDoneOnceMore ==
    /\ Running("orchestra") /\ stage = "work"
    /\ todo' = todo - 1
    /\ stage' = IF todo < 0 THEN "report" ELSE "work"
    /\ unread' = TRUE
    /\ UNCHANGED <<setting, runPhase, item, loop, waits, answers, response, unwritten>>

(* An event of the subtask's own stream is passed on. *)
OrchestraPassEvent ==
    /\ Running("orchestra") /\ stage = "work"
    /\ unread' = TRUE
    /\ UNCHANGED <<setting, runPhase, item, loop, loopVars, waits, answers, response, unwritten>>

OrchestraSubtaskDone ==
    /\ Running("orchestra") /\ stage = "work"
    /\ todo' = todo - 1
    /\ stage' = IF todo' = 0 THEN "report" ELSE "work"
    /\ unread' = (unread \/ todo' = 0)
    /\ UNCHANGED <<setting, runPhase, item, loop, waits, answers, response, unwritten>>

(* The report event and the sentinel, then _is_complete. *)
OrchestraReport ==
    /\ Running("orchestra") /\ stage = "report"
    /\ loop' = [loop EXCEPT ![item] = "done"]
    /\ unread' = TRUE
    /\ UNCHANGED <<setting, runPhase, item, loopVars, waits, answers, response, unwritten>>

(* Planner, subtask or reporter raises, or the plan names no such agent: no *)
(* sentinel is put on the queue, though this step may have put an event.    *)
OrchestraFails ==
    /\ Running("orchestra")
    /\ loop' = [loop EXCEPT ![item] = "failed"]
    /\ unread' \in {unread, TRUE}
    /\ UNCHANGED <<setting, runPhase, item, loopVars, waits, answers, response, unwritten>>

SimpleLoopEndsSilently ==
    /\ Running("simple")
    /\ \E end \in {"done", "failed"} : loop' = [loop EXCEPT ![item] = end]
    /\ UNCHANGED <<setting, runPhase, item, loopVars, unread, waits, answers, response, unwritten>>

(* Runner.run_streamed of openai-agents, behind SimpleAgent. *)
SimpleEvent ==
    /\ Running("simple")
    /\ unread' = TRUE
    /\ UNCHANGED <<setting, runPhase, item, loop, loopVars, waits, answers, response, unwritten>>

SimpleLoopEnds ==
    /\ Running("simple")
    /\ \E end \in {"done", "failed"} : loop' = [loop EXCEPT ![item] = end]
    /\ unread' = TRUE
    /\ UNCHANGED <<setting, runPhase, item, loopVars, waits, answers, response, unwritten>>

LoopProgress == OrchestraPlan \/ OrchestraSubtaskDone \/ OrchestraReport
                    \/ OrchestraFails \/ SimpleLoopEnds
ExecutorStep == PrepareData \/ BuildSingle \/ BuildBatch \/ RunStreamed
                    \/ ReadEvents \/ AwaitLoop \/ OutputWriteRaises
                    \/ CleanUp \/ DocumentWriteRaises

AgentNext == LoopProgress \/ ExecutorStep \/ OrchestraPassEvent \/ SimpleEvent

(* Fairness: the event loop runs every coroutine that can go on, and what *)
(* the agent's loop awaits is answered or raises.                         *)
AgentFairness == WF_agentVars(ExecutorStep) /\ WF_agentVars(LoopProgress)

AgentSpec == AgentInit /\ [][AgentNext]_agentVars
AgentFairSpec == AgentSpec /\ AgentFairness

-----------------------------------------------------------------------------
AgentTypeOK ==
    /\ agent \in AgentKinds
    /\ prompts \in 0 .. MaxPrompts /\ item \in Prompts
    /\ runPhase \in {"prepare", "build", "start", "reading", "await", "cleanup", "returned", "raised"}
    /\ loop \in [Prompts -> {"none", "running", "done", "failed"}]
    /\ stage \in {"plan", "work", "report"} /\ todo \in 0 .. MaxSubtasks
    /\ unread \in BOOLEAN /\ waits \in BOOLEAN
    /\ answers \in [Prompts -> {"none", "completed", "failed"}]
    /\ response \in {"none", "ok", "failed"} /\ unwritten \subseteq Prompts

(* A document that says ok answers every prompt, and a prompt is marked     *)
(* completed exactly when the agent's loop for it ran to its end and its    *)
(* answer could be written to its file.                                     *)
ItemsAnswered ==
    response = "ok" =>
        \A i \in 1 .. prompts :
            /\ answers[i] # "none"
            /\ (answers[i] = "completed") = (loop[i] = "done" /\ i \notin unwritten)

(* The reader never leaves the stream while the loop still runs, so the *)
(* timeouts of 600 and 300 seconds, which only start there, never bind;  *)
(* and no loop runs on beside the next prompt's or after the run.        *)
StreamOutlastsLoop ==
    \A i \in Prompts :
        loop[i] = "running" => i = item /\ runPhase = "reading"

(* Reader and loop stay together, and the result says how each prompt ended. *)
AgentInv ==
    /\ AgentTypeOK
    /\ ItemsAnswered
    /\ StreamOutlastsLoop

(* The reader waits for an event that no one will put. *)
Starved == /\ agent = "orchestra" /\ runPhase = "reading"
           /\ waits /\ ~ unread
           /\ loop[item] = "failed"

(* Every run that has prompts ends, except one whose orchestra loop failed *)
(* while the reader was waiting.                                           *)
EndsOrStarves == [](prompts > 0 => <>[](Over \/ Starved))

(* Violated: a prompt whose loop is done has its answer in the result. *)
DoneIsAnswered ==
    response = "ok" => \A i \in 1 .. prompts : loop[i] = "done" => answers[i] = "completed"

(* agent_executor.py:280 and :335 promise timeout control for the run of a *)
(* task, ten minutes: it ends in any case.                                 *)
RunEnds == [](prompts > 0 => <>Over)

=============================================================================
