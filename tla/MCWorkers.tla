------------------------------ MODULE MCWorkers ------------------------------
(***************************************************************************)
(* The components of the workers and of their connections that do not      *)
(* share state within one step, one after the other in one run: "scene" is *)
(* the component at work, the others stay in an initial state, of which    *)
(* they have only one then.                                                *)
(***************************************************************************)
EXTENDS WsConnections, AgentStream, WorkforcePlan, WorkerEngines, TrainingRun

VARIABLE scene

workersVars == <<scene, wsVars, agentVars, workforceVars, engineVars, trainingVars>>

Scenes == {"connections", "stream", "workforce", "engines", "training"}

(* The components with several initial states have one when they are quiet. *)
Quiescent ==
    /\ scene # "stream" => agent = "simple"
    /\ scene # "engines" => vllm /\ nativeMerge
    /\ scene # "training" =>
        /\ visible = 1
        /\ config = [kind |-> "ppo", multi |-> FALSE, deepspeed |-> FALSE, devices |-> 0,
                     resume |-> FALSE, save |-> FALSE, http |-> FALSE]

WorkersInit ==
    /\ scene \in Scenes
    /\ WsInit /\ AgentInit /\ WorkforceInit /\ EngineInit /\ TrainingInit
    /\ Quiescent

WorkersNext ==
    /\ UNCHANGED scene
    /\ \/ /\ scene = "connections" /\ WsNext
          /\ UNCHANGED <<agentVars, workforceVars, engineVars, trainingVars>>
       \/ /\ scene = "stream" /\ AgentNext
          /\ UNCHANGED <<wsVars, workforceVars, engineVars, trainingVars>>
       \/ /\ scene = "workforce" /\ WorkforceNext
          /\ UNCHANGED <<wsVars, agentVars, engineVars, trainingVars>>
       \/ /\ scene = "engines" /\ EngineNext
          /\ UNCHANGED <<wsVars, agentVars, workforceVars, trainingVars>>
       \/ /\ scene = "training" /\ TrainingNext
          /\ UNCHANGED <<wsVars, agentVars, workforceVars, engineVars>>

WorkersSpec ==
    /\ WorkersInit /\ [][WorkersNext]_workersVars
    /\ scene = "connections" => WsFairness
    /\ scene = "stream" => AgentFairness
=============================================================================
