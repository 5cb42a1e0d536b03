----------------------------- MODULE MCServices -----------------------------
(***************************************************************************)
(* The orchestrator's components that do not share state within one step,  *)
(* one after the other in one run: "scene" is the component at work, the   *)
(* others stay in an initial state, of which they have only one then.      *)
(***************************************************************************)
EXTENDS StateSnapshot, MetricsLedger, WorkerPresence, WorkflowGraph, ShardRows, BatchPlanning

VARIABLE scene

(* StateSnapshot: the second job needs the first and is sharded. *)
ChainJobs == [j \in Jobs |-> IF j = 2 THEN {1} ELSE {}]

(* BatchPlanning: the second task needs the first, the third has another   *)
(* model.  The first worker reports nothing useful to the second task, the *)
(* second reports no CPU, the last three satisfy everybody.                *)
SecondNeedsFirst == [t \in PlanTasks |-> IF t = 2 THEN {1} ELSE {}]
ThirdDiffers == [t \in PlanTasks |-> IF t = 3 THEN "b" ELSE "a"]
Machine(c, g) == [cores |-> c, gpus |-> g]
Machines == <<Machine(1, 0), Machine(0, 1), Machine(4, 1), Machine(4, 1), Machine(8, 1)>>
Wants == <<Machine(0, 0), Machine(2, 0), Machine(0, 1)>>

servicesVars == <<scene, snapVars, ledgerVars, presenceVars, graphVars, rowVars, planVars>>

Scenes == {"snapshot", "ledger", "presence", "graph", "rows", "planning"}

(* The components with several initial states have one when they are quiet. *)
Quiescent ==
    /\ scene # "graph" => document = [mode |-> "single", nodes |-> <<[name |-> 1, needs |-> {}]>>,
                                      earlier |-> FALSE]
    /\ scene # "rows" => job = CHOOSE d \in FannedOut : TRUE

ServicesInit ==
    /\ scene \in Scenes
    /\ SnapInit /\ LedgerInit /\ PresenceInit /\ GraphInit /\ RowsInit /\ PlanInit
    /\ Quiescent

ServicesNext ==
    /\ UNCHANGED scene
    /\ \/ /\ scene = "snapshot" /\ SnapNext
          /\ UNCHANGED <<ledgerVars, presenceVars, graphVars, rowVars, planVars>>
       \/ /\ scene = "ledger" /\ LedgerNext
          /\ UNCHANGED <<snapVars, presenceVars, graphVars, rowVars, planVars>>
       \/ /\ scene = "presence" /\ PresenceNext
          /\ UNCHANGED <<snapVars, ledgerVars, graphVars, rowVars, planVars>>
       \/ /\ scene = "graph" /\ GraphNext
          /\ UNCHANGED <<snapVars, ledgerVars, presenceVars, rowVars, planVars>>
       \/ /\ scene = "rows" /\ RowsNext
          /\ UNCHANGED <<snapVars, ledgerVars, presenceVars, graphVars, planVars>>
       \/ /\ scene = "planning" /\ PlanNext
          /\ UNCHANGED <<snapVars, ledgerVars, presenceVars, graphVars, rowVars>>

ServicesSpec ==
    /\ ServicesInit /\ [][ServicesNext]_servicesVars
    /\ scene = "snapshot" => SnapFairness
=============================================================================
