-------------------------- MODULE WorkflowContract --------------------------
(***************************************************************************)
(* What the orchestrator promises of a workflow, whatever fails: a task is *)
(* only put into workers' hands when everything it depends on has run, and *)
(* it only counts as run after a worker that held it has run it.  A task   *)
(* may be handed out again (retries, lost workers) and may be taken back   *)
(* at any time; what has run stays run.                                    *)
(***************************************************************************)
CONSTANTS Tasks, Deps

VARIABLES given,  \* tasks in the hands of workers
          ran     \* tasks some worker has run to the end

Give(t) ==
    /\ Deps[t] \subseteq ran
    /\ given' = given \cup {t}
    /\ UNCHANGED ran

Run(t) ==
    /\ t \in given
    /\ ran' = ran \cup {t}
    /\ UNCHANGED given

TakeBack ==
    /\ given' \subseteq given
    /\ UNCHANGED ran

Init == given = {} /\ ran = {}

Next == (\E t \in Tasks : Give(t) \/ Run(t)) \/ TakeBack

Spec == Init /\ [][Next]_<<given, ran>>
=============================================================================
