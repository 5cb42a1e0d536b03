--------------------------- MODULE ShardGathering ---------------------------
(***************************************************************************)
(* What sharding promises of a task that was fanned out: its result is     *)
(* gathered at most once, and only from shards that have been executed.    *)
(* Implemented by ShardAggregation (orchestrator/aggregation.py and its    *)
(* callers).                                                               *)
(***************************************************************************)
EXTENDS Sequences

CONSTANT Shards

VARIABLES
    ran,        \* shards that an executor has finished
    gathered    \* the results written for the parent, as sets of shards

Init == ran = {} /\ gathered = <<>>

Run(c) ==
    /\ ran' = ran \cup {c}
    /\ UNCHANGED gathered

Gather(S) ==
    /\ gathered = <<>>
    /\ S # {}
    /\ S \subseteq ran
    /\ gathered' = <<S>>
    /\ UNCHANGED ran

Next ==
    \/ \E c \in Shards : Run(c)
    \/ \E S \in SUBSET Shards : Gather(S)

Spec == Init /\ [][Next]_<<ran, gathered>>
=============================================================================
