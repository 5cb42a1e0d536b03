--------------------------- MODULE MCTaskDispatch ---------------------------
EXTENDS TaskDispatch, TLC

(* Task 2 depends on task 1; other tasks are free. *)
Chain == [t \in Tasks |-> IF t = 2 THEN {1} ELSE {}]
Symmetry == Permutations(Workers)
=============================================================================
