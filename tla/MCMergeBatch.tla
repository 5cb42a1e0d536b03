---------------------------- MODULE MCMergeBatch ----------------------------
EXTENDS MergeBatch

OneEach == [t \in Tasks |-> 1]
TwoFirst == [t \in Tasks |-> IF t = 1 THEN 2 ELSE 1]
=============================================================================
