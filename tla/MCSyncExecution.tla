--------------------------- MODULE MCSyncExecution ---------------------------
(* Instances of SyncExecution for TLC.                                     *)
EXTENDS SyncExecution, TLC

CONSTANTS u1, u2, w1, k1, k2, d1

OneUser    == {u1}
TwoUsers   == {u1, u2}
OneWorker  == {w1}
OneCaller  == {k1}
TwoCallers == {k1, k2, d1}
OneDeleter == {d1}
Nobody     == {}

Symmetry == Permutations(Users) \union Permutations(Callers)
\* created_at in the order of the commits.
InOrder == [j \in Jobs |-> j]
=============================================================================
