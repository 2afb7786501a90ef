----------------------------- MODULE MCRetention -----------------------------
(* Instances of Retention for TLC.                                         *)
EXTENDS Retention, TLC

CONSTANTS u1, w1, w2, r1, k1, k2

OneUser     == {u1}
OneWorker   == {w1}
TwoWorkers  == {w1, w2}
OneRequest  == {r1}
TwoCleaners == {k1, k2}
Nobody      == {}

Symmetry == Permutations(Workers) \union Permutations(Cleaners)
\* created_at in the order of the commits.
InOrder == [j \in Jobs |-> j]
=============================================================================
