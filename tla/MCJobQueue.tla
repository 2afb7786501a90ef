----------------------------- MODULE MCJobQueue -----------------------------
(* Instances of JobQueue for TLC: model values, and their symmetries.     *)
EXTENDS JobQueueRefinement, TLC

CONSTANTS u1, u2, w1, w2, r1, d1

OneUser    == {u1}
TwoUsers   == {u1, u2}
OneWorker  == {w1}
TwoWorkers == {w1, w2}
OneRequest == {r1}
OneDeleter == {d1}
Nobody     == {}

Symmetry == Permutations(Users) \union Permutations(Workers)
\* created_at in the order of the commits.
InOrder == [j \in Jobs |-> j]

\* The first to commit was created last.
Reversed == [j \in Jobs |-> MaxJobs - j]
=============================================================================
