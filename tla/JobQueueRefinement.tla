------------------------- MODULE JobQueueRefinement -------------------------
(***************************************************************************)
(* With one worker scanning the queue and nobody deleting, the queue       *)
(* implements the declared lifecycle: every crash, retry, stale candidate  *)
(* list and failed commit is a lifecycle step or invisible to the owner.   *)
(***************************************************************************)
EXTENDS JobQueue

Lifecycle == INSTANCE JobLifecycle WITH
    status <- [j \in Jobs |-> job[j].status],
    billed <- [j \in Jobs |-> Exists(j) /\ refunds[j] = 0],
    tries  <- runs

\* The rows, the refunds and the engine runs of the queue follow the lifecycle
\* of simulation_job.py: terminal states are final, a failure and its refund
\* are one step, and engine runs are bounded by max_attempts.
FollowsLifecycle == Lifecycle!Spec

=============================================================================
