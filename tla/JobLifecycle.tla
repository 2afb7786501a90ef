---------------------------- MODULE JobLifecycle ----------------------------
(***************************************************************************)
(* What a simulation job is to its owner: the lifecycle that               *)
(* app/services/simulation_job.py declares (statuses, VALID_TRANSITIONS,   *)
(* terminal states), and what the job costs along it.  A job is billed     *)
(* when it is submitted, stays billed if it completes, is given back when  *)
(* it fails, and is tried at most MaxAttempts times in between.            *)
(***************************************************************************)
EXTENDS Integers

CONSTANTS Jobs, MaxAttempts

VARIABLES status, billed, tries

vars == <<status, billed, tries>>

ALL_STATUSES == {"pending", "running", "completed", "failed"}

\* VALID_TRANSITIONS: completed and failed have no successor.
VALID_TRANSITIONS == [pending   |-> {"running", "failed"},
                      running   |-> {"completed", "failed"},
                      completed |-> {},
                      failed    |-> {}]

can_transition(from, to) == from \in ALL_STATUSES /\ to \in VALID_TRANSITIONS[from]

Init == /\ status = [j \in Jobs |-> "absent"]
        /\ billed = [j \in Jobs |-> FALSE]
        /\ tries  = [j \in Jobs |-> 0]

\* The request is counted before the job exists.
Submit(j) == /\ status[j] = "absent"
             /\ status' = [status EXCEPT ![j] = "pending"]
             /\ billed' = [billed EXCEPT ![j] = TRUE]
             /\ UNCHANGED tries

\* One of the declared transitions.  Starting is the first try; failing gives
\* the quota back in the same step.
Move(j, to) == /\ can_transition(status[j], to)
               /\ status' = [status EXCEPT ![j] = to]
               /\ tries'  = [tries EXCEPT ![j] = IF to = "running" THEN 1 ELSE @]
               /\ billed' = [billed EXCEPT ![j] = to # "failed"]

\* A stuck job is tried again without leaving "running".
Retry(j) == /\ status[j] = "running"
            /\ tries[j] < MaxAttempts
            /\ tries' = [tries EXCEPT ![j] = @ + 1]
            /\ UNCHANGED <<status, billed>>

Next == \E j \in Jobs : \/ Submit(j)
                        \/ \E to \in ALL_STATUSES : Move(j, to)
                        \/ Retry(j)

Spec == Init /\ [][Next]_vars

=============================================================================
