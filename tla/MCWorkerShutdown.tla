-------------------------- MODULE MCWorkerShutdown --------------------------
(* Instances of WorkerShutdown for TLC.                                    *)
EXTENDS WorkerShutdown, TLC

CONSTANTS u1, u2, w1, w2

TwoUsers   == {u1, u2}
SecondUser == {u2}
TwoWorkers == {w1, w2}
FirstWorker == {w1}
Nobody     == {}
\* created_at in the order of the commits.
InOrder == [j \in Jobs |-> j]

\* The backlog that the workers find when they start: a job of u2, who may be
\* suspended, and a younger one of u1.
Owner == <<u2, u1>>

BacklogInit ==
    /\ job = [j \in Jobs |-> [NoRow EXCEPT !.status = "pending", !.owner = Owner[j]]]
    /\ used = [u \in Users |-> 1]
    /\ nextId = MaxJobs + 1
    /\ rowLock  = [j \in Jobs |-> NoOne]
    /\ userLock = [u \in Users |-> NoOne]
    /\ worker   = [w \in Workers |-> [pc |-> "idle", todo |-> {}]]
    /\ request  = <<>>
    /\ deleter  = <<>>
    /\ faults   = 0
    /\ refunds  = [j \in Jobs |-> 0]
    /\ runs     = [j \in Jobs |-> 0]
    /\ leaked   = [u \in Users |-> 0]
    /\ loop = [w \in Workers |-> "unborn"]
    /\ stop = [w \in Workers |-> FALSE]

BacklogSpec == BacklogInit /\ [][ShutdownNext]_allVars /\ ShutdownFairness
=============================================================================
