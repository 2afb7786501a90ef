------------------------------ MODULE Retention ------------------------------
(***************************************************************************)
(* The retention cleanup (app/services/retention.py, app/cleanup.py) beside *)
(* the queue.  A cleanup counts the eligible rows once, then deletes them   *)
(* in batches, each batch a transaction that selects ids FOR UPDATE SKIP    *)
(* LOCKED and deletes by id.  The workers of JobQueue keep going meanwhile, *)
(* so a row can be in a stale candidate list when its status says it is     *)
(* finished.                                                                *)
(***************************************************************************)
EXTENDS JobQueue, Functions

CONSTANTS
    Cleaners,     \* cleanup processes
    BatchSize     \* SIMULATION_CLEANUP_BATCH_SIZE

ASSUME BatchSizeAssumption == BatchSize \in Nat \ {0}
ASSUME CleanersAssumption == /\ IsFiniteSet(Cleaners)
                            /\ NoOne \notin Cleaners
                            /\ Cleaners \cap (Workers \union Deleters) = {}

VARIABLES
    expired,    \* rows older than the retention period
    cleaner,    \* local state of each cleanup
    reported,   \* CleanupResult.deleted_count, of all the cleanups that ended
    lost,       \* history: deletions that nobody is left to report
    swept       \* history: the status a row had when a cleanup deleted it

retentionVars == <<expired, cleaner, reported, lost, swept>>
retVars == <<vars, retentionVars>>

Resting == [pc |-> "idle", cutoff |-> {}, ids |-> {}, deleted |-> 0]

\* status IN (completed, failed) AND created_at < cutoff.
Sweepable(cutoff) == {j \in cutoff : job[j].status \in Terminal}

\* Mutant: the ids are selected without FOR UPDATE.
HoldNothing(c, ids) == UNCHANGED rowLock

Hold(c, ids) == rowLock' = [j \in Jobs |-> IF j \in ids THEN c ELSE rowLock[j]]

LetGo(c) == rowLock' = [j \in Jobs |-> IF rowLock[j] = c THEN NoOne ELSE rowLock[j]]

\* The ids of one batch: the oldest that nobody has locked.
Batch(cutoff) ==
    LET free == {j \in Sweepable(cutoff) : rowLock[j] = NoOne}
    IN {j \in free : Cardinality({i \in free : Older(i, j)}) < BatchSize}

-----------------------------------------------------------------------------
\* The cutoff is fixed, and nothing more is done if no row is eligible.
StartCleanup(c) ==
    /\ cleaner[c].pc = "idle"
    /\ Sweepable(expired) # {}
    /\ cleaner' = [cleaner EXCEPT ![c] = [Resting EXCEPT !.pc = "select", !.cutoff = expired]]
    /\ UNCHANGED <<vars, expired, reported, lost, swept>>

SelectBatch(c) ==
    LET ids == Batch(cleaner[c].cutoff)
    IN /\ cleaner[c].pc = "select"
       /\ ids # {}
       /\ Hold(c, ids)
       /\ cleaner' = [cleaner EXCEPT ![c].pc = "delete", ![c].ids = ids]
       /\ UNCHANGED <<job, userLock, used, worker, request, deleter, nextId, faults, history>>
       /\ UNCHANGED <<expired, reported, lost, swept>>

\* DELETE ... WHERE id IN (ids), committed: rowcount rows are gone.
Delete(ids, c) ==
    /\ \A j \in ids : Writable(j, c)
    /\ swept' = [j \in Jobs |-> IF j \in ids /\ Exists(j) THEN job[j].status ELSE swept[j]]
    /\ job' = [j \in Jobs |-> IF j \in ids THEN NoRow ELSE job[j]]

Rowcount(ids) == Cardinality({j \in ids : Exists(j)})

DeleteBatch(c) ==
    LET ids == cleaner[c].ids
    IN /\ cleaner[c].pc = "delete"
       /\ Delete(ids, c)
       /\ LetGo(c)
       /\ cleaner' = [cleaner EXCEPT
            ![c].pc = "select", ![c].ids = {},
            ![c].deleted = @ + Rowcount(ids)]
       /\ UNCHANGED <<userLock, used, worker, request, deleter, nextId, faults, history>>
       /\ UNCHANGED <<expired, reported, lost>>

\* No candidate is left that is not locked: the cleanup reports and ends.
FinishCleanup(c) ==
    /\ cleaner[c].pc = "select"
    /\ Batch(cleaner[c].cutoff) = {}
    /\ reported' = reported + cleaner[c].deleted
    /\ cleaner' = [cleaner EXCEPT ![c] = Resting]
    /\ UNCHANGED <<vars, expired, lost, swept>>

\* Mutant: a failed cleanup reports nothing.
BatchFailsSilently(c) ==
    /\ cleaner[c].pc # "idle"
    /\ Fault
    /\ LetGo(c)
    /\ cleaner' = [cleaner EXCEPT ![c] = Resting]
    /\ UNCHANGED <<job, userLock, used, worker, request, deleter, nextId, history>>
    /\ UNCHANGED <<expired, reported, lost, swept>>

\* A batch raises, or its commit does, which may have taken effect all the same.
\* The cleanup ends, and reports the batches it knows to be committed.
BatchFails(c) ==
    LET ids == cleaner[c].ids
    IN /\ cleaner[c].pc # "idle"
       /\ Fault
       /\ \/ UNCHANGED <<job, lost, swept>>
          \/ /\ LostAcks /\ cleaner[c].pc = "delete"
             /\ Delete(ids, c)
             /\ lost' = lost + Rowcount(ids)
       /\ LetGo(c)
       /\ reported' = reported + cleaner[c].deleted
       /\ cleaner' = [cleaner EXCEPT ![c] = Resting]
       /\ UNCHANGED <<userLock, used, worker, request, deleter, nextId, history, expired>>

\* The process of a cleanup dies: what it has deleted, it reports to nobody.
CleanupDies(c) ==
    /\ cleaner[c].pc # "idle"
    /\ Fault
    /\ LetGo(c)
    /\ lost' = lost + cleaner[c].deleted
    /\ cleaner' = [cleaner EXCEPT ![c] = Resting]
    /\ UNCHANGED <<job, userLock, used, worker, request, deleter, nextId, history>>
    /\ UNCHANGED <<expired, reported, swept>>

\* The retention period, a day at least, is longer than the pending limit.
Expire(j) ==
    /\ Exists(j) /\ j \notin expired
    /\ job[j].status = "pending" => job[j].overdue
    /\ expired' = expired \union {j}
    /\ UNCHANGED <<vars, cleaner, reported, lost, swept>>

-----------------------------------------------------------------------------
RetentionInit ==
    /\ Init
    /\ expired  = {}
    /\ cleaner  = [c \in Cleaners |-> Resting]
    /\ reported = 0
    /\ lost     = 0
    /\ swept    = [j \in Jobs |-> "absent"]

CleanerStep(c) == \/ StartCleanup(c) \/ SelectBatch(c) \/ DeleteBatch(c) \/ FinishCleanup(c)

RetentionNext ==
    \/ Next /\ UNCHANGED retentionVars
    \/ \E c \in Cleaners : CleanerStep(c) \/ BatchFails(c) \/ CleanupDies(c)
    \/ \E j \in Jobs : Expire(j)

RetentionSpec == RetentionInit /\ [][RetentionNext]_retVars

-----------------------------------------------------------------------------
\* Cleanups only delete completed and failed jobs, even when a worker with a
\* stale candidate list is about to put one of them back to running.
OnlySettledJobsSwept == \A j \in Jobs : swept[j] \in Terminal \union {"absent"}

\* A failed job is not forgotten before its quota has been given back.
SweptFailuresWereRefunded == \A j \in Jobs : swept[j] = "failed" => refunds[j] >= 1

\* What the cleanups report, together with what the ones under way have deleted so
\* far, is what is gone, but for the deletions of a process that died and for a batch
\* whose commit was reported failed: no row is counted twice when two cleanups meet,
\* and a failed batch does not lose the batches before it.
DeletionsAreReported ==
    reported + lost + SumFunction([c \in Cleaners |-> cleaner[c].deleted])
        = Cardinality({j \in Jobs : swept[j] # "absent"})

=============================================================================
