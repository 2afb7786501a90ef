----------------------- MODULE QueueExtensions_proofs -----------------------
(***************************************************************************)
(* Proofs about what goes on beside the queue: the cleanups of Retention,  *)
(* the loops of WorkerShutdown, and the requests of SyncExecution with the *)
(* in-memory limiter and the jobs they execute themselves.  The number of  *)
(* cleanups, workers, requests, deletions, users and jobs is arbitrary.    *)
(***************************************************************************)
EXTENDS Retention, WorkerShutdown, SyncExecution, JobQueue_proofs, Induction_proofs

-----------------------------------------------------------------------------
(* Retention: the inductive invariant.  A batch holds the locks of its     *)
(* rows from the query to the commit, and everybody who would write a      *)
(* settled row waits for its lock; so the rows are as settled when they go *)
(* as they were when they were chosen.                                     *)

CleanerState == [pc      : {"idle", "select", "delete"},
                 cutoff  : SUBSET Jobs,
                 ids     : SUBSET Jobs,
                 deleted : Nat]

\* Workers and cleanups lock rows, and nobody else does.
LockHolders == rowLock \in [Jobs -> Workers \union Cleaners \union {NoOne}]

RetentionShape ==
    /\ expired \in SUBSET Jobs
    /\ cleaner \in [Cleaners -> CleanerState]
    /\ swept \in [Jobs -> Terminal \union {"absent"}]
    /\ LockHolders

\* The rows of a batch are locked by it, and settled.
BatchesAreHeld ==
    \A c \in Cleaners : cleaner[c].pc = "delete" =>
        \A j \in cleaner[c].ids : rowLock[j] = c /\ job[j].status \in Terminal

\* The refund comes with the status, and never goes.
RefundsRemembered ==
    \A j \in Jobs : job[j].status = "failed" \/ swept[j] = "failed" => refunds[j] >= 1

RetentionInv == /\ ShapeOK /\ Ownership /\ RetentionShape
                /\ BatchesAreHeld /\ RefundsRemembered

-----------------------------------------------------------------------------
(* The steps of the queue.                                                 *)

\* A row that a cleanup has locked stays locked by it, and settled as it is.
HeldRowsStay ==
    \A j \in Jobs : rowLock[j] \in Cleaners =>
        /\ rowLock'[j] = rowLock[j]
        /\ job[j].status \in Terminal => job'[j].status = job[j].status

\* A job becomes failed only with a refund, and no refund is forgotten.
RefundsGrow ==
    \A j \in Jobs :
        /\ refunds'[j] >= refunds[j]
        /\ job'[j].status = "failed" => job[j].status = "failed" \/ refunds'[j] >= 1

\* Nothing is written but the row of j, which no cleanup has locked.
LEMMA UnlockedRow ==
    ASSUME RetentionShape, NEW j, NEW who \in Workers \union Deleters, Writable(j, who),
           \A i \in Jobs : i # j => job'[i] = job[i],
           \A i \in Jobs : rowLock[i] \in Cleaners => rowLock'[i] = rowLock[i]
    PROVE  HeldRowsStay
  BY CleanersAssumption DEF Writable, HeldRowsStay

LEMMA ReleaseLeavesCleaners ==
    ASSUME RetentionShape, NEW w \in Workers, ReleaseLocks(w)
    PROVE  \A i \in Jobs : rowLock[i] \in Cleaners => rowLock'[i] = rowLock[i]
  BY CleanersAssumption DEF ReleaseLocks

LEMMA RowsUnwritten ==
    ASSUME job' = job, refunds' = refunds, ShapeOK
    PROVE  RefundsGrow
<1>1. \A j \in Jobs : refunds[j] \in 0 .. 2
  BY DEF ShapeOK
<1>2. QED
  BY <1>1 DEF RefundsGrow

LEMMA RefundCounts ==
    ASSUME ShapeOK, NEW j, CountRefund(j)
    PROVE  /\ \A i \in Jobs : refunds'[i] >= refunds[i]
           /\ j \in Jobs => refunds'[j] >= 1
<1>1. \A i \in Jobs : refunds[i] \in 0 .. 2
  BY DEF ShapeOK
<1>2. \A i \in Jobs : refunds'[i] = IF i = j /\ refunds[i] < 2 THEN refunds[i] + 1 ELSE refunds[i]
  BY DEF CountRefund, ShapeOK
<1>3. QED
  BY <1>1, <1>2

LEMMA HandleRefunds ==
    ASSUME ShapeOK, NEW w \in Workers, NEW s \in worker[w].todo, Handle(w, s)
    PROVE  RefundsGrow
<1>1. s.id \in Jobs /\ job \in [Jobs -> Row] /\ \A j \in Jobs : refunds[j] \in 0 .. 2
  BY DEF ShapeOK, WorkerState, Snapshot
<1>2. PICK r \in Row : r = job[s.id]
  BY <1>1
<1>3. ASSUME FailAndRefund(s.id, s.owner)  PROVE RefundsGrow
  <2>1. \A j \in Jobs : j # s.id => job'[j] = job[j]
    BY <1>1, <1>3 DEF FailAndRefund
  <2>2. (\A j \in Jobs : refunds'[j] >= refunds[j]) /\ refunds'[s.id] >= 1
    BY <1>1, <1>3, RefundCounts DEF FailAndRefund
  <2>3. QED
    BY <2>1, <2>2 DEF RefundsGrow
<1>4. ASSUME job' = [job EXCEPT ![s.id].status = "completed"], UNCHANGED refunds
      PROVE  RefundsGrow
  <2>1. [r EXCEPT !.status = "completed"].status = "completed"
    BY DEF Row
  <2>2. job'[s.id].status = "completed" /\ \A j \in Jobs : j # s.id => job'[j] = job[j]
    BY <1>1, <1>2, <1>4, <2>1
  <2>3. QED
    BY <1>1, <1>4, <2>2 DEF RefundsGrow
<1>5. CASE Claim(w, s)
  <2>1. ClaimedRow(s, w).status \in {"running", r.status}
    BY <1>2 DEF ClaimedRow, Row
  <2>2. job'[s.id].status \in {"running", r.status} /\ \A j \in Jobs : j # s.id => job'[j] = job[j]
    BY <1>1, <1>5, <2>1 DEF Claim
  <2>3. refunds' = refunds
    BY <1>5 DEF Claim
  <2>4. QED
    BY <1>1, <1>2, <2>2, <2>3 DEF RefundsGrow
<1>6. CASE FailCandidate(w, s)
  BY <1>3, <1>6 DEF FailCandidate
<1>7. CASE Complete(w, s) \/ PersistFails(w, s)
  BY <1>4, <1>7, RowsUnwritten DEF Complete, PersistFails, history
<1>8. CASE Fallback(w, s) \/ Fail(w, s)
  BY <1>3, <1>8, RowsUnwritten DEF Fallback, Fail
<1>9. CASE CheckCapacity(w, s) \/ CandidateGone(w, s) \/ ReadBack(w, s)
  BY <1>9, RowsUnwritten DEF CheckCapacity, CandidateGone, ReadBack, database, history
<1>10. QED
  BY <1>5, <1>6, <1>7, <1>8, <1>9 DEF Handle

LEMMA HandleHeld ==
    ASSUME ShapeOK, RetentionShape, NEW w \in Workers, NEW s \in worker[w].todo, Handle(w, s)
    PROVE  HeldRowsStay
<1>1. s.id \in Jobs /\ job \in [Jobs -> Row]
  BY DEF ShapeOK, WorkerState, Snapshot
<1>2. \A i \in Jobs : rowLock[i] \in Cleaners => rowLock'[i] = rowLock[i]
  <2>1. ReleaseLocks(w) \/ UNCHANGED rowLock
    BY DEF Handle, FailCandidate, CheckCapacity, Claim, CandidateGone, ReadBack, Complete,
           PersistFails, Fallback, Fail, database
  <2>2. QED
    BY <2>1, ReleaseLeavesCleaners
<1>3. \/ UNCHANGED job
      \/ Writable(s.id, w) /\ \E row : job' = [job EXCEPT ![s.id] = row]
  BY DEF Handle, FailCandidate, CheckCapacity, Claim, CandidateGone, ReadBack, Complete,
         PersistFails, Fallback, Fail, FailAndRefund, database
<1>4. CASE UNCHANGED job
  BY <1>2, <1>4 DEF HeldRowsStay
<1>5. CASE Writable(s.id, w) /\ \E row : job' = [job EXCEPT ![s.id] = row]
  <2>1. \A i \in Jobs : i # s.id => job'[i] = job[i]
    BY <1>1, <1>5
  <2>2. QED
    BY <1>2, <1>5, <2>1, UnlockedRow
<1>6. QED
  BY <1>3, <1>4, <1>5

\* The candidate query only locks rows that nobody has locked, and a worker
\* that gives up only drops its own locks.
LEMMA WorkerBeside ==
    ASSUME ShapeOK, RetentionShape, NEW w \in Workers,
           Select(w) \/ ReturnNone(w) \/ DeadlockVictim(w) \/ Abort(w)
    PROVE  HeldRowsStay /\ RefundsGrow
<1>1. job' = job /\ refunds' = refunds
  BY DEF Select, ReturnNone, DeadlockVictim, Abort, history
<1>2. \A i \in Jobs : rowLock[i] \in Cleaners => rowLock'[i] = rowLock[i]
  <2>1. CASE Select(w)
    BY <2>1, CleanersAssumption DEF Select, Candidates, Eligible
  <2>2. CASE ReleaseLocks(w)
    BY <2>2, ReleaseLeavesCleaners
  <2>3. QED
    BY <2>1, <2>2 DEF ReturnNone, DeadlockVictim, Abort
<1>3. QED
  BY <1>1, <1>2, RowsUnwritten DEF HeldRowsStay

\* An insert writes a row that does not exist.
LEMMA RequestBeside ==
    ASSUME ShapeOK, RowsAreOwned, NEW r \in Requests, RequestStep(r)
    PROVE  HeldRowsStay /\ RefundsGrow
<1>1. rowLock' = rowLock /\ \A j \in Jobs : refunds[j] \in 0 .. 2
  BY RequestInserts DEF ShapeOK
<1>2. \A j \in Jobs : refunds'[j] >= refunds[j]
  <2>1. CASE RefundReservation(r)
    BY <2>1, RefundCounts DEF RefundReservation
  <2>2. CASE UNCHANGED refunds
    BY <1>1, <2>2
  <2>3. QED
    BY <2>1, <2>2 DEF RequestStep, Reserve, Create, Created, CreateFails, Abandon, history
<1>3. CASE UNCHANGED job
  BY <1>1, <1>2, <1>3 DEF HeldRowsStay, RefundsGrow
<1>4. ASSUME NEW u, Insert(u)  PROVE HeldRowsStay /\ RefundsGrow
  <2>1. PICK row : /\ row = [NoRow EXCEPT !.status = "pending", !.owner = u]
                   /\ job' = [job EXCEPT ![nextId] = row]
    BY <1>4 DEF Insert
  <2>2. row.status = "pending"
    BY <2>1 DEF NoRow
  <2>3. \A j \in Jobs : job'[j] = job[j] \/ job'[j].status = "pending"
    BY <2>1, <2>2 DEF ShapeOK
  <2>4. \A j \in Jobs : job[j].status \in Terminal => job'[j] = job[j]
    <3>1. SUFFICES ASSUME NEW j \in Jobs, job[j].status \in Terminal
                   PROVE  j # nextId
      BY <2>1 DEF ShapeOK
    <3>2. j < nextId /\ j \in Int /\ nextId \in Nat
      BY <3>1, MaxJobsAssumption DEF RowsAreOwned, Exists, Terminal, Jobs, ShapeOK
    <3>3. QED
      BY <3>2
  <2>5. QED
    BY <1>1, <1>2, <2>3, <2>4 DEF HeldRowsStay, RefundsGrow
<1>5. QED
  BY <1>3, <1>4, RequestInserts

\* A deletion waits for the lock of its row.
LEMMA DeletionBeside ==
    ASSUME ShapeOK, RetentionShape, NEW d \in Deleters, DeleterStep(d)
    PROVE  HeldRowsStay /\ RefundsGrow
<1>1. rowLock' = rowLock
  BY DEF DeleterStep, ReadForDelete, RefundDeleted, DeleteRow, AbandonDelete, database
<1>2. CASE DeleteRow(d)
  <2>1. \A j \in Jobs : \/ job'[j] = job[j]
                        \/ j = deleter[d].id /\ job'[j] = NoRow
    BY <1>2 DEF DeleteRow, ShapeOK
  <2>2. HeldRowsStay
    <3>1. \A j \in Jobs : j # deleter[d].id => job'[j] = job[j]
      BY <2>1
    <3>2. Writable(deleter[d].id, d)
      BY <1>2 DEF DeleteRow
    <3>3. QED
      BY <1>1, <3>1, <3>2, UnlockedRow
  <2>3. refunds' = refunds /\ \A j \in Jobs : refunds[j] \in 0 .. 2
    BY <1>2 DEF DeleteRow, history, ShapeOK
  <2>4. RefundsGrow
    BY <2>1, <2>3 DEF RefundsGrow, NoRow
  <2>5. QED
    BY <2>2, <2>4
<1>3. CASE RefundDeleted(d)
  <2>1. job' = job /\ CountRefund(deleter[d].id)
    BY <1>3 DEF RefundDeleted
  <2>2. QED
    BY <1>1, <2>1, RefundCounts DEF HeldRowsStay, RefundsGrow
<1>4. CASE job' = job /\ refunds' = refunds
  BY <1>1, <1>4, RowsUnwritten DEF HeldRowsStay
<1>5. QED
  BY <1>2, <1>3, <1>4 DEF DeleterStep, ReadForDelete, AbandonDelete, database, history

\* Time changes no status.
LEMMA TimeBeside ==
    ASSUME ShapeOK, NEW j \in Jobs, Lapse(j) \/ Age(j)
    PROVE  HeldRowsStay /\ RefundsGrow
<1>1. rowLock' = rowLock /\ refunds' = refunds
  BY DEF Lapse, Age, history
<1>2. PICK r \in Row : r = job[j]
  BY DEF ShapeOK
<1>3. [r EXCEPT !.lapsed = TRUE].status = r.status /\ [r EXCEPT !.overdue = TRUE].status = r.status
  BY DEF Row
<1>4. \A i \in Jobs : job'[i].status = job[i].status
  BY <1>2, <1>3 DEF Lapse, Age, ShapeOK
<1>5. \A i \in Jobs : refunds[i] \in 0 .. 2
  BY DEF ShapeOK
<1>6. QED
  BY <1>1, <1>4, <1>5 DEF HeldRowsStay, RefundsGrow

LEMMA QueueBeside ==
    ASSUME ShapeOK, RetentionShape, RowsAreOwned, [Next]_vars
    PROVE  HeldRowsStay /\ RefundsGrow
<1>1. ASSUME NEW w \in Workers, WorkerStep(w) \/ DeadlockVictim(w) \/ Abort(w)
      PROVE  HeldRowsStay /\ RefundsGrow
  BY <1>1, WorkerBeside, HandleHeld, HandleRefunds DEF WorkerStep
<1>2. CASE UNCHANGED vars
  BY <1>2, RowsUnwritten DEF vars, database, history, HeldRowsStay
<1>3. QED
  BY <1>1, <1>2, RequestBeside, DeletionBeside, TimeBeside DEF Next, Quiescent

\* The queue leaves the locks to workers, cleanups and nobody.
LEMMA QueueLocks ==
    ASSUME LockHolders, [Next]_vars
    PROVE  LockHolders'
<1>1. ASSUME NEW w \in Workers, ReleaseLocks(w)  PROVE LockHolders'
  BY <1>1 DEF ReleaseLocks, LockHolders
<1>2. ASSUME UNCHANGED rowLock  PROVE LockHolders'
  BY <1>2 DEF LockHolders
<1>3. ASSUME NEW w \in Workers, Select(w)  PROVE LockHolders'
  BY <1>3 DEF Select, LockHolders
<1>4. ASSUME NEW w \in Workers, ReturnNone(w) \/ DeadlockVictim(w) \/ Abort(w)
      PROVE  LockHolders'
  BY <1>1, <1>4 DEF ReturnNone, DeadlockVictim, Abort
<1>5. ASSUME NEW w \in Workers, NEW s \in worker[w].todo, Handle(w, s)  PROVE LockHolders'
  <2>1. ReleaseLocks(w) \/ UNCHANGED rowLock
    BY <1>5 DEF Handle, FailCandidate, CheckCapacity, Claim, CandidateGone, ReadBack,
                Complete, PersistFails, Fallback, Fail, database
  <2>2. QED
    BY <1>1, <1>2, <2>1
<1>6. ASSUME NEW r \in Requests, RequestStep(r)  PROVE LockHolders'
  <2>1. UNCHANGED rowLock
    BY <1>6, RequestInserts
  <2>2. QED
    BY <1>2, <2>1
<1>7. ASSUME NEW d \in Deleters, DeleterStep(d)  PROVE LockHolders'
  <2>1. UNCHANGED rowLock
    BY <1>7 DEF DeleterStep, ReadForDelete, RefundDeleted, DeleteRow, AbandonDelete, database
  <2>2. QED
    BY <1>2, <2>1
<1>8. CASE (\E j \in Jobs : Lapse(j) \/ Age(j)) \/ UNCHANGED vars
  <2>1. UNCHANGED rowLock
    BY <1>8 DEF Lapse, Age, vars, database
  <2>2. QED
    BY <1>2, <2>1
<1>9. QED
  BY <1>3, <1>4, <1>5, <1>6, <1>7, <1>8 DEF Next, WorkerStep, Quiescent

\* What the queue does is compatible with the cleanups.
LEMMA QueueBesideCleanups ==
    ASSUME RetentionInv, [Next]_vars, UNCHANGED retentionVars
    PROVE  RetentionInv'
<1>1. ShapeOK /\ Ownership /\ RetentionShape /\ BatchesAreHeld /\ RefundsRemembered
  BY DEF RetentionInv
<1>2. ShapeOK' /\ Ownership'
  BY <1>1, ShapeStep, OwnershipStep DEF Ownership
<1>3. RetentionShape'
  BY <1>1, QueueLocks DEF RetentionShape, retentionVars
<1>4. HeldRowsStay /\ RefundsGrow
  BY <1>1, QueueBeside DEF Ownership
<1>5. BatchesAreHeld'
  <2>1. SUFFICES ASSUME NEW c \in Cleaners, cleaner[c].pc = "delete", NEW j \in cleaner[c].ids
                 PROVE  rowLock'[j] = c /\ job'[j].status \in Terminal
    BY DEF BatchesAreHeld, retentionVars
  <2>2. j \in Jobs
    BY <1>1, <2>1 DEF RetentionShape, CleanerState
  <2>3. rowLock[j] = c /\ job[j].status \in Terminal
    BY <1>1, <2>1 DEF BatchesAreHeld
  <2>4. QED
    BY <1>4, <2>2, <2>3 DEF HeldRowsStay
<1>6. RefundsRemembered'
  <2>1. SUFFICES ASSUME NEW j \in Jobs, job'[j].status = "failed" \/ swept[j] = "failed"
                 PROVE  refunds'[j] >= 1
    BY DEF RefundsRemembered, retentionVars
  <2>2. refunds[j] \in 0 .. 2 /\ refunds'[j] \in 0 .. 2
    BY <1>1, <1>2 DEF ShapeOK
  <2>3. QED
    BY <1>1, <1>4, <2>1, <2>2 DEF RefundsGrow, RefundsRemembered
<1>7. QED
  BY <1>2, <1>3, <1>5, <1>6 DEF RetentionInv

-----------------------------------------------------------------------------
(* The steps of the cleanups.                                              *)

\* A cleanup that leaves the rows alone leaves the queue's facts alone.
LEMMA RowsAlone ==
    ASSUME ShapeOK, Ownership, RefundsRemembered, faults' \in Nat,
           UNCHANGED <<job, userLock, used, worker, request, deleter, nextId, refunds, runs,
                       leaked, swept>>
    PROVE  ShapeOK' /\ Ownership' /\ RefundsRemembered'
<1>1. ShapeOK'
  BY DEF ShapeOK
<1>2. RowsOnlyGo
  BY DEF RowsOnlyGo, Exists
<1>3. RequestsAreOwned'
  BY DEF Ownership, RequestsAreOwned
<1>4. RefundsRemembered'
  BY DEF RefundsRemembered
<1>5. QED
  BY <1>1, <1>2, <1>3, <1>4, OwnershipOfRows DEF Ownership

LEMMA CleanerMoves ==
    ASSUME cleaner \in [Cleaners -> CleanerState], NEW c \in Cleaners, NEW s \in CleanerState,
           cleaner' = [cleaner EXCEPT ![c] = s]
    PROVE  /\ cleaner' \in [Cleaners -> CleanerState]
           /\ cleaner'[c] = s
           /\ \A k \in Cleaners \ {c} : cleaner'[k] = cleaner[k]
  OBVIOUS

\* Eligible rows are jobs, settled and not locked.
LEMMA BatchIsFree ==
    ASSUME NEW cutoff \in SUBSET Jobs
    PROVE  /\ Batch(cutoff) \in SUBSET Jobs
           /\ \A j \in Batch(cutoff) : rowLock[j] = NoOne /\ job[j].status \in Terminal
  BY DEF Batch, Sweepable

LEMMA StartStep ==
    ASSUME RetentionInv, NEW c \in Cleaners, StartCleanup(c)
    PROVE  RetentionInv'
<1>1. ShapeOK /\ Ownership /\ RetentionShape /\ BatchesAreHeld /\ RefundsRemembered
  BY DEF RetentionInv
<1>2. ShapeOK' /\ Ownership' /\ RefundsRemembered'
  BY <1>1, RowsAlone DEF StartCleanup, vars, database, history, ShapeOK
<1>3. PICK s \in CleanerState : s.pc = "select" /\ cleaner' = [cleaner EXCEPT ![c] = s]
  <2>1. [Resting EXCEPT !.pc = "select", !.cutoff = expired] \in CleanerState
    BY <1>1 DEF Resting, RetentionShape, CleanerState
  <2>2. [Resting EXCEPT !.pc = "select", !.cutoff = expired].pc = "select"
    BY DEF Resting
  <2>3. QED
    BY <2>1, <2>2 DEF StartCleanup
<1>4. /\ cleaner' \in [Cleaners -> CleanerState]
      /\ cleaner'[c] = s
      /\ \A k \in Cleaners \ {c} : cleaner'[k] = cleaner[k]
  BY <1>1, <1>3, CleanerMoves DEF RetentionShape
<1>5. RetentionShape'
  BY <1>1, <1>4 DEF StartCleanup, RetentionShape, LockHolders, vars, database
<1>6. BatchesAreHeld'
  BY <1>1, <1>3, <1>4 DEF StartCleanup, BatchesAreHeld, vars, database
<1>7. QED
  BY <1>2, <1>5, <1>6 DEF RetentionInv

LEMMA SelectStep ==
    ASSUME RetentionInv, NEW c \in Cleaners, SelectBatch(c)
    PROVE  RetentionInv'
<1>1. ShapeOK /\ Ownership /\ RetentionShape /\ BatchesAreHeld /\ RefundsRemembered
  BY DEF RetentionInv
<1>2. ShapeOK' /\ Ownership' /\ RefundsRemembered'
  BY <1>1, RowsAlone DEF SelectBatch, history, ShapeOK
<1>3. PICK s \in CleanerState : s = cleaner[c]
  BY <1>1 DEF RetentionShape
<1>4. PICK ids \in SUBSET Jobs : /\ ids = Batch(s.cutoff)
                                 /\ \A j \in ids : rowLock[j] = NoOne /\ job[j].status \in Terminal
  BY <1>3, BatchIsFree DEF CleanerState
<1>5. PICK t \in CleanerState : t.ids = ids /\ cleaner' = [cleaner EXCEPT ![c] = t]
  <2>1. cleaner' = [cleaner EXCEPT ![c] = [s EXCEPT !.pc = "delete", !.ids = ids]]
    BY <1>1, <1>3, <1>4 DEF SelectBatch, RetentionShape, CleanerState
  <2>2. /\ [s EXCEPT !.pc = "delete", !.ids = ids] \in CleanerState
        /\ [s EXCEPT !.pc = "delete", !.ids = ids].ids = ids
    BY DEF CleanerState
  <2>3. QED
    BY <2>1, <2>2
<1>6. /\ cleaner' \in [Cleaners -> CleanerState]
      /\ cleaner'[c] = t
      /\ \A k \in Cleaners \ {c} : cleaner'[k] = cleaner[k]
  BY <1>1, <1>5, CleanerMoves DEF RetentionShape
<1>7. \A j \in Jobs : rowLock'[j] = IF j \in ids THEN c ELSE rowLock[j]
  BY <1>3, <1>4 DEF SelectBatch, Hold
<1>8. RetentionShape'
  <2>1. LockHolders'
    BY <1>1, <1>3, <1>4 DEF SelectBatch, Hold, LockHolders, RetentionShape
  <2>2. QED
    BY <1>1, <1>6, <2>1 DEF SelectBatch, RetentionShape
<1>9. BatchesAreHeld'
  <2>1. SUFFICES ASSUME NEW k \in Cleaners, cleaner'[k].pc = "delete", NEW j \in cleaner'[k].ids
                 PROVE  rowLock'[j] = k /\ job'[j].status \in Terminal
    BY DEF BatchesAreHeld
  <2>2. job' = job
    BY DEF SelectBatch
  <2>3. CASE k = c
    BY <1>4, <1>5, <1>6, <1>7, <2>1, <2>2, <2>3
  <2>4. CASE k # c
    <3>1. rowLock[j] = k /\ job[j].status \in Terminal /\ j \in Jobs
      BY <1>1, <1>6, <2>1, <2>4 DEF BatchesAreHeld, RetentionShape, CleanerState
    <3>2. j \notin ids
      BY <1>4, <3>1, CleanersAssumption
    <3>3. QED
      BY <1>7, <2>2, <3>1, <3>2
  <2>5. QED
    BY <2>3, <2>4
<1>10. QED
  BY <1>2, <1>8, <1>9 DEF RetentionInv

\* A cleanup that ends, with or without a fault, drops its own locks at most.
LEMMA RestStep ==
    ASSUME RetentionInv, NEW c \in Cleaners,
           FinishCleanup(c) \/ BatchFails(c) \/ CleanupDies(c), UNCHANGED <<job, swept>>
    PROVE  RetentionInv'
<1>1. ShapeOK /\ Ownership /\ RetentionShape /\ BatchesAreHeld /\ RefundsRemembered
  BY DEF RetentionInv
<1>2. faults' \in Nat
  BY <1>1 DEF FinishCleanup, BatchFails, CleanupDies, Fault, vars, ShapeOK
<1>3. ShapeOK' /\ Ownership' /\ RefundsRemembered'
  BY <1>1, <1>2, RowsAlone
  DEF FinishCleanup, BatchFails, CleanupDies, vars, database, history
<1>4. /\ cleaner' \in [Cleaners -> CleanerState]
      /\ cleaner'[c] = Resting
      /\ \A k \in Cleaners \ {c} : cleaner'[k] = cleaner[k]
  <2>1. Resting \in CleanerState
    BY DEF Resting, CleanerState
  <2>2. QED
    BY <1>1, <2>1, CleanerMoves DEF FinishCleanup, BatchFails, CleanupDies, RetentionShape
<1>5. /\ LockHolders'
      /\ \A j \in Jobs : rowLock[j] # c => rowLock'[j] = rowLock[j]
  BY <1>1 DEF FinishCleanup, BatchFails, CleanupDies, LetGo, vars, database, LockHolders,
              RetentionShape
<1>6. RetentionShape'
  BY <1>1, <1>4, <1>5 DEF FinishCleanup, BatchFails, CleanupDies, RetentionShape
<1>7. BatchesAreHeld'
  <2>1. SUFFICES ASSUME NEW k \in Cleaners, cleaner'[k].pc = "delete", NEW j \in cleaner'[k].ids
                 PROVE  rowLock'[j] = k /\ job'[j].status \in Terminal
    BY DEF BatchesAreHeld
  <2>2. k # c
    BY <1>4, <2>1 DEF Resting
  <2>3. rowLock[j] = k /\ job[j].status \in Terminal /\ j \in Jobs
    BY <1>1, <1>4, <2>1, <2>2 DEF BatchesAreHeld, RetentionShape, CleanerState
  <2>4. QED
    BY <1>5, <2>2, <2>3
<1>8. QED
  BY <1>3, <1>6, <1>7 DEF RetentionInv

\* The rows of a batch go, and the cleanup lets go of them.
Sweeps(c) == /\ cleaner[c].pc = "delete"
             /\ Delete(cleaner[c].ids, c)
             /\ LetGo(c)
             /\ UNCHANGED <<userLock, used, worker, request, deleter, nextId, history, expired>>

LEMMA RowcountType == ASSUME NEW ids \in SUBSET Jobs PROVE Rowcount(ids) \in Nat
<1>1. IsFiniteSet(Jobs)
  BY FS_Interval, MaxJobsAssumption DEF Jobs
<1>2. QED
  BY <1>1, FS_Subset, FS_CardinalityType DEF Rowcount

LEMMA SweepStep ==
    ASSUME RetentionInv, NEW c \in Cleaners, Sweeps(c), faults' \in Nat,
           NEW t \in CleanerState, t.pc # "delete", cleaner' = [cleaner EXCEPT ![c] = t]
    PROVE  RetentionInv'
<1>1. ShapeOK /\ Ownership /\ RetentionShape /\ BatchesAreHeld /\ RefundsRemembered
  BY DEF RetentionInv
<1>2. PICK s \in CleanerState : s = cleaner[c]
  BY <1>1 DEF RetentionShape
<1>3. PICK ids \in SUBSET Jobs : ids = s.ids
  BY DEF CleanerState
<1>4. \A j \in ids : rowLock[j] = c /\ job[j].status \in Terminal
  BY <1>1, <1>2, <1>3 DEF Sweeps, BatchesAreHeld
<1>5. \A j \in Jobs : job'[j] = IF j \in ids THEN NoRow ELSE job[j]
  BY <1>2, <1>3 DEF Sweeps, Delete
<1>6. \A j \in Jobs : swept'[j] = IF j \in ids THEN job[j].status ELSE swept[j]
  BY <1>2, <1>3, <1>4 DEF Sweeps, Delete, Exists, Terminal
<1>7. ShapeOK'
  <2>1. NoRow \in Row
    BY DEF NoRow, Row, Statuses
  <2>2. job' \in [Jobs -> Row]
    BY <1>1, <1>2, <1>3, <2>1 DEF Sweeps, Delete, ShapeOK
  <2>3. QED
    BY <1>1, <2>2 DEF Sweeps, ShapeOK, history
<1>8. Ownership'
  <2>1. NoRow.status = "absent"
    BY DEF NoRow
  <2>2. RowsOnlyGo
    BY <1>5, <2>1 DEF Sweeps, RowsOnlyGo, Exists
  <2>3. RequestsAreOwned'
    BY <1>1 DEF Sweeps, Ownership, RequestsAreOwned
  <2>4. QED
    BY <1>1, <2>2, <2>3, OwnershipOfRows DEF Ownership
<1>10. /\ cleaner' \in [Cleaners -> CleanerState]
       /\ cleaner'[c] = t
       /\ \A k \in Cleaners \ {c} : cleaner'[k] = cleaner[k]
  BY <1>1, CleanerMoves DEF RetentionShape
<1>11. /\ LockHolders'
       /\ \A j \in Jobs : rowLock[j] # c => rowLock'[j] = rowLock[j]
  BY <1>1 DEF Sweeps, LetGo, LockHolders, RetentionShape
<1>12. RetentionShape'
  <2>1. swept' \in [Jobs -> Terminal \union {"absent"}]
    <3>1. \A j \in Jobs : swept'[j] \in Terminal \union {"absent"}
      BY <1>1, <1>4, <1>6 DEF RetentionShape
    <3>2. swept' = [j \in Jobs |-> swept'[j]]
      BY DEF Sweeps, Delete
    <3>3. QED
      BY <3>1, <3>2
  <2>2. QED
    BY <1>1, <1>10, <1>11, <2>1 DEF Sweeps, RetentionShape
<1>13. BatchesAreHeld'
  <2>1. SUFFICES ASSUME NEW k \in Cleaners, cleaner'[k].pc = "delete", NEW j \in cleaner'[k].ids
                 PROVE  rowLock'[j] = k /\ job'[j].status \in Terminal
    BY DEF BatchesAreHeld
  <2>2. k # c
    BY <1>10, <2>1
  <2>3. rowLock[j] = k /\ job[j].status \in Terminal /\ j \in Jobs
    BY <1>1, <1>10, <2>1, <2>2 DEF BatchesAreHeld, RetentionShape, CleanerState
  <2>4. j \notin ids
    BY <1>4, <2>2, <2>3
  <2>5. QED
    BY <1>5, <1>11, <2>2, <2>3, <2>4
<1>14. RefundsRemembered'
  <2>1. SUFFICES ASSUME NEW j \in Jobs, job'[j].status = "failed" \/ swept'[j] = "failed"
                 PROVE  refunds'[j] >= 1
    BY DEF RefundsRemembered
  <2>2. refunds' = refunds /\ NoRow.status = "absent"
    BY DEF Sweeps, history, NoRow
  <2>3. job[j].status = "failed" \/ swept[j] = "failed"
    BY <1>5, <1>6, <2>1, <2>2
  <2>4. QED
    BY <1>1, <2>2, <2>3 DEF RefundsRemembered
<1>15. QED
  BY <1>7, <1>8, <1>12, <1>13, <1>14 DEF RetentionInv

LEMMA DeleteStep ==
    ASSUME RetentionInv, NEW c \in Cleaners, DeleteBatch(c)
    PROVE  RetentionInv'
<1>1. RetentionShape /\ ShapeOK
  BY DEF RetentionInv
<1>2. PICK s \in CleanerState : s = cleaner[c]
  BY <1>1 DEF RetentionShape
<1>3. PICK n \in Nat : n = Rowcount(s.ids)
  BY RowcountType DEF CleanerState
<1>4. PICK t : t = [s EXCEPT !.pc = "select", !.ids = {}, !.deleted = s.deleted + n]
  OBVIOUS
<1>5. s.deleted + n \in Nat
  BY DEF CleanerState
<1>6. t \in CleanerState /\ t.pc = "select"
  BY <1>4, <1>5 DEF CleanerState
<1>7. cleaner' = [cleaner EXCEPT ![c] = t]
  BY <1>1, <1>2, <1>3, <1>4 DEF DeleteBatch, RetentionShape, CleanerState
<1>8. Sweeps(c) /\ faults' \in Nat
  BY <1>1 DEF DeleteBatch, Sweeps, ShapeOK
<1>9. QED
  BY <1>6, <1>7, <1>8, SweepStep

\* A batch that fails leaves the rows alone, or the rows are gone.
LEMMA FailStep ==
    ASSUME RetentionInv, NEW c \in Cleaners, BatchFails(c)
    PROVE  RetentionInv'
<1>1. CASE UNCHANGED <<job, swept>>
  BY <1>1, RestStep
<1>2. CASE cleaner[c].pc = "delete" /\ Delete(cleaner[c].ids, c)
  <2>1. Sweeps(c) /\ faults' \in Nat
    BY <1>2 DEF BatchFails, Sweeps, Fault, RetentionInv, ShapeOK
  <2>2. Resting \in CleanerState /\ Resting.pc # "delete"
    BY DEF Resting, CleanerState
  <2>3. cleaner' = [cleaner EXCEPT ![c] = Resting]
    BY DEF BatchFails
  <2>4. QED
    BY <2>1, <2>2, <2>3, SweepStep
<1>3. QED
  BY <1>1, <1>2 DEF BatchFails

LEMMA ExpireStep ==
    ASSUME RetentionInv, NEW j \in Jobs, Expire(j)
    PROVE  RetentionInv'
<1>1. ShapeOK /\ Ownership /\ RetentionShape /\ BatchesAreHeld /\ RefundsRemembered
  BY DEF RetentionInv
<1>2. ShapeOK' /\ Ownership' /\ RefundsRemembered'
  BY <1>1, RowsAlone DEF Expire, vars, database, history, ShapeOK
<1>3. RetentionShape' /\ BatchesAreHeld'
  BY <1>1 DEF Expire, vars, database, RetentionShape, LockHolders, BatchesAreHeld
<1>4. QED
  BY <1>2, <1>3 DEF RetentionInv

-----------------------------------------------------------------------------
(* The theorems.                                                           *)

LEMMA InitRetentionInv == RetentionInit => RetentionInv
<1> SUFFICES ASSUME RetentionInit PROVE RetentionInv
  OBVIOUS
<1>1. ShapeOK /\ Ownership
  BY InitIInv DEF RetentionInit, IInv
<1>2. Resting \in CleanerState /\ Resting.pc = "idle" /\ NoRow.status = "absent"
  BY DEF Resting, CleanerState, NoRow
<1>3. RetentionShape
  BY <1>2 DEF RetentionInit, Init, RetentionShape, LockHolders
<1>4. BatchesAreHeld
  BY <1>2 DEF RetentionInit, BatchesAreHeld
<1>5. RefundsRemembered
  BY <1>2 DEF RetentionInit, Init, RefundsRemembered
<1>6. QED
  BY <1>1, <1>3, <1>4, <1>5 DEF RetentionInv

LEMMA StepRetentionInv == RetentionInv /\ [RetentionNext]_retVars => RetentionInv'
<1> SUFFICES ASSUME RetentionInv, [RetentionNext]_retVars PROVE RetentionInv'
  OBVIOUS
<1>1. CASE Next /\ UNCHANGED retentionVars
  BY <1>1, QueueBesideCleanups
<1>2. ASSUME NEW c \in Cleaners, CleanerStep(c) \/ BatchFails(c) \/ CleanupDies(c)
      PROVE  RetentionInv'
  <2>1. CASE FinishCleanup(c) \/ CleanupDies(c)
    BY <2>1, RestStep DEF FinishCleanup, CleanupDies, vars, database
  <2>2. QED
    BY <1>2, <2>1, StartStep, SelectStep, DeleteStep, FailStep DEF CleanerStep
<1>3. ASSUME NEW j \in Jobs, Expire(j)  PROVE RetentionInv'
  BY <1>3, ExpireStep
<1>4. CASE UNCHANGED retVars
  BY <1>4, QueueBesideCleanups DEF retVars
<1>5. QED
  BY <1>1, <1>2, <1>3, <1>4 DEF RetentionNext

LEMMA RetentionInvariance == RetentionSpec => []RetentionInv
  BY InitRetentionInv, StepRetentionInv, PTL DEF RetentionSpec

\* delete_expired_simulations only deletes completed and failed jobs, for any
\* number of cleanups, workers and deletions: a job cannot leave its settled
\* status between the query that chose it and the deletion by id.
THEOREM OnlySettledGo == RetentionSpec => []OnlySettledJobsSwept
<1>1. RetentionInv => OnlySettledJobsSwept
  BY DEF RetentionInv, RetentionShape, OnlySettledJobsSwept
<1>2. QED
  BY RetentionInvariance, <1>1, PTL

\* A failed job that a cleanup deletes has had its refund, whoever failed it
\* and whatever the acknowledgements of its commits were.
THEOREM SweptAreRefunded == RetentionSpec => []SweptFailuresWereRefunded
<1>1. RetentionInv => SweptFailuresWereRefunded
  BY DEF RetentionInv, RefundsRemembered, SweptFailuresWereRefunded
<1>2. QED
  BY RetentionInvariance, <1>1, PTL

\* A failed job has its quota back from the moment it is failed: for any number
\* of workers, deletions and cleanups, with stale candidates, recovered jobs and
\* lost acknowledgements.  That it has it back once only is what fails then.
THEOREM FailedAreRefunded ==
    RetentionSpec => []FailuresAreRefunded
<1>1. RetentionInv => FailuresAreRefunded
  BY DEF RetentionInv, RefundsRemembered, FailuresAreRefunded
<1>2. QED
  BY RetentionInvariance, <1>1, PTL

-----------------------------------------------------------------------------
(* Retention: the plan's limit.  A cleanup takes rows away, with locks of  *)
(* its own on them; the locks of users' rows, under which running rows are *)
(* counted, are the workers'.                                              *)

LimitsInv == RetentionInv /\ ClaimHasRoom /\ RunningWithinPlan

\* Nothing of what the workers count on changes in a cleanup.
LEMMA CleanupIsQuiet ==
    ASSUME \/ \E c \in Cleaners : CleanerStep(c) \/ BatchFails(c) \/ CleanupDies(c)
           \/ \E j \in Jobs : Expire(j)
    PROVE  Quiet
<1>1. UNCHANGED <<userLock, worker>>
  BY DEF CleanerStep, StartCleanup, SelectBatch, DeleteBatch, FinishCleanup, BatchFails,
         CleanupDies, Expire, vars, database
<1>2. UNCHANGED job \/ \E ids : job' = [j \in Jobs |-> IF j \in ids THEN NoRow ELSE job[j]]
  BY DEF CleanerStep, StartCleanup, SelectBatch, DeleteBatch, FinishCleanup, BatchFails,
         CleanupDies, Expire, Delete, vars, database
<1>3. NoRow.status = "absent"
  BY DEF NoRow
<1>4. \A u \in Users : Running(u)' \subseteq Running(u)
  BY <1>2, <1>3 DEF Running
<1>5. \A w \in Workers : \A s : At(w, s, "claim")' <=> At(w, s, "claim")
  BY <1>1 DEF At
<1>6. QED
  BY <1>1, <1>4, <1>5 DEF Quiet

LEMMA LimitsStep == LimitsInv /\ [RetentionNext]_retVars => LimitsInv'
<1> SUFFICES ASSUME LimitsInv, [RetentionNext]_retVars PROVE LimitsInv'
  OBVIOUS
<1>1. RetentionInv'
  BY StepRetentionInv DEF LimitsInv
<1>2. ShapeOK /\ Ownership /\ ClaimHasRoom /\ RunningWithinPlan
  BY DEF LimitsInv, RetentionInv
<1>3. ASSUME [Next]_vars  PROVE ClaimHasRoom' /\ RunningWithinPlan'
  BY <1>2, <1>3, RoomStep
<1>4. ASSUME \/ \E c \in Cleaners : CleanerStep(c) \/ BatchFails(c) \/ CleanupDies(c)
             \/ \E j \in Jobs : Expire(j)
      PROVE  ClaimHasRoom' /\ RunningWithinPlan'
  BY <1>2, <1>4, CleanupIsQuiet, QuietStep
<1>5. ClaimHasRoom' /\ RunningWithinPlan'
  BY <1>3, <1>4 DEF RetentionNext, retVars
<1>6. QED
  BY <1>1, <1>5 DEF LimitsInv

\* The plan's limit holds beside any number of cleanups: deleting settled rows
\* under the feet of the workers never lets a claim through that was counted
\* out.
THEOREM LimitOutlivesCleanups == RetentionSpec => []RunningWithinPlan
<1>1. RetentionInit => LimitsInv
  BY InitRetentionInv, InitIInv DEF RetentionInit, IInv, LimitsInv
<1>2. LimitsInv => RunningWithinPlan
  BY DEF LimitsInv
<1>3. QED
  BY <1>1, LimitsStep, <1>2, PTL DEF RetentionSpec

-----------------------------------------------------------------------------
(* Retention: the count.  An id is given once, so a row that a cleanup has *)
(* deleted is never there to be deleted again, and each batch adds as many *)
(* rows to the cleanup's count as to the rows that are gone.               *)

Gone      == {j \in Jobs : swept[j] # "absent"}
DeletedBy == [c \in Cleaners |-> cleaner[c].deleted]

SweptStayGone ==
    \A j \in Jobs : swept[j] # "absent" => ~Exists(j) /\ j < nextId

RestingHaveNone ==
    \A c \in Cleaners : cleaner[c].pc = "idle" => cleaner[c].deleted = 0

CountInv == RetentionInv /\ SweptStayGone /\ RestingHaveNone
              /\ reported \in Nat /\ lost \in Nat /\ DeletionsAreReported

\* No step of the queue brings a row back.
LEMMA NoneComesBack ==
    ASSUME ShapeOK, [Next]_vars
    PROVE  \A j \in Jobs : ~Exists(j) /\ j < nextId => ~Exists(j)' /\ j < nextId'
<1>1. CASE RowsOnlyGo
  BY <1>1 DEF RowsOnlyGo
<1>2. ASSUME NEW w \in Workers, Select(w)
      PROVE  \A j \in Jobs : ~Exists(j) /\ j < nextId => ~Exists(j)' /\ j < nextId'
  BY <1>2 DEF Select, Exists
<1>3. ASSUME NEW u, Insert(u)
      PROVE  \A j \in Jobs : ~Exists(j) /\ j < nextId => ~Exists(j)' /\ j < nextId'
  <2>1. SUFFICES ASSUME NEW j \in Jobs, ~Exists(j), j < nextId
                 PROVE  ~Exists(j)' /\ j < nextId'
    OBVIOUS
  <2>2. j \in Nat /\ nextId \in Nat /\ nextId' = nextId + 1
    BY <1>3, MaxJobsAssumption DEF Insert, ShapeOK, Jobs
  <2>3. job'[j] = job[j]
    <3>1. \E row : job' = [job EXCEPT ![nextId] = row]
      BY <1>3 DEF Insert
    <3>2. QED
      BY <2>1, <2>2, <3>1 DEF ShapeOK
  <2>4. QED
    BY <2>1, <2>2, <2>3 DEF Exists
<1>4. ASSUME NEW w \in Workers, WorkerStep(w) \/ DeadlockVictim(w) \/ Abort(w), ~Select(w)
      PROVE  RowsOnlyGo
  BY <1>4, HandleRowsGo, GiveUpRowsGo DEF WorkerStep
<1>5. QED
  BY <1>1, <1>2, <1>3, <1>4, OthersRowsGo, RequestInserts DEF Next, Quiescent

\* The sum of the counts changes with the count of the cleanup that moves.
LEMMA DeletedChanges ==
    ASSUME cleaner \in [Cleaners -> CleanerState], cleaner' \in [Cleaners -> CleanerState],
           NEW c \in Cleaners, \A k \in Cleaners \ {c} : cleaner'[k] = cleaner[k]
    PROVE  \E m, n, a, b \in Nat :
             /\ m = SumFunction(DeletedBy) /\ n = SumFunction(DeletedBy')
             /\ a = cleaner[c].deleted /\ b = cleaner'[c].deleted
             /\ n + a = m + b
<1>1. PICK f, g : f = DeletedBy /\ g = DeletedBy'
  OBVIOUS
<1>2. f \in [Cleaners -> Nat] /\ g \in [Cleaners -> Nat]
  BY <1>1 DEF DeletedBy, CleanerState
<1>3. \A k \in Cleaners \ {c} : g[k] = f[k]
  BY <1>1 DEF DeletedBy
<1>4. /\ SumFunction(f) \in Nat /\ SumFunction(g) \in Nat
      /\ SumFunction(g) + f[c] = SumFunction(f) + g[c]
  BY <1>2, <1>3, CleanersAssumption, SumChanges
<1>5. f[c] = cleaner[c].deleted /\ g[c] = cleaner'[c].deleted
  BY <1>1 DEF DeletedBy
<1>6. QED
  BY <1>1, <1>2, <1>4, <1>5

\* The books of one cleanup balance: so do all of them.
LEMMA OneBalances ==
    ASSUME CountInv, RetentionInv', NEW c \in Cleaners,
           \A k \in Cleaners \ {c} : cleaner'[k] = cleaner[k],
           NEW n \in Nat, Cardinality(Gone') = Cardinality(Gone) + n,
           reported' \in Nat, lost' \in Nat,
           reported' + lost' + cleaner'[c].deleted = reported + lost + cleaner[c].deleted + n
    PROVE  DeletionsAreReported'
<1>1. PICK m, p, a, b \in Nat :
        /\ m = SumFunction(DeletedBy) /\ p = SumFunction(DeletedBy')
        /\ a = cleaner[c].deleted /\ b = cleaner'[c].deleted
        /\ p + a = m + b
  BY DeletedChanges DEF CountInv, RetentionInv, RetentionShape
<1>2. reported \in Nat /\ lost \in Nat /\ reported + lost + m = Cardinality(Gone)
  BY <1>1 DEF CountInv, DeletionsAreReported, DeletedBy, Gone
<1>3. reported' + lost' + p = Cardinality(Gone')
  BY <1>1, <1>2
<1>4. QED
  BY <1>1, <1>3 DEF DeletionsAreReported, DeletedBy, Gone

LEMMA CountOfSweep ==
    ASSUME CountInv, RetentionInv', NEW c \in Cleaners, Sweeps(c),
           NEW t \in CleanerState, cleaner' = [cleaner EXCEPT ![c] = t],
           t.pc = "idle" => t.deleted = 0, reported' \in Nat, lost' \in Nat,
           reported' + lost' + t.deleted
               = reported + lost + cleaner[c].deleted + Rowcount(cleaner[c].ids)
    PROVE  CountInv'
<1>1. RetentionShape /\ BatchesAreHeld /\ SweptStayGone /\ RestingHaveNone /\ reported \in Nat
  BY DEF CountInv, RetentionInv
<1>2. PICK s \in CleanerState : s = cleaner[c]
  BY <1>1 DEF RetentionShape
<1>3. PICK ids \in SUBSET Jobs : ids = s.ids
  BY DEF CleanerState
<1>4. \A j \in ids : Exists(j) /\ swept[j] = "absent"
  <2>1. \A j \in ids : job[j].status \in Terminal
    BY <1>1, <1>2, <1>3 DEF Sweeps, BatchesAreHeld
  <2>2. QED
    BY <1>1, <2>1 DEF SweptStayGone, Exists, Terminal
<1>5. \A j \in Jobs : /\ job'[j] = IF j \in ids THEN NoRow ELSE job[j]
                      /\ swept'[j] = IF j \in ids THEN job[j].status ELSE swept[j]
  BY <1>2, <1>3, <1>4 DEF Sweeps, Delete
<1>6. Gone' = Gone \union ids /\ Gone \intersect ids = {}
  BY <1>4, <1>5 DEF Gone, Exists
<1>7. IsFiniteSet(Gone) /\ IsFiniteSet(ids)
  <2>1. IsFiniteSet(Jobs)
    BY FS_Interval, MaxJobsAssumption DEF Jobs
  <2>2. QED
    BY <2>1, FS_Subset DEF Gone
<1>8. PICK n \in Nat : n = Cardinality(ids) /\ Cardinality(Gone') = Cardinality(Gone) + n
  <2>1. PICK old, new : old = Gone /\ new = Gone'
    OBVIOUS
  <2>2. PICK m, n \in Nat : m = Cardinality(old) /\ n = Cardinality(ids)
    BY <1>7, <2>1, FS_CardinalityType
  <2>3. Cardinality(old \union ids) = m + n - Cardinality({})
    BY <1>6, <1>7, <2>1, <2>2, FS_Union
  <2>4. Cardinality({}) = 0
    BY FS_EmptySet
  <2>5. QED
    BY <1>6, <2>1, <2>2, <2>3, <2>4
<1>9. cleaner'[c] = t /\ \A k \in Cleaners \ {c} : cleaner'[k] = cleaner[k]
  BY <1>1, CleanerMoves DEF RetentionShape
<1>10. nextId' = nextId
  BY DEF Sweeps
<1>11. DeletionsAreReported'
  <2>1. {j \in ids : Exists(j)} = ids
    BY <1>4
  <2>2. Rowcount(cleaner[c].ids) = n
    BY <1>2, <1>3, <1>8, <2>1 DEF Rowcount
  <2>3. reported' + lost' + cleaner'[c].deleted = reported + lost + cleaner[c].deleted + n
    BY <1>9, <2>2
  <2>4. QED
    BY <1>8, <1>9, <2>3, OneBalances
<1>12. SweptStayGone'
  <2>1. SUFFICES ASSUME NEW j \in Jobs, swept'[j] # "absent" PROVE ~Exists(j)' /\ j < nextId
    BY <1>10 DEF SweptStayGone
  <2>2. CASE j \in ids
    <3>1. j < nextId
      BY <1>4, <2>2 DEF CountInv, RetentionInv, Ownership, RowsAreOwned
    <3>2. QED
      BY <1>5, <2>2, <3>1 DEF Exists, NoRow
  <2>3. CASE j \notin ids
    BY <1>1, <1>5, <2>1, <2>3 DEF SweptStayGone, Exists
  <2>4. QED
    BY <2>2, <2>3
<1>13. RestingHaveNone'
  BY <1>1, <1>9 DEF RestingHaveNone
<1>14. QED
  BY <1>11, <1>12, <1>13 DEF CountInv

\* A batch adds to the cleanup's count.
LEMMA CountOfDelete ==
    ASSUME CountInv, RetentionInv', NEW c \in Cleaners, DeleteBatch(c)
    PROVE  CountInv'
<1>1. RetentionShape /\ reported \in Nat /\ lost \in Nat
  BY DEF CountInv, RetentionInv
<1>2. PICK s \in CleanerState : s = cleaner[c]
  BY <1>1 DEF RetentionShape
<1>3. PICK n \in Nat : n = Rowcount(s.ids)
  BY RowcountType DEF CleanerState
<1>4. PICK t : t = [s EXCEPT !.pc = "select", !.ids = {}, !.deleted = s.deleted + n]
  OBVIOUS
<1>5. s.deleted \in Nat /\ s.deleted + n \in Nat
  BY DEF CleanerState
<1>6. t \in CleanerState /\ t.pc = "select" /\ t.deleted = s.deleted + n
  BY <1>4, <1>5 DEF CleanerState
<1>7. cleaner' = [cleaner EXCEPT ![c] = t]
  BY <1>1, <1>2, <1>3, <1>4 DEF DeleteBatch, RetentionShape, CleanerState
<1>8. Sweeps(c) /\ reported' = reported /\ lost' = lost
  BY DEF DeleteBatch, Sweeps
<1>9. reported' + lost' + t.deleted = reported + lost + s.deleted + n
  BY <1>1, <1>5, <1>6, <1>8
<1>10. QED
  BY <1>1, <1>2, <1>3, <1>6, <1>7, <1>8, <1>9, CountOfSweep

\* A batch whose commit took effect and was reported failed is lost.
LEMMA CountOfLoss ==
    ASSUME CountInv, RetentionInv', NEW c \in Cleaners, BatchFails(c),
           cleaner[c].pc = "delete", Delete(cleaner[c].ids, c),
           lost' = lost + Rowcount(cleaner[c].ids)
    PROVE  CountInv'
<1>1. RetentionShape /\ reported \in Nat /\ lost \in Nat
  BY DEF CountInv, RetentionInv
<1>2. PICK s \in CleanerState : s = cleaner[c]
  BY <1>1 DEF RetentionShape
<1>3. PICK n \in Nat : n = Rowcount(s.ids)
  BY RowcountType DEF CleanerState
<1>4. PICK t \in CleanerState : t = Resting /\ t.deleted = 0
  <2>1. Resting \in CleanerState /\ Resting.deleted = 0
    BY DEF Resting, CleanerState
  <2>2. QED
    BY <2>1
<1>5. s.deleted \in Nat
  BY DEF CleanerState
<1>6. /\ Sweeps(c) /\ cleaner' = [cleaner EXCEPT ![c] = t]
      /\ reported' = reported + s.deleted /\ lost' = lost + n
  BY <1>2, <1>3, <1>4 DEF BatchFails, Sweeps
<1>7. /\ reported' \in Nat /\ lost' \in Nat
      /\ reported' + lost' + t.deleted = reported + lost + s.deleted + n
  BY <1>1, <1>4, <1>5, <1>6
<1>8. QED
  BY <1>2, <1>3, <1>4, <1>6, <1>7, CountOfSweep

LEMMA CountOfRest ==
    ASSUME CountInv, RetentionInv', NEW c \in Cleaners,
           StartCleanup(c) \/ SelectBatch(c) \/ FinishCleanup(c) \/ CleanupDies(c)
             \/ (BatchFails(c) /\ UNCHANGED <<job, lost, swept>>)
    PROVE  CountInv'
<1>1. RetentionShape /\ SweptStayGone /\ RestingHaveNone /\ reported \in Nat /\ lost \in Nat
  BY DEF CountInv, RetentionInv
<1>2. PICK s \in CleanerState : s = cleaner[c]
  BY <1>1 DEF RetentionShape
<1>3. UNCHANGED <<job, nextId, swept>>
  BY DEF StartCleanup, SelectBatch, FinishCleanup, BatchFails, CleanupDies, vars, database
<1>4. PICK t : /\ cleaner' = [cleaner EXCEPT ![c] = t]
               /\ t.pc = "idle" => t.deleted = 0
               /\ reported' \in Nat /\ lost' \in Nat
               /\ reported' + lost' + t.deleted = reported + lost + s.deleted
  <2>1. CASE StartCleanup(c)
    <3>1. PICK t : t = [Resting EXCEPT !.pc = "select", !.cutoff = expired]
      OBVIOUS
    <3>2. t.deleted = 0 /\ t.pc = "select" /\ s.deleted = 0
      BY <1>1, <1>2, <2>1, <3>1 DEF Resting, StartCleanup, RestingHaveNone
    <3>3. QED
      BY <1>1, <2>1, <3>1, <3>2 DEF StartCleanup
  <2>2. CASE SelectBatch(c)
    <3>1. PICK ids : ids = Batch(cleaner[c].cutoff)
      OBVIOUS
    <3>2. PICK t : t = [s EXCEPT !.pc = "delete", !.ids = ids]
      OBVIOUS
    <3>3. t.deleted = s.deleted /\ t.pc = "delete"
      BY <3>2 DEF CleanerState
    <3>4. cleaner' = [cleaner EXCEPT ![c] = t]
      BY <1>1, <1>2, <2>2, <3>1, <3>2 DEF SelectBatch, RetentionShape, CleanerState
    <3>5. QED
      BY <1>1, <2>2, <3>3, <3>4 DEF SelectBatch
  <2>3. CASE \/ FinishCleanup(c) \/ CleanupDies(c)
             \/ BatchFails(c) /\ UNCHANGED <<job, lost, swept>>
    <3>1. /\ cleaner' = [cleaner EXCEPT ![c] = Resting]
          /\ \/ reported' = reported + s.deleted /\ lost' = lost
             \/ reported' = reported /\ lost' = lost + s.deleted
      BY <1>2, <2>3 DEF FinishCleanup, BatchFails, CleanupDies
    <3>2. PICK r : r = Resting /\ r.deleted = 0
      <4>1. Resting.deleted = 0
        BY DEF Resting
      <4>2. QED
        BY <4>1
    <3>3. cleaner' = [cleaner EXCEPT ![c] = r]
      BY <3>1, <3>2
    <3>4. /\ reported' \in Nat /\ lost' \in Nat
          /\ reported' + lost' + r.deleted = reported + lost + s.deleted
      <4>1. s.deleted \in Nat
        BY DEF CleanerState
      <4>2. QED
        BY <1>1, <3>1, <3>2, <4>1
    <3>5. QED
      BY <3>2, <3>3, <3>4
  <2>4. QED
    BY <2>1, <2>2, <2>3
<1>5. cleaner'[c] = t /\ \A k \in Cleaners \ {c} : cleaner'[k] = cleaner[k]
  BY <1>1, <1>4 DEF RetentionShape
<1>6. PICK n \in Nat : n = 0
  OBVIOUS
<1>7. Cardinality(Gone') = Cardinality(Gone) + n
  <2>1. Gone' = Gone
    BY <1>3 DEF Gone
  <2>2. Cardinality(Gone) \in Nat
    <3>1. IsFiniteSet(Jobs)
      BY FS_Interval, MaxJobsAssumption DEF Jobs
    <3>2. QED
      BY <3>1, FS_Subset, FS_CardinalityType DEF Gone
  <2>3. QED
    BY <1>6, <2>1, <2>2
<1>8. DeletionsAreReported'
  <2>1. reported' + lost' + cleaner'[c].deleted = reported + lost + cleaner[c].deleted + n
    BY <1>1, <1>2, <1>4, <1>5, <1>6 DEF CleanerState
  <2>2. QED
    BY <1>4, <1>5, <1>7, <2>1, OneBalances
<1>9. SweptStayGone'
  BY <1>1, <1>3 DEF SweptStayGone, Exists
<1>10. RestingHaveNone'
  BY <1>1, <1>4, <1>5 DEF RestingHaveNone
<1>11. QED
  BY <1>4, <1>8, <1>9, <1>10 DEF CountInv

LEMMA InitCountInv == RetentionInit => CountInv
<1> SUFFICES ASSUME RetentionInit PROVE CountInv
  OBVIOUS
<1>1. RetentionInv
  BY InitRetentionInv
<1>2. \A c \in Cleaners : cleaner[c] = Resting
  BY DEF RetentionInit
<1>3. SumFunction(DeletedBy) = 0
  <2>1. DeletedBy = [c \in Cleaners |-> 0]
    BY <1>2 DEF DeletedBy, Resting
  <2>2. QED
    BY <2>1, CleanersAssumption, SumOfZeros
<1>4. Cardinality(Gone) = 0
  <2>1. Gone = {}
    BY DEF Gone, RetentionInit
  <2>2. QED
    BY <2>1, FS_EmptySet
<1>5. DeletionsAreReported
  BY <1>3, <1>4 DEF RetentionInit, DeletionsAreReported, DeletedBy, Gone
<1>6. SweptStayGone /\ RestingHaveNone /\ reported \in Nat /\ lost \in Nat
  BY <1>2 DEF RetentionInit, SweptStayGone, RestingHaveNone, Resting
<1>7. QED
  BY <1>1, <1>5, <1>6 DEF CountInv

LEMMA StepCountInv == CountInv /\ [RetentionNext]_retVars => CountInv'
<1> SUFFICES ASSUME CountInv, [RetentionNext]_retVars PROVE CountInv'
  OBVIOUS
<1>1. RetentionInv'
  BY StepRetentionInv DEF CountInv
<1>2. CASE [Next]_vars /\ UNCHANGED retentionVars
  <2>1. SweptStayGone'
    BY <1>2, NoneComesBack DEF CountInv, RetentionInv, SweptStayGone, retentionVars
  <2>2. QED
    BY <1>1, <1>2, <2>1 DEF CountInv, RestingHaveNone, DeletionsAreReported, retentionVars
<1>3. ASSUME NEW c \in Cleaners, CleanerStep(c) \/ CleanupDies(c)  PROVE CountInv'
  BY <1>1, <1>3, CountOfDelete, CountOfRest DEF CleanerStep
<1>6. ASSUME NEW c \in Cleaners, BatchFails(c)  PROVE CountInv'
  <2>1. CASE UNCHANGED <<job, lost, swept>>
    BY <1>1, <1>6, <2>1, CountOfRest
  <2>2. CASE /\ cleaner[c].pc = "delete" /\ Delete(cleaner[c].ids, c)
             /\ lost' = lost + Rowcount(cleaner[c].ids)
    BY <1>1, <1>6, <2>2, CountOfLoss
  <2>3. QED
    BY <1>6, <2>1, <2>2 DEF BatchFails
<1>4. ASSUME NEW j \in Jobs, Expire(j)  PROVE CountInv'
  BY <1>1, <1>4 DEF Expire, CountInv, SweptStayGone, RestingHaveNone, DeletionsAreReported,
                    Exists, vars, database
<1>5. QED
  BY <1>2, <1>3, <1>4, <1>6 DEF RetentionNext, retVars

\* What run_retention_cleanup returns adds up to what is gone, for any number of
\* cleanups that meet, end, fail or die, but for what is lost with a process or
\* with the answer to a commit: a row is counted by one of them, once.
THEOREM DeletionsAddUp == RetentionSpec => []DeletionsAreReported
<1>1. RetentionSpec => []CountInv
  BY InitCountInv, StepCountInv, PTL DEF RetentionSpec
<1>2. CountInv => DeletionsAreReported
  BY DEF CountInv
<1>3. QED
  BY <1>1, <1>2, PTL

-----------------------------------------------------------------------------
(* WorkerShutdown: the inductive invariant is that of the queue, and who   *)
(* attends to a row that is running for a worker.                          *)

Places == {"unborn", "top", "polled", "busy", "ended", "gone"}

\* A worker is between two iterations, or before or after all of them, when it
\* works on nothing.
LoopOK ==
    /\ loop \in [Workers -> Places]
    /\ \A w \in Workers : worker[w].pc # "idle" => Is(w, "busy")

\* The worker has claimed one job and has not written its outcome.
Attends(w, j) == /\ worker[w].pc \in {"run", "complete", "fail", "fallback"}
                 /\ \E s \in worker[w].todo : worker[w].todo = {s} /\ s.id = j

\* Unless there was a fault, the worker of a running row attends to it, or its
\* process has exited.
RowsAreAttended ==
    faults = 0 =>
        \A w \in Workers : \A j \in Leftover(w) : Is(w, "gone") \/ Attends(w, j)

ShutInv == IInv /\ LoopOK /\ RowsAreAttended

-----------------------------------------------------------------------------
(* What the steps of the queue do to the rows of a worker.                 *)

\* No row begins to run for w, and its state is as it was.
OthersMove(w) == /\ Leftover(w)' \subseteq Leftover(w)
                 /\ worker'[w] = worker[w]

\* A row that is not written stays with its worker, as does one of which only
\* a field other than status and worker changes.
LEMMA LeftoverStays ==
    ASSUME NEW w,
           \A j \in Jobs : job'[j].status = "running" =>
               job[j].status = "running" /\ job'[j].worker = job[j].worker
    PROVE  Leftover(w)' \subseteq Leftover(w)
  BY DEF Leftover

\* Setting a status to anything but running takes a row from its worker.
LEMMA LeftoverOfStatus ==
    ASSUME ShapeOK, NEW i \in Jobs, NEW st \in {"completed", "failed"},
           job' = [job EXCEPT ![i].status = st]
    PROVE  /\ \A w : Leftover(w)' \subseteq Leftover(w)
           /\ \A w : i \notin Leftover(w)'
<1>1. PICK r \in Row : r = job[i]
  BY DEF ShapeOK
<1>2. [r EXCEPT !.status = st].status = st
  BY DEF Row
<1>3. \A j \in Jobs : IF j = i THEN job'[j].status = st ELSE job'[j] = job[j]
  BY <1>1, <1>2 DEF ShapeOK
<1>4. QED
  BY <1>3 DEF Leftover

\* A claim gives its row to the claiming worker, and to nobody else.
LEMMA LeftoverOfClaim ==
    ASSUME ShapeOK, NEW v \in Workers, NEW s \in worker[v].todo, Claim(v, s)
    PROVE  /\ \A w \in Workers \ {v} : Leftover(w)' \subseteq Leftover(w)
           /\ Leftover(v)' \subseteq Leftover(v) \union {s.id}
<1>1. s.id \in Jobs
  BY DEF ShapeOK, WorkerState, Snapshot
<1>2. PICK r \in Row : r = job[s.id]
  BY <1>1 DEF ShapeOK
<1>3. ClaimedRow(s, v).worker = v
  BY <1>2 DEF ClaimedRow, Row
<1>4. \A j \in Jobs : IF j = s.id THEN job'[j].worker = v ELSE job'[j] = job[j]
  BY <1>1, <1>3 DEF Claim, ShapeOK
<1>5. QED
  BY <1>4 DEF Leftover

\* Requests, deletions and time set nothing running.
LEMMA Bystanders ==
    ASSUME ShapeOK,
           \/ \E r \in Requests : RequestStep(r)
           \/ \E d \in Deleters : DeleterStep(d)
           \/ \E j \in Jobs : Lapse(j) \/ Age(j)
    PROVE  \A w \in Workers : OthersMove(w)
<1>1. worker' = worker
  BY RequestInserts
  DEF DeleterStep, ReadForDelete, RefundDeleted, DeleteRow, AbandonDelete, Lapse, Age
<1>2. \A j \in Jobs : job'[j].status = "running" =>
          job[j].status = "running" /\ job'[j].worker = job[j].worker
  <2>1. ASSUME NEW u, Insert(u)
        PROVE  \A j \in Jobs : job'[j] = job[j] \/ job'[j].status = "pending"
    <3>1. PICK row : /\ row = [NoRow EXCEPT !.status = "pending", !.owner = u]
                     /\ job' = [job EXCEPT ![nextId] = row]
      BY <2>1 DEF Insert
    <3>2. row.status = "pending"
      BY <3>1 DEF NoRow
    <3>3. QED
      BY <3>1, <3>2 DEF ShapeOK
  <2>2. ASSUME NEW d \in Deleters, DeleteRow(d)
        PROVE  \A j \in Jobs : job'[j] = job[j] \/ job'[j].status = "absent"
    BY <2>2 DEF DeleteRow, ShapeOK, NoRow
  <2>3. ASSUME NEW i \in Jobs, Lapse(i) \/ Age(i)
        PROVE  \A j \in Jobs : job'[j].status = job[j].status /\ job'[j].worker = job[j].worker
    <3>1. PICK r \in Row : r = job[i]
      BY DEF ShapeOK
    <3>2. /\ [r EXCEPT !.lapsed = TRUE].status = r.status
          /\ [r EXCEPT !.lapsed = TRUE].worker = r.worker
          /\ [r EXCEPT !.overdue = TRUE].status = r.status
          /\ [r EXCEPT !.overdue = TRUE].worker = r.worker
      BY DEF Row
    <3>3. QED
      BY <2>3, <3>1, <3>2 DEF Lapse, Age, ShapeOK
  <2>4. \/ UNCHANGED job
        \/ \E u : Insert(u)
        \/ \E d \in Deleters : DeleteRow(d)
        \/ \E i \in Jobs : Lapse(i) \/ Age(i)
    BY RequestInserts
    DEF DeleterStep, ReadForDelete, RefundDeleted, AbandonDelete, database
  <2>5. QED
    BY <2>1, <2>2, <2>3, <2>4
<1>3. QED
  BY <1>1, <1>2, LeftoverStays DEF OthersMove

-----------------------------------------------------------------------------
(* What a worker's own step does to the rows it attends to.                *)

\* Faults are not forgotten.
LEMMA FaultsStay == ASSUME ShapeOK, [Next]_vars, faults' = 0 PROVE faults = 0
<1>1. faults \in Nat
  BY DEF ShapeOK
<1>2. faults' = faults \/ faults' = faults + 1
  <2>1. ASSUME NEW w \in Workers, WorkerStep(w) \/ DeadlockVictim(w) \/ Abort(w)
        PROVE  faults' = faults \/ faults' = faults + 1
    BY <2>1 DEF WorkerStep, Select, ReturnNone, DeadlockVictim, Abort, Handle, FailCandidate,
                CheckCapacity, Claim, CandidateGone, ReadBack, Complete, PersistFails,
                Fallback, Fail, Fault
  <2>2. ASSUME NEW r \in Requests, RequestStep(r)
        PROVE  faults' = faults \/ faults' = faults + 1
    BY <2>2 DEF RequestStep, Reserve, Create, Created, CreateFails, RefundReservation,
                Abandon, Fault
  <2>3. ASSUME NEW d \in Deleters, DeleterStep(d)
        PROVE  faults' = faults \/ faults' = faults + 1
    BY <2>3 DEF DeleterStep, ReadForDelete, RefundDeleted, DeleteRow, AbandonDelete, Fault
  <2>4. CASE (\E j \in Jobs : Lapse(j) \/ Age(j)) \/ UNCHANGED vars
    BY <2>4 DEF Lapse, Age, vars
  <2>5. QED
    BY <2>1, <2>2, <2>3, <2>4 DEF Next, Quiescent
<1>3. QED
  BY <1>1, <1>2

\* A step of one worker sets no row running for another.
LEMMA WorkerAlone ==
    ASSUME ShapeOK, NEW v \in Workers, WorkerStep(v) \/ DeadlockVictim(v) \/ Abort(v)
    PROVE  \A w \in Workers \ {v} : OthersMove(w)
<1>1. \A w \in Workers \ {v} : worker'[w] = worker[w]
  BY DEF WorkerStep, Select, ReturnNone, DeadlockVictim, Abort, Handle, FailCandidate,
         CheckCapacity, Claim, CandidateGone, ReadBack, Complete, PersistFails, Fallback,
         Fail, Become, ShapeOK
<1>2. ASSUME NEW s \in worker[v].todo, Handle(v, s)
      PROVE  \A w \in Workers \ {v} : Leftover(w)' \subseteq Leftover(w)
  <2>1. s.id \in Jobs
    BY DEF ShapeOK, WorkerState, Snapshot
  <2>2. \/ Claim(v, s)
        \/ UNCHANGED job
        \/ \E st \in {"completed", "failed"} : job' = [job EXCEPT ![s.id].status = st]
    BY <1>2 DEF Handle, FailCandidate, CheckCapacity, CandidateGone, ReadBack, Complete,
                PersistFails, Fallback, Fail, FailAndRefund, database
  <2>3. QED
    BY <2>1, <2>2, LeftoverOfClaim, LeftoverOfStatus DEF Leftover
<1>3. ASSUME Select(v) \/ ReturnNone(v) \/ DeadlockVictim(v) \/ Abort(v)
      PROVE  \A w \in Workers \ {v} : Leftover(w)' \subseteq Leftover(w)
  BY <1>3 DEF Select, ReturnNone, DeadlockVictim, Abort, Leftover
<1>4. \A w \in Workers \ {v} : Leftover(w)' \subseteq Leftover(w)
  BY <1>2, <1>3 DEF WorkerStep
<1>5. QED
  BY <1>1, <1>4 DEF OthersMove

\* A worker that waits in a cycle is looking at candidates.
LEMMA VictimScans ==
    ASSUME NEW w \in Workers, DeadlockVictim(w)
    PROVE  worker[w].pc \in {"scan", "claim"}
<1>1. Blocker(w) \in Workers
  BY DEF DeadlockVictim
<1>2. Blocker(w) # NoOne
  BY <1>1, ActorsAssumption
<1>3. \E s \in worker[w].todo : At(w, s, "claim") \/ At(w, s, "scan")
  BY <1>2 DEF Blocker
<1>4. QED
  BY <1>3 DEF At

\* A worker attends to its rows from the claim until the outcome is written.
LEMMA OwnRows ==
    ASSUME ShapeOK, faults' = 0, NEW w \in Workers, \A j \in Leftover(w) : Attends(w, j),
           WorkerStep(w) \/ DeadlockVictim(w) \/ Abort(w)
    PROVE  \A j \in Leftover(w)' : Attends(w, j)'
<1>1. worker \in [Workers -> WorkerState] /\ worker[w].todo \subseteq Snapshot /\ faults \in Nat
  BY DEF ShapeOK, WorkerState
<1>2. ASSUME worker[w].pc \in {"idle", "scan", "claim"}  PROVE Leftover(w) = {}
  BY <1>2 DEF Attends
<1>3. CASE Select(w) \/ ReturnNone(w) \/ DeadlockVictim(w)
  <2>1. worker[w].pc \in {"idle", "scan", "claim"}
    BY <1>3, VictimScans DEF Select, ReturnNone
  <2>2. Leftover(w)' = Leftover(w)
    BY <1>3 DEF Select, ReturnNone, DeadlockVictim, Leftover
  <2>3. QED
    BY <1>2, <2>1, <2>2
<1>4. CASE Abort(w)
  BY <1>1, <1>4 DEF Abort, Fault
<1>5. ASSUME NEW s \in worker[w].todo, Handle(w, s)
      PROVE  \A j \in Leftover(w)' : Attends(w, j)'
  <2>1. s.id \in Jobs /\ s \in Snapshot
    BY <1>1 DEF Snapshot
  <2>2. CASE FailCandidate(w, s) \/ CheckCapacity(w, s) \/ CandidateGone(w, s)
    <3>1. Leftover(w) = {}
      BY <1>2, <2>2 DEF FailCandidate, CheckCapacity, CandidateGone, At
    <3>2. UNCHANGED job \/ job' = [job EXCEPT ![s.id].status = "failed"]
      BY <2>2 DEF FailCandidate, CheckCapacity, CandidateGone, FailAndRefund
    <3>3. Leftover(w)' \subseteq Leftover(w)
      BY <2>1, <3>2, LeftoverOfStatus DEF Leftover
    <3>4. QED
      BY <3>1, <3>3
  <2>3. CASE Claim(w, s)
    <3>1. Leftover(w) = {}
      BY <1>2, <2>3 DEF Claim, At
    <3>2. Leftover(w)' \subseteq {s.id}
      BY <2>3, <3>1, LeftoverOfClaim
    <3>3. worker'[w].pc = "run" /\ worker'[w].todo = {s}
      BY <1>1, <2>3 DEF Claim, Become
    <3>4. QED
      BY <3>2, <3>3 DEF Attends
  <2>4. \A j \in Leftover(w) : s.id = j
    BY DEF Attends
  <2>5. CASE ReadBack(w, s)
    <3>1. Leftover(w)' = Leftover(w)
      BY <2>5 DEF ReadBack, database, Leftover
    <3>2. CASE StillMine(w, s.id)
      <4>1. worker'[w].pc \in {"complete", "fail"} /\ worker'[w].todo = {s}
        BY <1>1, <2>5, <3>2 DEF ReadBack, Become
      <4>2. QED
        BY <2>4, <3>1, <4>1 DEF Attends
    <3>3. CASE ~StillMine(w, s.id)
      BY <2>4, <3>1, <3>3 DEF StillMine, Leftover
    <3>4. QED
      BY <3>2, <3>3
  <2>6. CASE PersistFails(w, s)
    <3>1. UNCHANGED job
      BY <1>1, <2>6 DEF PersistFails, Fault
    <3>2. Leftover(w)' = Leftover(w)
      BY <3>1 DEF Leftover
    <3>3. worker'[w].pc = "fallback" /\ worker'[w].todo = {s}
      BY <1>1, <2>6 DEF PersistFails, Become
    <3>4. QED
      BY <2>4, <3>2, <3>3 DEF Attends
  <2>7. CASE Complete(w, s) \/ Fallback(w, s) \/ Fail(w, s)
    <3>1. \/ \E st \in {"completed", "failed"} : job' = [job EXCEPT ![s.id].status = st]
          \/ UNCHANGED job /\ ~Exists(s.id)
      BY <2>7 DEF Complete, Fallback, Fail, FailAndRefund
    <3>2. Leftover(w)' \subseteq Leftover(w) /\ s.id \notin Leftover(w)'
      BY <2>1, <3>1, LeftoverOfStatus DEF Leftover, Exists
    <3>3. QED
      BY <2>4, <3>2
  <2>8. QED
    BY <1>5, <2>2, <2>3, <2>5, <2>6, <2>7 DEF Handle
<1>6. QED
  BY <1>3, <1>4, <1>5 DEF WorkerStep

-----------------------------------------------------------------------------
(* The steps of WorkerShutdown.                                            *)

\* Rows stay attended to when the queue moves and the worker that moves, if
\* one does, has not exited.
LEMMA QueueAttends ==
    ASSUME ShutInv, [Next]_vars,
           \A w \in Workers : Is(w, "gone")' <=> Is(w, "gone"),
           \/ \E v \in Workers : /\ WorkerStep(v) \/ DeadlockVictim(v) \/ Abort(v)
                                 /\ ~Is(v, "gone")
           \/ \A w \in Workers : OthersMove(w)
    PROVE  RowsAreAttended'
<1>1. ShapeOK /\ RowsAreAttended
  BY DEF ShutInv, IInv
<1>2. SUFFICES ASSUME faults' = 0, NEW w \in Workers, ~Is(w, "gone")
               PROVE  \A j \in Leftover(w)' : Attends(w, j)'
  BY DEF RowsAreAttended
<1>3. \A j \in Leftover(w) : Attends(w, j)
  BY <1>1, <1>2, FaultsStay DEF RowsAreAttended
<1>4. CASE WorkerStep(w) \/ DeadlockVictim(w) \/ Abort(w)
  BY <1>1, <1>2, <1>3, <1>4, OwnRows
<1>5. CASE OthersMove(w)
  BY <1>3, <1>5 DEF OthersMove, Attends
<1>6. QED
  BY <1>1, <1>4, <1>5, WorkerAlone

\* A worker goes on to another place of its loop.
LEMMA WorkerGoes ==
    ASSUME LoopOK, NEW w \in Workers, NEW place \in Places, Go(w, place)
    PROVE  /\ loop' \in [Workers -> Places]
           /\ loop'[w] = place
           /\ \A v \in Workers \ {w} : loop'[v] = loop[v]
  BY DEF LoopOK, Go

\* The steps that are not about the queue.
LEMMA LoopMoves ==
    ASSUME ShutInv, NEW w \in Workers,
           StartWorker(w) \/ RequestStop(w) \/ Poll(w) \/ FindNothing(w)
    PROVE  ShutInv'
<1>1. IInv /\ ShapeOK /\ LoopOK /\ RowsAreAttended
  BY DEF ShutInv, IInv
<1>2. UNCHANGED vars
  BY DEF StartWorker, RequestStop, Poll, FindNothing
<1>3. IInv'
  BY <1>1, <1>2, IInvStep
<1>4. /\ loop' \in [Workers -> Places]
      /\ \A v \in Workers : /\ loop'[v] = loop[v] \/ worker[v].pc = "idle"
                            /\ Is(v, "gone")' <=> Is(v, "gone")
  <2>1. CASE UNCHANGED loop
    BY <1>1, <2>1 DEF LoopOK, Is
  <2>2. ASSUME NEW place \in Places \ {"gone"}, Go(w, place),
               loop[w] \in {"unborn", "top", "polled"}
        PROVE  /\ loop' \in [Workers -> Places]
               /\ \A v \in Workers : /\ loop'[v] = loop[v] \/ worker[v].pc = "idle"
                                     /\ Is(v, "gone")' <=> Is(v, "gone")
    BY <1>1, <2>2, WorkerGoes DEF LoopOK, Is
  <2>3. QED
    BY <2>1, <2>2 DEF StartWorker, RequestStop, Poll, FindNothing, Is, Places
<1>5. worker' = worker
  BY <1>2 DEF vars
<1>6. LoopOK'
  BY <1>1, <1>4, <1>5 DEF LoopOK, Is
<1>7. RowsAreAttended'
  <2>1. \A v \in Workers : OthersMove(v)
    BY <1>2 DEF vars, database, OthersMove, Leftover
  <2>2. QED
    BY <1>2, <1>4, <2>1, QueueAttends
<1>8. QED
  BY <1>3, <1>6, <1>7 DEF ShutInv

LEMMA FindStep ==
    ASSUME ShutInv, NEW w \in Workers, Find(w)
    PROVE  ShutInv'
<1>1. IInv /\ ShapeOK /\ LoopOK
  BY DEF ShutInv, IInv
<1>2. WorkerStep(w) /\ [Next]_vars
  BY DEF Find, WorkerStep, Next
<1>3. IInv'
  BY <1>1, <1>2, IInvStep
<1>4. /\ loop' \in [Workers -> Places]
      /\ loop'[w] = "busy"
      /\ \A v \in Workers \ {w} : loop'[v] = loop[v] /\ worker'[v] = worker[v]
  BY <1>1, WorkerGoes DEF Find, Places, Select, Become, ShapeOK
<1>5. LoopOK'
  BY <1>1, <1>4 DEF LoopOK, Is
<1>6. \A v \in Workers : Is(v, "gone")' <=> Is(v, "gone")
  BY <1>4 DEF Find, Is
<1>7. RowsAreAttended'
  BY <1>2, <1>6, QueueAttends DEF Find, Is
<1>8. QED
  BY <1>3, <1>5, <1>7 DEF ShutInv

LEMMA IterateStep ==
    ASSUME ShutInv, NEW w \in Workers, Iterate(w)
    PROVE  ShutInv'
<1>1. IInv /\ ShapeOK /\ LoopOK
  BY DEF ShutInv, IInv
<1>2. WorkerStep(w) \/ DeadlockVictim(w) \/ Abort(w)
  BY DEF Iterate, WorkerStep
<1>3. [Next]_vars
  BY <1>2 DEF Next
<1>4. IInv'
  BY <1>1, <1>3, IInvStep
<1>5. \A v \in Workers \ {w} : worker'[v] = worker[v]
  BY <1>1, <1>2, WorkerAlone DEF OthersMove
<1>6. /\ loop' \in [Workers -> Places]
      /\ worker'[w].pc # "idle" => loop'[w] = "busy"
      /\ loop'[w] # "gone"
      /\ \A v \in Workers \ {w} : loop'[v] = loop[v]
  BY <1>1 DEF Iterate, Is, LoopOK, Places
<1>7. LoopOK'
  BY <1>1, <1>5, <1>6 DEF LoopOK, Is
<1>8. \A v \in Workers : Is(v, "gone")' <=> Is(v, "gone")
  BY <1>6 DEF Iterate, Is
<1>9. RowsAreAttended'
  BY <1>2, <1>3, <1>8, QueueAttends DEF Iterate, Is
<1>10. QED
  BY <1>4, <1>7, <1>9 DEF ShutInv

\* An exit takes the worker and its locks away, and no row.
LEMMA ExitStep ==
    ASSUME ShutInv, NEW w \in Workers, Exit(w)
    PROVE  ShutInv'
<1>1. IInv /\ ShapeOK /\ RowLocksOK /\ Ownership /\ ClaimHasRoom
      /\ RunningWithinPlan /\ LoopOK /\ RowsAreAttended
  BY DEF ShutInv, IInv
<1>2. ReleaseLocks(w) /\ Become(w, "idle", {})
  BY DEF Exit
<1>3. ShapeOK'
  BY <1>1, <1>2, ReleaseType, BecomeType DEF Exit, ShapeOK, history
<1>4. RowLocksOK'
  BY <1>1, <1>2 DEF ReleaseLocks, RowLocksOK
<1>5. \A v \in Workers : worker'[v] = IF v = w THEN [pc |-> "idle", todo |-> {}] ELSE worker[v]
  BY <1>1, <1>2 DEF Become, ShapeOK
<1>6. Ownership'
  <2>1. RowsOnlyGo
    BY <1>5 DEF Exit, RowsOnlyGo, Exists
  <2>2. RequestsAreOwned'
    BY <1>1 DEF Exit, Ownership, RequestsAreOwned
  <2>3. QED
    BY <1>1, <2>1, <2>2, OwnershipOfRows DEF Ownership
<1>8. ClaimHasRoom' /\ RunningWithinPlan'
  <2>1. \A u \in Users : Running(u)' \subseteq Running(u)
    BY DEF Exit, Running
  <2>2. QED
    BY <1>1, <1>2, <2>1, LeavingClaim, QuietStep DEF Quiet
<1>9. /\ loop' \in [Workers -> Places]
      /\ loop'[w] = "gone"
      /\ \A v \in Workers \ {w} : loop'[v] = loop[v]
  BY <1>1, WorkerGoes DEF Exit, Places
<1>10. LoopOK'
  BY <1>1, <1>5, <1>9 DEF LoopOK, Is
<1>11. RowsAreAttended'
  <2>1. \A v \in Workers : Leftover(v)' = Leftover(v)
    BY DEF Exit, Leftover
  <2>2. faults' = faults
    BY DEF Exit
  <2>3. QED
    BY <1>1, <1>5, <1>9, <2>1, <2>2 DEF RowsAreAttended, Attends, Is
<1>12. QED
  BY <1>3, <1>4, <1>6, <1>8, <1>10, <1>11 DEF ShutInv, IInv

\* Everybody else, beside the loops.
LEMMA BesideStep ==
    ASSUME ShutInv, UNCHANGED shutVars,
           \/ \E r \in Requests : RequestStep(r)
           \/ \E d \in Deleters : DeleterStep(d)
           \/ \E j \in Jobs : Lapse(j) \/ Age(j)
           \/ UNCHANGED vars
    PROVE  ShutInv'
<1>1. IInv /\ ShapeOK /\ LoopOK
  BY DEF ShutInv, IInv
<1>2. [Next]_vars
  BY DEF Next
<1>3. IInv'
  BY <1>1, <1>2, IInvStep
<1>4. \A w \in Workers : OthersMove(w)
  <2>1. CASE UNCHANGED vars
    BY <2>1 DEF vars, database, OthersMove, Leftover
  <2>2. QED
    BY <1>1, <2>1, Bystanders
<1>5. LoopOK'
  BY <1>1, <1>4 DEF LoopOK, OthersMove, Is, shutVars
<1>6. RowsAreAttended'
  BY <1>2, <1>4, QueueAttends DEF Is, shutVars
<1>7. QED
  BY <1>3, <1>5, <1>6 DEF ShutInv

-----------------------------------------------------------------------------
(* The theorems.                                                           *)

LEMMA InitShutInv == ShutdownInit => ShutInv
<1> SUFFICES ASSUME ShutdownInit PROVE ShutInv
  OBVIOUS
<1>1. IInv
  BY InitIInv DEF ShutdownInit
<1>2. LoopOK
  BY DEF ShutdownInit, Init, LoopOK, Places
<1>3. RowsAreAttended
  <2>1. \A w : Leftover(w) = {}
    BY DEF ShutdownInit, Init, NoRow, Leftover
  <2>2. QED
    BY <2>1 DEF RowsAreAttended
<1>4. QED
  BY <1>1, <1>2, <1>3 DEF ShutInv

LEMMA StepShutInv == ShutInv /\ [ShutdownNext]_allVars => ShutInv'
<1> SUFFICES ASSUME ShutInv, [ShutdownNext]_allVars PROVE ShutInv'
  OBVIOUS
<1>1. ASSUME NEW w \in Workers,
             StartWorker(w) \/ RequestStop(w) \/ LoopStep(w) \/ Iterate(w) \/ Exit(w)
      PROVE  ShutInv'
  BY <1>1, LoopMoves, FindStep, IterateStep, ExitStep DEF LoopStep
<1>2. CASE UNCHANGED allVars
  BY <1>2, BesideStep DEF allVars
<1>3. QED
  BY <1>1, <1>2, BesideStep DEF ShutdownNext

LEMMA ShutInvariance == ShutdownSpec => []ShutInv
  BY InitShutInv, StepShutInv, PTL DEF ShutdownSpec

\* A worker loop that ends leaves no job running in its name, on any way out of
\* its last iteration and for any number of workers: run_once is not left
\* between the commit of a claim and that of an outcome, unless by an exception.
THEOREM LoopsEndClean == ShutdownSpec => []EndsWithNothingLeft
<1>1. ShutInv => EndsWithNothingLeft
  <2>1. SUFFICES ASSUME ShutInv, NEW w \in Workers, Is(w, "ended"), faults = 0
                 PROVE  Leftover(w) = {}
    BY DEF EndsWithNothingLeft
  <2>2. worker[w].pc = "idle" /\ ~Is(w, "gone")
    BY <2>1 DEF ShutInv, LoopOK, Is
  <2>3. QED
    BY <2>1, <2>2 DEF ShutInv, RowsAreAttended, Attends
<1>2. QED
  BY ShutInvariance, <1>1, PTL

\* The plan's limit holds whatever is stopped where: a daemon thread that dies
\* with the API process takes its locks away and leaves no count behind.
THEOREM LimitOutlivesExits == ShutdownSpec => []RunningWithinPlan
<1>1. ShutInv => RunningWithinPlan
  BY DEF ShutInv, IInv
<1>2. QED
  BY ShutInvariance, <1>1, PTL

-----------------------------------------------------------------------------
(* SyncExecution: what the steps do to the local state of a caller.        *)

\* A caller is a record of four fields, whatever is in them.
CallersOK ==
    caller = [c \in Callers |-> [pc   |-> caller[c].pc,  user |-> caller[c].user,
                                 id   |-> caller[c].id,  mem  |-> caller[c].mem]]

\* Caller c moves on, for the same user.
MovesOn(c, pc, id, mem) ==
    caller' = [d \in Callers |->
        IF d = c THEN [pc |-> pc, user |-> caller[c].user, id |-> id, mem |-> mem]
                 ELSE caller[d]]

\* Everything a caller does between Acquire and Release: it stays admitted, for
\* the same user, and the slots stay as they are.
GoesOn(c) ==
    /\ caller[c].pc # "idle"
    /\ slots' = slots
    /\ \E pc, id, mem : pc # "idle" /\ MovesOn(c, pc, id, mem)

LEMMA GotoGoesOn ==
    ASSUME CallersOK, NEW c \in Callers, NEW pc, Goto(c, pc)
    PROVE  MovesOn(c, pc, caller[c].id, caller[c].mem)
<1>1. PICK p, u, i, m : caller[c] = [pc |-> p, user |-> u, id |-> i, mem |-> m]
  BY DEF CallersOK
<1>2. [caller[c] EXCEPT !.pc = pc] = [pc |-> pc, user |-> u, id |-> i, mem |-> m]
  BY <1>1
<1>3. caller = [d \in Callers |-> caller[d]]
  BY DEF CallersOK
<1>4. caller' = [caller EXCEPT ![c] = [caller[c] EXCEPT !.pc = pc]]
  BY DEF Goto
<1>5. QED
  BY <1>1, <1>2, <1>3, <1>4 DEF MovesOn

\* Changing fields of a record one after the other.
LEMMA FieldsTwo ==
    ASSUME NEW p, NEW u, NEW i, NEW m, NEW pc, NEW mem, NEW r, NEW s,
           r = [pc |-> p, user |-> u, id |-> i, mem |-> m],
           s = [[r EXCEPT !.pc = pc] EXCEPT !.mem = mem]
    PROVE  s = [pc |-> pc, user |-> u, id |-> i, mem |-> mem]
<1>1. PICK q : q = [r EXCEPT !.pc = pc]
  OBVIOUS
<1>2. q = [pc |-> pc, user |-> u, id |-> i, mem |-> m]
  BY <1>1
<1>3. s = [q EXCEPT !.mem = mem]
  BY <1>1
<1>4. QED
  BY <1>2, <1>3

LEMMA FieldsUser ==
    ASSUME NEW p, NEW u, NEW i, NEW m, NEW pc, NEW user, NEW r, NEW s,
           r = [pc |-> p, user |-> u, id |-> i, mem |-> m],
           s = [[r EXCEPT !.pc = pc] EXCEPT !.user = user]
    PROVE  s = [pc |-> pc, user |-> user, id |-> i, mem |-> m]
<1>1. PICK q : q = [r EXCEPT !.pc = pc]
  OBVIOUS
<1>2. q = [pc |-> pc, user |-> u, id |-> i, mem |-> m]
  BY <1>1
<1>3. s = [q EXCEPT !.user = user]
  BY <1>1
<1>4. QED
  BY <1>2, <1>3

LEMMA FieldsThree ==
    ASSUME NEW p, NEW u, NEW i, NEW m, NEW pc, NEW id, NEW mem, NEW r, NEW s,
           r = [pc |-> p, user |-> u, id |-> i, mem |-> m],
           s = [[[r EXCEPT !.pc = pc] EXCEPT !.id = id] EXCEPT !.mem = mem]
    PROVE  s = [pc |-> pc, user |-> u, id |-> id, mem |-> mem]
<1>1. PICK q : q = [r EXCEPT !.pc = pc]
  OBVIOUS
<1>2. q = [pc |-> pc, user |-> u, id |-> i, mem |-> m]
  BY <1>1
<1>3. PICK t : t = [q EXCEPT !.id = id]
  OBVIOUS
<1>4. t = [pc |-> pc, user |-> u, id |-> id, mem |-> m]
  BY <1>2, <1>3
<1>5. s = [t EXCEPT !.mem = mem]
  BY <1>1, <1>3
<1>6. QED
  BY <1>4, <1>5

\* Changing fields of one record of many.
LEMMA EditTwo ==
    ASSUME NEW S, NEW c \in S, NEW f, f = [d \in S |-> f[d]], NEW pc, NEW mem, NEW g,
           g = [f EXCEPT ![c].pc = pc, ![c].mem = mem]
    PROVE  g = [d \in S |-> IF d = c THEN [[f[c] EXCEPT !.pc = pc] EXCEPT !.mem = mem]
                                    ELSE f[d]]
  OBVIOUS

LEMMA EditThree ==
    ASSUME NEW S, NEW c \in S, NEW f, f = [d \in S |-> f[d]],
           NEW pc, NEW id, NEW mem, NEW g,
           g = [f EXCEPT ![c].pc = pc, ![c].id = id, ![c].mem = mem]
    PROVE  g = [d \in S |->
               IF d = c THEN [[[f[c] EXCEPT !.pc = pc] EXCEPT !.id = id] EXCEPT !.mem = mem]
                        ELSE f[d]]
  OBVIOUS

LEMMA CallerFields ==
    ASSUME CallersOK, NEW c \in Callers
    PROVE  /\ caller = [d \in Callers |-> caller[d]]
           /\ caller[c] = [pc |-> caller[c].pc, user |-> caller[c].user,
                           id |-> caller[c].id, mem |-> caller[c].mem]
  BY DEF CallersOK

LEMMA SetTwoGoesOn ==
    ASSUME CallersOK, NEW c \in Callers, NEW pc, NEW mem,
           caller' = [caller EXCEPT ![c].pc = pc, ![c].mem = mem]
    PROVE  MovesOn(c, pc, caller[c].id, mem)
<1>1. PICK r, p, u, i, m : /\ r = caller[c]
                           /\ r = [pc |-> p, user |-> u, id |-> i, mem |-> m]
                           /\ u = caller[c].user /\ i = caller[c].id
  BY CallerFields
<1>2. PICK s : s = [[r EXCEPT !.pc = pc] EXCEPT !.mem = mem]
  OBVIOUS
<1>3. s = [pc |-> pc, user |-> u, id |-> i, mem |-> mem]
  BY <1>1, <1>2, FieldsTwo
<1>4. caller' = [d \in Callers |-> IF d = c THEN s ELSE caller[d]]
  BY <1>1, <1>2, CallerFields, EditTwo
<1>5. QED
  BY <1>1, <1>3, <1>4 DEF MovesOn

LEMMA SetThreeGoesOn ==
    ASSUME CallersOK, NEW c \in Callers, NEW pc, NEW id, NEW mem,
           caller' = [caller EXCEPT ![c].pc = pc, ![c].id = id, ![c].mem = mem]
    PROVE  MovesOn(c, pc, id, mem)
<1>1. PICK r, p, u, i, m : /\ r = caller[c]
                           /\ r = [pc |-> p, user |-> u, id |-> i, mem |-> m]
                           /\ u = caller[c].user
  BY CallerFields
<1>2. PICK s : s = [[[r EXCEPT !.pc = pc] EXCEPT !.id = id] EXCEPT !.mem = mem]
  OBVIOUS
<1>3. s = [pc |-> pc, user |-> u, id |-> id, mem |-> mem]
  BY <1>1, <1>2, FieldsThree
<1>4. caller' = [d \in Callers |-> IF d = c THEN s ELSE caller[d]]
  BY <1>1, <1>2, CallerFields, EditThree
<1>5. QED
  BY <1>1, <1>3, <1>4 DEF MovesOn

\* The places of a request that is under way, from the slot it takes to the one
\* it gives back.
LEMMA UnderWay ==
    ASSUME CallersOK, NEW c \in Callers,
           \/ SyncReserve(c) \/ SyncCreate(c) \/ ReadNew(c)
           \/ SyncCreateFails(c) \/ SyncUnreserve(c)
           \/ StartJob(c) \/ Refresh(c) \/ EngineReturns(c)
           \/ RefundFailed(c) \/ MarkFailed(c) \/ PersistResult(c) \/ PersistRaises(c)
           \/ ReadSaved(c)
    PROVE  GoesOn(c)
<1>1. caller[c].pc # "idle" /\ slots' = slots
  BY DEF SyncReserve, SyncCreate, ReadNew, SyncCreateFails, SyncUnreserve, StartJob, Refresh,
         EngineReturns, RefundFailed, MarkFailed, PersistResult, PersistRaises, ReadSaved
<1>2. ASSUME NEW pc, pc # "idle", Goto(c, pc)  PROVE GoesOn(c)
  BY <1>1, <1>2, GotoGoesOn DEF GoesOn
<1>3. ASSUME NEW pc, NEW mem, pc # "idle",
             caller' = [caller EXCEPT ![c].pc = pc, ![c].mem = mem]
      PROVE  GoesOn(c)
  BY <1>1, <1>3, SetTwoGoesOn DEF GoesOn
<1>4. CASE SyncCreate(c)
  <2>1. caller' = [caller EXCEPT ![c].pc = "inserted", ![c].id = nextId, ![c].mem = "pending"]
    BY <1>4 DEF SyncCreate
  <2>2. PICK pc, id, mem : /\ pc = "inserted"
                           /\ caller' = [caller EXCEPT ![c].pc = pc, ![c].id = id, ![c].mem = mem]
    BY <2>1
  <2>3. MovesOn(c, pc, id, mem) /\ pc # "idle"
    BY <2>2, SetThreeGoesOn
  <2>4. QED
    BY <1>1, <2>3 DEF GoesOn
<1>5. CASE ReadNew(c)
  <2>1. PICK pc, mem : /\ pc = IF Exists(caller[c].id) THEN "created" ELSE "unreserve"
                       /\ caller' = [caller EXCEPT ![c].pc = pc, ![c].mem = mem]
    BY <1>5 DEF ReadNew
  <2>2. pc # "idle"
    BY <2>1
  <2>3. QED
    BY <1>3, <2>1, <2>2
<1>6. CASE Refresh(c) /\ ~Goto(c, "finally")
  <2>1. PICK mem : caller' = [caller EXCEPT ![c].pc = "engine", ![c].mem = mem]
    BY <1>6 DEF Refresh
  <2>2. QED
    BY <1>3, <2>1
<1>7. CASE PersistResult(c) /\ ~Goto(c, "finally") /\ ~Goto(c, "giveback")
  <2>1. caller' = [caller EXCEPT ![c].pc = "saved", ![c].mem = "completed"]
    BY <1>7 DEF PersistResult
  <2>2. QED
    BY <1>3, <2>1
<1>8. CASE \E pc : pc # "idle" /\ Goto(c, pc)
  BY <1>2, <1>8
<1>9. CASE \/ SyncReserve(c) \/ SyncCreateFails(c) \/ SyncUnreserve(c) \/ StartJob(c)
           \/ EngineReturns(c) \/ RefundFailed(c) \/ MarkFailed(c) \/ PersistRaises(c)
           \/ ReadSaved(c)
  <2>1. \E pc : pc # "idle" /\ Goto(c, pc)
    BY <1>9 DEF SyncReserve, SyncCreateFails, SyncUnreserve, StartJob, EngineReturns,
                RefundFailed, MarkFailed, PersistRaises, ReadSaved
  <2>2. QED
    BY <1>8, <2>1
<1>10. QED
  BY <1>4, <1>5, <1>6, <1>7, <1>8, <1>9

-----------------------------------------------------------------------------
(* The limiter.                                                            *)

Active    == {c \in Callers : caller[c].pc # "idle"}
Holders(u) == {c \in Callers : caller[c].pc # "idle" /\ caller[c].user = u}

\* What makes the count exact: every request under way has a user, and there are
\* finitely many of them.
LimiterOK ==
    /\ CallersOK
    /\ slots \in [Users -> Nat]
    /\ IsFiniteSet(Active)
    /\ \A c \in Active : caller[c].user \in Users
    /\ \A u \in Users : slots[u] = Cardinality(Holders(u)) /\ slots[u] <= MaxConcurrent

LEMMA HoldersFinite ==
    ASSUME IsFiniteSet(Active)
    PROVE  \A u : IsFiniteSet(Holders(u)) /\ Cardinality(Holders(u)) \in Nat
<1>1. \A u : Holders(u) \subseteq Active
  BY DEF Holders, Active
<1>2. QED
  BY <1>1, FS_Subset, FS_CardinalityType

LEMMA LimiterGoesOn ==
    ASSUME LimiterOK, NEW c \in Callers, GoesOn(c)
    PROVE  LimiterOK'
<1>1. PICK pc, id, mem :
          /\ pc # "idle"
          /\ caller' = [d \in Callers |->
                IF d = c THEN [pc |-> pc, user |-> caller[c].user, id |-> id, mem |-> mem]
                         ELSE caller[d]]
  BY DEF GoesOn, MovesOn
<1>2. CallersOK'
  <2>1. \A d \in Callers : caller'[d] = [pc   |-> caller'[d].pc,  user |-> caller'[d].user,
                                         id   |-> caller'[d].id,  mem  |-> caller'[d].mem]
    BY <1>1 DEF LimiterOK, CallersOK
  <2>2. caller' = [d \in Callers |-> caller'[d]]
    BY <1>1
  <2>3. QED
    BY <2>1, <2>2 DEF CallersOK
<1>3. \A d \in Callers : /\ caller'[d].pc # "idle" <=> caller[d].pc # "idle"
                        /\ caller'[d].user = caller[d].user
  BY <1>1 DEF GoesOn
<1>4. Active' = Active /\ \A u : Holders(u)' = Holders(u)
  BY <1>3 DEF Active, Holders
<1>5. slots' = slots
  BY DEF GoesOn
<1>6. \A d \in Active' : caller'[d].user \in Users
  BY <1>3, <1>4 DEF LimiterOK, Active
<1>7. \A u \in Users : slots'[u] = Cardinality(Holders(u)') /\ slots'[u] <= MaxConcurrent
  BY <1>4, <1>5 DEF LimiterOK
<1>8. QED
  BY <1>2, <1>4, <1>5, <1>6, <1>7 DEF LimiterOK

\* A caller that starts or rests.
LEMMA CallersSet ==
    ASSUME CallersOK, NEW c \in Callers, NEW pc, NEW u,
           caller' = [caller EXCEPT ![c] = [NoCall EXCEPT !.pc = pc, !.user = u]]
    PROVE  /\ CallersOK'
           /\ caller'[c].pc = pc /\ caller'[c].user = u
           /\ \A d \in Callers : d # c => caller'[d] = caller[d]
<1>1. PICK r : r = [[NoCall EXCEPT !.pc = pc] EXCEPT !.user = u]
  OBVIOUS
<1>2. r = [pc |-> pc, user |-> u, id |-> 0, mem |-> "absent"]
  BY <1>1, FieldsUser DEF NoCall
<1>3. caller' = [d \in Callers |-> IF d = c THEN r ELSE caller[d]]
  BY <1>1, CallerFields
<1>4. \A d \in Callers : caller[d] = [pc |-> caller[d].pc, user |-> caller[d].user,
                                      id |-> caller[d].id, mem |-> caller[d].mem]
  BY CallerFields
<1>5. \A d \in Callers : caller'[d] = [pc |-> caller'[d].pc, user |-> caller'[d].user,
                                       id |-> caller'[d].id, mem |-> caller'[d].mem]
  BY <1>2, <1>3, <1>4
<1>6. caller' = [d \in Callers |-> caller'[d]]
  BY <1>3
<1>7. QED
  BY <1>2, <1>3, <1>5, <1>6 DEF CallersOK

LEMMA LimiterAcquire ==
    ASSUME LimiterOK, NEW c \in Callers, NEW u \in Users, Acquire(c, u)
    PROVE  LimiterOK'
<1>1. /\ CallersOK'
      /\ caller'[c].pc = "admitted" /\ caller'[c].user = u
      /\ \A d \in Callers : d # c => caller'[d] = caller[d]
  BY CallersSet DEF Acquire, LimiterOK
<1>3. caller[c].pc = "idle" /\ slots' = [slots EXCEPT ![u] = @ + 1] /\ slots[u] < MaxConcurrent
  BY DEF Acquire, HasSlot
<1>4. /\ Active' = Active \union {c} /\ c \notin Holders(u)
      /\ Holders(u)' = Holders(u) \union {c}
      /\ \A v : v # u => Holders(v)' = Holders(v)
  BY <1>1, <1>3 DEF Active, Holders
<1>5. IsFiniteSet(Active')
  BY <1>4, FS_AddElement DEF LimiterOK
<1>6. Cardinality(Holders(u)') = Cardinality(Holders(u)) + 1
  BY <1>4, HoldersFinite, FS_AddElement DEF LimiterOK
<1>7. slots' \in [Users -> Nat]
  BY <1>3 DEF LimiterOK
<1>8. \A d \in Active' : caller'[d].user \in Users
  BY <1>1 DEF Active, LimiterOK
<1>9. \A v \in Users : slots'[v] = Cardinality(Holders(v)') /\ slots'[v] <= MaxConcurrent
  <2>1. slots'[u] = slots[u] + 1 /\ slots[u] \in Nat /\ slots[u] = Cardinality(Holders(u))
    BY <1>3 DEF LimiterOK
  <2>2. slots'[u] = Cardinality(Holders(u)') /\ slots'[u] <= MaxConcurrent
    <3>1. PICK n \in Nat : n = slots[u] /\ n < MaxConcurrent
      BY <1>3, <2>1
    <3>2. n + 1 <= MaxConcurrent
      BY <3>1, MaxConcurrentAssumption
    <3>3. QED
      BY <1>6, <2>1, <3>1, <3>2
  <2>3. \A v \in Users : v # u => /\ slots'[v] = slots[v]
                                 /\ Holders(v)' = Holders(v)
                                 /\ slots[v] = Cardinality(Holders(v))
                                 /\ slots[v] <= MaxConcurrent
    BY <1>3, <1>4 DEF LimiterOK
  <2>4. QED
    BY <2>2, <2>3
<1>10. QED
  BY <1>1, <1>5, <1>7, <1>8, <1>9 DEF LimiterOK

LEMMA LimiterRelease ==
    ASSUME LimiterOK, NEW c \in Callers, Release(c)
    PROVE  LimiterOK'
<1>1. PICK u \in Users : caller[c].user = u
  BY DEF Release, LimiterOK, Active
<1>2. /\ CallersOK'
      /\ caller'[c].pc = "idle"
      /\ \A d \in Callers : d # c => caller'[d] = caller[d]
  <2>1. NoCall = [[NoCall EXCEPT !.pc = "idle"] EXCEPT !.user = NoUser]
    <3>1. PICK s : s = [[NoCall EXCEPT !.pc = "idle"] EXCEPT !.user = NoUser]
      OBVIOUS
    <3>2. s = NoCall
      BY <3>1, FieldsUser DEF NoCall
    <3>3. QED
      BY <3>1, <3>2
  <2>2. caller' = [caller EXCEPT ![c] = [NoCall EXCEPT !.pc = "idle", !.user = NoUser]]
    BY <2>1 DEF Release
  <2>3. QED
    BY <2>2, CallersSet DEF LimiterOK
<1>4. caller[c].pc = "finally" /\ slots' = [slots EXCEPT ![u] = IF @ <= 1 THEN 0 ELSE @ - 1]
  BY <1>1 DEF Release
<1>5. /\ Active' = Active \ {c} /\ c \in Holders(u)
      /\ Holders(u)' = Holders(u) \ {c}
      /\ \A v : v # u => Holders(v)' = Holders(v)
  BY <1>1, <1>2, <1>4 DEF Active, Holders
<1>6. IsFiniteSet(Active')
  BY <1>5, FS_RemoveElement DEF LimiterOK
<1>7. /\ Cardinality(Holders(u)') = Cardinality(Holders(u)) - 1
      /\ Cardinality(Holders(u)') \in Nat
  BY <1>5, HoldersFinite, FS_RemoveElement, FS_CardinalityType DEF LimiterOK
<1>8. slots[u] = Cardinality(Holders(u)) /\ slots[u] \in Nat /\ slots[u] >= 1
  BY <1>7 DEF LimiterOK
<1>9. slots'[u] = slots[u] - 1 /\ slots'[u] \in Nat
  BY <1>4, <1>8 DEF LimiterOK
<1>10. slots' \in [Users -> Nat] /\ \A v \in Users : v # u => slots'[v] = slots[v]
  BY <1>4, <1>9 DEF LimiterOK
<1>11. \A d \in Active' : caller'[d].user \in Users
  BY <1>2, <1>5 DEF Active, LimiterOK
<1>12. \A v \in Users : slots'[v] = Cardinality(Holders(v)') /\ slots'[v] <= MaxConcurrent
  BY <1>5, <1>7, <1>8, <1>9, <1>10, MaxConcurrentAssumption DEF LimiterOK
<1>13. QED
  BY <1>2, <1>6, <1>10, <1>11, <1>12 DEF LimiterOK

\* An API process that dies takes its requests and its limiter along.
LEMMA LimiterReset ==
    ASSUME caller' = [c \in Callers |-> NoCall], slots' = [u \in Users |-> 0]
    PROVE  LimiterOK'
<1>1. CallersOK' /\ Active' = {} /\ \A u : Holders(u)' = {}
  BY DEF NoCall, CallersOK, Active, Holders
<1>2. QED
  BY <1>1, FS_EmptySet, MaxConcurrentAssumption DEF LimiterOK

LEMMA LimiterStep == LimiterOK /\ [SyncNext]_execVars => LimiterOK'
<1> SUFFICES ASSUME LimiterOK, [SyncNext]_execVars PROVE LimiterOK'
  OBVIOUS
<1>1. CASE UNCHANGED <<caller, slots>>
  BY <1>1 DEF LimiterOK, CallersOK, Active, Holders
<1>2. ASSUME NEW c \in Callers, CallerStep(c)  PROVE LimiterOK'
  <2>1. CASE \E u \in Users : Acquire(c, u)
    BY <2>1, LimiterAcquire
  <2>2. CASE Release(c)
    BY <2>2, LimiterRelease
  <2>3. CASE \/ SyncReserve(c) \/ SyncCreate(c) \/ ReadNew(c)
             \/ SyncCreateFails(c) \/ SyncUnreserve(c)
             \/ StartJob(c) \/ Refresh(c) \/ EngineReturns(c)
             \/ RefundFailed(c) \/ MarkFailed(c) \/ PersistResult(c) \/ PersistRaises(c)
             \/ ReadSaved(c)
    BY <2>3, UnderWay, LimiterGoesOn DEF LimiterOK
  <2>4. QED
    BY <1>2, <2>1, <2>2, <2>3 DEF CallerStep
<1>3. CASE ApiCrash
  BY <1>3, LimiterReset DEF ApiCrash
<1>4. QED
  BY <1>1, <1>2, <1>3 DEF SyncNext, QueueStep, execVars, syncVars

\* The limiter counts exactly the synchronous requests under way, on every path
\* through the handler: no error, crash or full quota loses or invents a slot, and
\* a user never has more of them than the plan allows.
THEOREM SlotsAreExact == SyncSpec => []LimiterIsExact
<1>1. SyncInit => LimiterOK
  <2> SUFFICES ASSUME SyncInit PROVE LimiterOK
    OBVIOUS
  <2>1. CallersOK /\ Active = {} /\ \A u : Holders(u) = {}
    BY DEF SyncInit, NoCall, CallersOK, Active, Holders
  <2>2. QED
    BY <2>1, FS_EmptySet, MaxConcurrentAssumption DEF SyncInit, LimiterOK
<1>2. LimiterOK => LimiterIsExact
  BY DEF LimiterOK, LimiterIsExact, Holders
<1>3. QED
  BY <1>1, <1>2, LimiterStep, PTL DEF SyncSpec

-----------------------------------------------------------------------------
(* The jobs that synchronous requests execute.                             *)

\* Nobody but the request that made it has touched this job so far.
Mine(j) == job[j].worker = NoOne /\ ~job[j].overdue

\* The queue's part: what a worker has taken up, or let go by, is recognisable by
\* its row, also from an old snapshot, and what nobody has finished is not refunded.
RowsBalance ==
    \A j \in Jobs :
        /\ job[j].attempts # 0 => job[j].worker # NoOne
        /\ ~Exists(j) => refunds[j] = 0
        /\ Mine(j) => /\ job[j].status = "failed" => refunds[j] = 1
                      /\ job[j].status = "completed" => refunds[j] = 0

SnapshotsBalance ==
    \A w \in Workers : \A s \in worker[w].todo :
        /\ Exists(s.id)
        /\ s.attempts # 0 => job[s.id].worker # NoOne
        /\ s.overdue => job[s.id].overdue
        /\ worker[w].pc \in {"run", "complete", "fail", "fallback"} => job[s.id].worker # NoOne

\* The places of a request that has a job, and what is so at each as long as the
\* job is its own: the row's status and refunds, and the status in memory.
Executing == {"inserted", "created", "started", "engine", "persist", "failing",
              "recorded", "saved", "giveback", "giveup"}

Stage(pc, mem, status, n) ==
    /\ pc \notin {"giveback", "giveup"}
    /\ pc \in {"inserted", "created"} => status = "pending" /\ n = 0
    /\ pc = "created" => mem = "pending"
    /\ pc \in {"started", "engine", "persist", "failing"} => status = "running" /\ n = 0
    /\ pc \in {"engine", "persist", "failing", "recorded"} => mem = "running"
    /\ pc = "recorded" => status = "running" /\ n = 1
    /\ pc = "saved" => status = "completed" /\ n = 0

CallerBalance(c) ==
    LET j == caller[c].id
    IN /\ caller[c].pc \in {"admitted", "reserved", "unreserve"} => j \notin Jobs
       /\ caller[c].pc \in Executing =>
            /\ j \in Nat /\ j < nextId
            /\ j \in Jobs => /\ Exists(j)
                             /\ Mine(j) => Stage(caller[c].pc, caller[c].mem,
                                                 job[j].status, refunds[j])

\* No job has two requests.
OneCallerPerJob ==
    \A c, d \in Callers :
        /\ caller[c].pc \in Executing /\ caller[d].pc \in Executing
        /\ caller[c].id = caller[d].id
        => c = d

SyncInv == /\ RowsBalance /\ SnapshotsBalance /\ OneCallerPerJob
           /\ \A c \in Callers : CallerBalance(c)

\* A request that is about to be answered finds its row.
AnsweredRowsStay ==
    \A r \in Requests :
        request[r].pc = "inserted" /\ request[r].id \in Jobs => Exists(request[r].id)

-----------------------------------------------------------------------------
(* The rows keep their shape and their owners, also under a synchronous    *)
(* request, which writes status where it finds its row.                    *)

\* A synchronous request writes no more than the status of its row.
RowWritten(c) ==
    \/ UNCHANGED job
    \/ \E st \in {"running", "completed", "failed"} :
          Exists(caller[c].id) /\ SetStatus(caller[c].id, st)

\* What a caller's step leaves of the queue, unless it submits a job.
LeavesQueue(c) ==
    /\ RowWritten(c)
    /\ used' \in [Users -> Nat] /\ refunds' \in [Jobs -> 0 .. 2]
    /\ runs' \in [Jobs -> 0 .. MaxAttempts + 1] /\ leaked' \in [Users -> Nat]
    /\ faults' \in Nat
    /\ UNCHANGED <<rowLock, userLock, worker, request, deleter, nextId>>

LEMMA SetStatusRow ==
    ASSUME job \in [Jobs -> Row], NEW j, NEW st \in Statuses, SetStatus(j, st)
    PROVE  /\ job' \in [Jobs -> Row]
           /\ \A i \in Jobs : i # j => job'[i] = job[i]
           /\ j \in Jobs => /\ job'[j].status = st /\ job'[j].owner = job[j].owner
                            /\ job'[j].worker = job[j].worker
                            /\ job'[j].attempts = job[j].attempts
                            /\ job'[j].overdue = job[j].overdue
<1>1. CASE j \notin Jobs
  BY <1>1 DEF SetStatus
<1>2. CASE j \in Jobs
  <2>1. PICK r \in Row : r = job[j]
    BY <1>2
  <2>2. PICK b \in BOOLEAN : b = IF st = "running" /\ r.worker = NoOne THEN TRUE ELSE r.lapsed
    BY <2>1 DEF Row
  <2>3. job' = [job EXCEPT ![j] = [[r EXCEPT !.status = st] EXCEPT !.lapsed = b]]
    BY <1>2, <2>1, <2>2 DEF SetStatus
  <2>4. PICK q : q = [r EXCEPT !.status = st]
    OBVIOUS
  <2>5. q \in Row /\ q.status = st /\ q.owner = r.owner /\ q.worker = r.worker
        /\ q.attempts = r.attempts /\ q.overdue = r.overdue
    BY <2>4 DEF Row
  <2>6. PICK p : p = [q EXCEPT !.lapsed = b]
    OBVIOUS
  <2>7. p \in Row /\ p.status = st /\ p.owner = r.owner /\ p.worker = r.worker
        /\ p.attempts = r.attempts /\ p.overdue = r.overdue
    BY <2>5, <2>6 DEF Row
  <2>8. job' = [job EXCEPT ![j] = p]
    BY <2>3, <2>4, <2>6
  <2>9. QED
    BY <1>2, <2>1, <2>7, <2>8
<1>3. QED
  BY <1>1, <1>2

LEMMA LeavesType ==
    ASSUME ShapeOK, Ownership, NEW c \in Callers, LeavesQueue(c)
    PROVE  ShapeOK' /\ Ownership'
<1>1. job' \in [Jobs -> Row] /\ RowsOnlyGo
  <2>1. CASE UNCHANGED job
    BY <2>1 DEF LeavesQueue, RowsOnlyGo, Exists, ShapeOK
  <2>2. CASE ~UNCHANGED job
    <3>0. PICK st \in {"running", "completed", "failed"} :
              Exists(caller[c].id) /\ SetStatus(caller[c].id, st)
      BY <2>2 DEF LeavesQueue, RowWritten
    <3>1. PICK j : Exists(j) /\ SetStatus(j, st)
      BY <3>0
    <3>2. st \in Statuses
      BY DEF Statuses, Terminal
    <3>3. /\ job' \in [Jobs -> Row]
          /\ \A i \in Jobs : i # j => job'[i] = job[i]
          /\ j \in Jobs => job'[j].owner = job[j].owner
      BY <3>1, <3>2, SetStatusRow DEF ShapeOK
    <3>4. \A i \in Jobs : Exists(i)' => Exists(i) /\ job'[i].owner = job[i].owner
      BY <3>1, <3>3 DEF Exists
    <3>5. QED
      BY <3>3, <3>4 DEF LeavesQueue, RowsOnlyGo
  <2>3. QED
    BY <2>1, <2>2
<1>2. ShapeOK'
  BY <1>1 DEF LeavesQueue, ShapeOK
<1>3. Ownership'
  BY <1>1, OwnershipOfRows DEF LeavesQueue, Ownership, RequestsAreOwned
<1>4. QED
  BY <1>2, <1>3

\* The insert of a synchronous job, reported or not.
SyncInsert(c) == /\ SyncCreate(c) \/ SyncCreateFails(c)
                 /\ Insert(caller[c].user)

\* Every step of a caller but the insert of its job.
LEMMA CallerLeavesQueue ==
    ASSUME ShapeOK, NEW c \in Callers, CallerStep(c), ~SyncInsert(c)
    PROVE  LeavesQueue(c)
<1>1. CASE \/ \E u \in Users : Acquire(c, u)
           \/ Release(c) \/ ReadNew(c) \/ EngineReturns(c) \/ ReadSaved(c)
  BY <1>1 DEF Acquire, Release, ReadNew, EngineReturns, ReadSaved, vars, database, history,
              LeavesQueue, RowWritten, ShapeOK
<1>2. CASE SyncReserve(c)
  <2>1. used' \in [Users -> Nat]
    BY <1>2 DEF SyncReserve, ShapeOK
  <2>2. QED
    BY <1>2, <2>1 DEF SyncReserve, Keep, KeepHistory, LeavesQueue, RowWritten, ShapeOK
<1>3. CASE SyncCreateFails(c)
  <2>1. leaked' \in [Users -> Nat]
    <3>1. leaked \in [Users -> Nat] /\ \A u \in Users : leaked[u] + 1 \in Nat
      BY DEF ShapeOK
    <3>2. QED
      BY <1>3, <3>1 DEF SyncCreateFails, SyncInsert
  <2>2. faults' \in Nat
    BY <1>3 DEF SyncCreateFails, Fault, ShapeOK
  <2>3. UNCHANGED <<job, nextId>>
    BY <1>3 DEF SyncCreateFails, SyncInsert
  <2>4. QED
    BY <1>3, <2>1, <2>2, <2>3 DEF SyncCreateFails, Keep, LeavesQueue, RowWritten, ShapeOK
<1>4. CASE SyncUnreserve(c)
  <2>1. used' \in [Users -> Nat]
    BY <1>4, GiveBackType DEF SyncUnreserve, ShapeOK
  <2>2. refunds' \in [Jobs -> 0 .. 2]
    BY <1>4, CountRefundType DEF SyncUnreserve, ShapeOK
  <2>3. QED
    BY <1>4, <2>1, <2>2 DEF SyncUnreserve, Keep, LeavesQueue, RowWritten, ShapeOK
<1>5. CASE StartJob(c)
  <2>1. RowWritten(c)
    BY <1>5 DEF StartJob, RowWritten
  <2>2. runs' \in [Jobs -> 0 .. MaxAttempts + 1]
    BY <1>5, CountRunType DEF StartJob, ShapeOK
  <2>3. QED
    BY <1>5, <2>1, <2>2 DEF StartJob, Keep, LeavesQueue, ShapeOK
<1>6. CASE Refresh(c)
  <2>1. runs' \in [Jobs -> 0 .. MaxAttempts + 1]
    BY <1>6, CountRunType DEF Refresh, ShapeOK
  <2>2. QED
    BY <1>6, <2>1 DEF Refresh, Keep, database, LeavesQueue, RowWritten, ShapeOK
<1>7. CASE RefundFailed(c)
  <2>1. used' \in [Users -> Nat] /\ refunds' \in [Jobs -> 0 .. 2]
    BY <1>7, GiveBackType, CountRefundType DEF RefundFailed, ShapeOK
  <2>2. QED
    BY <1>7, <2>1 DEF RefundFailed, Keep, LeavesQueue, RowWritten, ShapeOK
<1>8. CASE MarkFailed(c)
  BY <1>8 DEF MarkFailed, Keep, KeepHistory, LeavesQueue, RowWritten, ShapeOK
<1>9. CASE PersistResult(c)
  BY <1>9 DEF PersistResult, Keep, KeepHistory, LeavesQueue, RowWritten, ShapeOK
<1>10. CASE PersistRaises(c)
  <2>1. faults' \in Nat
    BY <1>10 DEF PersistRaises, Fault, ShapeOK
  <2>2. QED
    BY <1>10, <2>1 DEF PersistRaises, Keep, KeepHistory, database, LeavesQueue, RowWritten, ShapeOK
<1>11. ~SyncCreate(c)
  BY DEF SyncCreate, SyncInsert
<1>12. QED
  BY <1>1, <1>2, <1>3, <1>4, <1>5, <1>6, <1>7, <1>8, <1>9, <1>10, <1>11 DEF CallerStep

LEMMA SyncInsertType ==
    ASSUME ShapeOK, Ownership, LimiterOK, NEW c \in Callers, SyncInsert(c)
    PROVE  ShapeOK' /\ Ownership'
<1>1. PICK u \in Users : u = caller[c].user
  BY DEF SyncInsert, SyncCreate, SyncCreateFails, LimiterOK, Active
<1>2. Insert(u)
  BY <1>1 DEF SyncInsert
<1>3. job' \in [Jobs -> Row] /\ nextId' \in Nat \ {0}
  BY <1>2, InsertType
<1>4. UNCHANGED <<rowLock, userLock, used, worker, request, deleter, refunds, runs>>
  BY DEF SyncInsert, SyncCreate, SyncCreateFails, Keep, KeepHistory
<1>5. leaked' \in [Users -> Nat] /\ faults' \in Nat
  <2>1. ~UNCHANGED nextId
    BY <1>2 DEF Insert, ShapeOK
  <2>2. QED
    BY <2>1 DEF SyncInsert, SyncCreate, SyncCreateFails, KeepHistory, Fault, ShapeOK
<1>6. ShapeOK'
  BY <1>3, <1>4, <1>5 DEF ShapeOK
<1>7. Ownership'
  BY <1>2, <1>4, OwnershipOfInsert DEF Ownership, RequestsAreOwned
<1>8. QED
  BY <1>6, <1>7

Sound == ShapeOK /\ Ownership /\ LimiterOK

LEMMA SoundAtFirst == SyncInit => Sound
<1> SUFFICES ASSUME SyncInit PROVE Sound
  OBVIOUS
<1>1. ShapeOK /\ Ownership
  BY InitIInv DEF SyncInit, IInv
<1>2. CallersOK /\ Active = {} /\ \A u : Holders(u) = {}
  BY DEF SyncInit, NoCall, CallersOK, Active, Holders
<1>3. LimiterOK
  BY <1>2, FS_EmptySet, MaxConcurrentAssumption DEF SyncInit, LimiterOK
<1>4. QED
  BY <1>1, <1>3 DEF Sound

LEMMA SoundStep == Sound /\ [SyncNext]_execVars => Sound'
<1> SUFFICES ASSUME Sound, [SyncNext]_execVars PROVE Sound'
  OBVIOUS
<1>1. LimiterOK'
  BY LimiterStep DEF Sound
<1>2. ASSUME [Next]_vars  PROVE ShapeOK' /\ Ownership'
  BY <1>2, ShapeStep, OwnershipStep DEF Sound, Ownership
<1>3. ASSUME NEW c \in Callers, CallerStep(c)  PROVE ShapeOK' /\ Ownership'
  BY <1>3, CallerLeavesQueue, LeavesType, SyncInsertType DEF Sound
<1>4. CASE ApiCrash
  <2>1. /\ faults' \in Nat
        /\ UNCHANGED <<job, rowLock, userLock, used, worker, request, deleter, nextId,
                       refunds, runs, leaked>>
    BY <1>4 DEF ApiCrash, Fault, Keep, database, history, Sound, ShapeOK
  <2>2. ShapeOK'
    BY <2>1 DEF Sound, ShapeOK
  <2>3. Ownership'
    BY <2>1 DEF Sound, Ownership, RowsAreOwned, RequestsAreOwned, SnapshotsAgree,
                OneSnapshotPerRow, Exists
  <2>4. QED
    BY <1>1, <2>2, <2>3 DEF Sound
<1>5. QED
  BY <1>1, <1>2, <1>3, <1>4 DEF SyncNext, QueueStep, execVars, Sound

-----------------------------------------------------------------------------
(* What the queue does to a row, when nobody deletes: the traces a worker  *)
(* or the passage of time leaves on it stay, and a row without any is as   *)
(* its request left it.                                                    *)

RowKept(j) ==
    /\ Exists(j) =>
          /\ Exists(j)'
          /\ job[j].worker # NoOne => job'[j].worker # NoOne
          /\ job[j].overdue => job'[j].overdue
          /\ Mine(j)' => job'[j].status = job[j].status /\ refunds'[j] = refunds[j]
    /\ ~Exists(j) =>
          /\ refunds'[j] = refunds[j]
          /\ Exists(j)' => job'[j].status = "pending"
    /\ job'[j].attempts # 0 => job'[j].worker # NoOne

LEMMA SameRow ==
    ASSUME RowsBalance, NEW j \in Jobs, job'[j] = job[j], refunds'[j] = refunds[j]
    PROVE  RowKept(j)
  BY DEF RowKept, RowsBalance, Mine, Exists

\* A worker ends jobs that bear its traces.
LEMMA EndedRow ==
    ASSUME job \in [Jobs -> Row], RowsBalance, NEW j \in Jobs, Exists(j), ~Mine(j),
           NEW st \in {"completed", "failed"}, job' = [job EXCEPT ![j].status = st]
    PROVE  RowKept(j)
<1>1. PICK r \in Row : r = job[j]
  OBVIOUS
<1>2. PICK q : q = [r EXCEPT !.status = st]
  OBVIOUS
<1>3. q.status = st /\ q.worker = r.worker /\ q.attempts = r.attempts /\ q.overdue = r.overdue
  BY <1>2 DEF Row
<1>4. job'[j] = q
  BY <1>1, <1>2
<1>5. QED
  BY <1>1, <1>3, <1>4 DEF RowKept, RowsBalance, Mine, Exists

LEMMA HandleKeepsRows ==
    ASSUME ShapeOK, RowsBalance, SnapshotsBalance,
           NEW w \in Workers, NEW s \in worker[w].todo, Handle(w, s)
    PROVE  \A j \in Jobs : RowKept(j)
<1>a. /\ s.id \in Jobs /\ s.attempts \in Nat /\ job \in [Jobs -> Row]
      /\ refunds \in [Jobs -> 0 .. 2] /\ w # NoOne
  BY ActorsAssumption DEF ShapeOK, WorkerState, Snapshot
<1>b. \A j \in Jobs : j # s.id /\ CountRefund(s.id) => refunds'[j] = refunds[j]
  BY <1>a DEF CountRefund
<1>1. CASE /\ Exists(s.id) /\ ~Mine(s.id)
           /\ \E st \in {"completed", "failed"} : job' = [job EXCEPT ![s.id].status = st]
           /\ refunds' = refunds \/ CountRefund(s.id)
  <2>1. PICK st \in {"completed", "failed"} : job' = [job EXCEPT ![s.id].status = st]
    BY <1>1
  <2>2. RowKept(s.id)
    BY <1>1, <1>a, <2>1, EndedRow
  <2>3. \A j \in Jobs : j # s.id => job'[j] = job[j] /\ refunds'[j] = refunds[j]
    BY <1>1, <1>a, <1>b, <2>1
  <2>4. QED
    BY <2>2, <2>3, SameRow
<1>2. CASE UNCHANGED <<job, refunds>>
  BY <1>2, SameRow
<1>3. CASE FailCandidate(w, s)
  <2>1. s.attempts # 0 \/ s.overdue
    BY <1>3, <1>a, MaxAttemptsAssumption DEF FailCandidate, Exhausted, Expired
  <2>2. ~Mine(s.id)
    BY <2>1 DEF SnapshotsBalance, Mine
  <2>3. QED
    BY <1>3, <1>1, <2>2 DEF FailCandidate, FailAndRefund
<1>4. CASE Complete(w, s) \/ PersistFails(w, s) \/ Fallback(w, s) \/ Fail(w, s)
  <2>1. worker[w].pc \in {"run", "complete", "fail", "fallback"}
    BY <1>4 DEF Complete, PersistFails, Fallback, Fail, At
  <2>2. ~Mine(s.id)
    BY <2>1 DEF SnapshotsBalance, Mine
  <2>3. QED
    BY <1>4, <1>1, <1>2, <2>2 DEF Complete, PersistFails, Fallback, Fail, FailAndRefund, history
<1>5. CASE Claim(w, s)
  <2>1. PICK r \in Row : r = job[s.id]
    BY <1>a
  <2>2. PICK row : row = ClaimedRow(s, w)
    OBVIOUS
  <2>3. row.worker = w /\ (Exists(s.id) => row.status # "absent")
        /\ (r.overdue => row.overdue)
    BY <2>1, <2>2 DEF ClaimedRow, Row, Exists
  <2>4. job'[s.id] = row
    BY <1>5, <1>a, <2>2 DEF Claim
  <2>5. RowKept(s.id)
    BY <1>5, <1>a, <2>1, <2>3, <2>4 DEF Claim, RowKept, Mine, Exists
  <2>6. \A j \in Jobs : j # s.id => job'[j] = job[j] /\ refunds'[j] = refunds[j]
    BY <1>5, <1>a DEF Claim
  <2>7. QED
    BY <2>5, <2>6, SameRow
<1>6. CASE CheckCapacity(w, s) \/ CandidateGone(w, s) \/ ReadBack(w, s)
  BY <1>6, <1>2 DEF CheckCapacity, CandidateGone, ReadBack, database, history
<1>7. QED
  BY <1>3, <1>4, <1>5, <1>6 DEF Handle

LEMMA InsertKeepsRows ==
    ASSUME ShapeOK, Ownership, RowsBalance, NEW u \in Users, refunds' = refunds, Insert(u)
    PROVE  \A j \in Jobs : RowKept(j)
<1>1. PICK row : /\ row = [NoRow EXCEPT !.status = "pending", !.owner = u]
                 /\ job' = [job EXCEPT ![nextId] = row]
  BY DEF Insert
<1>2. row.status = "pending" /\ row.attempts = 0
  BY <1>1 DEF NoRow
<1>3. nextId \in Nat /\ \A j \in Jobs : Exists(j) => j < nextId
  BY DEF ShapeOK, Ownership, RowsAreOwned
<1>4. nextId \in Jobs => ~Exists(nextId)
  BY <1>3
<1>5. \A j \in Jobs : j # nextId => job'[j] = job[j]
  BY <1>1 DEF ShapeOK
<1>6. nextId \in Jobs => job'[nextId] = row
  BY <1>1 DEF ShapeOK
<1>7. nextId \in Jobs => RowKept(nextId)
  BY <1>2, <1>4, <1>6 DEF RowKept, Exists
<1>8. QED
  BY <1>5, <1>7, SameRow

LEMMA TimeKeepsRows ==
    ASSUME ShapeOK, RowsBalance, NEW i \in Jobs, Lapse(i) \/ Age(i)
    PROVE  \A j \in Jobs : RowKept(j)
<1>1. PICK r \in Row : r = job[i]
  BY DEF ShapeOK
<1>2. refunds' = refunds /\ \A j \in Jobs : j # i => job'[j] = job[j]
  BY DEF Lapse, Age, ShapeOK, history
<1>3. CASE Lapse(i)
  <2>1. PICK row : row = [r EXCEPT !.lapsed = TRUE]
    OBVIOUS
  <2>2. /\ row.status = r.status /\ row.worker = r.worker /\ row.attempts = r.attempts
        /\ row.overdue = r.overdue
    BY <1>1, <2>1 DEF Row
  <2>3. job'[i] = row
    BY <1>1, <1>3, <2>1 DEF Lapse, ShapeOK
  <2>4. RowKept(i)
    BY <1>1, <1>2, <2>2, <2>3 DEF RowKept, RowsBalance, Mine, Exists
  <2>5. QED
    BY <1>2, <2>4, SameRow
<1>4. CASE Age(i)
  <2>1. PICK row : row = [r EXCEPT !.overdue = TRUE]
    OBVIOUS
  <2>2. /\ row.status = r.status /\ row.worker = r.worker /\ row.attempts = r.attempts
        /\ row.overdue
    BY <1>1, <2>1 DEF Row
  <2>3. job'[i] = row
    BY <1>1, <1>4, <2>1 DEF Age, ShapeOK
  <2>4. RowKept(i)
    BY <1>1, <1>2, <2>2, <2>3 DEF RowKept, RowsBalance, Mine, Exists
  <2>5. QED
    BY <1>2, <2>4, SameRow
<1>5. QED
  BY <1>3, <1>4

LEMMA QueueKeepsRows ==
    ASSUME Deleters = {}, ShapeOK, Ownership, RowsBalance, SnapshotsBalance,
           AnsweredRowsStay, [Next]_vars
    PROVE  \A j \in Jobs : RowKept(j)
<1>1. ASSUME UNCHANGED <<job, refunds>>  PROVE \A j \in Jobs : RowKept(j)
  BY <1>1, SameRow
<1>2. ASSUME NEW w \in Workers, Select(w) \/ ReturnNone(w) \/ DeadlockVictim(w) \/ Abort(w)
      PROVE  \A j \in Jobs : RowKept(j)
  BY <1>1, <1>2 DEF Select, ReturnNone, DeadlockVictim, Abort, history
<1>3. ASSUME NEW r \in Requests, RequestStep(r)
      PROVE  \A j \in Jobs : RowKept(j)
  <2>1. UNCHANGED refunds
    <3>1. CASE RefundReservation(r)
      <4>1. request[r].id \notin Jobs
        BY <3>1 DEF RefundReservation, AnsweredRowsStay
      <4>2. QED
        BY <3>1, <4>1 DEF RefundReservation, CountRefund, ShapeOK
    <3>2. QED
      BY <1>3, <3>1 DEF RequestStep, Reserve, Create, Created, CreateFails, Abandon, history
  <2>2. CASE request[r].pc = "reserved" /\ Insert(request[r].user)
    <3>1. PICK u \in Users : u = request[r].user
      BY <2>2 DEF Ownership, RequestsAreOwned
    <3>2. QED
      BY <2>1, <2>2, <3>1, InsertKeepsRows
  <2>3. QED
    BY <1>1, <1>3, <2>1, <2>2, RequestInserts
<1>4. CASE UNCHANGED vars
  BY <1>1, <1>4 DEF vars, database, history
<1>5. QED
  BY <1>2, <1>3, <1>4, HandleKeepsRows, TimeKeepsRows DEF Next, WorkerStep, Quiescent

\* Rows that are kept stay in balance.
LEMMA KeptRowsBalance ==
    ASSUME RowsBalance, \A j \in Jobs : RowKept(j)
    PROVE  RowsBalance'
  BY DEF RowsBalance, RowKept, Mine, Exists

\* A worker's snapshots are as old as its query, or new and exact; and it runs no
\* job it has not put its name to.
SnapshotsKept ==
    \A w \in Workers : \A s \in worker'[w].todo :
        \/ /\ s \in worker[w].todo
           /\ worker'[w].pc \in {"run", "complete", "fail", "fallback"} =>
                 \/ worker[w].pc \in {"run", "complete", "fail", "fallback"}
                 \/ job'[s.id].worker # NoOne
        \/ /\ s.id \in Jobs /\ Exists(s.id)
           /\ s.attempts = job[s.id].attempts /\ s.overdue = job[s.id].overdue
           /\ worker'[w].pc = "scan"

LEMMA KeptSnapshotsBalance ==
    ASSUME ShapeOK, RowsBalance, SnapshotsBalance, SnapshotsKept, \A j \in Jobs : RowKept(j)
    PROVE  SnapshotsBalance'
<1>1. SUFFICES ASSUME NEW w \in Workers, NEW s \in worker'[w].todo
               PROVE  /\ Exists(s.id)'
                      /\ s.attempts # 0 => job'[s.id].worker # NoOne
                      /\ s.overdue => job'[s.id].overdue
                      /\ worker'[w].pc \in {"run", "complete", "fail", "fallback"}
                            => job'[s.id].worker # NoOne
  BY DEF SnapshotsBalance, Exists
<1>2. CASE /\ s \in worker[w].todo
           /\ worker'[w].pc \in {"run", "complete", "fail", "fallback"} =>
                 \/ worker[w].pc \in {"run", "complete", "fail", "fallback"}
                 \/ job'[s.id].worker # NoOne
  <2>1. s.id \in Jobs /\ RowKept(s.id)
    BY <1>2 DEF ShapeOK, WorkerState, Snapshot
  <2>2. /\ Exists(s.id)
        /\ s.attempts # 0 => job[s.id].worker # NoOne
        /\ s.overdue => job[s.id].overdue
        /\ worker[w].pc \in {"run", "complete", "fail", "fallback"} => job[s.id].worker # NoOne
    BY <1>2 DEF SnapshotsBalance
  <2>3. QED
    BY <1>2, <2>1, <2>2 DEF RowKept
<1>3. CASE /\ s.id \in Jobs /\ Exists(s.id)
           /\ s.attempts = job[s.id].attempts /\ s.overdue = job[s.id].overdue
           /\ worker'[w].pc = "scan"
  BY <1>3 DEF RowKept, RowsBalance
<1>4. QED
  BY <1>2, <1>3 DEF SnapshotsKept

LEMMA HandleKeepsSnapshots ==
    ASSUME ShapeOK, NEW w \in Workers, NEW s \in worker[w].todo, Handle(w, s)
    PROVE  SnapshotsKept
<1>1. s.id \in Jobs /\ job \in [Jobs -> Row] /\ w # NoOne
  BY ActorsAssumption DEF ShapeOK, WorkerState, Snapshot
<1>2. ASSUME NEW pc, NEW todo, Become(w, pc, todo), todo \subseteq worker[w].todo,
             \/ pc \in {"idle", "scan", "claim"}
             \/ worker[w].pc \in {"run", "complete", "fail", "fallback"}
             \/ \A t \in todo : job'[t.id].worker # NoOne
      PROVE  SnapshotsKept
  <2>1. /\ worker'[w].pc = pc /\ worker'[w].todo = todo
        /\ \A v \in Workers : v # w => worker'[v] = worker[v]
    BY <1>2 DEF Become, ShapeOK
  <2>2. QED
    BY <1>2, <2>1 DEF SnapshotsKept
<1>3. {} \subseteq worker[w].todo /\ {s} \subseteq worker[w].todo
      /\ worker[w].todo \ {s} \subseteq worker[w].todo
  OBVIOUS
<1>4. CASE Claim(w, s)
  <2>1. PICK r \in Row : r = job[s.id]
    BY <1>1 DEF ShapeOK
  <2>2. ClaimedRow(s, w).worker = w
    BY <2>1 DEF ClaimedRow, Row
  <2>3. job'[s.id].worker # NoOne
    BY <1>1, <1>4, <2>2 DEF Claim
  <2>4. QED
    BY <1>2, <1>3, <1>4, <2>3 DEF Claim
<1>5. CASE FailCandidate(w, s) \/ CheckCapacity(w, s) \/ CandidateGone(w, s)
  BY <1>2, <1>3, <1>5 DEF FailCandidate, CheckCapacity, CandidateGone
<1>6. CASE ReadBack(w, s) \/ Complete(w, s) \/ PersistFails(w, s) \/ Fallback(w, s) \/ Fail(w, s)
  BY <1>2, <1>3, <1>6 DEF ReadBack, Complete, PersistFails, Fallback, Fail, At
<1>7. QED
  BY <1>4, <1>5, <1>6 DEF Handle

LEMMA QueueKeepsSnapshots ==
    ASSUME Deleters = {}, ShapeOK, [Next]_vars
    PROVE  SnapshotsKept
<1>1. ASSUME NEW w \in Workers, Select(w)  PROVE SnapshotsKept
  <2>1. /\ worker'[w].pc = "scan"
        /\ worker'[w].todo = {SnapshotOf(j) : j \in Candidates}
        /\ \A v \in Workers : v # w => worker'[v] = worker[v]
    BY <1>1 DEF Select, Become, ShapeOK
  <2>2. \A s \in worker'[w].todo : /\ s.id \in Jobs /\ Exists(s.id)
                                  /\ s.attempts = job[s.id].attempts
                                  /\ s.overdue = job[s.id].overdue
    <3>1. \A j \in Candidates : j \in Jobs /\ Exists(j)
      BY DEF Candidates, Eligible, Claimable, Exists
    <3>2. \A j : /\ SnapshotOf(j).id = j
                 /\ SnapshotOf(j).attempts = job[j].attempts
                 /\ SnapshotOf(j).overdue = job[j].overdue
      BY DEF SnapshotOf
    <3>3. QED
      BY <2>1, <3>1, <3>2
  <2>3. QED
    BY <2>1, <2>2 DEF SnapshotsKept
<1>2. ASSUME NEW w \in Workers, ReturnNone(w) \/ DeadlockVictim(w) \/ Abort(w)
      PROVE  SnapshotsKept
  <2>1. worker' = [worker EXCEPT ![w] = [pc |-> "idle", todo |-> {}]]
    BY <1>2 DEF ReturnNone, DeadlockVictim, Abort, Become
  <2>2. \A v \in Workers : worker'[v] = worker[v] \/ worker'[v].todo = {}
    BY <2>1 DEF ShapeOK
  <2>3. QED
    BY <2>2 DEF SnapshotsKept
<1>3. CASE \/ \E r \in Requests : RequestStep(r)
           \/ \E j \in Jobs : Lapse(j) \/ Age(j)
           \/ UNCHANGED vars
  <2>1. worker' = worker
    BY <1>3, RequestInserts DEF Lapse, Age, vars
  <2>2. QED
    BY <2>1 DEF SnapshotsKept
<1>4. QED
  BY <1>1, <1>2, <1>3, HandleKeepsSnapshots DEF Next, WorkerStep, Quiescent

LEMMA SameSnapshots ==
    ASSUME worker' = worker
    PROVE  SnapshotsKept
  BY DEF SnapshotsKept

-----------------------------------------------------------------------------
(* The steps of the queue, seen by the synchronous requests.               *)

LEMMA NextIdGrows ==
    ASSUME [Next]_vars
    PROVE  nextId' \in {nextId, nextId + 1}
<1>1. ASSUME NEW w \in Workers, WorkerStep(w) \/ DeadlockVictim(w) \/ Abort(w)
      PROVE  nextId' = nextId
  BY <1>1 DEF WorkerStep, Select, ReturnNone, DeadlockVictim, Abort, Handle, FailCandidate,
              CheckCapacity, Claim, CandidateGone, ReadBack, Complete, PersistFails,
              Fallback, Fail
<1>2. ASSUME NEW r \in Requests, RequestStep(r)  PROVE nextId' \in {nextId, nextId + 1}
  BY <1>2, RequestInserts DEF Insert
<1>3. ASSUME NEW d \in Deleters, DeleterStep(d)  PROVE nextId' = nextId
  BY <1>3 DEF DeleterStep, ReadForDelete, RefundDeleted, DeleteRow, AbandonDelete
<1>4. QED
  BY <1>1, <1>2, <1>3 DEF Next, Quiescent, Lapse, Age, vars

\* Whoever does not move keeps the balance, if its row is kept.
LEMMA KeptCallerBalance ==
    ASSUME ShapeOK, NEW c \in Callers, CallerBalance(c), caller'[c] = caller[c],
           nextId' \in {nextId, nextId + 1},
           caller[c].pc \in Executing /\ caller[c].id \in Jobs => RowKept(caller[c].id)
    PROVE  CallerBalance(c)'
<1>1. PICK j : j = caller[c].id
  OBVIOUS
<1>2. PICK pc, mem : pc = caller[c].pc /\ mem = caller[c].mem
  OBVIOUS
<1>3. pc \in Executing => j \in Nat /\ j < nextId'
  <2>1. nextId \in Nat /\ (nextId' = nextId \/ nextId' = nextId + 1)
    BY DEF ShapeOK
  <2>2. pc \in Executing => j \in Nat /\ j < nextId
    BY <1>1, <1>2 DEF CallerBalance
  <2>3. QED
    BY <2>1, <2>2
<1>4. ASSUME pc \in Executing, j \in Jobs
      PROVE  /\ Exists(j)'
             /\ Mine(j)' => Stage(pc, mem, job'[j].status, refunds'[j])
  <2>1. /\ Exists(j)
        /\ Mine(j) => Stage(pc, mem, job[j].status, refunds[j])
    BY <1>1, <1>2, <1>4 DEF CallerBalance
  <2>2. RowKept(j)
    BY <1>1, <1>2, <1>4
  <2>3. Mine(j)' => Mine(j) /\ job'[j].status = job[j].status /\ refunds'[j] = refunds[j]
    BY <2>1, <2>2 DEF RowKept, Mine
  <2>4. QED
    BY <2>1, <2>2, <2>3 DEF RowKept
<1>5. pc \in {"admitted", "reserved", "unreserve"} => j \notin Jobs
  BY <1>1, <1>2 DEF CallerBalance
<1>6. j = caller'[c].id /\ pc = caller'[c].pc /\ mem = caller'[c].mem
  BY <1>1, <1>2
<1>7. QED
  BY <1>3, <1>4, <1>5, <1>6 DEF CallerBalance, Exists, Mine

LEMMA QueueSync ==
    ASSUME Deleters = {}, Sound, SyncInv, AnsweredRowsStay, [Next]_vars, caller' = caller
    PROVE  SyncInv'
<1>1. \A j \in Jobs : RowKept(j)
  BY QueueKeepsRows DEF Sound, SyncInv
<1>2. RowsBalance' /\ SnapshotsBalance'
  BY <1>1, KeptRowsBalance, QueueKeepsSnapshots, KeptSnapshotsBalance DEF Sound, SyncInv
<1>3. OneCallerPerJob'
  BY DEF SyncInv, OneCallerPerJob
<1>4. \A c \in Callers : CallerBalance(c)'
  BY <1>1, NextIdGrows, KeptCallerBalance DEF Sound, SyncInv
<1>5. QED
  BY <1>2, <1>3, <1>4 DEF SyncInv

\* Where rows stay and no request moves, they stay answered.
LEMMA AnsweredRowsKept ==
    ASSUME AnsweredRowsStay, UNCHANGED request, \A j \in Jobs : Exists(j) => Exists(j)'
    PROVE  AnsweredRowsStay'
<1>1. \A j \in Jobs : job[j].status # "absent" => job'[j].status # "absent"
  BY DEF Exists
<1>2. QED
  BY <1>1 DEF AnsweredRowsStay, Exists

LEMMA QueueAnswers ==
    ASSUME Deleters = {}, Sound, SyncInv, AnsweredRowsStay, [Next]_vars
    PROVE  AnsweredRowsStay'
<1>1. \A j \in Jobs : Exists(j) => Exists(j)'
  BY QueueKeepsRows DEF Sound, SyncInv, RowKept
<1>2. ASSUME NEW r \in Requests, RequestStep(r)  PROVE AnsweredRowsStay'
  <2>1. SUFFICES ASSUME NEW q \in Requests, NEW i \in Jobs,
                        request'[q].pc = "inserted", request'[q].id = i
                 PROVE  job'[i].status # "absent"
    BY DEF AnsweredRowsStay, Exists
  <2>2. CASE request'[q] = request[q]
    BY <1>1, <2>1, <2>2 DEF AnsweredRowsStay, Exists
  <2>3. CASE Create(r) /\ q = r
    <3>1. i = nextId
      BY <2>1, <2>3 DEF Create, Sound, ShapeOK, RequestState
    <3>2. PICK row : /\ row = [NoRow EXCEPT !.status = "pending", !.owner = request[r].user]
                     /\ job' = [job EXCEPT ![nextId] = row]
      BY <2>3 DEF Create, Insert
    <3>3. row.status = "pending"
      BY <3>2 DEF NoRow
    <3>4. QED
      BY <3>1, <3>2, <3>3 DEF Sound, ShapeOK
  <2>4. ASSUME NEW u \in Users, Reserve(r, u), q = r  PROVE FALSE
    BY <2>1, <2>4 DEF Reserve, Sound, ShapeOK
  <2>5. CASE Answer(r) /\ q = r
    BY <2>1, <2>5 DEF Answer, Sound, ShapeOK
  <2>6. QED
    BY <1>2, <2>2, <2>3, <2>4, <2>5, OneRequestMoves
    DEF Sound, RequestStep, Created, RefundReservation, CreateFails, Abandon
<1>3. ASSUME NEW w \in Workers, WorkerStep(w) \/ DeadlockVictim(w) \/ Abort(w)
      PROVE  UNCHANGED request
  BY <1>3 DEF WorkerStep, Select, ReturnNone, DeadlockVictim, Abort, Handle, FailCandidate,
              CheckCapacity, Claim, CandidateGone, ReadBack, Complete, PersistFails,
              Fallback, Fail
<1>4. ASSUME NEW j \in Jobs, Lapse(j) \/ Age(j)  PROVE UNCHANGED request
  BY <1>4 DEF Lapse, Age
<1>5. QED
  BY <1>1, <1>2, <1>3, <1>4, AnsweredRowsKept DEF Next, Quiescent, vars

LEMMA CallerAnswers ==
    ASSUME Sound, AnsweredRowsStay, NEW c \in Callers, CallerStep(c)
    PROVE  AnsweredRowsStay'
<1>1. CASE ~SyncInsert(c)
  <2>1. RowWritten(c) /\ UNCHANGED request
    BY <1>1, CallerLeavesQueue DEF Sound, LeavesQueue
  <2>2. ASSUME NEW j, NEW st \in {"running", "completed", "failed"}, SetStatus(j, st)
        PROVE  \A i \in Jobs : Exists(i) => Exists(i)'
    <3>1. st \in Statuses /\ st # "absent"
      BY DEF Statuses, Terminal
    <3>2. QED
      BY <2>2, <3>1, SetStatusRow DEF Sound, ShapeOK, Exists
  <2>3. QED
    BY <2>1, <2>2, AnsweredRowsKept DEF RowWritten, Exists
<1>2. CASE SyncInsert(c)
  <2>1. PICK row : /\ row = [NoRow EXCEPT !.status = "pending", !.owner = caller[c].user]
                   /\ job' = [job EXCEPT ![nextId] = row]
    BY <1>2 DEF SyncInsert, Insert
  <2>2. row.status = "pending"
    BY <2>1 DEF NoRow
  <2>3. \A i \in Jobs : Exists(i) => Exists(i)'
    BY <2>1, <2>2 DEF Sound, ShapeOK, Exists
  <2>4. UNCHANGED request
    BY <1>2 DEF SyncInsert, SyncCreate, SyncCreateFails, Keep
  <2>5. QED
    BY <2>3, <2>4, AnsweredRowsKept
<1>3. QED
  BY <1>1, <1>2

-----------------------------------------------------------------------------
(* The steps of the synchronous requests.                                  *)

\* What the step of caller c, on its way to pc, may do to the row of its job.
OwnRowKept(c, pc, mem) ==
    LET j == caller[c].id
    IN j \in Jobs =>
         /\ Exists(j) <=> job'[j].status # "absent"
         /\ job'[j].worker = job[j].worker /\ job'[j].overdue = job[j].overdue
         /\ job'[j].attempts = job[j].attempts
         /\ ~Exists(j) => refunds'[j] = refunds[j]
         /\ Mine(j) => /\ job'[j].status = "failed" => refunds'[j] = 1
                       /\ job'[j].status = "completed" => refunds'[j] = 0
                       /\ pc \in Executing => Stage(pc, mem, job'[j].status, refunds'[j])

OthersKept(c) ==
    /\ \A j \in Jobs : j # caller[c].id => job'[j] = job[j] /\ refunds'[j] = refunds[j]
    /\ UNCHANGED <<worker, nextId>>

LEMMA CallerSync ==
    ASSUME Sound, SyncInv, NEW c \in Callers, NEW pc, NEW mem,
           MovesOn(c, pc, caller[c].id, mem), OwnRowKept(c, pc, mem), OthersKept(c),
           pc \in {"admitted", "reserved", "unreserve"} => caller[c].id \notin Jobs,
           pc \in Executing => caller[c].pc \in Executing,
           caller[c].pc \in Executing \/ UNCHANGED <<job, refunds>>
    PROVE  SyncInv'
<1>1. PICK j, u : j = caller[c].id /\ u = caller[c].user
  OBVIOUS
<1>2. /\ caller'[c] = [pc |-> pc, user |-> u, id |-> j, mem |-> mem]
      /\ \A d \in Callers : d # c => caller'[d] = caller[d]
  BY <1>1 DEF MovesOn
<1>3. \A i \in Jobs : i # j => RowKept(i)
  BY <1>1, SameRow DEF OthersKept, SyncInv
<1>4. RowsBalance'
  <2>1. SUFFICES ASSUME NEW i \in Jobs
                 PROVE  /\ job'[i].attempts # 0 => job'[i].worker # NoOne
                        /\ ~Exists(i)' => refunds'[i] = 0
                        /\ Mine(i)' => /\ job'[i].status = "failed" => refunds'[i] = 1
                                       /\ job'[i].status = "completed" => refunds'[i] = 0
    BY DEF RowsBalance, Exists, Mine
  <2>2. CASE i # j
    BY <1>3, <2>2 DEF RowKept, SyncInv, RowsBalance, Mine, Exists
  <2>3. CASE i = j
    BY <1>1, <2>3 DEF OwnRowKept, SyncInv, RowsBalance, Mine, Exists
  <2>4. QED
    BY <2>2, <2>3
<1>5. SnapshotsBalance'
  <2>1. \A i \in Jobs : /\ Exists(i) => Exists(i)'
                        /\ job'[i].worker = job[i].worker /\ job'[i].overdue = job[i].overdue
    BY <1>1 DEF OwnRowKept, OthersKept, Exists
  <2>2. \A w \in Workers : \A s \in worker[w].todo : s.id \in Jobs
    BY DEF Sound, ShapeOK, WorkerState, Snapshot
  <2>3. worker' = worker
    BY DEF OthersKept
  <2>4. QED
    BY <2>1, <2>2, <2>3 DEF SyncInv, SnapshotsBalance, Exists
<1>6. OneCallerPerJob'
  <2>1. \A d \in Callers : /\ caller'[d].pc \in Executing => caller[d].pc \in Executing
                           /\ caller'[d].id = caller[d].id
    BY <1>1, <1>2
  <2>2. QED
    BY <2>1 DEF SyncInv, OneCallerPerJob
<1>7. ASSUME NEW d \in Callers, d # c  PROVE CallerBalance(d)'
  <2>1. caller[d].pc \in Executing /\ caller[d].id \in Jobs => RowKept(caller[d].id)
    <3>1. ASSUME caller[d].pc \in Executing, caller[d].id = j, j \in Jobs  PROVE RowKept(j)
      <4>1. caller[c].pc \notin Executing
        BY <1>1, <1>7, <3>1 DEF SyncInv, OneCallerPerJob
      <4>2. job' = job /\ refunds' = refunds
        BY <4>1
      <4>3. QED
        BY <3>1, <4>2, SameRow DEF SyncInv
    <3>2. QED
      BY <1>3, <3>1
  <2>2. caller'[d] = caller[d] /\ nextId' \in {nextId, nextId + 1}
    BY <1>2, <1>7 DEF OthersKept
  <2>3. QED
    BY <2>1, <2>2, KeptCallerBalance DEF Sound, SyncInv
<1>8. CallerBalance(c)'
  <2>1. pc \in Executing => /\ j \in Nat /\ j < nextId'
                            /\ j \in Jobs => Exists(j)
    BY <1>1 DEF SyncInv, CallerBalance, OthersKept
  <2>2. ASSUME pc \in Executing, j \in Jobs
        PROVE  Exists(j)' /\ (Mine(j)' => Stage(pc, mem, job'[j].status, refunds'[j]))
    BY <1>1, <2>1, <2>2 DEF OwnRowKept, Mine, Exists
  <2>3. caller'[c].pc = pc /\ caller'[c].id = j /\ caller'[c].mem = mem
    BY <1>2
  <2>4. QED
    BY <1>1, <2>1, <2>2, <2>3 DEF CallerBalance, Exists, Mine
<1>9. QED
  BY <1>4, <1>5, <1>6, <1>7, <1>8 DEF SyncInv

\* A step that writes neither the row nor its refunds.
LEMMA RowUntouched ==
    ASSUME SyncInv, NEW c \in Callers, NEW pc, NEW mem,
           UNCHANGED <<job, refunds, worker, nextId>>,
           pc \in Executing /\ caller[c].id \in Jobs /\ Mine(caller[c].id) =>
               Stage(pc, mem, job[caller[c].id].status, refunds[caller[c].id])
    PROVE  OwnRowKept(c, pc, mem) /\ OthersKept(c)
  BY DEF OwnRowKept, OthersKept, SyncInv, RowsBalance, Mine, Exists

\* transition_job_status.
LEMMA RowMoved ==
    ASSUME job \in [Jobs -> Row], NEW c \in Callers, NEW pc, NEW mem,
           NEW st \in {"running", "completed", "failed"},
           Exists(caller[c].id), SetStatus(caller[c].id, st),
           UNCHANGED <<refunds, worker, nextId>>,
           caller[c].id \in Jobs /\ Mine(caller[c].id) =>
               /\ st = "failed" => refunds[caller[c].id] = 1
               /\ st = "completed" => refunds[caller[c].id] = 0
               /\ pc \in Executing => Stage(pc, mem, st, refunds[caller[c].id])
    PROVE  OwnRowKept(c, pc, mem) /\ OthersKept(c)
<1>1. PICK j : j = caller[c].id
  OBVIOUS
<1>2. st \in Statuses /\ st # "absent"
  BY DEF Statuses, Terminal
<1>3. /\ \A i \in Jobs : i # j => job'[i] = job[i]
      /\ j \in Jobs => /\ job'[j].status = st /\ job'[j].worker = job[j].worker
                       /\ job'[j].attempts = job[j].attempts
                       /\ job'[j].overdue = job[j].overdue
  BY <1>1, <1>2, SetStatusRow
<1>4. QED
  BY <1>1, <1>2, <1>3 DEF OwnRowKept, OthersKept, Exists

\* What CallerBalance says of a request that has its job, at its place.
LEMMA AtItsPlace ==
    ASSUME SyncInv, NEW c \in Callers, caller[c].pc \in Executing, caller[c].id \in Jobs
    PROVE  /\ Exists(caller[c].id)
           /\ Mine(caller[c].id) => Stage(caller[c].pc, caller[c].mem,
                                          job[caller[c].id].status, refunds[caller[c].id])
  BY DEF SyncInv, CallerBalance

LEMMA BeforeTheJob ==
    ASSUME Sound, SyncInv, NEW c \in Callers,
           \/ SyncReserve(c) \/ SyncUnreserve(c)
           \/ SyncCreateFails(c) /\ ~SyncInsert(c)
    PROVE  SyncInv'
<1>1. caller[c].id \notin Jobs /\ CallersOK
  BY DEF SyncReserve, SyncCreateFails, SyncUnreserve, SyncInv, CallerBalance, Sound, LimiterOK
<1>2. UNCHANGED <<job, refunds, worker, nextId>>
  <2>1. CASE SyncReserve(c) \/ (SyncCreateFails(c) /\ ~SyncInsert(c))
    BY <2>1 DEF SyncReserve, SyncCreateFails, SyncInsert, Keep, KeepHistory
  <2>2. CASE SyncUnreserve(c)
    <3>1. refunds' = refunds \/ CountRefund(caller[c].id)
      BY <2>2 DEF SyncUnreserve
    <3>2. CountRefund(caller[c].id) => refunds' = refunds
      BY <1>1 DEF CountRefund, Sound, ShapeOK
    <3>3. QED
      BY <2>2, <3>1, <3>2 DEF SyncUnreserve, Keep
  <2>3. QED
    BY <2>1, <2>2
<1>3. PICK pc : pc \in {"reserved", "unreserve", "finally"} /\ Goto(c, pc)
  BY DEF SyncReserve, SyncCreateFails, SyncUnreserve
<1>4. MovesOn(c, pc, caller[c].id, caller[c].mem) /\ pc \notin Executing
  BY <1>1, <1>3, GotoGoesOn DEF Executing
<1>5. OwnRowKept(c, pc, caller[c].mem) /\ OthersKept(c)
  BY <1>2, <1>4, RowUntouched
<1>6. QED
  BY <1>1, <1>2, <1>4, <1>5, CallerSync

LEMMA WithTheJob ==
    ASSUME Sound, SyncInv, NEW c \in Callers, caller[c].pc \in Executing,
           NEW pc, NEW mem, MovesOn(c, pc, caller[c].id, mem),
           pc \in Executing \union {"finally"},
           OwnRowKept(c, pc, mem), OthersKept(c)
    PROVE  SyncInv'
<1>1. pc \notin {"admitted", "reserved", "unreserve"}
  BY DEF Executing
<1>2. QED
  BY <1>1, CallerSync

LEMMA ReadNewSync ==
    ASSUME Sound, SyncInv, NEW c \in Callers, ReadNew(c)
    PROVE  SyncInv'
<1>1. /\ caller[c].pc = "inserted" /\ "inserted" \in Executing /\ CallersOK
      /\ UNCHANGED <<job, refunds, worker, nextId>>
  BY DEF ReadNew, vars, database, history, Executing, Sound, LimiterOK
<1>2. PICK pc, mem : /\ pc = IF Exists(caller[c].id) THEN "created" ELSE "unreserve"
                     /\ mem = job[caller[c].id].status
                     /\ caller' = [caller EXCEPT ![c].pc = pc, ![c].mem = mem]
  BY DEF ReadNew
<1>3. MovesOn(c, pc, caller[c].id, mem)
  BY <1>1, <1>2, SetTwoGoesOn
<1>4. caller[c].id \in Jobs => Exists(caller[c].id)
  BY <1>1, AtItsPlace
<1>5. caller[c].id \in Jobs /\ Mine(caller[c].id) =>
          job[caller[c].id].status = "pending" /\ refunds[caller[c].id] = 0
  BY <1>1, AtItsPlace DEF Stage
<1>6. pc \in Executing /\ caller[c].id \in Jobs /\ Mine(caller[c].id) =>
          Stage(pc, mem, job[caller[c].id].status, refunds[caller[c].id])
  BY <1>2, <1>4, <1>5 DEF Stage
<1>7. OwnRowKept(c, pc, mem) /\ OthersKept(c)
  BY <1>1, <1>6, RowUntouched
<1>8. pc \in {"admitted", "reserved", "unreserve"} => caller[c].id \notin Jobs
  BY <1>2, <1>4
<1>9. QED
  BY <1>1, <1>3, <1>7, <1>8, CallerSync

LEMMA StartJobSync ==
    ASSUME Sound, SyncInv, NEW c \in Callers, StartJob(c)
    PROVE  SyncInv'
<1>1. /\ caller[c].pc = "created" /\ "created" \in Executing /\ CallersOK
      /\ UNCHANGED <<refunds, worker, nextId>>
  BY DEF StartJob, Keep, Executing, Sound, LimiterOK
<1>2. caller[c].id \in Jobs /\ Mine(caller[c].id) =>
          /\ caller[c].mem = "pending" /\ refunds[caller[c].id] = 0
          /\ job[caller[c].id].status = "pending" /\ Exists(caller[c].id)
  BY <1>1, AtItsPlace DEF Stage
<1>3. ASSUME NEW pc, Goto(c, pc), pc \in {"engine", "finally"}, UNCHANGED job,
             caller[c].mem = "pending" => pc = "finally"
      PROVE  SyncInv'
  <2>1. MovesOn(c, pc, caller[c].id, caller[c].mem)
    BY <1>1, <1>3, GotoGoesOn
  <2>2. pc \in Executing /\ caller[c].id \in Jobs => ~Mine(caller[c].id)
    BY <1>2, <1>3 DEF Executing
  <2>3. OwnRowKept(c, pc, caller[c].mem) /\ OthersKept(c)
    BY <1>1, <1>3, <2>2, RowUntouched
  <2>4. pc \in Executing \union {"finally"}
    BY <1>3 DEF Executing
  <2>5. QED
    BY <1>1, <2>1, <2>3, <2>4, WithTheJob
<1>4. CASE Exists(caller[c].id) /\ SetStatus(caller[c].id, "running") /\ Goto(c, "started")
  <2>1. MovesOn(c, "started", caller[c].id, caller[c].mem)
    BY <1>1, <1>4, GotoGoesOn
  <2>2. caller[c].id \in Jobs /\ Mine(caller[c].id) =>
            Stage("started", caller[c].mem, "running", refunds[caller[c].id])
    BY <1>2 DEF Stage
  <2>3. OwnRowKept(c, "started", caller[c].mem) /\ OthersKept(c)
    BY <1>1, <1>4, <2>2, RowMoved DEF Sound, ShapeOK
  <2>4. "started" \in Executing
    BY DEF Executing
  <2>5. QED
    BY <1>1, <2>1, <2>3, <2>4, WithTheJob
<1>5. \/ Goto(c, "engine") /\ UNCHANGED job /\ caller[c].mem = "running"
      \/ Goto(c, "finally") /\ UNCHANGED job
      \/ Exists(caller[c].id) /\ SetStatus(caller[c].id, "running") /\ Goto(c, "started")
  BY DEF StartJob
<1>6. QED
  BY <1>3, <1>4, <1>5

LEMMA RefreshSync ==
    ASSUME Sound, SyncInv, NEW c \in Callers, Refresh(c)
    PROVE  SyncInv'
<1>1. /\ caller[c].pc = "started" /\ "started" \in Executing /\ CallersOK
      /\ UNCHANGED <<job, refunds, worker, nextId>>
  BY DEF Refresh, Keep, database, Executing, Sound, LimiterOK
<1>2. caller[c].id \in Jobs /\ Mine(caller[c].id) =>
          job[caller[c].id].status = "running" /\ refunds[caller[c].id] = 0
  BY <1>1, AtItsPlace DEF Stage
<1>3. CASE Goto(c, "finally")
  <2>1. MovesOn(c, "finally", caller[c].id, caller[c].mem)
    BY <1>1, <1>3, GotoGoesOn
  <2>2. OwnRowKept(c, "finally", caller[c].mem) /\ OthersKept(c)
    BY <1>1, RowUntouched DEF Executing
  <2>3. QED
    BY <1>1, <2>1, <2>2, WithTheJob
<1>4. CASE caller' = [caller EXCEPT ![c].pc = "engine", ![c].mem = job[caller[c].id].status]
  <2>1. PICK pc, mem : /\ pc = "engine" /\ mem = job[caller[c].id].status
                       /\ caller' = [caller EXCEPT ![c].pc = pc, ![c].mem = mem]
    BY <1>4
  <2>2. MovesOn(c, pc, caller[c].id, mem)
    BY <1>1, <2>1, SetTwoGoesOn
  <2>3. caller[c].id \in Jobs /\ Mine(caller[c].id) =>
            Stage(pc, mem, job[caller[c].id].status, refunds[caller[c].id])
    BY <1>2, <2>1 DEF Stage
  <2>4. OwnRowKept(c, pc, mem) /\ OthersKept(c)
    BY <1>1, <2>3, RowUntouched
  <2>5. pc \in Executing
    BY <2>1 DEF Executing
  <2>6. QED
    BY <1>1, <2>2, <2>4, <2>5, WithTheJob
<1>5. QED
  BY <1>3, <1>4 DEF Refresh

LEMMA EngineReturnsSync ==
    ASSUME Sound, SyncInv, NEW c \in Callers, EngineReturns(c)
    PROVE  SyncInv'
<1>1. /\ caller[c].pc = "engine" /\ "engine" \in Executing /\ CallersOK
      /\ UNCHANGED <<job, refunds, worker, nextId>>
  BY DEF EngineReturns, vars, database, history, Executing, Sound, LimiterOK
<1>2. PICK pc \in {"persist", "failing"} : Goto(c, pc)
  BY DEF EngineReturns
<1>3. MovesOn(c, pc, caller[c].id, caller[c].mem) /\ pc \in Executing
  BY <1>1, <1>2, GotoGoesOn DEF Executing
<1>4. caller[c].id \in Jobs /\ Mine(caller[c].id) =>
          Stage(pc, caller[c].mem, job[caller[c].id].status, refunds[caller[c].id])
  BY <1>1, <1>2, AtItsPlace DEF Stage
<1>5. OwnRowKept(c, pc, caller[c].mem) /\ OthersKept(c)
  BY <1>1, <1>4, RowUntouched
<1>6. QED
  BY <1>1, <1>3, <1>5, WithTheJob

\* The refund comes first, and the status after it.
LEMMA RefundFailedSync ==
    ASSUME Sound, SyncInv, NEW c \in Callers, RefundFailed(c)
    PROVE  SyncInv'
<1>1. /\ caller[c].pc \in {"failing", "giveback"} /\ caller[c].pc \in Executing /\ CallersOK
      /\ UNCHANGED <<job, worker, nextId>> /\ CountRefund(caller[c].id)
      /\ refunds \in [Jobs -> 0 .. 2]
  BY DEF RefundFailed, Keep, Executing, Sound, LimiterOK, ShapeOK
<1>2. PICK j, pc : /\ j = caller[c].id
                   /\ pc = IF caller[c].pc = "failing" THEN "recorded" ELSE "giveup"
                   /\ Goto(c, pc)
  BY DEF RefundFailed
<1>3. MovesOn(c, pc, caller[c].id, caller[c].mem) /\ pc \in Executing
  BY <1>1, <1>2, GotoGoesOn DEF Executing
<1>4. /\ \A i \in Jobs : i # j => refunds'[i] = refunds[i]
      /\ j \in Jobs /\ refunds[j] = 0 => refunds'[j] = 1
  BY <1>1, <1>2 DEF CountRefund
<1>5. j \in Jobs => Exists(j)
  BY <1>1, <1>2, AtItsPlace
<1>6. j \in Jobs /\ Mine(j) => /\ caller[c].pc = "failing" /\ pc = "recorded"
                               /\ caller[c].mem = "running" /\ job[j].status = "running"
                               /\ refunds[j] = 0
  BY <1>1, <1>2, AtItsPlace DEF Stage
<1>7. j \in Jobs /\ Mine(j) => Stage(pc, caller[c].mem, job[j].status, refunds'[j])
  BY <1>4, <1>6 DEF Stage
<1>8. OwnRowKept(c, pc, caller[c].mem) /\ OthersKept(c)
  BY <1>1, <1>2, <1>4, <1>5, <1>6, <1>7 DEF OwnRowKept, OthersKept, Exists
<1>9. QED
  BY <1>1, <1>3, <1>8, WithTheJob

LEMMA MarkFailedSync ==
    ASSUME Sound, SyncInv, NEW c \in Callers, MarkFailed(c)
    PROVE  SyncInv'
<1>1. /\ caller[c].pc \in {"recorded", "giveup"} /\ caller[c].pc \in Executing /\ CallersOK
      /\ UNCHANGED <<refunds, worker, nextId>> /\ Goto(c, "finally")
  BY DEF MarkFailed, Keep, KeepHistory, Executing, Sound, LimiterOK
<1>2. MovesOn(c, "finally", caller[c].id, caller[c].mem) /\ "finally" \notin Executing
  BY <1>1, GotoGoesOn DEF Executing
<1>3. caller[c].id \in Jobs /\ Mine(caller[c].id) => refunds[caller[c].id] = 1
  BY <1>1, AtItsPlace DEF Stage
<1>4. CASE UNCHANGED job
  BY <1>1, <1>2, <1>4, RowUntouched, WithTheJob
<1>5. CASE Exists(caller[c].id) /\ SetStatus(caller[c].id, "failed")
  <2>1. OwnRowKept(c, "finally", caller[c].mem) /\ OthersKept(c)
    BY <1>1, <1>2, <1>3, <1>5, RowMoved DEF Sound, ShapeOK
  <2>2. QED
    BY <1>1, <1>2, <2>1, WithTheJob
<1>6. QED
  BY <1>4, <1>5 DEF MarkFailed

LEMMA PersistSync ==
    ASSUME Sound, SyncInv, NEW c \in Callers, PersistResult(c) \/ PersistRaises(c)
    PROVE  SyncInv'
<1>1. /\ caller[c].pc = "persist" /\ "persist" \in Executing /\ CallersOK
      /\ UNCHANGED <<refunds, worker, nextId>>
  BY DEF PersistResult, PersistRaises, Keep, KeepHistory, Executing, Sound, LimiterOK
<1>2. caller[c].id \in Jobs /\ Mine(caller[c].id) =>
          caller[c].mem = "running" /\ refunds[caller[c].id] = 0
  BY <1>1, AtItsPlace DEF Stage
<1>3. ASSUME NEW pc, Goto(c, pc), UNCHANGED job,
             pc = "finally" \/ (pc = "giveback" /\ caller[c].mem # "running")
      PROVE  SyncInv'
  <2>1. MovesOn(c, pc, caller[c].id, caller[c].mem)
    BY <1>1, <1>3, GotoGoesOn
  <2>2. pc \in Executing /\ caller[c].id \in Jobs => ~Mine(caller[c].id)
    BY <1>2, <1>3 DEF Executing
  <2>3. OwnRowKept(c, pc, caller[c].mem) /\ OthersKept(c)
    BY <1>1, <1>3, <2>2, RowUntouched
  <2>4. pc \in Executing \union {"finally"}
    BY <1>3 DEF Executing
  <2>5. QED
    BY <1>1, <2>1, <2>3, <2>4, WithTheJob
<1>4. CASE /\ Exists(caller[c].id) /\ SetStatus(caller[c].id, "completed")
           /\ caller' = [caller EXCEPT ![c].pc = "saved", ![c].mem = "completed"]
  <2>1. MovesOn(c, "saved", caller[c].id, "completed") /\ "saved" \in Executing
    BY <1>1, <1>4, SetTwoGoesOn DEF Executing
  <2>2. caller[c].id \in Jobs /\ Mine(caller[c].id) =>
            Stage("saved", "completed", "completed", refunds[caller[c].id])
    BY <1>2 DEF Stage
  <2>3. OwnRowKept(c, "saved", "completed") /\ OthersKept(c)
    BY <1>1, <1>2, <1>4, <2>2, RowMoved DEF Sound, ShapeOK
  <2>4. QED
    BY <1>1, <2>1, <2>3, WithTheJob
<1>5. CASE PersistResult(c)
  BY <1>3, <1>4, <1>5 DEF PersistResult
<1>6. CASE PersistRaises(c)
  BY <1>3, <1>6 DEF PersistRaises, database
<1>7. QED
  BY <1>5, <1>6

\* The row has not gone, so the request is over.
LEMMA ReadSavedSync ==
    ASSUME Sound, SyncInv, NEW c \in Callers, ReadSaved(c)
    PROVE  SyncInv'
<1>1. /\ caller[c].pc = "saved" /\ "saved" \in Executing /\ CallersOK
      /\ UNCHANGED <<job, refunds, worker, nextId>>
  BY DEF ReadSaved, vars, database, history, Executing, Sound, LimiterOK
<1>2. PICK pc : /\ pc = IF Exists(caller[c].id) THEN "finally" ELSE "giveback"
                /\ Goto(c, pc)
  BY DEF ReadSaved
<1>3. MovesOn(c, pc, caller[c].id, caller[c].mem) /\ pc \in Executing \union {"finally"}
  BY <1>1, <1>2, GotoGoesOn DEF Executing
<1>4. caller[c].id \in Jobs => pc \notin Executing
  BY <1>1, <1>2, AtItsPlace DEF Executing
<1>5. OwnRowKept(c, pc, caller[c].mem) /\ OthersKept(c)
  BY <1>1, <1>4, RowUntouched
<1>6. QED
  BY <1>1, <1>3, <1>5, WithTheJob

\* The commit of the row took effect and was reported failed: the request gives up.
LEMMA SyncInsertLost ==
    ASSUME Sound, SyncInv, NEW c \in Callers, SyncCreateFails(c), SyncInsert(c)
    PROVE  SyncInv'
<1>1. PICK u \in Users : u = caller[c].user
  BY DEF SyncCreateFails, Sound, LimiterOK, Active
<1>2. Insert(u) /\ UNCHANGED <<worker, refunds>> /\ Goto(c, "finally") /\ CallersOK
  BY <1>1 DEF SyncInsert, SyncCreateFails, Keep, Sound, LimiterOK
<1>3. nextId' = nextId + 1
  BY <1>2 DEF Insert
<1>4. \A j \in Jobs : RowKept(j)
  BY <1>2, InsertKeepsRows DEF Sound, SyncInv
<1>5. RowsBalance' /\ SnapshotsBalance'
  BY <1>2, <1>4, KeptRowsBalance, SameSnapshots, KeptSnapshotsBalance DEF Sound, SyncInv
<1>6. MovesOn(c, "finally", caller[c].id, caller[c].mem)
  BY <1>2, GotoGoesOn
<1>7. /\ caller'[c].pc = "finally"
      /\ \A d \in Callers : d # c => caller'[d] = caller[d]
  BY <1>6 DEF MovesOn
<1>8. OneCallerPerJob'
  BY <1>7 DEF SyncInv, OneCallerPerJob, Executing
<1>9. ASSUME NEW d \in Callers  PROVE CallerBalance(d)'
  <2>1. CASE d # c
    BY <1>3, <1>4, <1>7, <2>1, KeptCallerBalance DEF Sound, SyncInv
  <2>2. CASE d = c
    BY <1>7, <2>2 DEF CallerBalance, Executing
  <2>3. QED
    BY <2>1, <2>2
<1>10. QED
  BY <1>5, <1>8, <1>9 DEF SyncInv

LEMMA SyncCreateSync ==
    ASSUME Sound, SyncInv, NEW c \in Callers, SyncCreate(c)
    PROVE  SyncInv'
<1>1. /\ CallersOK /\ UNCHANGED <<worker, refunds>> /\ nextId' = nextId + 1 /\ nextId \in Nat
      /\ caller[c].user \in Users
  BY DEF SyncCreate, Insert, Keep, KeepHistory, Sound, LimiterOK, Active, ShapeOK
<1>2. PICK pc, id, mem :
          /\ pc = "inserted" /\ id = nextId /\ mem = "pending"
          /\ caller' = [caller EXCEPT ![c].pc = pc, ![c].id = id, ![c].mem = mem]
  BY DEF SyncCreate
<1>3. MovesOn(c, pc, id, mem)
  BY <1>1, <1>2, SetThreeGoesOn
<1>4. PICK u \in Users : u = caller[c].user
  BY <1>1
<1>5. /\ caller'[c] = [pc |-> pc, user |-> u, id |-> id, mem |-> mem]
      /\ \A d \in Callers : d # c => caller'[d] = caller[d]
  BY <1>3, <1>4 DEF MovesOn
<1>6. Insert(u)
  BY <1>4 DEF SyncCreate
<1>7. \A j \in Jobs : RowKept(j)
  BY <1>1, <1>6, InsertKeepsRows DEF Sound, SyncInv
<1>8. RowsBalance' /\ SnapshotsBalance'
  BY <1>1, <1>7, KeptRowsBalance, SameSnapshots, KeptSnapshotsBalance DEF Sound, SyncInv
<1>9. ASSUME NEW d \in Callers, caller[d].pc \in Executing  PROVE caller[d].id # id
  <2>1. caller[d].id \in Nat /\ caller[d].id < nextId
    BY <1>9 DEF SyncInv, CallerBalance
  <2>2. QED
    BY <1>1, <1>2, <2>1
<1>10. OneCallerPerJob'
  <2>1. \A d \in Callers : d # c /\ caller'[d].pc \in Executing => caller'[d].id # id
    BY <1>5, <1>9
  <2>2. caller'[c].id = id
    BY <1>5
  <2>3. QED
    BY <1>5, <2>1, <2>2 DEF SyncInv, OneCallerPerJob
<1>11. ASSUME NEW d \in Callers, d # c  PROVE CallerBalance(d)'
  BY <1>1, <1>5, <1>7, <1>11, KeptCallerBalance DEF Sound, SyncInv
<1>12. CallerBalance(c)'
  <2>1. pc \notin {"admitted", "reserved", "unreserve"}
    BY <1>2
  <2>2. id \in Nat /\ id < nextId'
    BY <1>1, <1>2
  <2>3. ASSUME id \in Jobs
        PROVE  Exists(id)' /\ Stage(pc, mem, job'[id].status, refunds'[id])
    <3>1. PICK row : /\ row = [NoRow EXCEPT !.status = "pending", !.owner = u]
                     /\ job' = [job EXCEPT ![nextId] = row]
      BY <1>6 DEF Insert
    <3>2. row.status = "pending"
      BY <3>1 DEF NoRow
    <3>3. job'[id] = row
      BY <1>2, <2>3, <3>1 DEF Sound, ShapeOK
    <3>4. ~Exists(id)
      BY <1>1, <1>2, <2>3 DEF Sound, Ownership, RowsAreOwned
    <3>5. refunds'[id] = 0
      BY <1>1, <2>3, <3>4 DEF SyncInv, RowsBalance
    <3>6. QED
      BY <1>2, <3>2, <3>3, <3>5 DEF Exists, Stage
  <2>4. caller'[c].pc = pc /\ caller'[c].id = id /\ caller'[c].mem = mem
    BY <1>5
  <2>5. QED
    BY <2>1, <2>2, <2>3, <2>4 DEF CallerBalance, Exists, Mine
<1>13. QED
  BY <1>8, <1>10, <1>11, <1>12 DEF SyncInv

\* A request comes, answers, or dies with its process.
LEMMA ComeAndGoSync ==
    ASSUME Sound, SyncInv, UNCHANGED <<job, refunds, worker, nextId>>,
           \A c \in Callers : \/ caller'[c] = caller[c]
                              \/ caller'[c].pc = "admitted" /\ caller'[c].id = 0
                              \/ caller'[c].pc = "idle"
    PROVE  SyncInv'
<1>1. \A j \in Jobs : RowKept(j)
  BY SameRow DEF SyncInv
<1>2. RowsBalance' /\ SnapshotsBalance'
  BY <1>1, KeptRowsBalance, SameSnapshots, KeptSnapshotsBalance DEF Sound, SyncInv
<1>3. OneCallerPerJob'
  BY DEF SyncInv, OneCallerPerJob, Executing
<1>4. ASSUME NEW c \in Callers  PROVE CallerBalance(c)'
  <2>1. CASE caller'[c] = caller[c]
    BY <1>1, <2>1, KeptCallerBalance DEF Sound, SyncInv
  <2>2. CASE caller'[c].pc = "admitted" /\ caller'[c].id = 0
    <3>1. 0 \notin Jobs
      BY MaxJobsAssumption DEF Jobs
    <3>2. QED
      BY <2>2, <3>1 DEF CallerBalance, Executing
  <2>3. CASE caller'[c].pc = "idle"
    BY <2>3 DEF CallerBalance, Executing
  <2>4. QED
    BY <2>1, <2>2, <2>3
<1>5. QED
  BY <1>2, <1>3, <1>4 DEF SyncInv

LEMMA CallerStepSync ==
    ASSUME Sound, SyncInv, NEW c \in Callers, CallerStep(c)
    PROVE  SyncInv'
<1>1. ASSUME NEW u \in Users, Acquire(c, u)  PROVE SyncInv'
  <2>1. PICK r : r = [[NoCall EXCEPT !.pc = "admitted"] EXCEPT !.user = u]
    OBVIOUS
  <2>2. r = [pc |-> "admitted", user |-> u, id |-> 0, mem |-> "absent"]
    BY <2>1, FieldsUser DEF NoCall
  <2>3. caller' = [caller EXCEPT ![c] = r]
    BY <1>1, <2>1 DEF Acquire
  <2>4. \A d \in Callers : \/ caller'[d] = caller[d]
                           \/ caller'[d].pc = "admitted" /\ caller'[d].id = 0
    BY <2>2, <2>3 DEF Sound, LimiterOK, CallersOK
  <2>5. UNCHANGED <<job, refunds, worker, nextId>>
    BY <1>1 DEF Acquire, vars, database, history
  <2>6. QED
    BY <2>4, <2>5, ComeAndGoSync
<1>2. CASE Release(c)
  <2>1. caller' = [caller EXCEPT ![c] = NoCall]
    BY <1>2 DEF Release
  <2>2. \A d \in Callers : caller'[d] = caller[d] \/ caller'[d].pc = "idle"
    BY <2>1 DEF Sound, LimiterOK, CallersOK, NoCall
  <2>3. UNCHANGED <<job, refunds, worker, nextId>>
    BY <1>2 DEF Release, vars, database, history
  <2>4. QED
    BY <2>2, <2>3, ComeAndGoSync
<1>3. QED
  BY <1>1, <1>2, BeforeTheJob, SyncInsertLost, SyncCreateSync, ReadNewSync, StartJobSync,
     RefreshSync, EngineReturnsSync, RefundFailedSync, MarkFailedSync, PersistSync,
     ReadSavedSync DEF CallerStep

\* Without deletions, a job that only its synchronous request has worked on ends
\* with its quota settled: refunded once if it failed, and not if it completed,
\* although the refund and the status are separate transactions of a session that
\* decides on what it remembers, and whatever the workers do to the other rows.
\* For any number of requests, workers and jobs, and with commits that take
\* effect although they are reported failed.
THEOREM SyncJobsBalance ==
    ASSUME Deleters = {}
    PROVE  SyncSpec => []SyncOutcomesBalance
<1>1. SyncInit => Sound /\ SyncInv /\ AnsweredRowsStay
  <2> SUFFICES ASSUME SyncInit PROVE Sound /\ SyncInv /\ AnsweredRowsStay
    OBVIOUS
  <2>1. Sound
    BY SoundAtFirst
  <2>4. \A j \in Jobs : job[j] = NoRow /\ refunds[j] = 0
    BY DEF SyncInit, Init
  <2>5. RowsBalance
    BY <2>4 DEF RowsBalance, NoRow
  <2>6. SnapshotsBalance
    BY DEF SyncInit, Init, SnapshotsBalance
  <2>7. \A c \in Callers : caller[c].pc = "idle"
    BY DEF SyncInit, NoCall
  <2>8. OneCallerPerJob /\ \A c \in Callers : CallerBalance(c)
    BY <2>7 DEF OneCallerPerJob, CallerBalance, Executing
  <2>9. AnsweredRowsStay
    BY DEF SyncInit, Init, AnsweredRowsStay
  <2>10. QED
    BY <2>1, <2>5, <2>6, <2>8, <2>9 DEF SyncInv
<1>2. /\ Sound /\ SyncInv /\ AnsweredRowsStay /\ [SyncNext]_execVars
      => (Sound /\ SyncInv /\ AnsweredRowsStay)'
  <2> SUFFICES ASSUME Sound, SyncInv, AnsweredRowsStay, [SyncNext]_execVars
               PROVE  Sound' /\ SyncInv' /\ AnsweredRowsStay'
    OBVIOUS
  <2>1. Sound'
    BY SoundStep
  <2>2. CASE [Next]_vars /\ caller' = caller
    BY <2>1, <2>2, QueueSync, QueueAnswers
  <2>3. CASE ApiCrash
    <3>1. UNCHANGED <<job, refunds, worker, request, nextId>>
      BY <2>3 DEF ApiCrash, Keep, database, history
    <3>2. \A c \in Callers : caller'[c].pc = "idle"
      BY <2>3 DEF ApiCrash, NoCall
    <3>3. AnsweredRowsStay'
      BY <3>1, AnsweredRowsKept DEF Exists
    <3>4. QED
      BY <2>1, <3>1, <3>2, <3>3, ComeAndGoSync
  <2>4. QED
    BY <2>1, <2>2, <2>3, CallerStepSync, CallerAnswers DEF SyncNext, QueueStep, execVars, syncVars
<1>3. SyncInv => SyncOutcomesBalance
  BY DEF SyncInv, RowsBalance, SyncOutcomesBalance, Mine
<1>4. QED
  BY <1>1, <1>2, <1>3, PTL DEF SyncSpec

=============================================================================
