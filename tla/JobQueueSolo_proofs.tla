------------------------- MODULE JobQueueSolo_proofs -------------------------
(***************************************************************************)
(* Proofs about JobQueue in the simplest deployment there is: one worker   *)
(* scans the queue, nobody deletes, and a commit that is reported failed   *)
(* was not made.  Users, requests, jobs, crashes and limits are any number. *)
(* Every one of the three is needed: TerminalIsFinal fails with a second   *)
(* worker, which the runs show, and with a commit reported failed by       *)
(* mistake; RefundMatchesOutcome fails with a deletion.                    *)
(***************************************************************************)
EXTENDS JobQueueRefinement, WorkerTelemetry, JobQueue_proofs, Induction_proofs

Solo == /\ \A v, w \in Workers : v = w
        /\ Deleters = {}
        /\ LostAcks = FALSE

-----------------------------------------------------------------------------
(* The inductive invariant, on top of that of JobQueue_proofs.             *)

\* What a row, its refunds and its engine runs have to do with one another.
RowsAddUp ==
    \A j \in Jobs :
        /\ refunds[j] = IF job[j].status = "failed" THEN 1 ELSE 0
        /\ runs[j] = job[j].attempts /\ runs[j] <= MaxAttempts
        /\ job[j].status \in {"absent", "pending"} => job[j].attempts = 0
        /\ job[j].status = "absent" => job[j].owner = NoUser

\* A scanning worker's list is up to date in what only a worker writes, although
\* it keeps the list when it has lost the locks; and the job a worker has claimed
\* is running until the worker says otherwise.
ListsAreFresh ==
    \A w \in Workers : \A s \in worker[w].todo :
        IF worker[w].pc \in {"scan", "claim"}
          THEN /\ job[s.id].status = s.status
               /\ job[s.id].attempts = s.attempts
               /\ s.status = "running" => job[s.id].lapsed
          ELSE job[s.id].status = "running"

\* Row locks are held by a scan, and by nothing else.
ScansHoldLocks ==
    \A w \in Workers : \A j \in Jobs :
        rowLock[j] = w => worker[w].pc \in {"scan", "claim"}

Before(i, j) == Precedes(i, j) /\ job[i].status = "pending"

\* No job has overtaken one of its owner that precedes it and is still pending.
NoneOvertaken ==
    \A i, j \in Jobs : Before(i, j) => job[j].status # "running"

\* The pending jobs that precede a candidate are candidates as well, or have been
\* passed over because the owner has no room.
ScansAreInOrder ==
    \A w \in Workers : \A s \in worker[w].todo :
        worker[w].pc \in {"scan", "claim"} =>
            \A i \in Jobs : Before(i, s.id) =>
                \/ \E t \in worker[w].todo : t.id = i
                \/ /\ Cardinality(Running(s.owner)) >= MaxConcurrent
                   /\ \A t \in worker[w].todo : Older(i, t.id)

\* A candidate that is about to be claimed has attempts left.
ClaimsAreDue ==
    \A w \in Workers : \A s \in worker[w].todo : At(w, s, "claim") => ~Exhausted(s)

\* Everybody who is submitting will find an id.
IdsSuffice ==
    /\ IsFiniteSet(Waiting("reserved"))
    /\ nextId + Cardinality(Waiting("reserved")) <= MaxJobs + 1

\* The row of a request that has inserted it is there to be refreshed.
InsertedRowsStay ==
    \A r \in Requests :
        request[r].pc = "inserted" => request[r].id \in Jobs /\ Exists(request[r].id)

SInv == /\ RowsAddUp /\ ListsAreFresh /\ ScansHoldLocks /\ ClaimsAreDue
        /\ NoneOvertaken /\ ScansAreInOrder
        /\ IdsSuffice /\ InsertedRowsStay

-----------------------------------------------------------------------------
(* What a step does to the rows: it keeps them, but for one that goes one  *)
(* step along its lifecycle.                                               *)

Kept(i) == /\ job'[i].status = job[i].status
           /\ job'[i].owner = job[i].owner
           /\ job'[i].attempts = job[i].attempts
           /\ job[i].lapsed => job'[i].lapsed
           /\ refunds'[i] = refunds[i] /\ runs'[i] = runs[i]

Goes(j, from, to) == /\ job[j].status = from /\ job'[j].status = to
                     /\ job'[j].owner = job[j].owner

Submitted(j) == /\ j = nextId
                /\ job[j].status = "absent" /\ job'[j].status = "pending"
                /\ job'[j].owner \in Users /\ job'[j].attempts = 0
                /\ refunds'[j] = refunds[j] /\ runs'[j] = runs[j]

Failed(j) == /\ \E from \in {"pending", "running"} : Goes(j, from, "failed")
             /\ job'[j].attempts = job[j].attempts /\ runs'[j] = runs[j]
             /\ refunds'[j] = 1

Started(j) == /\ Goes(j, "pending", "running")
              /\ job'[j].attempts = 1 /\ runs'[j] = 1
              /\ refunds'[j] = refunds[j]

Retried(j) == /\ Goes(j, "running", "running")
              /\ job[j].lapsed
              /\ runs[j] < MaxAttempts /\ runs'[j] = runs[j] + 1
              /\ job'[j].attempts = job[j].attempts + 1
              /\ refunds'[j] = refunds[j]

Completed(j) == /\ Goes(j, "running", "completed")
                /\ job'[j].attempts = job[j].attempts
                /\ runs'[j] = runs[j] /\ refunds'[j] = refunds[j]

Moved(j) == Submitted(j) \/ Failed(j) \/ Started(j) \/ Retried(j) \/ Completed(j)

AllKept == \A i \in Jobs : Kept(i)

OneMoved(j) == /\ j \in Jobs /\ Moved(j)
               /\ \A i \in Jobs : i # j => Kept(i)

LEMMA SnapshotFacts ==
    ASSUME IInv, NEW w \in Workers, NEW s \in worker[w].todo
    PROVE  /\ s.id \in Jobs /\ s.owner \in Users /\ s.attempts \in Nat
           /\ s.status \in {"pending", "running"}
           /\ job[s.id] \in Row /\ s.id < nextId
           /\ Exists(s.id) => job[s.id].owner = s.owner
  BY DEF IInv, ShapeOK, WorkerState, Snapshot, Ownership, SnapshotsAgree

LEMMA Rows == ASSUME IInv PROVE /\ job \in [Jobs -> Row]
                                /\ refunds \in [Jobs -> 0 .. 2]
                                /\ runs \in [Jobs -> 0 .. MaxAttempts + 1]
                                /\ worker \in [Workers -> WorkerState]
  BY DEF IInv, ShapeOK

\* A step that writes no row, refunds nothing and runs nothing.
LEMMA QuietRows ==
    ASSUME UNCHANGED <<job, refunds, runs>>
    PROVE  AllKept
  BY DEF AllKept, Kept

\* Failing a live job and giving its quota back.
LEMMA FailingMoves ==
    ASSUME IInv, RowsAddUp, NEW j \in Jobs, NEW u,
           job[j].status \in {"pending", "running"},
           FailAndRefund(j, u), UNCHANGED runs
    PROVE  OneMoved(j)
<1>1. job \in [Jobs -> Row] /\ refunds \in [Jobs -> 0 .. 2]
  BY Rows
<1>2. refunds[j] = 0
  BY DEF RowsAddUp
<1>3. job' = [job EXCEPT ![j].status = "failed"]
  BY DEF FailAndRefund
<1>4. /\ job'[j].status = "failed"
      /\ job'[j].owner = job[j].owner /\ job'[j].attempts = job[j].attempts
  BY <1>1, <1>3 DEF Row
<1>5. refunds' = [refunds EXCEPT ![j] = IF @ < 2 THEN @ + 1 ELSE @]
  BY DEF FailAndRefund, CountRefund
<1>6. refunds'[j] = 1
  BY <1>1, <1>2, <1>5
<1>7. Failed(j)
  BY <1>4, <1>6 DEF Failed, Goes
<1>8. \A i \in Jobs : i # j => Kept(i)
  BY <1>1, <1>3, <1>5 DEF Kept
<1>9. QED
  BY <1>7, <1>8 DEF OneMoved, Moved

\* Completing the job a worker has run.
LEMMA CompletingMoves ==
    ASSUME IInv, NEW j \in Jobs, job[j].status = "running",
           job' = [job EXCEPT ![j].status = "completed"], UNCHANGED <<refunds, runs>>
    PROVE  OneMoved(j)
<1>1. job \in [Jobs -> Row]
  BY Rows
<1>2. /\ job'[j].status = "completed"
      /\ job'[j].owner = job[j].owner /\ job'[j].attempts = job[j].attempts
  BY <1>1 DEF Row
<1>3. Completed(j)
  BY <1>2 DEF Completed, Goes
<1>4. \A i \in Jobs : i # j => Kept(i)
  BY <1>1 DEF Kept
<1>5. QED
  BY <1>3, <1>4 DEF OneMoved, Moved

\* Claiming a candidate: the snapshot is right about the row, and a stuck job is
\* only claimed while it has attempts left.
LEMMA ClaimingMoves ==
    ASSUME IInv, RowsAddUp, ListsAreFresh,
           NEW w \in Workers, NEW s \in worker[w].todo, Claim(w, s), ~Exhausted(s)
    PROVE  OneMoved(s.id) /\ (Started(s.id) \/ Retried(s.id))
<1>1. job \in [Jobs -> Row] /\ runs \in [Jobs -> 0 .. MaxAttempts + 1]
  BY Rows
<1>2. /\ s.id \in Jobs /\ s.attempts \in Nat /\ s.status \in {"pending", "running"}
      /\ job[s.id] \in Row
  BY SnapshotFacts
<1>3. /\ job[s.id].status = s.status /\ job[s.id].attempts = s.attempts
      /\ s.status = "running" => job[s.id].lapsed
  BY DEF ListsAreFresh, Claim, At
<1>4. /\ runs[s.id] = s.attempts /\ runs[s.id] <= MaxAttempts
      /\ s.status = "pending" => s.attempts = 0
  BY <1>2, <1>3 DEF RowsAddUp
<1>5. job' = [job EXCEPT ![s.id] = ClaimedRow(s, w)]
  BY DEF Claim
<1>6. /\ ClaimedRow(s, w).status = "running"
      /\ ClaimedRow(s, w).owner = job[s.id].owner
      /\ ClaimedRow(s, w).attempts = s.attempts + 1
  BY <1>2, <1>3 DEF ClaimedRow, Row
<1>7. /\ job'[s.id].status = "running"
      /\ job'[s.id].owner = job[s.id].owner
      /\ job'[s.id].attempts = s.attempts + 1
  BY <1>1, <1>2, <1>5, <1>6
<1>8. runs' = [runs EXCEPT ![s.id] = IF @ <= MaxAttempts THEN @ + 1 ELSE @]
  BY DEF Claim, CountRun
<1>9. runs'[s.id] = s.attempts + 1
  BY <1>1, <1>2, <1>4, <1>8
<1>10. UNCHANGED refunds
  BY DEF Claim
<1>11. \A i \in Jobs : i # s.id => Kept(i)
  BY <1>1, <1>5, <1>8, <1>10 DEF Kept
<1>12. CASE s.status = "pending"
  <2>1. s.attempts + 1 = 1
    BY <1>4, <1>12
  <2>2. Started(s.id)
    BY <1>3, <1>7, <1>9, <1>10, <1>12, <2>1 DEF Started, Goes
  <2>3. QED
    BY <1>2, <1>11, <2>2 DEF OneMoved, Moved
<1>13. CASE s.status = "running"
  <2>1. s.attempts < MaxAttempts
    BY <1>2, <1>13, MaxAttemptsAssumption DEF Exhausted
  <2>2. Retried(s.id)
    BY <1>3, <1>4, <1>7, <1>9, <1>10, <1>13, <2>1 DEF Retried, Goes
  <2>3. QED
    BY <1>2, <1>11, <2>2 DEF OneMoved, Moved
<1>14. QED
  BY <1>2, <1>12, <1>13

\* Persisting what became of the claimed job.
LEMMA ClaimedJobMoves ==
    ASSUME Solo, IInv, RowsAddUp, ListsAreFresh,
           NEW w \in Workers, NEW s \in worker[w].todo,
           Complete(w, s) \/ PersistFails(w, s) \/ Fallback(w, s) \/ Fail(w, s)
    PROVE  AllKept \/ OneMoved(s.id)
<1>1. s.id \in Jobs
  BY SnapshotFacts
<1>2. job[s.id].status = "running"
  BY DEF Complete, PersistFails, Fallback, Fail, At, ListsAreFresh
<1>3. Exists(s.id)
  BY <1>2 DEF Exists
<1>4. CASE Complete(w, s)
  BY <1>1, <1>2, <1>4, CompletingMoves DEF Complete, history
<1>5. CASE PersistFails(w, s)
  BY <1>5, QuietRows DEF PersistFails, history, Solo
<1>6. CASE Fallback(w, s) \/ Fail(w, s)
  <2>1. FailAndRefund(s.id, s.owner) /\ UNCHANGED runs
    BY <1>3, <1>6 DEF Fallback, Fail
  <2>2. QED
    BY <1>1, <1>2, <2>1, FailingMoves
<1>7. QED
  BY <1>4, <1>5, <1>6

\* A candidate that is failed instead of claimed is still what the list says.
LEMMA CandidateMoves ==
    ASSUME IInv, RowsAddUp, ListsAreFresh,
           NEW w \in Workers, NEW s \in worker[w].todo, FailCandidate(w, s)
    PROVE  OneMoved(s.id) /\ Failed(s.id)
<1>1. s.id \in Jobs /\ s.status \in {"pending", "running"}
  BY SnapshotFacts
<1>2. job[s.id].status = s.status
  BY DEF FailCandidate, At, ListsAreFresh
<1>3. OneMoved(s.id)
  BY <1>1, <1>2, FailingMoves DEF FailCandidate
<1>4. job'[s.id].status = "failed"
  BY <1>1, Rows DEF FailCandidate, FailAndRefund, Row
<1>5. QED
  BY <1>3, <1>4 DEF OneMoved, Moved, Submitted, Started, Retried, Completed, Goes

LEMMA WorkerMoves ==
    ASSUME Solo, IInv, SInv, NEW w \in Workers,
           WorkerStep(w) \/ DeadlockVictim(w) \/ Abort(w)
    PROVE  AllKept \/ \E j \in Jobs : OneMoved(j)
<1>1. ASSUME NEW s \in worker[w].todo, Claim(w, s)  PROVE OneMoved(s.id)
  <2>1. ~Exhausted(s)
    BY <1>1 DEF Claim, SInv, ClaimsAreDue
  <2>2. QED
    BY <1>1, <2>1, ClaimingMoves DEF SInv
<1>2. ASSUME NEW s \in worker[w].todo, FailCandidate(w, s)  PROVE OneMoved(s.id)
  BY <1>2, CandidateMoves DEF SInv
<1>3. ASSUME NEW s \in worker[w].todo,
             Complete(w, s) \/ PersistFails(w, s) \/ Fallback(w, s) \/ Fail(w, s)
      PROVE  AllKept \/ OneMoved(s.id)
  BY <1>3, ClaimedJobMoves DEF SInv
<1>4. ASSUME NEW s \in worker[w].todo,
             CheckCapacity(w, s) \/ CandidateGone(w, s) \/ ReadBack(w, s)
      PROVE  AllKept
  BY <1>4, QuietRows DEF CheckCapacity, CandidateGone, ReadBack, database, history
<1>5. CASE Select(w) \/ ReturnNone(w) \/ DeadlockVictim(w) \/ Abort(w)
  BY <1>5, QuietRows DEF Select, ReturnNone, DeadlockVictim, Abort, history
<1>6. ASSUME NEW s \in worker[w].todo  PROVE s.id \in Jobs
  BY SnapshotFacts
<1>7. QED
  BY <1>1, <1>2, <1>3, <1>4, <1>5, <1>6 DEF WorkerStep, Handle

\* An insert uses an id that no row has yet.
LEMMA InsertMoves ==
    ASSUME IInv, NEW u \in Users, Insert(u), UNCHANGED <<refunds, runs>>
    PROVE  AllKept \/ OneMoved(nextId)
<1>2. PICK row : /\ row = [NoRow EXCEPT !.status = "pending", !.owner = u]
                 /\ job' = [job EXCEPT ![nextId] = row]
  BY DEF Insert
<1>3. row.status = "pending" /\ row.owner = u /\ row.attempts = 0
  BY <1>2 DEF NoRow
<1>5. \A i \in Jobs : i # nextId => Kept(i)
  BY <1>2, Rows DEF Kept
<1>6. CASE nextId \in Jobs
  <2>1. job[nextId].status = "absent"
    <3>1. nextId \in Nat /\ ~(nextId < nextId)
      BY DEF IInv, ShapeOK
    <3>2. QED
      BY <1>6, <3>1 DEF IInv, Ownership, RowsAreOwned, Exists
  <2>2. job'[nextId] = row
    BY <1>2, <1>6, Rows
  <2>3. Submitted(nextId)
    BY <1>3, <2>1, <2>2 DEF Submitted
  <2>4. QED
    BY <1>5, <1>6, <2>3 DEF OneMoved, Moved
<1>7. CASE nextId \notin Jobs
  BY <1>5, <1>7 DEF AllKept
<1>8. QED
  BY <1>6, <1>7

\* All that a request does to the rows, with nobody to delete what it inserted.
LEMMA RequestInsertsOnly ==
    ASSUME IInv, SInv, NEW r \in Requests, RequestStep(r)
    PROVE  /\ UNCHANGED <<worker, rowLock, refunds, runs>>
           /\ \/ UNCHANGED <<job, nextId>>
              \/ \E u \in Users : request[r].pc = "reserved" /\ u = request[r].user /\ Insert(u)
<1>1. ~RefundReservation(r)
  BY DEF RefundReservation, SInv, InsertedRowsStay
<1>2. UNCHANGED <<refunds, runs>>
  BY <1>1 DEF RequestStep, Reserve, Create, Created, CreateFails, Abandon, history
<1>3. request[r].pc = "reserved" => request[r].user \in Users
  BY DEF IInv, Ownership, RequestsAreOwned
<1>4. QED
  BY <1>2, <1>3, RequestInserts

LEMMA RequestMoves ==
    ASSUME IInv, SInv, NEW r \in Requests, RequestStep(r)
    PROVE  AllKept \/ OneMoved(nextId)
  BY RequestInsertsOnly, InsertMoves, QuietRows

LEMMA TimeKeeps ==
    ASSUME IInv, NEW j \in Jobs, Lapse(j) \/ Age(j)
    PROVE  AllKept
<1>1. job[j] \in Row /\ UNCHANGED <<refunds, runs>>
  BY Rows DEF Lapse, Age, history
<1>2. \A i \in Jobs : \/ job'[i] = job[i]
                      \/ i = j /\ job'[i] = [job[j] EXCEPT !.lapsed = TRUE]
                      \/ i = j /\ job'[i] = [job[j] EXCEPT !.overdue = TRUE]
  BY Rows DEF Lapse, Age
<1>3. QED
  BY <1>1, <1>2 DEF AllKept, Kept, Row

LEMMA RowsStep ==
    ASSUME Solo, IInv, SInv, [Next]_vars
    PROVE  AllKept \/ \E j \in Jobs : OneMoved(j)
<1>2. ASSUME NEW r \in Requests, RequestStep(r)  PROVE AllKept \/ OneMoved(nextId)
  BY <1>2, RequestMoves
<1>3. ASSUME UNCHANGED vars  PROVE AllKept
  BY <1>3, QuietRows DEF vars, database, history
<1>4. \A j : OneMoved(j) => j \in Jobs
  BY DEF OneMoved
<1>5. QED
  BY <1>2, <1>3, <1>4, WorkerMoves, TimeKeeps DEF Next, Quiescent, Solo

-----------------------------------------------------------------------------
(* The rows.                                                               *)

LEMMA RowsAddUpStep ==
    ASSUME IInv, RowsAddUp, AllKept \/ \E j \in Jobs : OneMoved(j)
    PROVE  RowsAddUp'
<1>1. ASSUME NEW i \in Jobs, Kept(i) \/ Moved(i)
      PROVE  /\ refunds'[i] = IF job'[i].status = "failed" THEN 1 ELSE 0
             /\ runs'[i] = job'[i].attempts /\ runs'[i] <= MaxAttempts
             /\ job'[i].status \in {"absent", "pending"} => job'[i].attempts = 0
             /\ job'[i].status = "absent" => job'[i].owner = NoUser
  <2>1. /\ refunds[i] = IF job[i].status = "failed" THEN 1 ELSE 0
        /\ runs[i] = job[i].attempts /\ runs[i] <= MaxAttempts
        /\ job[i].status \in {"absent", "pending"} => job[i].attempts = 0
        /\ job[i].status = "absent" => job[i].owner = NoUser
    BY DEF RowsAddUp
  <2>2. runs[i] \in Nat
    BY Rows
  <2>3. CASE Kept(i)
    BY <2>1, <2>3 DEF Kept
  <2>4. CASE Submitted(i)
    BY <2>1, <2>4, MaxAttemptsAssumption DEF Submitted
  <2>5. CASE Failed(i)
    BY <2>1, <2>5 DEF Failed, Goes
  <2>6. CASE Started(i)
    BY <2>1, <2>6, MaxAttemptsAssumption DEF Started, Goes
  <2>7. CASE Retried(i)
    BY <2>1, <2>2, <2>7, MaxAttemptsAssumption DEF Retried, Goes
  <2>8. CASE Completed(i)
    BY <2>1, <2>8 DEF Completed, Goes
  <2>9. QED
    BY <1>1, <2>3, <2>4, <2>5, <2>6, <2>7, <2>8 DEF Moved
<1>2. \A i \in Jobs : Kept(i) \/ Moved(i)
  BY DEF AllKept, OneMoved
<1>3. QED
  BY <1>1, <1>2 DEF RowsAddUp

\* Rows keep their owners, so that a row is preceded by those it was preceded by.
LEMMA PrecededBefore ==
    ASSUME NEW i \in Jobs, NEW j \in Jobs, Precedes(i, j)',
           \A k \in Jobs : k <= j => job'[k].owner = job[k].owner
    PROVE  Precedes(i, j)
<1>1. i \in Int /\ j \in Int /\ i < j /\ i >= 1 /\ j <= MaxJobs /\ MaxJobs \in Int
  BY MaxJobsAssumption DEF Precedes, Jobs
<1>2. ASSUME NEW k \in 1 .. (i - 1)  PROVE k \in Jobs /\ k <= j
  BY <1>1, <1>2 DEF Jobs
<1>3. job'[i].owner = job[i].owner /\ job'[j].owner = job[j].owner
  BY <1>1
<1>4. InSequence(i)
  BY <1>2, <1>3 DEF Precedes, InSequence, Older
<1>5. QED
  BY <1>3, <1>4 DEF Precedes, Older

\* Only a claim sets a pending row running, and a row that no pending one precedes:
\* those would be in the list before it, or the owner have no room.
LEMMA StartsInOrder ==
    ASSUME Solo, IInv, SInv, [Next]_vars,
           NEW j \in Jobs, job[j].status = "pending", job'[j].status = "running"
    PROVE  \A i \in Jobs : ~Before(i, j)
<1>1. PICK u \in Users : job[j].owner = u
  BY DEF Exists, IInv, Ownership, RowsAreOwned
<1>2. job'[j].owner = u
  BY <1>1, RowsStep DEF AllKept, OneMoved, Moved, Kept, Submitted, Failed, Started, Retried,
                        Completed, Goes
<1>3. ~(Running(u)' \subseteq Running(u))
  BY <1>2 DEF Running
<1>4. ~Quiet
  BY <1>3 DEF Quiet
<1>5. ASSUME \/ \E w \in Workers : \/ Select(w) \/ ReturnNone(w)
                                   \/ DeadlockVictim(w) \/ Abort(w)
             \/ \E r \in Requests : RequestStep(r)
             \/ \E d \in Deleters : DeleterStep(d)
             \/ \E i \in Jobs : Lapse(i) \/ Age(i)
             \/ UNCHANGED vars
      PROVE  Quiet
  <2>1. ShapeOK
    BY DEF IInv
  <2>2. QED
    BY <1>5, <2>1, QuietOthers
<1>6. PICK w \in Workers : \E s \in worker[w].todo : Handle(w, s)
  BY <1>4, <1>5 DEF Next, WorkerStep, Quiescent
<1>14. PICK s \in worker[w].todo : Handle(w, s)
  BY <1>6
<1>7. ~CheckCapacity(w, s)
  BY DEF CheckCapacity
<1>8. Claim(w, s)
  BY <1>4, <1>14, <1>7, QuietHandle DEF IInv
<1>9. s.id = j
  <2>1. job' = [job EXCEPT ![s.id] = ClaimedRow(s, w)]
    BY <1>8 DEF Claim
  <2>2. QED
    BY <2>1, Rows
<1>10. s.status = "pending" /\ s.owner = job[j].owner /\ At(w, s, "claim")
  <2>1. At(w, s, "claim") /\ Exists(s.id)
    BY <1>8 DEF Claim
  <2>2. QED
    BY <1>9, <2>1, SnapshotFacts DEF SInv, ListsAreFresh, At
<1>11. Cardinality(Running(s.owner)) < MaxConcurrent
  BY <1>10 DEF IInv, ClaimHasRoom
<1>12. ASSUME NEW i \in Jobs, Before(i, j)  PROVE FALSE
  <2>1. ~(Cardinality(Running(s.owner)) >= MaxConcurrent)
    BY <1>11, RunningFinite, MaxConcurrentAssumption
  <2>2. PICK t \in worker[w].todo : t.id = i
    BY <1>9, <1>10, <1>12, <2>1 DEF SInv, ScansAreInOrder, At
  <2>3. ~Older(t.id, s.id)
    BY <1>10 DEF At
  <2>4. QED
    BY <1>9, <1>12, <2>2, <2>3 DEF Before, Precedes
<1>13. QED
  BY <1>12

LEMMA NoneOvertakenStep ==
    ASSUME Solo, IInv, SInv, [Next]_vars
    PROVE  NoneOvertaken'
<1>1. SUFFICES ASSUME NEW i \in Jobs, NEW j \in Jobs, Precedes(i, j)',
                      job'[i].status = "pending", job'[j].status = "running"
               PROVE  FALSE
  BY DEF NoneOvertaken, Before
<1>2. \A k \in Jobs : Kept(k) \/ Moved(k)
  BY RowsStep DEF AllKept, OneMoved
<1>3. /\ job'[j].owner = job[j].owner
      /\ job[j].status \in {"pending", "running"}
  BY <1>1, <1>2 DEF Kept, Moved, Submitted, Failed, Started, Retried, Completed, Goes
<1>4. j < nextId /\ i < j /\ i \in Int /\ j \in Int /\ nextId \in Int
  <2>1. j < nextId
    BY <1>3 DEF Exists, IInv, Ownership, RowsAreOwned
  <2>2. QED
    BY <1>1, <2>1, MaxJobsAssumption DEF IInv, ShapeOK, Precedes, Jobs
<1>9. ASSUME NEW k \in Jobs, k <= j
      PROVE  /\ job'[k].owner = job[k].owner
             /\ job'[k].status = "pending" => job[k].status = "pending"
  <2>1. k # nextId
    BY <1>4, <1>9, MaxJobsAssumption DEF Jobs
  <2>2. QED
    BY <1>2, <2>1 DEF Kept, Moved, Submitted, Failed, Started, Retried, Completed, Goes
<1>5. Before(i, j)
  <2>1. Precedes(i, j)
    BY <1>1, <1>9, PrecededBefore
  <2>2. QED
    BY <1>1, <1>4, <1>9, <2>1 DEF Before
<1>6. CASE job[j].status = "running"
  BY <1>5, <1>6 DEF SInv, NoneOvertaken
<1>7. CASE job[j].status = "pending"
  BY <1>1, <1>5, <1>7, StartsInOrder
<1>8. QED
  BY <1>3, <1>6, <1>7

-----------------------------------------------------------------------------
(* The list of the worker.                                                 *)

Lists == ListsAreFresh /\ ScansHoldLocks /\ ClaimsAreDue /\ ScansAreInOrder

\* A worker that is not scanning (any more).
LEMMA ListsNotScanning ==
    ASSUME Solo, IInv, NEW w \in Workers, NEW pc, pc \notin {"scan", "claim"}, NEW todo,
           Become(w, pc, todo), \A t \in todo : job'[t.id].status = "running",
           \A j \in Jobs : rowLock'[j] # w
    PROVE  Lists'
<1>1. worker' = [worker EXCEPT ![w] = [pc |-> pc, todo |-> todo]] /\ \A v \in Workers : v = w
  BY DEF Become, Solo
<1>2. \A v \in Workers : worker'[v].pc = pc /\ worker'[v].todo = todo
  BY <1>1, Rows
<1>3. ListsAreFresh'
  BY <1>2 DEF ListsAreFresh
<1>4. ScansHoldLocks'
  BY <1>1 DEF ScansHoldLocks
<1>5. ClaimsAreDue' /\ ScansAreInOrder'
  BY <1>2 DEF ClaimsAreDue, ScansAreInOrder, At
<1>6. QED
  BY <1>3, <1>4, <1>5 DEF Lists

LEMMA Released ==
    ASSUME NEW w \in Workers, ReleaseLocks(w)
    PROVE  \A j \in Jobs : rowLock'[j] # w
  BY ActorsAssumption DEF ReleaseLocks

LEMMA ListsOfOthers ==
    ASSUME Solo, IInv, Lists, UNCHANGED <<worker, rowLock>>,
           \A i \in Jobs : i # nextId => Kept(i),
           \A u : Running(u)' = Running(u)
    PROVE  Lists'
<1>1. ASSUME NEW w \in Workers, NEW s \in worker[w].todo
      PROVE  s.id \in Jobs /\ s.id < nextId /\ s.id # nextId /\ Kept(s.id)
  <2>1. s.id \in Jobs /\ s.id < nextId
    BY SnapshotFacts
  <2>2. s.id # nextId
    BY <2>1, MaxJobsAssumption DEF Jobs, IInv, ShapeOK
  <2>3. QED
    BY <2>1, <2>2
<1>2. ListsAreFresh'
  BY <1>1 DEF Lists, ListsAreFresh, Kept
<1>3. ScansHoldLocks'
  BY DEF Lists, ScansHoldLocks
<1>4. ClaimsAreDue'
  BY DEF Lists, ClaimsAreDue, At
<1>5. ScansAreInOrder'
  <2>1. SUFFICES ASSUME NEW w \in Workers, NEW s \in worker[w].todo,
                        worker[w].pc \in {"scan", "claim"}, NEW i \in Jobs, Before(i, s.id)'
                 PROVE  \/ \E t \in worker[w].todo : t.id = i
                        \/ /\ Cardinality(Running(s.owner)) >= MaxConcurrent
                           /\ \A t \in worker[w].todo : Older(i, t.id)
    BY DEF ScansAreInOrder, Older
  <2>2. s.id \in Jobs /\ s.id < nextId
    BY <1>1
  <2>3. ASSUME NEW k \in Jobs, k <= s.id  PROVE Kept(k)
    BY <2>2, <2>3, MaxJobsAssumption DEF Jobs, IInv, ShapeOK
  <2>4. Before(i, s.id)
    <3>1. Precedes(i, s.id)
      BY <2>1, <2>2, <2>3, PrecededBefore DEF Before, Kept
    <3>2. Kept(i)
      BY <2>2, <2>3, <3>1, MaxJobsAssumption DEF Precedes, Jobs
    <3>3. QED
      BY <2>1, <3>1, <3>2 DEF Before, Kept
  <2>5. QED
    BY <2>1, <2>4 DEF Lists, ScansAreInOrder
<1>6. QED
  BY <1>2, <1>3, <1>4, <1>5 DEF Lists

\* The candidate query: nothing is locked, so that it finds every claimable row
\* there is, and leaves out none that is older than one it takes.
LEMMA ListsOfSelect ==
    ASSUME Solo, IInv, Lists, NEW w \in Workers, Select(w)
    PROVE  Lists'
<1>1. /\ UNCHANGED <<job, refunds, runs>>
      /\ \A v \in Workers : v = w
      /\ worker'[w].pc = "scan" /\ worker'[w].todo = {SnapshotOf(j) : j \in Candidates}
  BY Rows DEF Select, Become, Solo, history
<1>2. \A j \in Candidates : /\ j \in Jobs /\ Claimable(j)
                           /\ SnapshotOf(j).id = j
                           /\ SnapshotOf(j).status = job[j].status
                           /\ SnapshotOf(j).attempts = job[j].attempts
  BY DEF Candidates, Eligible, SnapshotOf
<1>3. ListsAreFresh'
  <2>1. SUFFICES ASSUME NEW s \in worker'[w].todo
                 PROVE  /\ job[s.id].status = s.status
                        /\ job[s.id].attempts = s.attempts
                        /\ s.status = "running" => job[s.id].lapsed
    BY <1>1 DEF ListsAreFresh
  <2>2. PICK j \in Candidates : s = SnapshotOf(j)
    BY <1>1
  <2>3. QED
    BY <1>2, <2>2 DEF Claimable
<1>4. ScansHoldLocks' /\ ClaimsAreDue'
  BY <1>1 DEF ScansHoldLocks, ClaimsAreDue, At
<1>5. \A j \in Jobs : rowLock[j] = NoOne
  BY <1>1 DEF IInv, RowLocksOK, Lists, ScansHoldLocks, Select
<1>6. ASSUME NEW j \in Candidates, NEW i \in Jobs, Older(i, j), job[i].status = "pending"
      PROVE  i \in Candidates
  <2>1. i \in Eligible /\ j \in Eligible /\ j \in Jobs
    BY <1>5, <1>6 DEF Eligible, Claimable, Candidates
  <2>2. IsFiniteSet({k \in Eligible : Older(k, j)})
    <3>1. IsFiniteSet(Jobs)
      BY FS_Interval, MaxJobsAssumption DEF Jobs
    <3>2. {k \in Eligible : Older(k, j)} \subseteq Jobs
      BY DEF Eligible
    <3>3. QED
      BY <3>1, <3>2, FS_Subset
  <2>3. {k \in Eligible : Older(k, i)} \subseteq {k \in Eligible : Older(k, j)}
    <3>1. \A k \in Jobs : CreatedAt[k] \in Nat
      BY CreatedAtAssumption
    <3>2. QED
      BY <1>6, <2>1, <3>1 DEF Eligible, Older
  <2>4. /\ Cardinality({k \in Eligible : Older(k, i)}) <= Cardinality({k \in Eligible : Older(k, j)})
        /\ Cardinality({k \in Eligible : Older(k, i)}) \in Nat
        /\ Cardinality({k \in Eligible : Older(k, j)}) \in Nat
    BY <2>2, <2>3, FS_Subset, FS_CardinalityType
  <2>5. Cardinality({k \in Eligible : Older(k, j)}) < CandidateLimit
    BY DEF Candidates
  <2>6. Cardinality({k \in Eligible : Older(k, i)}) < CandidateLimit
    BY <2>4, <2>5, CandidateLimitAssumption
  <2>7. QED
    BY <2>1, <2>6 DEF Candidates
<1>7. ScansAreInOrder'
  <2>1. SUFFICES ASSUME NEW s \in worker'[w].todo, NEW i \in Jobs, Before(i, s.id)'
                 PROVE  \E t \in worker'[w].todo : t.id = i
    BY <1>1 DEF ScansAreInOrder
  <2>2. PICK j \in Candidates : s = SnapshotOf(j)
    BY <1>1
  <2>3. Older(i, j) /\ job[i].status = "pending"
    BY <1>1, <1>2, <2>1, <2>2 DEF Before, Precedes, Older
  <2>4. i \in Candidates
    BY <1>6, <2>3
  <2>5. QED
    BY <1>1, <1>2, <2>4
<1>8. QED
  BY <1>3, <1>4, <1>7 DEF Lists

\* A candidate that is failed leaves the list.  If its end makes room for its
\* owner, it was running, so that no pending job of the owner precedes it: none
\* that was passed over for want of room is overtaken by a later candidate.
LEMMA ListsOfFail ==
    ASSUME Solo, IInv, SInv, NEW w \in Workers, NEW s \in worker[w].todo,
           FailCandidate(w, s)
    PROVE  Lists'
<1>1. /\ \A v \in Workers : v = w
      /\ worker'[w].pc = "scan" /\ worker'[w].todo = worker[w].todo \ {s}
      /\ worker[w].pc = "scan" /\ At(w, s, "scan")
  BY Rows DEF FailCandidate, Become, Solo, At
<1>2. OneMoved(s.id) /\ Failed(s.id)
  BY CandidateMoves DEF SInv
<1>3. ASSUME NEW t \in worker[w].todo, t # s
      PROVE  /\ t.id \in Jobs /\ t.id # s.id /\ Kept(t.id)
             /\ job[t.id].owner = t.owner /\ t.owner \in Users
  <2>1. t.id # s.id /\ t.id \in Jobs
    BY <1>3, SnapshotFacts DEF IInv, Ownership, OneSnapshotPerRow
  <2>2. Exists(t.id)
    BY <1>1, SnapshotFacts DEF SInv, ListsAreFresh, Exists
  <2>3. QED
    BY <1>2, <2>1, <2>2, SnapshotFacts DEF OneMoved
<1>4. ListsAreFresh'
  <2>1. ASSUME NEW t \in worker[w].todo, t # s
        PROVE  /\ job'[t.id].status = t.status /\ job'[t.id].attempts = t.attempts
               /\ t.status = "running" => job'[t.id].lapsed
    BY <1>1, <1>3, <2>1 DEF Kept, SInv, ListsAreFresh
  <2>2. QED
    BY <1>1, <2>1 DEF ListsAreFresh
<1>5. ScansHoldLocks' /\ ClaimsAreDue'
  BY <1>1 DEF ScansHoldLocks, ClaimsAreDue, At
<1>6. ScansAreInOrder'
  <2>1. SUFFICES ASSUME NEW t \in worker[w].todo, t # s, NEW i \in Jobs, Before(i, t.id)'
                 PROVE  \/ \E x \in worker[w].todo \ {s} : x.id = i
                        \/ /\ Cardinality(Running(t.owner)') >= MaxConcurrent
                           /\ \A x \in worker[w].todo \ {s} : Older(i, x.id)
    BY <1>1 DEF ScansAreInOrder, Older
  <2>2. Kept(t.id) /\ job[t.id].owner = t.owner /\ t.owner \in Users
    BY <1>3, <2>1
  <2>3. i # s.id /\ Kept(i)
    BY <1>2, <2>1 DEF Before, Failed, Goes, OneMoved
  <2>8. \A k \in Jobs : job'[k].owner = job[k].owner
    BY <1>2 DEF OneMoved, Failed, Goes, Kept
  <2>4. Before(i, t.id)
    <3>1. Precedes(i, t.id)
      BY <1>3, <2>1, <2>8, PrecededBefore DEF Before
    <3>2. QED
      BY <2>1, <2>3, <3>1 DEF Before, Kept
  <2>5. CASE \E x \in worker[w].todo : x.id = i
    BY <2>3, <2>5
  <2>6. CASE /\ Cardinality(Running(t.owner)) >= MaxConcurrent
             /\ \A x \in worker[w].todo : Older(i, x.id)
    <3>1. Older(i, s.id) /\ s.id \in Jobs /\ i # s.id
      BY <1>2, <2>3, <2>6 DEF OneMoved
    <3>2. s.id \notin Running(t.owner)
      <4>1. SUFFICES ASSUME job[s.id].owner = t.owner, job[s.id].status = "running"
                     PROVE  FALSE
        BY DEF Running
      <4>2. job[s.id].owner = job[i].owner
        BY <2>2, <2>4, <4>1 DEF Before, Precedes
      <4>3. i < s.id
        <5>1. CASE s.id < i
          <6>1. s.id \in 1 .. (i - 1)
            BY <3>1, <5>1, MaxJobsAssumption DEF Jobs
          <6>2. Older(s.id, i)
            BY <2>4, <4>2, <6>1 DEF Before, Precedes, InSequence
          <6>3. CreatedAt[i] \in Nat /\ CreatedAt[s.id] \in Nat
            BY <3>1, CreatedAtAssumption
          <6>4. QED
            BY <3>1, <6>2, <6>3 DEF Older
        <5>2. QED
          BY <3>1, <5>1, MaxJobsAssumption DEF Jobs
      <4>4. Before(i, s.id)
        BY <2>2, <2>4, <3>1, <4>1, <4>2, <4>3 DEF Before, Precedes
      <4>5. QED
        BY <3>1, <4>1, <4>4 DEF SInv, NoneOvertaken
    <3>3. Running(t.owner)' = Running(t.owner)
      BY <1>2, <3>2 DEF Running, OneMoved, Kept, Failed, Goes
    <3>4. QED
      BY <2>6, <3>3
  <2>7. QED
    BY <1>1, <2>1, <2>4, <2>5, <2>6 DEF SInv, ScansAreInOrder
<1>7. QED
  BY <1>4, <1>5, <1>6 DEF Lists

\* A candidate that is passed over has an owner without room, or a suspended one.
LEMMA ListsOfCheck ==
    ASSUME Solo, IInv, Lists, NEW w \in Workers, NEW s \in worker[w].todo,
           CheckCapacity(w, s)
    PROVE  Lists'
<1>1. /\ UNCHANGED job /\ \A u : Running(u)' = Running(u)
      /\ \A v \in Workers : v = w
      /\ worker[w].pc = "scan" /\ At(w, s, "scan") /\ ~Exhausted(s)
  BY DEF CheckCapacity, Solo, At, Running
<1>2. \/ worker'[w].pc = "claim" /\ worker'[w].todo = worker[w].todo
      \/ /\ worker'[w].pc = "scan" /\ worker'[w].todo = worker[w].todo \ {s}
         /\ s.owner \notin Suspendable => ~HasCapacity(s)
  <2>1. PICK active \in Activity(s.owner) :
           IF active /\ HasCapacity(s) THEN Become(w, "claim", worker[w].todo)
                                      ELSE Become(w, "scan", worker[w].todo \ {s})
    BY DEF CheckCapacity
  <2>2. s.owner \notin Suspendable => active = TRUE
    BY <2>1 DEF Activity
  <2>3. CASE active /\ HasCapacity(s)
    BY <2>1, <2>3, Rows DEF Become
  <2>4. CASE ~(active /\ HasCapacity(s))
    BY <2>1, <2>2, <2>4, Rows DEF Become
  <2>5. QED
    BY <2>3, <2>4
<1>3. worker'[w].pc \in {"scan", "claim"} /\ worker'[w].todo \subseteq worker[w].todo
  BY <1>2
<1>4. ListsAreFresh' /\ ScansHoldLocks'
  BY <1>1, <1>3 DEF Lists, ListsAreFresh, ScansHoldLocks
<1>5. ClaimsAreDue'
  <2>1. SUFFICES ASSUME NEW t \in worker'[w].todo, At(w, t, "claim")'
                 PROVE  ~Exhausted(t)
    BY <1>1 DEF ClaimsAreDue, Exhausted
  <2>2. /\ worker'[w].todo = worker[w].todo /\ t \in worker[w].todo
        /\ ~Older(t.id, s.id) /\ ~Older(s.id, t.id)
    BY <1>1, <1>2, <2>1 DEF At
  <2>3. t.id \in Jobs /\ s.id \in Jobs
    BY <2>2, SnapshotFacts
  <2>4. t = s
    BY <2>2, <2>3, NeitherOlder DEF IInv, Ownership, OneSnapshotPerRow
  <2>5. QED
    BY <1>1, <2>4
<1>6. ScansAreInOrder'
  <2>1. SUFFICES ASSUME NEW t \in worker'[w].todo, NEW i \in Jobs, Before(i, t.id)
                 PROVE  \/ \E x \in worker'[w].todo : x.id = i
                        \/ /\ Cardinality(Running(t.owner)) >= MaxConcurrent
                           /\ \A x \in worker'[w].todo : Older(i, x.id)
    BY <1>1 DEF ScansAreInOrder, Before, Precedes, InSequence, Older
  <2>2. \/ \E x \in worker[w].todo : x.id = i
        \/ /\ Cardinality(Running(t.owner)) >= MaxConcurrent
           /\ \A x \in worker[w].todo : Older(i, x.id)
    BY <1>1, <1>3, <2>1 DEF Lists, ScansAreInOrder
  <2>3. CASE worker'[w].todo = worker[w].todo \/ i # s.id
    BY <1>2, <2>2, <2>3
  <2>4. CASE worker'[w].todo # worker[w].todo /\ i = s.id
    <3>1. /\ t \in worker[w].todo /\ worker'[w].todo = worker[w].todo \ {s}
          /\ s.owner \notin Suspendable => ~HasCapacity(s)
      BY <1>2, <2>1, <2>4
    <3>2. \A x \in worker'[w].todo : Older(i, x.id)
      <4>1. SUFFICES ASSUME NEW x \in worker[w].todo, x # s
                     PROVE  Older(s.id, x.id)
        BY <2>4, <3>1
      <4>2. ~Older(x.id, s.id) /\ s.id # x.id
        BY <1>1, <4>1 DEF At, IInv, Ownership, OneSnapshotPerRow
      <4>3. x.id \in Jobs /\ s.id \in Jobs
        BY SnapshotFacts
      <4>4. QED
        BY <4>2, <4>3, NeitherOlder
    <3>3. s.owner = t.owner /\ s.status = "pending" /\ s.owner \notin Suspendable
      <4>1. job[s.id].status = s.status /\ job[t.id].status = t.status
        BY <1>1, <3>1 DEF Lists, ListsAreFresh
      <4>2. s.status = "pending"
        BY <2>1, <2>4, <4>1 DEF Before
      <4>3. Exists(s.id) /\ Exists(t.id)
        BY <3>1, <4>1, SnapshotFacts DEF Exists
      <4>4. QED
        BY <2>1, <2>4, <3>1, <4>2, <4>3, SnapshotFacts DEF Before, Precedes
    <3>4. Cardinality(Running(t.owner)) >= MaxConcurrent
      <4>1. Running(s.owner) \ {} = Running(s.owner)
        OBVIOUS
      <4>2. ~(Cardinality(Running(s.owner)) < MaxConcurrent)
        BY <3>1, <3>3, <4>1 DEF HasCapacity, ActiveCount
      <4>3. QED
        BY <3>3, <4>2, RunningFinite, MaxConcurrentAssumption
    <3>5. QED
      BY <3>2, <3>4
  <2>5. QED
    BY <2>3, <2>4
<1>7. QED
  BY <1>4, <1>5, <1>6 DEF Lists

\* Every other step of the worker ends the scan, or comes after it.
LEMMA ListsOfLeaving ==
    ASSUME Solo, IInv, SInv, NEW w \in Workers,
           \/ ReturnNone(w) \/ DeadlockVictim(w) \/ Abort(w)
           \/ \E s \in worker[w].todo :
                 \/ Claim(w, s) \/ CandidateGone(w, s) \/ ReadBack(w, s) \/ Complete(w, s)
                 \/ PersistFails(w, s) \/ Fallback(w, s) \/ Fail(w, s)
    PROVE  Lists'
<1>1. CASE ReturnNone(w) \/ DeadlockVictim(w) \/ Abort(w)
  <2>1. Become(w, "idle", {}) /\ ReleaseLocks(w)
    BY <1>1 DEF ReturnNone, DeadlockVictim, Abort
  <2>2. QED
    BY <2>1, Released, ListsNotScanning
<1>2. ASSUME NEW s \in worker[w].todo, Claim(w, s)  PROVE Lists'
  <2>1. ~Exhausted(s)
    BY <1>2 DEF Claim, SInv, ClaimsAreDue
  <2>2. Started(s.id) \/ Retried(s.id)
    BY <1>2, <2>1, ClaimingMoves DEF SInv
  <2>3. \A t \in {s} : job'[t.id].status = "running"
    BY <2>2 DEF Started, Retried, Goes
  <2>4. Become(w, "run", {s}) /\ ReleaseLocks(w)
    BY <1>2 DEF Claim
  <2>5. QED
    BY <2>3, <2>4, Released, ListsNotScanning
<1>3. ASSUME NEW s \in worker[w].todo, CandidateGone(w, s)  PROVE Lists'
  <2>1. Become(w, "idle", {}) /\ ReleaseLocks(w)
    BY <1>3 DEF CandidateGone
  <2>2. QED
    BY <2>1, Released, ListsNotScanning
<1>4. ASSUME NEW s \in worker[w].todo,
             \/ ReadBack(w, s) \/ Complete(w, s)
             \/ PersistFails(w, s) \/ Fallback(w, s) \/ Fail(w, s)
      PROVE  Lists'
  <2>1. worker[w].pc \in {"run", "complete", "fail", "fallback"} /\ UNCHANGED rowLock
    BY <1>4 DEF ReadBack, Complete, PersistFails, Fallback, Fail, At, database
  <2>2. \A j \in Jobs : rowLock'[j] # w
    BY <2>1 DEF SInv, ScansHoldLocks
  <2>3. job[s.id].status = "running"
    BY <2>1 DEF SInv, ListsAreFresh
  <2>4. CASE Become(w, "idle", {})
    BY <2>2, <2>4, ListsNotScanning
  <2>5. ASSUME NEW pc \in {"complete", "fail", "fallback"}, Become(w, pc, {s}), UNCHANGED job
        PROVE  Lists'
    <3>1. \A t \in {s} : job'[t.id].status = "running"
      BY <2>3, <2>5
    <3>2. pc \notin {"scan", "claim"}
      OBVIOUS
    <3>3. QED
      BY <2>2, <2>5, <3>1, <3>2, ListsNotScanning
  <2>6. \/ Become(w, "idle", {})
        \/ UNCHANGED job /\ \E pc \in {"complete", "fail", "fallback"} : Become(w, pc, {s})
    <3>1. CASE ReadBack(w, s)
      BY <3>1 DEF ReadBack, database
    <3>2. CASE PersistFails(w, s)
      BY <3>2 DEF PersistFails, Solo
    <3>3. CASE Complete(w, s) \/ Fallback(w, s) \/ Fail(w, s)
      BY <3>3 DEF Complete, Fallback, Fail
    <3>4. QED
      BY <1>4, <3>1, <3>2, <3>3
  <2>7. QED
    BY <2>4, <2>5, <2>6
<1>5. QED
  BY <1>1, <1>2, <1>3, <1>4

LEMMA ListsStep ==
    ASSUME Solo, IInv, SInv, [Next]_vars
    PROVE  Lists'
<1>0. Lists
  BY DEF SInv, Lists
<1>1. ASSUME NEW w \in Workers, WorkerStep(w) \/ DeadlockVictim(w) \/ Abort(w)
      PROVE  Lists'
  <2>1. CASE Select(w)
    BY <1>0, <2>1, ListsOfSelect
  <2>2. ASSUME NEW s \in worker[w].todo, FailCandidate(w, s)  PROVE Lists'
    BY <2>2, ListsOfFail
  <2>3. ASSUME NEW s \in worker[w].todo, CheckCapacity(w, s)  PROVE Lists'
    BY <1>0, <2>3, ListsOfCheck
  <2>4. CASE \/ ReturnNone(w) \/ DeadlockVictim(w) \/ Abort(w)
             \/ \E s \in worker[w].todo :
                   \/ Claim(w, s) \/ CandidateGone(w, s) \/ ReadBack(w, s) \/ Complete(w, s)
                   \/ PersistFails(w, s) \/ Fallback(w, s) \/ Fail(w, s)
    BY <2>4, ListsOfLeaving
  <2>5. QED
    BY <1>1, <2>1, <2>2, <2>3, <2>4 DEF WorkerStep, Handle
<1>2. ASSUME UNCHANGED <<worker, rowLock>>, AllKept  PROVE Lists'
  <2>1. \A u : Running(u)' = Running(u)
    BY <1>2 DEF AllKept, Kept, Running
  <2>2. QED
    BY <1>0, <1>2, <2>1, ListsOfOthers DEF AllKept
<1>3. ASSUME NEW r \in Requests, RequestStep(r)  PROVE Lists'
  <2>1. UNCHANGED <<worker, rowLock, refunds, runs>>
    BY <1>3, RequestInsertsOnly
  <2>2. AllKept \/ OneMoved(nextId)
    BY <1>3, RequestMoves
  <2>3. CASE OneMoved(nextId)
    <3>1. \A j \in Jobs : j # nextId => Kept(j)
      BY <2>3 DEF OneMoved
    <3>2. job[nextId].status # "running" /\ job'[nextId].status # "running"
      <4>1. job[nextId].status = "absent" => job'[nextId].status \in {"absent", "pending"}
        BY <1>3, <2>3, Rows, RequestInsertsOnly DEF Insert, NoRow, OneMoved
      <4>2. nextId \in Jobs
        BY <2>3 DEF OneMoved
      <4>3. ~(nextId < nextId)
        BY DEF IInv, ShapeOK
      <4>4. ~Exists(nextId)
        BY <4>2, <4>3 DEF IInv, Ownership, RowsAreOwned
      <4>5. QED
        BY <4>1, <4>4 DEF Exists
    <3>3. \A u : Running(u)' = Running(u)
      BY <3>1, <3>2 DEF Kept, Running
    <3>4. QED
      BY <1>0, <2>1, <3>1, <3>3, ListsOfOthers
  <2>4. QED
    BY <1>2, <2>1, <2>2, <2>3
<1>5. ASSUME NEW j \in Jobs, Lapse(j) \/ Age(j)  PROVE Lists'
  <2>1. UNCHANGED <<worker, rowLock>>
    BY <1>5 DEF Lapse, Age
  <2>2. QED
    BY <1>2, <1>5, <2>1, TimeKeeps
<1>6. CASE UNCHANGED vars
  BY <1>2, <1>6, QuietRows DEF vars, database, history
<1>7. QED
  BY <1>1, <1>3, <1>5, <1>6 DEF Next, Quiescent, Solo

-----------------------------------------------------------------------------
(* The requests.                                                           *)

\* A request that does not wait for its insert (any more): the ids left are enough
\* for the others, and if it waited, one of them is for it.
LEMMA WaitingLeaves ==
    ASSUME IInv, IdsSuffice, NEW r \in Requests, request'[r].pc # "reserved",
           \A q \in Requests : q # r => request'[q] = request[q]
    PROVE  /\ IsFiniteSet(Waiting("reserved")') /\ Cardinality(Waiting("reserved")') \in Nat
           /\ nextId + Cardinality(Waiting("reserved")') <= MaxJobs + 1
           /\ request[r].pc = "reserved" =>
                 /\ nextId + 1 + Cardinality(Waiting("reserved")') <= MaxJobs + 1
                 /\ nextId \in Jobs
<1>1. PICK S, T : S = Waiting("reserved") /\ T = Waiting("reserved")'
  OBVIOUS
<1>2. T = S \ {r} /\ (r \in S <=> request[r].pc = "reserved")
  BY <1>1 DEF Waiting
<1>3. IsFiniteSet(S) /\ Cardinality(S) \in Nat /\ nextId + Cardinality(S) <= MaxJobs + 1
  BY <1>1, FS_CardinalityType DEF IdsSuffice
<1>4. /\ IsFiniteSet(T) /\ Cardinality(T) \in Nat
      /\ Cardinality(T) = IF r \in S THEN Cardinality(S) - 1 ELSE Cardinality(S)
  BY <1>2, <1>3, FS_RemoveElement, FS_CardinalityType
<1>5. nextId \in Nat \ {0} /\ MaxJobs \in Nat
  BY MaxJobsAssumption DEF IInv, ShapeOK
<1>6. PICK m \in Nat, n \in Nat : m = Cardinality(S) /\ n = Cardinality(T)
  BY <1>3, <1>4
<1>7. /\ nextId + n <= MaxJobs + 1
      /\ r \in S => nextId + 1 + n <= MaxJobs + 1 /\ nextId <= MaxJobs
  BY <1>3, <1>4, <1>5, <1>6
<1>8. nextId <= MaxJobs => nextId \in Jobs
  BY <1>5 DEF Jobs
<1>9. QED
  BY <1>1, <1>2, <1>4, <1>6, <1>7, <1>8

LEMMA IdsStep ==
    ASSUME Solo, IInv, SInv, [Next]_vars
    PROVE  IdsSuffice' /\ InsertedRowsStay'
<1>0. IdsSuffice /\ InsertedRowsStay /\ ShapeOK
  BY DEF SInv, IInv
<1>1. \A j \in Jobs : Exists(j) => Exists(j)'
  <2>1. \A j \in Jobs : Kept(j) \/ Moved(j)
    BY RowsStep DEF AllKept, OneMoved
  <2>2. QED
    BY <2>1 DEF Exists, Kept, Moved, Submitted, Failed, Started, Retried, Completed, Goes
<1>2. ASSUME UNCHANGED <<request, nextId>>  PROVE IdsSuffice' /\ InsertedRowsStay'
  BY <1>0, <1>1, <1>2 DEF IdsSuffice, InsertedRowsStay, Waiting
<1>3. ASSUME NEW r \in Requests, NEW u \in Users, Reserve(r, u)
      PROVE  IdsSuffice' /\ InsertedRowsStay'
  <2>1. /\ nextId' = nextId /\ nextId + Cardinality(Waiting("reserved")) <= MaxJobs
        /\ request[r].pc = "idle" /\ request'[r].pc = "reserved"
        /\ \A q \in Requests : q # r => request'[q] = request[q]
    BY <1>0, <1>3 DEF Reserve, ShapeOK
  <2>2. PICK S, T : S = Waiting("reserved") /\ T = Waiting("reserved")'
    OBVIOUS
  <2>3. T = S \union {r} /\ r \notin S /\ IsFiniteSet(S) /\ Cardinality(S) \in Nat
    BY <1>0, <2>1, <2>2, FS_CardinalityType DEF Waiting, IdsSuffice
  <2>4. IsFiniteSet(T) /\ Cardinality(T) = Cardinality(S) + 1
    BY <2>3, FS_AddElement
  <2>5. nextId' + Cardinality(T) <= MaxJobs + 1
    BY <1>0, <2>1, <2>2, <2>3, <2>4, MaxJobsAssumption DEF ShapeOK
  <2>6. IdsSuffice'
    BY <2>2, <2>4, <2>5 DEF IdsSuffice
  <2>7. InsertedRowsStay'
    BY <1>0, <1>1, <2>1 DEF InsertedRowsStay
  <2>8. QED
    BY <2>6, <2>7
<1>4. ASSUME NEW r \in Requests, RequestStep(r), request'[r].pc # "reserved"
      PROVE  IdsSuffice' /\ InsertedRowsStay'
  <2>1. \A q \in Requests : q # r => request'[q] = request[q]
    BY <1>0, <1>4, OneRequestMoves
  <2>2. /\ IsFiniteSet(Waiting("reserved")') /\ Cardinality(Waiting("reserved")') \in Nat
        /\ nextId + Cardinality(Waiting("reserved")') <= MaxJobs + 1
        /\ request[r].pc = "reserved" =>
              /\ nextId + 1 + Cardinality(Waiting("reserved")') <= MaxJobs + 1
              /\ nextId \in Jobs
    BY <1>0, <1>4, <2>1, WaitingLeaves
  <2>3. nextId' = nextId \/ (request[r].pc = "reserved" /\ nextId' = nextId + 1)
    BY <1>4, RequestInsertsOnly DEF Insert
  <2>4. IdsSuffice'
    BY <2>2, <2>3 DEF IdsSuffice
  <2>5. request'[r].pc = "inserted" => request'[r].id \in Jobs /\ Exists(request[r].id)'
    <3>1. CASE Create(r)
      <4>1. nextId \in Jobs /\ request'[r].id = nextId /\ Insert(request[r].user)
        BY <1>0, <2>2, <3>1 DEF Create, ShapeOK
      <4>2. job'[nextId].status = "pending"
        BY <4>1, Rows DEF Insert, NoRow
      <4>3. QED
        BY <4>1, <4>2 DEF Exists
    <3>2. CASE Answer(r)
      BY <1>0, <3>2 DEF Answer, ShapeOK
    <3>3. ASSUME NEW u \in Users, Reserve(r, u)  PROVE request'[r].pc = "reserved"
      BY <1>0, <3>3 DEF Reserve, ShapeOK
    <3>4. QED
      BY <1>4, <3>1, <3>2, <3>3
      DEF RequestStep, Created, RefundReservation, CreateFails, Abandon
  <2>6. InsertedRowsStay'
    BY <1>0, <1>1, <2>1, <2>5 DEF InsertedRowsStay, Exists
  <2>7. QED
    BY <2>4, <2>6
<1>5. ASSUME NEW r \in Requests, RequestStep(r)  PROVE IdsSuffice' /\ InsertedRowsStay'
  <2>1. CASE Answer(r) \/ Create(r)
    <3>1. request'[r].pc # "reserved"
      <4>1. CASE Answer(r)
        BY <1>0, <4>1 DEF Answer, ShapeOK
      <4>2. CASE Create(r)
        BY <1>0, <4>2 DEF Create, ShapeOK
      <4>3. QED
        BY <2>1, <4>1, <4>2
    <3>2. QED
      BY <1>4, <1>5, <3>1
  <2>2. QED
    BY <1>3, <1>5, <2>1 DEF RequestStep, Created, RefundReservation, CreateFails, Abandon
<1>6. ASSUME NEW w \in Workers, WorkerStep(w) \/ DeadlockVictim(w) \/ Abort(w)
      PROVE  UNCHANGED <<request, nextId>>
  BY <1>6 DEF WorkerStep, Select, ReturnNone, DeadlockVictim, Abort, Handle, FailCandidate,
     CheckCapacity, Claim, CandidateGone, ReadBack, Complete, PersistFails, Fallback,
     Fail, database, history
<1>7. ASSUME NEW j \in Jobs, Lapse(j) \/ Age(j)  PROVE UNCHANGED <<request, nextId>>
  BY <1>7 DEF Lapse, Age
<1>8. QED
  BY <1>2, <1>5, <1>6, <1>7 DEF Next, Quiescent, Solo, vars

-----------------------------------------------------------------------------
(* The invariant, and what follows from it at once.                        *)

LEMMA InitSInv == Init => SInv
<1> SUFFICES ASSUME Init PROVE SInv
  OBVIOUS
<1>1. /\ \A w \in Workers : worker[w].todo = {}
      /\ \A j \in Jobs : /\ job[j] = NoRow /\ rowLock[j] = NoOne
                         /\ refunds[j] = 0 /\ runs[j] = 0
  BY DEF Init
<1>2. RowsAddUp
  BY <1>1, MaxAttemptsAssumption DEF RowsAddUp, NoRow
<1>3. ScansHoldLocks
  BY <1>1, ActorsAssumption DEF ScansHoldLocks
<1>4. NoneOvertaken
  BY <1>1 DEF NoneOvertaken, NoRow
<1>5. ListsAreFresh /\ ClaimsAreDue /\ ScansAreInOrder
  BY <1>1 DEF ListsAreFresh, ClaimsAreDue, ScansAreInOrder
<1>6. Waiting("reserved") = {} /\ InsertedRowsStay /\ nextId = 1
  BY DEF Init, Waiting, InsertedRowsStay
<1>7. IdsSuffice
  <2>1. IsFiniteSet(Waiting("reserved")) /\ Cardinality(Waiting("reserved")) = 0
    BY <1>6, FS_EmptySet
  <2>2. nextId + Cardinality(Waiting("reserved")) <= MaxJobs + 1
    BY <1>6, <2>1, MaxJobsAssumption
  <2>3. QED
    BY <2>1, <2>2 DEF IdsSuffice
<1>8. QED
  BY <1>2, <1>3, <1>4, <1>5, <1>6, <1>7 DEF SInv

LEMMA SInvStep ==
    ASSUME Solo, IInv, SInv, [Next]_vars
    PROVE  SInv'
<1>1. RowsAddUp'
  BY RowsStep, RowsAddUpStep DEF SInv
<1>2. QED
  BY <1>1, ListsStep, NoneOvertakenStep, IdsStep DEF SInv, Lists

LEMMA SoloInvariance == ASSUME Solo PROVE Spec => [](IInv /\ SInv)
<1>1. Init => SInv
  BY InitSInv
<1>2. IInv /\ SInv /\ [Next]_vars => SInv'
  BY SInvStep
<1>3. QED
  BY Invariance, <1>1, <1>2, PTL DEF Spec

\* The quota of a job is given back once if it failed, and never otherwise: with
\* one worker, no crash, retry, expiry or failed commit refunds a job twice, nor
\* a job that completed.
THEOREM RefundsMatch == ASSUME Solo PROVE Spec => []RefundMatchesOutcome
<1>1. SInv => RefundMatchesOutcome
  BY DEF SInv, RowsAddUp, RefundMatchesOutcome
<1>2. QED
  BY SoloInvariance, <1>1, PTL

\* attempt_count counts the engine runs of a job, and they are bounded by
\* max_attempts: a job whose worker keeps dying is not run for ever.
THEOREM AttemptsAreRuns == ASSUME Solo PROVE Spec => []AttemptsCountRuns
<1>1. SInv => AttemptsCountRuns
  BY DEF SInv, RowsAddUp, AttemptsCountRuns
<1>2. QED
  BY SoloInvariance, <1>1, PTL

\* claim_next_job takes a row that is pending or stuck at the moment it takes it,
\* although it decides on a list it may no longer hold the locks of.
THEOREM ClaimsAreEligible == ASSUME Solo PROVE Spec => ClaimsOnlyEligible
<1>1. IInv /\ SInv /\ [Next]_vars => [\A j \in Jobs : runs'[j] # runs[j] => Claimable(j)]_vars
  <2> SUFFICES ASSUME IInv, SInv, [Next]_vars, NEW j \in Jobs, runs'[j] # runs[j]
               PROVE  Claimable(j)
    OBVIOUS
  <2>1. Started(j) \/ Retried(j)
    BY RowsStep DEF AllKept, OneMoved, Kept, Moved, Submitted, Failed, Completed
  <2>2. QED
    BY <2>1 DEF Started, Retried, Goes, Claimable
<1>2. QED
  BY SoloInvariance, <1>1, PTL DEF Spec, ClaimsOnlyEligible

\* A user's jobs are started in the order of created_at where it is the order of
\* the commits, for any limit of the candidate query, any plan and any order of the
\* other jobs: a job is passed over only while its owner has no room, and room made
\* within a scan is never given to a job behind it.
THEOREM StartsAreInOrder == ASSUME Solo PROVE Spec => OldestFirst
<1>1. IInv /\ SInv /\ [Next]_vars =>
        [\A j \in Jobs : job[j].status = "pending" /\ job'[j].status = "running" =>
            \A i \in Jobs : Precedes(i, j) => job[i].status # "pending"]_vars
  <2> SUFFICES ASSUME IInv, SInv, [Next]_vars,
                      NEW j \in Jobs, job[j].status = "pending", job'[j].status = "running",
                      NEW i \in Jobs, Precedes(i, j)
               PROVE  job[i].status # "pending"
    OBVIOUS
  <2>1. ~Before(i, j)
    BY StartsInOrder
  <2>2. QED
    BY <2>1 DEF Before
<1>2. QED
  BY SoloInvariance, <1>1, PTL DEF Spec, OldestFirst

\* A completed or failed job never changes status again: it takes a second worker,
\* with a list that has lost its locks, to bring one back.
THEOREM SettledIsFinal == ASSUME Solo PROVE Spec => TerminalIsFinal
<1>1. IInv /\ SInv /\ [Next]_vars =>
        [\A j \in Jobs : job[j].status \in Terminal =>
            job'[j].status \in {job[j].status, "absent"}]_vars
  <2> SUFFICES ASSUME IInv, SInv, [Next]_vars, NEW j \in Jobs, job[j].status \in Terminal
               PROVE  job'[j].status = job[j].status
    OBVIOUS
  <2>1. ~Moved(j)
    BY DEF Moved, Submitted, Failed, Started, Retried, Completed, Goes, Terminal
  <2>2. QED
    BY <2>1, RowsStep DEF AllKept, OneMoved, Kept
<1>2. QED
  BY SoloInvariance, <1>1, PTL DEF Spec, TerminalIsFinal

-----------------------------------------------------------------------------
(* The accounts: what is counted, and the sets it is compared with.        *)

LEMMA AccountSets ==
    ASSUME IdsSuffice
    PROVE  \A u : /\ IsFiniteSet(InFlight(u)) /\ Cardinality(InFlight(u)) \in Nat
                  /\ IsFiniteSet(Billable(u)) /\ Cardinality(Billable(u)) \in Nat
<1>1. \A u : InFlight(u) \subseteq Waiting("reserved")
  BY DEF InFlight, Waiting
<1>2. IsFiniteSet(Jobs)
  BY FS_Interval, MaxJobsAssumption DEF Jobs
<1>3. \A u : Billable(u) \subseteq Jobs
  BY DEF Billable
<1>4. QED
  BY <1>1, <1>2, <1>3, FS_Subset, FS_CardinalityType DEF IdsSuffice

\* Nothing that is counted changes.
LEMMA AccountsKept ==
    ASSUME QuotaAccounted, UNCHANGED <<used, leaked>>, \A u : InFlight(u)' = InFlight(u),
           \A j \in Jobs : job'[j].owner = job[j].owner /\ refunds'[j] = refunds[j]
    PROVE  QuotaAccounted'
<1>1. \A u : Billable(u)' = Billable(u)
  BY DEF Billable
<1>2. QED
  BY <1>1 DEF QuotaAccounted

\* A failed job is no longer billable, and its owner's counter is one lower.
LEMMA AccountsOfFailure ==
    ASSUME IInv, SInv, QuotaAccounted, NEW j \in Jobs, NEW u \in Users,
           OneMoved(j), Failed(j), job[j].owner = u, GiveBack(u),
           UNCHANGED <<leaked, request>>
    PROVE  QuotaAccounted'
<1>1. \A v : InFlight(v)' = InFlight(v)
  BY DEF InFlight
<1>3. /\ job'[j].owner = job[j].owner /\ refunds'[j] = 1 /\ refunds[j] = 0
      /\ \A i \in Jobs : i # j => job'[i].owner = job[i].owner /\ refunds'[i] = refunds[i]
  BY DEF OneMoved, Failed, Goes, Kept, SInv, RowsAddUp
<1>4. /\ j \in Billable(u) /\ Billable(u)' = Billable(u) \ {j}
      /\ \A v : v # u => Billable(v)' = Billable(v)
  BY <1>3 DEF Billable
<1>5. \A v : /\ Cardinality(InFlight(v)) \in Nat /\ IsFiniteSet(Billable(v))
             /\ Cardinality(Billable(v)) \in Nat
  BY AccountSets DEF SInv
<1>6. PICK S, T : S = Billable(u) /\ T = Billable(u)' /\ T = S \ {j} /\ j \in S /\ IsFiniteSet(S)
  BY <1>4, <1>5
<1>7. /\ Cardinality(Billable(u)') = Cardinality(Billable(u)) - 1
      /\ Cardinality(Billable(u)') \in Nat
  <2>1. IsFiniteSet(T) /\ Cardinality(T) = Cardinality(S) - 1
    BY <1>6, FS_RemoveElement
  <2>2. QED
    BY <1>6, <2>1, FS_CardinalityType
<1>8. used \in [Users -> Nat] /\ leaked \in [Users -> Nat]
  BY DEF IInv, ShapeOK
<1>9. used'[u] = Cardinality(InFlight(u)') + Cardinality(Billable(u)') + leaked'[u]
  <2>1. used[u] = Cardinality(InFlight(u)) + Cardinality(Billable(u)) + leaked[u]
    BY DEF QuotaAccounted
  <2>2. used[u] >= 1
    BY <1>5, <1>7, <1>8, <2>1
  <2>3. used'[u] = used[u] - 1
    BY <1>8, <2>2 DEF GiveBack
  <2>4. PICK a \in Nat, b \in Nat, c \in Nat :
              a = Cardinality(InFlight(u)) /\ b = Cardinality(Billable(u)) /\ c = leaked[u]
    BY <1>5, <1>8
  <2>5. QED
    BY <1>1, <1>7, <2>1, <2>3, <2>4
<1>10. ASSUME NEW v \in Users, v # u
       PROVE  used'[v] = Cardinality(InFlight(v)') + Cardinality(Billable(v)') + leaked'[v]
  BY <1>1, <1>4, <1>8, <1>10 DEF QuotaAccounted, GiveBack
<1>11. QED
  BY <1>9, <1>10 DEF QuotaAccounted

\* A request that stops waiting for its insert is no longer in flight.
LEMMA Landing ==
    ASSUME IdsSuffice, NEW r \in Requests, NEW u \in Users, request[r].pc = "reserved",
           request[r].user = u, request'[r].pc # "reserved",
           \A q \in Requests : q # r => request'[q] = request[q]
    PROVE  /\ Cardinality(InFlight(u)') = Cardinality(InFlight(u)) - 1
           /\ Cardinality(InFlight(u)') \in Nat
           /\ \A v : v # u => InFlight(v)' = InFlight(v)
<1>2. PICK S, T : S = InFlight(u) /\ T = InFlight(u)'
  OBVIOUS
<1>3. r \in S /\ T = S \ {r} /\ IsFiniteSet(S)
  BY <1>2, AccountSets DEF InFlight
<1>4. Cardinality(T) = Cardinality(S) - 1 /\ Cardinality(T) \in Nat
  BY <1>3, FS_RemoveElement, FS_CardinalityType
<1>5. \A v : v # u => InFlight(v)' = InFlight(v)
  BY DEF InFlight
<1>6. /\ Cardinality(InFlight(u)') = Cardinality(InFlight(u)) - 1
      /\ Cardinality(InFlight(u)') \in Nat
  BY <1>2, <1>4
<1>7. QED
  BY <1>5, <1>6

\* What a request had reserved is its job's from the insert on.
LEMMA BalancedInsert ==
    ASSUME IInv, SInv, QuotaAccounted, NEW r \in Requests, NEW u \in Users,
           request[r].pc = "reserved", request[r].user = u, Insert(u),
           UNCHANGED <<used, leaked, refunds>>, request'[r].pc # "reserved",
           \A q \in Requests : q # r => request'[q] = request[q]
    PROVE  QuotaAccounted'
<1>1. nextId \in Jobs
  BY WaitingLeaves DEF SInv
<1>2. PICK a \in Nat, b \in Nat, c \in Nat :
           a = Cardinality(InFlight(u)) /\ b = Cardinality(Billable(u)) /\ c = leaked[u]
  BY AccountSets DEF IInv, ShapeOK, SInv
<1>3. /\ Cardinality(InFlight(u)') = a - 1
      /\ \A v : v # u => InFlight(v)' = InFlight(v)
  BY <1>2, Landing DEF SInv
<1>4. PICK row : /\ row = [NoRow EXCEPT !.status = "pending", !.owner = u]
                 /\ job' = [job EXCEPT ![nextId] = row]
  BY DEF Insert
<1>5. row.owner = u
  BY <1>4 DEF NoRow
<1>6. \A j \in Jobs : job'[j] = IF j = nextId THEN row ELSE job[j]
  BY <1>4, Rows
<1>7. job[nextId].owner = NoUser /\ refunds[nextId] = 0 /\ u # NoUser
  <2>1. ~(nextId < nextId)
    BY DEF IInv, ShapeOK
  <2>2. ~Exists(nextId)
    BY <1>1, <2>1 DEF IInv, Ownership, RowsAreOwned
  <2>3. QED
    BY <1>1, <2>2, ActorsAssumption DEF SInv, RowsAddUp, Exists
<1>8. /\ nextId \notin Billable(u) /\ Billable(u)' = Billable(u) \union {nextId}
      /\ \A v \in Users : v # u => Billable(v)' = Billable(v)
  BY <1>1, <1>5, <1>6, <1>7, ActorsAssumption DEF Billable
<1>9. Cardinality(Billable(u)') = b + 1
  BY <1>2, <1>8, AccountSets, FS_AddElement DEF SInv
<1>10. used'[u] = Cardinality(InFlight(u)') + Cardinality(Billable(u)') + leaked'[u]
  BY <1>2, <1>3, <1>9 DEF QuotaAccounted
<1>11. ASSUME NEW v \in Users, v # u
       PROVE  used'[v] = Cardinality(InFlight(v)') + Cardinality(Billable(v)') + leaked'[v]
  BY <1>3, <1>8, <1>11 DEF QuotaAccounted
<1>12. QED
  BY <1>10, <1>11 DEF QuotaAccounted

\* The reservation of a request that dies, or whose insert fails, is lost.
LEMMA BalancedLeak ==
    ASSUME IInv, SInv, QuotaAccounted, NEW r \in Requests, NEW u \in Users,
           request[r].pc = "reserved", request[r].user = u,
           leaked' = [leaked EXCEPT ![u] = @ + 1],
           UNCHANGED <<job, used, refunds>>, request'[r].pc # "reserved",
           \A q \in Requests : q # r => request'[q] = request[q]
    PROVE  QuotaAccounted'
<1>1. PICK a \in Nat, b \in Nat, c \in Nat :
           a = Cardinality(InFlight(u)) /\ b = Cardinality(Billable(u)) /\ c = leaked[u]
  BY AccountSets DEF IInv, ShapeOK, SInv
<1>2. /\ Cardinality(InFlight(u)') = a - 1
      /\ \A v : v # u => InFlight(v)' = InFlight(v)
  BY <1>1, Landing DEF SInv
<1>3. \A v : Billable(v)' = Billable(v)
  BY DEF Billable
<1>4. leaked'[u] = c + 1 /\ \A v \in Users : v # u => leaked'[v] = leaked[v]
  BY <1>1 DEF IInv, ShapeOK
<1>5. used'[u] = Cardinality(InFlight(u)') + Cardinality(Billable(u)') + leaked'[u]
  BY <1>1, <1>2, <1>3, <1>4 DEF QuotaAccounted
<1>6. ASSUME NEW v \in Users, v # u
      PROVE  used'[v] = Cardinality(InFlight(v)') + Cardinality(Billable(v)') + leaked'[v]
  BY <1>2, <1>3, <1>4, <1>6 DEF QuotaAccounted
<1>7. QED
  BY <1>5, <1>6 DEF QuotaAccounted

\* A request that reserves is in flight from then on.
LEMMA BalancedReserve ==
    ASSUME IInv, SInv, QuotaAccounted, NEW r \in Requests, NEW u \in Users, Reserve(r, u)
    PROVE  QuotaAccounted'
<1>1. /\ request[r].pc = "idle" /\ UNCHANGED <<job, leaked, refunds>>
      /\ used' = [used EXCEPT ![u] = @ + 1]
  BY DEF Reserve, history
<1>2. \A q \in Requests : request'[q] = IF q = r THEN [pc |-> "reserved", user |-> u, id |-> 0]
                                       ELSE request[q]
  BY DEF Reserve, IInv, ShapeOK
<1>3. /\ r \notin InFlight(u) /\ InFlight(u)' = InFlight(u) \union {r}
      /\ \A v : v # u => InFlight(v)' = InFlight(v)
      /\ \A v : Billable(v)' = Billable(v)
  BY <1>1, <1>2 DEF InFlight, Billable
<1>4. /\ IsFiniteSet(InFlight(u)) /\ used \in [Users -> Nat]
      /\ \A v \in Users :
           used[v] = Cardinality(InFlight(v)) + Cardinality(Billable(v)) + leaked[v]
  BY AccountSets DEF SInv, QuotaAccounted, IInv, ShapeOK
<1>5. PICK a \in Nat, b \in Nat, c \in Nat :
           a = Cardinality(InFlight(u)) /\ b = Cardinality(Billable(u)) /\ c = leaked[u]
  BY AccountSets DEF IInv, ShapeOK, SInv
<1>6. Cardinality(InFlight(u)') = a + 1
  BY <1>3, <1>4, <1>5, FS_AddElement
<1>7. used'[u] = Cardinality(InFlight(u)') + Cardinality(Billable(u)') + leaked'[u]
  BY <1>1, <1>3, <1>4, <1>5, <1>6
<1>8. ASSUME NEW v \in Users, v # u
      PROVE  used'[v] = Cardinality(InFlight(v)') + Cardinality(Billable(v)') + leaked'[v]
  BY <1>1, <1>3, <1>4, <1>8
<1>9. QED
  BY <1>7, <1>8 DEF QuotaAccounted

LEMMA BalancedRequest ==
    ASSUME IInv, SInv, QuotaAccounted, NEW r \in Requests, RequestStep(r)
    PROVE  QuotaAccounted'
<1>1. \A q \in Requests : q # r => request'[q] = request[q]
  BY OneRequestMoves DEF IInv
<1>2. ASSUME Answer(r)  PROVE request'[r].pc = "idle"
  BY <1>2 DEF Answer, IInv, ShapeOK
<1>3. ASSUME request[r].pc = "reserved", request'[r].pc # "reserved",
             Insert(request[r].user), UNCHANGED <<used, leaked, refunds>>
      PROVE  QuotaAccounted'
  <2>1. PICK u \in Users : u = request[r].user
    BY <1>3 DEF IInv, Ownership, RequestsAreOwned
  <2>2. Insert(u)
    BY <1>3, <2>1
  <2>3. QED
    BY <1>1, <1>3, <2>1, <2>2, BalancedInsert
<1>4. ASSUME request[r].pc = "reserved", request'[r].pc # "reserved",
             leaked' = [leaked EXCEPT ![request[r].user] = @ + 1],
             UNCHANGED <<job, used, refunds>>
      PROVE  QuotaAccounted'
  <2>1. PICK u \in Users : u = request[r].user
    BY <1>4 DEF IInv, Ownership, RequestsAreOwned
  <2>2. leaked' = [leaked EXCEPT ![u] = @ + 1]
    BY <1>4, <2>1
  <2>3. QED
    BY <1>1, <1>4, <2>1, <2>2, BalancedLeak
<1>5. ASSUME request[r].pc = "inserted", Answer(r), UNCHANGED <<job, used, leaked, refunds>>
      PROVE  QuotaAccounted'
  <2>1. \A u : InFlight(u)' = InFlight(u)
    BY <1>1, <1>2, <1>5 DEF InFlight
  <2>2. QED
    BY <1>5, <2>1, AccountsKept
<1>6. CASE Create(r)
  <2>1. request'[r].pc = "inserted"
    BY <1>6 DEF Create, IInv, ShapeOK
  <2>2. QED
    BY <1>3, <1>6, <2>1 DEF Create, history
<1>7. CASE CreateFails(r)
  BY <1>2, <1>3, <1>4, <1>7 DEF CreateFails
<1>8. CASE Created(r)
  BY <1>5, <1>8 DEF Created, database, history
<1>9. CASE Abandon(r)
  <2>1. request[r].pc \in {"reserved", "inserted"}
    BY <1>9 DEF Abandon, IInv, ShapeOK, RequestState
  <2>2. QED
    BY <1>2, <1>4, <1>5, <1>9, <2>1 DEF Abandon, database
<1>10. ~RefundReservation(r)
  BY DEF RefundReservation, SInv, InsertedRowsStay
<1>11. QED
  BY <1>6, <1>7, <1>8, <1>9, <1>10, BalancedReserve DEF RequestStep

\* A worker changes the accounts where it fails a job, and nowhere else.
LEMMA BalancedWorker ==
    ASSUME Solo, IInv, SInv, QuotaAccounted, NEW w \in Workers,
           WorkerStep(w) \/ DeadlockVictim(w) \/ Abort(w)
    PROVE  QuotaAccounted'
<1>1. UNCHANGED <<leaked, request, nextId>>
  BY DEF WorkerStep, Select, ReturnNone, DeadlockVictim, Abort, Handle, FailCandidate,
         CheckCapacity, Claim, CandidateGone, ReadBack, Complete, PersistFails, Fallback,
         Fail, database, history
<1>2. ASSUME NEW s \in worker[w].todo, FailAndRefund(s.id, s.owner), UNCHANGED runs,
             job[s.id].status \in {"pending", "running"}
      PROVE  QuotaAccounted'
  <2>1. PICK j \in Jobs, u \in Users : j = s.id /\ u = s.owner
    BY SnapshotFacts
  <2>2. job[j].owner = u
    BY <1>2, <2>1, SnapshotFacts DEF Exists
  <2>7. FailAndRefund(j, u)
    BY <1>2, <2>1 DEF FailAndRefund, GiveBack, CountRefund
  <2>3. OneMoved(j) /\ GiveBack(u)
    <3>1. OneMoved(j)
      BY <1>2, <2>1, <2>7, FailingMoves DEF SInv
    <3>2. QED
      BY <2>7, <3>1 DEF FailAndRefund
  <2>4. job'[j].status = "failed"
    BY <1>2, <2>1, Rows DEF FailAndRefund, Row
  <2>5. Failed(j)
    BY <2>3, <2>4 DEF OneMoved, Moved, Submitted, Started, Retried, Completed, Goes
  <2>6. QED
    BY <1>1, <2>2, <2>3, <2>5, AccountsOfFailure
<1>3. ASSUME NEW s \in worker[w].todo, FailCandidate(w, s)  PROVE QuotaAccounted'
  <2>1. job[s.id].status \in {"pending", "running"}
    BY <1>3, SnapshotFacts DEF FailCandidate, At, SInv, ListsAreFresh
  <2>2. QED
    BY <1>2, <1>3, <2>1 DEF FailCandidate
<1>4. ASSUME NEW s \in worker[w].todo, Fallback(w, s) \/ Fail(w, s)  PROVE QuotaAccounted'
  <2>1. job[s.id].status = "running"
    BY <1>4 DEF Fallback, Fail, At, SInv, ListsAreFresh
  <2>2. FailAndRefund(s.id, s.owner) /\ UNCHANGED runs
    BY <1>4, <2>1 DEF Fallback, Fail, Exists
  <2>3. QED
    BY <1>2, <2>1, <2>2
<1>5. CASE UNCHANGED <<used, refunds>>
  <2>1. \A j \in Jobs : job'[j].owner = job[j].owner
    <3>1. AllKept \/ \E j \in Jobs : OneMoved(j)
      BY WorkerMoves
    <3>2. ASSUME NEW j \in Jobs, Submitted(j)  PROVE FALSE
      <4>1. nextId' = nextId /\ ~(nextId < nextId) /\ j = nextId
        BY <1>1, <3>2 DEF IInv, ShapeOK, Submitted
      <4>2. Exists(j)' /\ ~Exists(j)
        BY <3>2 DEF Submitted, Exists
      <4>3. RowsOnlyGo \/ UNCHANGED job
        BY HandleRowsGo DEF IInv, WorkerStep, Select, ReturnNone, DeadlockVictim, Abort
      <4>4. QED
        BY <4>2, <4>3 DEF RowsOnlyGo, Exists
    <3>3. QED
      BY <3>1, <3>2 DEF AllKept, OneMoved, Moved, Kept, Failed, Started, Retried, Completed,
                        Goes
  <2>2. QED
    BY <1>1, <1>5, <2>1, AccountsKept DEF InFlight
<1>6. \/ UNCHANGED <<used, refunds>>
      \/ \E s \in worker[w].todo : FailCandidate(w, s) \/ Fallback(w, s) \/ Fail(w, s)
  BY DEF WorkerStep, Select, ReturnNone, DeadlockVictim, Abort, Handle,
         CheckCapacity, Claim, CandidateGone, ReadBack, Complete, PersistFails,
         database, history
<1>7. QED
  BY <1>3, <1>4, <1>5, <1>6

LEMMA BalancedStep ==
    ASSUME Solo, IInv, SInv, QuotaAccounted, [Next]_vars
    PROVE  QuotaAccounted'
<1>1. ASSUME NEW r \in Requests, RequestStep(r)  PROVE QuotaAccounted'
  BY <1>1, BalancedRequest
<1>2. ASSUME NEW j \in Jobs, Lapse(j) \/ Age(j)  PROVE QuotaAccounted'
  <2>1. UNCHANGED <<used, leaked, request>>
    BY <1>2 DEF Lapse, Age, history
  <2>2. AllKept
    BY <1>2, TimeKeeps
  <2>3. QED
    BY <2>1, <2>2, AccountsKept DEF AllKept, Kept, InFlight
<1>3. CASE UNCHANGED vars
  <2>1. UNCHANGED <<used, leaked, request, job, refunds>>
    BY <1>3 DEF vars, database, history
  <2>2. QED
    BY <2>1, AccountsKept DEF InFlight
<1>4. QED
  BY <1>1, <1>2, <1>3, BalancedWorker DEF Next, Quiescent, Solo

LEMMA InitBalanced == Init => QuotaAccounted
<1> SUFFICES ASSUME Init PROVE QuotaAccounted
  OBVIOUS
<1>1. \A u \in Users : InFlight(u) = {} /\ Billable(u) = {} /\ used[u] = 0 /\ leaked[u] = 0
  BY ActorsAssumption DEF Init, InFlight, Billable, NoRow
<1>2. QED
  BY <1>1, FS_EmptySet DEF QuotaAccounted

\* The counter of a user is exactly what the user owes, at every moment: requests
\* that have not inserted their job, jobs that were not refunded, and what dead or
\* failed requests left behind.
THEOREM CounterIsExact == ASSUME Solo PROVE Spec => []QuotaAccounted
<1>1. IInv /\ SInv /\ QuotaAccounted /\ [Next]_vars => QuotaAccounted'
  BY BalancedStep
<1>2. QED
  BY SoloInvariance, InitBalanced, <1>1, PTL DEF Spec

-----------------------------------------------------------------------------
(* The queue implements the lifecycle.                                     *)

status == [j \in Jobs |-> job[j].status]
billed == [j \in Jobs |-> Exists(j) /\ refunds[j] = 0]

\* A step of one row is a step of its lifecycle.
LEMMA MoveIsLifecycle ==
    ASSUME IInv, SInv, runs' \in [Jobs -> Nat], NEW j \in Jobs, OneMoved(j)
    PROVE  Lifecycle!Next
<1>1. /\ \A i \in Jobs : status'[i] = IF i = j THEN job'[j].status ELSE status[i]
      /\ \A i \in Jobs : i # j => runs'[i] = runs[i] /\ billed'[i] = billed[i]
  BY DEF OneMoved, Kept, status, billed, Exists
<1>2. /\ status \in [Jobs -> Statuses] /\ status' = [status EXCEPT ![j] = job'[j].status]
      /\ status[j] = job[j].status
  <2>1. status \in [Jobs -> Statuses] /\ status[j] = job[j].status
    BY Rows DEF status, Row
  <2>2. status' = [i \in Jobs |-> status'[i]]
    BY DEF status
  <2>3. QED
    BY <1>1, <2>1, <2>2
<1>3. billed' = [billed EXCEPT ![j] = billed'[j]]
  <2>1. billed' = [i \in Jobs |-> billed'[i]] /\ billed = [i \in Jobs |-> billed[i]]
    BY DEF billed
  <2>2. QED
    BY <1>1, <2>1
<1>4. billed'[j] = (job'[j].status # "absent" /\ refunds'[j] = 0)
  BY DEF billed, Exists
<1>5. /\ runs \in [Jobs -> Nat] /\ runs' = [runs EXCEPT ![j] = runs'[j]]
  <2>1. runs \in [Jobs -> Nat]
    BY Rows
  <2>2. runs' = [i \in Jobs |-> runs'[i]]
    OBVIOUS
  <2>3. QED
    BY <1>1, <2>1, <2>2
<1>6. /\ refunds[j] = IF status[j] = "failed" THEN 1 ELSE 0
      /\ runs[j] = job[j].attempts /\ runs[j] \in Nat
      /\ status[j] \in {"absent", "pending"} => runs[j] = 0
  <2>1. /\ refunds[j] = IF job[j].status = "failed" THEN 1 ELSE 0
        /\ runs[j] = job[j].attempts
        /\ job[j].status \in {"absent", "pending"} => job[j].attempts = 0
    BY DEF SInv, RowsAddUp
  <2>2. QED
    BY <1>2, <1>5, <2>1
<1>7. billed[j] = (status[j] # "absent" /\ refunds[j] = 0)
  BY <1>2 DEF billed, Exists
<1>8. CASE Submitted(j)
  <2>1. Lifecycle!Submit(j)
    <3>1. /\ status[j] = "absent" /\ job'[j].status = "pending"
          /\ billed'[j] = TRUE /\ runs'[j] = runs[j]
      BY <1>2, <1>4, <1>6, <1>8 DEF Submitted
    <3>2. runs' = runs
      BY <1>5, <3>1
    <3>3. QED
      BY <1>2, <1>3, <3>1, <3>2 DEF Lifecycle!Submit, status, billed
  <2>2. QED
    BY <2>1 DEF Lifecycle!Next
<1>9. ASSUME NEW from \in {"pending", "running"}, NEW to \in {"running", "completed", "failed"},
             status[j] = from, to # from, job'[j].status = to, from = "pending" => to # "completed",
             runs'[j] = IF to = "running" THEN 1 ELSE runs[j],
             refunds'[j] = IF to = "failed" THEN 1 ELSE 0
      PROVE  Lifecycle!Next
  <2>1. Lifecycle!can_transition(from, to)
    BY <1>9 DEF Lifecycle!can_transition, Lifecycle!ALL_STATUSES, Lifecycle!VALID_TRANSITIONS
  <2>2. billed'[j] = (to # "failed")
    BY <1>4, <1>9
  <2>3. Lifecycle!Move(j, to)
    BY <1>2, <1>3, <1>5, <1>9, <2>1, <2>2 DEF Lifecycle!Move, status, billed
  <2>4. to \in Lifecycle!ALL_STATUSES
    BY DEF Lifecycle!ALL_STATUSES
  <2>5. QED
    BY <2>3, <2>4 DEF Lifecycle!Next
<1>10. CASE Failed(j)
  BY <1>2, <1>9, <1>10 DEF Failed, Goes
<1>11. CASE Started(j)
  BY <1>2, <1>6, <1>9, <1>11 DEF Started, Goes
<1>12. CASE Completed(j)
  BY <1>2, <1>6, <1>9, <1>12 DEF Completed, Goes
<1>13. CASE Retried(j)
  <2>1. Lifecycle!Retry(j)
    <3>1. /\ status[j] = "running" /\ job'[j].status = "running"
          /\ billed'[j] = billed[j]
          /\ runs[j] < MaxAttempts /\ runs'[j] = runs[j] + 1
      BY <1>2, <1>4, <1>7, <1>13 DEF Retried, Goes
    <3>2. status' = status /\ billed' = billed
      <4>1. status \in [Jobs -> Statuses] /\ billed = [i \in Jobs |-> billed[i]]
        BY <1>2 DEF billed
      <4>2. QED
        BY <1>2, <1>3, <3>1, <4>1
    <3>3. QED
      BY <1>5, <3>1, <3>2 DEF Lifecycle!Retry, status, billed
  <2>2. QED
    BY <2>1 DEF Lifecycle!Next
<1>14. QED
  BY <1>8, <1>10, <1>11, <1>12, <1>13 DEF OneMoved, Moved

\* A step that keeps the rows is invisible.
LEMMA KeptIsStutter ==
    ASSUME runs \in [Jobs -> Nat], runs' \in [Jobs -> Nat], AllKept
    PROVE  UNCHANGED Lifecycle!vars
<1>1. runs' = runs
  BY DEF AllKept, Kept
<1>2. status' = status /\ billed' = billed
  BY DEF AllKept, Kept, status, billed, Exists
<1>3. QED
  BY <1>1, <1>2 DEF Lifecycle!vars, status, billed

\* With one worker scanning and nobody deleting, the queue implements the
\* lifecycle that simulation_job.py declares, with what it costs the owner:
\* every crash, retry, stale candidate list and failed commit is one of the
\* declared transitions or invisible.
THEOREM QueueFollowsLifecycle == ASSUME Solo PROVE Spec => FollowsLifecycle
<1>1. Init => Lifecycle!Init
  <2> SUFFICES ASSUME Init PROVE Lifecycle!Init
    OBVIOUS
  <2>1. status = [j \in Jobs |-> "absent"] /\ billed = [j \in Jobs |-> FALSE]
    BY DEF Init, status, billed, Exists, NoRow
  <2>2. QED
    BY <2>1 DEF Init, Lifecycle!Init, status, billed
<1>2. IInv /\ SInv /\ IInv' /\ [Next]_vars => [Lifecycle!Next]_(Lifecycle!vars)
  <2> SUFFICES ASSUME IInv, SInv, IInv', [Next]_vars
               PROVE  [Lifecycle!Next]_(Lifecycle!vars)
    OBVIOUS
  <2>1. runs \in [Jobs -> Nat] /\ runs' \in [Jobs -> Nat]
    BY DEF IInv, ShapeOK
  <2>2. QED
    BY <2>1, RowsStep, MoveIsLifecycle, KeptIsStutter
<1>3. QED
  BY SoloInvariance, <1>1, <1>2, PTL DEF Spec, FollowsLifecycle, Lifecycle!Spec

-----------------------------------------------------------------------------
(* The counters of the worker (WorkerTelemetry).  A commit is counted in   *)
(* two moves: the worker owes it when it is made, and has told it when it  *)
(* is recorded.  What is owed counts as told, so the first move changes    *)
(* what happened and what is told alike, and the second neither.           *)

TelemetryShape == /\ counts \in [Workers -> [Counters -> Nat]]
                  /\ owed \in [Workers -> SUBSET Counters]

HonestInv == IInv /\ SInv /\ TelemetryShape /\ TelemetryIsHonest

One(c, cs) == IF c \in cs THEN 1 ELSE 0

\* The step adds one to what happened, for each of cs.
Happens(cs) ==
    /\ \E h \in Nat : h = AllRuns /\ AllRuns' = h + One("started", cs)
    /\ \E h \in Nat : /\ h = Outcomes("completed")
                      /\ Outcomes("completed")' = h + One("completed", cs)
    /\ \E h \in Nat : h = Outcomes("failed") /\ Outcomes("failed")' = h + One("failed", cs)

\* Only w reports differently afterwards.
OnlyTells(w) == \A v \in Workers \ {w} : counts'[v] = counts[v] /\ owed'[v] = owed[v]

\* It tells one more of each of cs.
Tells(w, cs) == /\ OnlyTells(w)
                /\ \A c \in Counters : Told(w, c)' = Told(w, c) + One(c, cs)

\* It forgets what it owed, and may forget all.
Forgets(w) == /\ OnlyTells(w) /\ owed'[w] = {}
              /\ counts'[w] = counts[w] \/ counts'[w] = Zero

LEMMA FewWorkers == ASSUME Solo, NEW w \in Workers PROVE IsFiniteSet(Workers)
<1>1. Workers = {w}
  BY DEF Solo
<1>2. QED
  BY <1>1, FS_Singleton

\* The sum of what the workers tell changes with what one of them tells.
LEMMA ReportedChanges ==
    ASSUME Solo, TelemetryShape, TelemetryShape', NEW w \in Workers, NEW c \in Counters,
           OnlyTells(w)
    PROVE  \E m, n, a, b \in Nat :
             /\ m = Reported(c) /\ n = Reported(c)' /\ a = Told(w, c) /\ b = Told(w, c)'
             /\ n + a = m + b
<1>1. PICK f, g : f = [v \in Workers |-> Told(v, c)] /\ g = [v \in Workers |-> Told(v, c)']
  OBVIOUS
<1>2. f \in [Workers -> Nat] /\ g \in [Workers -> Nat]
  BY <1>1 DEF Told, TelemetryShape
<1>3. \A v \in Workers \ {w} : g[v] = f[v]
  BY <1>1 DEF Told, OnlyTells
<1>4. /\ SumFunction(f) \in Nat /\ SumFunction(g) \in Nat
      /\ SumFunction(g) + f[w] = SumFunction(f) + g[w]
  BY <1>2, <1>3, FewWorkers, SumChanges
<1>5. Reported(c) = SumFunction(f) /\ Reported(c)' = SumFunction(g)
  BY <1>1 DEF Reported
<1>6. f[w] = Told(w, c) /\ g[w] = Told(w, c)' /\ f[w] \in Nat /\ g[w] \in Nat
  BY <1>1, <1>2
<1>7. QED
  BY <1>4, <1>5, <1>6

\* What one counter says stays honest.
LEMMA OneReports ==
    ASSUME Solo, TelemetryShape, TelemetryShape', NEW w \in Workers, NEW c \in Counters,
           OnlyTells(w), NEW h \in Nat, NEW k \in Nat,
           Reported(c) <= h, faults = 0 => Reported(c) = h,
           \/ /\ \E d \in {0, 1} : Told(w, c)' = Told(w, c) + d /\ k = h + d
              /\ faults' = 0 => faults = 0
           \/ Told(w, c)' <= Told(w, c) /\ k = h /\ faults' # 0
    PROVE  Reported(c)' <= k /\ (faults' = 0 => Reported(c)' = k)
<1>1. PICK m, n, a, b \in Nat :
        /\ m = Reported(c) /\ n = Reported(c)' /\ a = Told(w, c) /\ b = Told(w, c)'
        /\ n + a = m + b
  BY ReportedChanges
<1>2. QED
  BY <1>1

\* What is told follows what happened.
LEMMA HonestTells ==
    ASSUME Solo, TelemetryShape, TelemetryShape', TelemetryIsHonest, NEW w \in Workers,
           NEW cs, Happens(cs), Tells(w, cs), faults' = 0 => faults = 0
    PROVE  TelemetryIsHonest'
<1>1. PICK s, t, u \in Nat :
        /\ s = AllRuns /\ AllRuns' = s + One("started", cs)
        /\ t = Outcomes("completed") /\ Outcomes("completed")' = t + One("completed", cs)
        /\ u = Outcomes("failed") /\ Outcomes("failed")' = u + One("failed", cs)
  BY DEF Happens
<1>2. ASSUME NEW c \in Counters, NEW h \in Nat, NEW k, k = h + One(c, cs),
             Reported(c) <= h, faults = 0 => Reported(c) = h
      PROVE  Reported(c)' <= k /\ (faults' = 0 => Reported(c)' = k)
  <2>1. PICK d \in {0, 1} : d = One(c, cs)
    BY DEF One
  <2>2. Told(w, c)' = Told(w, c) + d /\ k = h + d /\ k \in Nat
    BY <1>2, <2>1 DEF Tells
  <2>3. QED
    BY <1>2, <2>2, OneReports DEF Tells
<1>3. {"started", "completed", "failed"} \subseteq Counters
  BY DEF Counters
<1>4. /\ Reported("started")' <= AllRuns'
      /\ faults' = 0 => Reported("started")' = AllRuns'
  BY <1>1, <1>2, <1>3 DEF TelemetryIsHonest, Reports
<1>5. /\ Reported("completed")' <= Outcomes("completed")'
      /\ faults' = 0 => Reported("completed")' = Outcomes("completed")'
  BY <1>1, <1>2, <1>3 DEF TelemetryIsHonest, Reports
<1>6. /\ Reported("failed")' <= Outcomes("failed")'
      /\ faults' = 0 => Reported("failed")' = Outcomes("failed")'
  BY <1>1, <1>2, <1>3 DEF TelemetryIsHonest, Reports
<1>7. QED
  BY <1>4, <1>5, <1>6 DEF TelemetryIsHonest, Reports

\* What is lost leaves the worker with less to tell, and leaves a fault behind.
LEMMA HonestForgets ==
    ASSUME Solo, TelemetryShape, TelemetryShape', TelemetryIsHonest, NEW w \in Workers,
           Happens({}), Forgets(w), faults' # 0
    PROVE  TelemetryIsHonest'
<1>1. PICK s, t, u \in Nat :
        /\ s = AllRuns /\ AllRuns' = s
        /\ t = Outcomes("completed") /\ Outcomes("completed")' = t
        /\ u = Outcomes("failed") /\ Outcomes("failed")' = u
  BY DEF Happens, One
<1>2. ASSUME NEW c \in Counters, NEW h \in Nat, Reported(c) <= h, faults = 0 => Reported(c) = h
      PROVE  Reported(c)' <= h
  <2>1. Told(w, c)' <= Told(w, c)
    <3>1. counts[w][c] \in Nat /\ Zero[c] = 0
      BY DEF TelemetryShape, Zero
    <3>2. QED
      BY <3>1 DEF Forgets, Told
  <2>2. QED
    BY <1>2, <2>1, OneReports DEF Forgets
<1>3. {"started", "completed", "failed"} \subseteq Counters
  BY DEF Counters
<1>4. /\ Reported("started")' <= AllRuns'
      /\ Reported("completed")' <= Outcomes("completed")'
      /\ Reported("failed")' <= Outcomes("failed")'
  BY <1>1, <1>2, <1>3 DEF TelemetryIsHonest, Reports
<1>5. QED
  BY <1>4 DEF TelemetryIsHonest, Reports

\* A worker that owes nothing tells what it comes to owe.
LEMMA OwingTells ==
    ASSUME TelemetryShape, NEW w \in Workers, owed[w] = {}, NEW cs \in SUBSET Counters,
           Owe(w, cs)
    PROVE  TelemetryShape' /\ Tells(w, cs)
<1>1. /\ counts' = counts /\ owed' = [owed EXCEPT ![w] = cs]
      /\ owed'[w] = cs
      /\ \A v \in Workers \ {w} : owed'[v] = owed[v]
  BY DEF Owe, TelemetryShape
<1>2. TelemetryShape'
  BY <1>1 DEF TelemetryShape
<1>3. \A c \in Counters : Told(w, c)' = Told(w, c) + One(c, cs)
  <2>1. \A c \in Counters : counts[w][c] \in Nat
    BY DEF TelemetryShape
  <2>2. QED
    BY <1>1, <2>1 DEF Told, One
<1>4. QED
  BY <1>1, <1>2, <1>3 DEF Tells, OnlyTells

\* A step that leaves the counters alone tells nothing.
LEMMA QuietTells ==
    ASSUME TelemetryShape, UNCHANGED telemetry
    PROVE  TelemetryShape' /\ \A w \in Workers : Tells(w, {})
<1>1. ASSUME NEW w \in Workers, NEW c \in Counters  PROVE Told(w, c) \in Nat
  BY DEF Told, TelemetryShape
<1>2. ASSUME NEW w \in Workers, NEW c \in Counters
      PROVE  Told(w, c)' = Told(w, c) + One(c, {})
  <2>1. Told(w, c)' = Told(w, c) /\ One(c, {}) = 0
    BY DEF Told, telemetry, One
  <2>2. QED
    BY <1>1, <2>1
<1>3. QED
  BY <1>2 DEF TelemetryShape, telemetry, Tells, OnlyTells

-----------------------------------------------------------------------------
(* What happens when a row moves.                                          *)

StatusIs(st) == {j \in Jobs : job[j].status = st}

LEMMA RowSets ==
    ASSUME NEW S \in SUBSET Jobs
    PROVE  IsFiniteSet(S) /\ Cardinality(S) \in Nat
<1>1. IsFiniteSet(Jobs)
  BY FS_Interval, MaxJobsAssumption DEF Jobs
<1>2. QED
  BY <1>1, FS_Subset, FS_CardinalityType

\* The outcomes of one status, when one row changes.
LEMMA OutcomesChange ==
    ASSUME NEW st, NEW j \in Jobs,
           \A i \in Jobs : i # j => job'[i].status = job[i].status,
           job[j].status # st
    PROVE  \E h \in Nat :
             /\ h = Outcomes(st)
             /\ Outcomes(st)' = h + IF job'[j].status = st THEN 1 ELSE 0
<1>1. PICK old, new \in SUBSET Jobs : old = StatusIs(st) /\ new = StatusIs(st)'
  BY DEF StatusIs
<1>2. j \notin old /\ new = IF job'[j].status = st THEN old \union {j} ELSE old
  BY <1>1 DEF StatusIs
<1>3. IsFiniteSet(old)
  BY RowSets
<1>4. PICK h \in Nat : h = Cardinality(old)
  BY RowSets
<1>5. Cardinality(new) = h + IF job'[j].status = st THEN 1 ELSE 0
  <2>1. Cardinality(old \union {j}) = Cardinality(old) + 1
    BY <1>2, <1>3, FS_AddElement
  <2>2. CASE job'[j].status = st
    BY <1>2, <1>4, <2>1, <2>2
  <2>3. CASE job'[j].status # st
    BY <1>2, <1>4, <2>3
  <2>4. QED
    BY <2>2, <2>3
<1>6. Outcomes(st) = h /\ Outcomes(st)' = Cardinality(new)
  BY <1>1, <1>4 DEF Outcomes, StatusIs
<1>7. QED
  BY <1>5, <1>6

\* The runs, when those of one row change.
LEMMA RunsChange ==
    ASSUME IInv, IInv', NEW j \in Jobs, \A i \in Jobs : i # j => runs'[i] = runs[i],
           NEW d \in Nat, runs'[j] = runs[j] + d
    PROVE  \E h \in Nat : h = AllRuns /\ AllRuns' = h + d
<1>1. PICK f, g : f = runs /\ g = runs'
  OBVIOUS
<1>2. f \in [Jobs -> Nat] /\ g \in [Jobs -> Nat]
  <2>1. runs \in [Jobs -> 0 .. MaxAttempts + 1] /\ runs' \in [Jobs -> 0 .. MaxAttempts + 1]
    BY DEF IInv, ShapeOK
  <2>2. QED
    BY <1>1, <2>1
<1>3. \A i \in Jobs \ {j} : g[i] = f[i]
  BY <1>1
<1>4. /\ SumFunction(f) \in Nat /\ SumFunction(g) \in Nat
      /\ SumFunction(g) + f[j] = SumFunction(f) + g[j]
  BY <1>2, <1>3, RowSets, SumChanges
<1>5. PICK m, n, a \in Nat : m = SumFunction(f) /\ n = SumFunction(g) /\ a = f[j] /\ g[j] = a + d
  BY <1>1, <1>2, <1>4
<1>6. n = m + d
  <2>1. n + a = m + (a + d)
    BY <1>4, <1>5
  <2>2. QED
    BY <2>1
<1>7. QED
  BY <1>1, <1>5, <1>6 DEF AllRuns

\* Nothing happens while no row moves, nor when one is submitted.
LEMMA KeptHappens == ASSUME IInv, IInv', AllKept PROVE Happens({})
<1>1. runs' = runs
  BY DEF IInv, ShapeOK, AllKept, Kept
<1>2. AllRuns \in Nat /\ AllRuns' = AllRuns
  <2>1. CASE Jobs = {}
    <3>1. PICK f : f = runs
      OBVIOUS
    <3>2. f = [x \in Jobs |-> 0]
      BY <2>1, <3>1 DEF IInv, ShapeOK
    <3>3. SumFunction(f) = 0
      BY <3>2, RowSets, SumOfZeros
    <3>4. QED
      BY <1>1, <3>1, <3>3 DEF AllRuns
  <2>2. CASE Jobs # {}
    <3>1. PICK j \in Jobs : TRUE
      BY <2>2
    <3>2. PICK d \in Nat : d = 0
      OBVIOUS
    <3>3. runs[j] \in Nat
      BY DEF IInv, ShapeOK
    <3>4. runs'[j] = runs[j] + d
      BY <1>1, <3>2, <3>3
    <3>5. PICK h \in Nat : h = AllRuns /\ AllRuns' = h + d
      BY <1>1, <3>4, RunsChange
    <3>6. QED
      BY <3>2, <3>5
  <2>3. QED
    BY <2>1, <2>2
<1>3. ASSUME NEW st  PROVE Outcomes(st) \in Nat /\ Outcomes(st)' = Outcomes(st)
  <2>1. StatusIs(st)' = StatusIs(st)
    BY DEF StatusIs, AllKept, Kept
  <2>2. StatusIs(st) \in SUBSET Jobs
    BY DEF StatusIs
  <2>3. QED
    BY <2>1, <2>2, RowSets DEF Outcomes, StatusIs
<1>4. QED
  BY <1>2, <1>3 DEF Happens, One

\* A row that moves adds to the runs, to the completed or to the failed ones.
LEMMA MovedHappens ==
    ASSUME IInv, IInv', RowsAddUp, NEW j, OneMoved(j), NEW cs,
           Submitted(j) => cs \cap {"started", "completed", "failed"} = {},
           Failed(j) => cs \cap {"started", "completed", "failed"} = {"failed"},
           Started(j) \/ Retried(j) => cs \cap {"started", "completed", "failed"} = {"started"},
           Completed(j) => cs \cap {"started", "completed", "failed"} = {"completed"}
    PROVE  Happens(cs)
<1>1. /\ j \in Jobs /\ Moved(j)
      /\ \A i \in Jobs : i # j => job'[i].status = job[i].status /\ runs'[i] = runs[i]
  BY DEF OneMoved, Kept
<1>2. /\ job[j].status \in {"absent", "pending", "running"}
      /\ job'[j].status = "completed" <=> "completed" \in cs
      /\ job'[j].status = "failed" <=> "failed" \in cs
  BY <1>1 DEF Moved, Submitted, Failed, Started, Retried, Completed, Goes
<1>3. PICK d \in Nat : d = One("started", cs)
  BY DEF One
<1>4. runs'[j] = runs[j] + d
  <2>1. runs[j] \in Nat /\ (job[j].status = "pending" => runs[j] = 0)
    BY <1>1 DEF IInv, ShapeOK, RowsAddUp
  <2>2. QED
    BY <1>1, <1>3, <2>1 DEF One, Moved, Submitted, Failed, Started, Retried, Completed, Goes
<1>5. \E h \in Nat : h = AllRuns /\ AllRuns' = h + One("started", cs)
  BY <1>1, <1>3, <1>4, RunsChange
<1>6. \E h \in Nat : h = Outcomes("completed") /\ Outcomes("completed")' = h + One("completed", cs)
  <2>1. PICK h \in Nat :
          /\ h = Outcomes("completed")
          /\ Outcomes("completed")' = h + IF job'[j].status = "completed" THEN 1 ELSE 0
    BY <1>1, <1>2, OutcomesChange
  <2>2. QED
    BY <1>2, <2>1 DEF One
<1>7. \E h \in Nat : h = Outcomes("failed") /\ Outcomes("failed")' = h + One("failed", cs)
  <2>1. PICK h \in Nat :
          /\ h = Outcomes("failed")
          /\ Outcomes("failed")' = h + IF job'[j].status = "failed" THEN 1 ELSE 0
    BY <1>1, <1>2, OutcomesChange
  <2>2. QED
    BY <1>2, <2>1 DEF One
<1>8. QED
  BY <1>5, <1>6, <1>7 DEF Happens

-----------------------------------------------------------------------------
(* The steps.                                                              *)

\* A fault that nothing else comes of.
LEMMA FaultAlone ==
    ASSUME IInv, SInv, faults' \in Nat,
           UNCHANGED <<database, worker, request, deleter, nextId, history>>
    PROVE  IInv' /\ SInv'
<1>1. \A u : Running(u)' = Running(u)
  BY DEF Running, database
<1>2. \A u : Cardinality(Running(u))' = Cardinality(Running(u))
  BY <1>1
<1>3. ShapeOK' /\ RowLocksOK' /\ Ownership'
  BY DEF IInv, ShapeOK, RowLocksOK, Ownership, RowsAreOwned, SnapshotsAgree, OneSnapshotPerRow,
         RequestsAreOwned, Exists, database, history
<1>4. ClaimHasRoom' /\ RunningWithinPlan'
  <2>1. ClaimHasRoom'
    BY <1>2 DEF IInv, ClaimHasRoom, At, database
  <2>2. RunningWithinPlan'
    BY <1>2 DEF IInv, RunningWithinPlan
  <2>3. QED
    BY <2>1, <2>2
<1>5. SInv'
  BY DEF SInv, RowsAddUp, ListsAreFresh, ScansHoldLocks, ClaimsAreDue, NoneOvertaken,
         ScansAreInOrder, Before, Precedes, InSequence, IdsSuffice, InsertedRowsStay, Waiting,
         Exists, Running, At, Exhausted, database, history
<1>6. QED
  BY <1>3, <1>4, <1>5 DEF IInv

\* What the worker does, it comes to owe.
LEMMA WorkIsOwed ==
    ASSUME Solo, IInv, IInv', SInv, TelemetryShape, NEW w \in Workers, owed[w] = {}, Work(w)
    PROVE  /\ TelemetryShape' /\ (faults' = 0 => faults = 0)
           /\ \E cs : Happens(cs) /\ Tells(w, cs)
<1>1. RowsAddUp /\ ListsAreFresh /\ ClaimsAreDue
  BY DEF SInv
<1>2. ASSUME UNCHANGED telemetry, AllKept
      PROVE  TelemetryShape' /\ \E cs : Happens(cs) /\ Tells(w, cs)
  BY <1>2, QuietTells, KeptHappens
<1>3. CASE (Select(w) \/ ReturnNone(w) \/ DeadlockVictim(w)) /\ UNCHANGED telemetry
  <2>1. AllKept /\ faults' = faults
    BY <1>3, QuietRows DEF Select, ReturnNone, DeadlockVictim, history
  <2>2. QED
    BY <1>2, <1>3, <2>1
<1>4. ASSUME NEW s \in worker[w].todo, UNCHANGED telemetry,
             CheckCapacity(w, s) \/ CandidateGone(w, s) \/ ReadBack(w, s) \/ PersistFails(w, s)
      PROVE  /\ TelemetryShape' /\ (faults' = 0 => faults = 0)
             /\ \E cs : Happens(cs) /\ Tells(w, cs)
  <2>1. AllKept
    <3>1. UNCHANGED <<job, refunds, runs>>
      BY <1>4 DEF CheckCapacity, CandidateGone, ReadBack, PersistFails, Solo, database, history
    <3>2. QED
      BY <3>1, QuietRows
  <2>2. faults' = 0 => faults = 0
    <3>1. faults \in Nat
      BY DEF IInv, ShapeOK
    <3>2. QED
      BY <1>4, <3>1 DEF CheckCapacity, CandidateGone, ReadBack, PersistFails, Fault
  <2>3. QED
    BY <1>2, <1>4, <2>1, <2>2
<1>5. ASSUME NEW s \in worker[w].todo, FailCandidate(w, s), Owe(w, FailureOf(s))
      PROVE  /\ TelemetryShape' /\ (faults' = 0 => faults = 0)
             /\ \E cs : Happens(cs) /\ Tells(w, cs)
  <2>1. OneMoved(s.id) /\ Failed(s.id)
    BY <1>1, <1>5, CandidateMoves
  <2>2. FailureOf(s) \in SUBSET Counters
        /\ FailureOf(s) \cap {"started", "completed", "failed"} = {"failed"}
    BY DEF FailureOf, Counters
  <2>3. Happens(FailureOf(s))
    BY <1>1, <2>1, <2>2, MovedHappens DEF Submitted, Failed, Started, Retried, Completed, Goes
  <2>4. faults' = faults
    BY <1>5 DEF FailCandidate
  <2>5. QED
    BY <1>5, <2>2, <2>3, <2>4, OwingTells
<1>6. ASSUME NEW s \in worker[w].todo, Claim(w, s), Owe(w, StartOf(s))
      PROVE  /\ TelemetryShape' /\ (faults' = 0 => faults = 0)
             /\ \E cs : Happens(cs) /\ Tells(w, cs)
  <2>1. ~Exhausted(s)
    BY <1>1, <1>6 DEF Claim, ClaimsAreDue
  <2>2. OneMoved(s.id) /\ (Started(s.id) \/ Retried(s.id))
    BY <1>1, <1>6, <2>1, ClaimingMoves
  <2>3. StartOf(s) \in SUBSET Counters
        /\ StartOf(s) \cap {"started", "completed", "failed"} = {"started"}
    BY DEF StartOf, Counters
  <2>4. Happens(StartOf(s))
    BY <1>1, <2>2, <2>3, MovedHappens DEF Submitted, Failed, Started, Retried, Completed, Goes
  <2>5. faults' = faults
    BY <1>6 DEF Claim
  <2>6. QED
    BY <1>6, <2>3, <2>4, <2>5, OwingTells
<1>7. ASSUME NEW s \in worker[w].todo, Completes(w, s)
      PROVE  /\ TelemetryShape' /\ (faults' = 0 => faults = 0)
             /\ \E cs : Happens(cs) /\ Tells(w, cs)
  <2>1. Complete(w, s) /\ Owe(w, {"completed"})
    BY <1>7 DEF Completes
  <2>2. s.id \in Jobs /\ job[s.id].status = "running"
    BY <1>1, <2>1, SnapshotFacts DEF Complete, At, ListsAreFresh
  <2>3. OneMoved(s.id)
    BY <2>1, <2>2, CompletingMoves DEF Complete, history
  <2>4. job'[s.id].status = "completed"
    BY <2>1, <2>2, Rows DEF Complete, Row
  <2>5. Happens({"completed"})
    BY <1>1, <2>2, <2>3, <2>4, MovedHappens DEF Submitted, Failed, Started, Retried, Goes
  <2>6. faults' = faults /\ {"completed"} \in SUBSET Counters
    BY <2>1 DEF Complete, Counters
  <2>7. QED
    BY <2>1, <2>5, <2>6, OwingTells
<1>8. ASSUME NEW s \in worker[w].todo, FailsClaimed(w, s)
      PROVE  /\ TelemetryShape' /\ (faults' = 0 => faults = 0)
             /\ \E cs : Happens(cs) /\ Tells(w, cs)
  <2>1. Fallback(w, s) \/ Fail(w, s)
    BY <1>8 DEF FailsClaimed
  <2>2. s.id \in Jobs /\ job[s.id].status = "running"
    BY <1>1, <2>1, SnapshotFacts DEF Fallback, Fail, At, ListsAreFresh
  <2>3. Exists(s.id)
    BY <2>2 DEF Exists
  <2>4. FailAndRefund(s.id, s.owner) /\ UNCHANGED runs /\ faults' = faults
    BY <2>1, <2>3 DEF Fallback, Fail
  <2>5. OneMoved(s.id)
    BY <1>1, <2>2, <2>4, FailingMoves
  <2>6. job'[s.id].status = "failed"
    BY <2>2, <2>4, Rows DEF FailAndRefund, Row
  <2>7. Happens({"failed"})
    BY <1>1, <2>2, <2>5, <2>6, MovedHappens DEF Submitted, Started, Retried, Completed, Goes
  <2>8. Owe(w, {"failed"}) /\ {"failed"} \in SUBSET Counters
    BY <1>8, <2>3 DEF FailsClaimed, Counters
  <2>9. QED
    BY <2>4, <2>7, <2>8, OwingTells
<1>9. QED
  BY <1>3, <1>4, <1>5, <1>6, <1>7, <1>8 DEF Work

\* Telling what was owed tells no more.
LEMMA RecordTells ==
    ASSUME TelemetryShape, NEW w \in Workers, Record(w)
    PROVE  TelemetryShape' /\ Tells(w, {})
<1>1. PICK f : f = [c \in Counters |-> counts[w][c] + IF c \in owed[w] THEN 1 ELSE 0]
  OBVIOUS
<1>2. counts' = [counts EXCEPT ![w] = f] /\ owed' = [owed EXCEPT ![w] = {}]
  BY <1>1 DEF Record, TelemetryShape
<1>3. \A c \in Counters : f[c] = Told(w, c) /\ f[c] \in Nat
  BY <1>1 DEF Told, TelemetryShape
<1>4. f \in [Counters -> Nat]
  BY <1>1, <1>3
<1>5. /\ counts'[w] = f /\ owed'[w] = {} /\ OnlyTells(w) /\ TelemetryShape'
  BY <1>2, <1>4 DEF TelemetryShape, OnlyTells
<1>6. \A c \in Counters : Told(w, c)' = Told(w, c) + One(c, {})
  BY <1>3, <1>5 DEF Told, One
<1>7. QED
  BY <1>5, <1>6 DEF Tells

LEMMA ForgettingTells ==
    ASSUME TelemetryShape, NEW w \in Workers, owed' = [owed EXCEPT ![w] = {}],
           counts' \in {counts, [counts EXCEPT ![w] = Zero]}
    PROVE  TelemetryShape' /\ Forgets(w)
<1>1. Zero \in [Counters -> Nat]
  BY DEF Zero
<1>2. QED
  BY <1>1 DEF TelemetryShape, Forgets, OnlyTells

\* Requests and time change nothing that the worker reports, but there are steps of
\* the queue without a worker.
LEMMA RestHappens ==
    ASSUME Solo, IInv, IInv', SInv,
           \/ \E r \in Requests : RequestStep(r)
           \/ \E d \in Deleters : DeleterStep(d)
           \/ \E j \in Jobs : Lapse(j) \/ Age(j)
           \/ UNCHANGED vars
    PROVE  Happens({}) /\ (faults' = 0 => faults = 0)
<1>2. ASSUME NEW r \in Requests, RequestStep(r)  PROVE Happens({})
  <2>1. AllKept \/ OneMoved(nextId)
    BY <1>2, RequestMoves
  <2>2. CASE OneMoved(nextId)
    <3>1. job[nextId].status = "absent"
      <4>1. nextId \in Nat /\ ~(nextId < nextId) /\ nextId \in Jobs
        BY <2>2 DEF IInv, ShapeOK, OneMoved
      <4>2. QED
        BY <4>1 DEF IInv, Ownership, RowsAreOwned, Exists
    <3>2. QED
      BY <2>2, <3>1, MovedHappens DEF SInv, Failed, Started, Retried, Completed, Goes
  <2>3. QED
    BY <2>1, <2>2, KeptHappens
<1>3. ASSUME UNCHANGED vars  PROVE AllKept
  BY <1>3, QuietRows DEF vars, database, history
<1>4. faults' = 0 => faults = 0
  <2>1. faults \in Nat
    BY DEF IInv, ShapeOK
  <2>2. ASSUME NEW r \in Requests, RequestStep(r)
        PROVE  faults' = faults \/ faults' = faults + 1
    <3>1. ASSUME NEW u \in Users, Reserve(r, u)  PROVE faults' = faults
      BY <3>1 DEF Reserve
    <3>2. CASE Create(r) \/ Created(r) \/ RefundReservation(r)
      BY <3>2 DEF Create, Created, RefundReservation
    <3>3. CASE CreateFails(r) \/ Abandon(r)
      BY <3>3 DEF CreateFails, Abandon, Fault
    <3>4. QED
      BY <2>2, <3>1, <3>2, <3>3 DEF RequestStep
  <2>3. CASE (\E j \in Jobs : Lapse(j) \/ Age(j)) \/ UNCHANGED vars
    BY <2>3 DEF Lapse, Age, vars
  <2>4. QED
    BY <2>1, <2>2, <2>3 DEF Solo
<1>5. QED
  BY <1>2, <1>3, <1>4, TimeKeeps, KeptHappens DEF Solo

LEMMA HonestStep ==
    ASSUME Solo, NEW one \in Workers, HonestInv, [TelemetryNext]_allVars
    PROVE  HonestInv'
<1>0. IInv /\ SInv /\ TelemetryShape /\ TelemetryIsHonest
  BY DEF HonestInv
<1>1. ASSUME [Next]_vars  PROVE IInv' /\ SInv'
  BY <1>0, <1>1, IInvStep, SInvStep
<1>2. ASSUME NEW w \in Workers, owed[w] = {}, Work(w)  PROVE HonestInv'
  <2>1. Next
    BY <1>2 DEF Work, Completes, FailsClaimed, Next, WorkerStep, Handle
  <2>2. IInv' /\ SInv'
    BY <1>1, <2>1
  <2>3. PICK cs : Happens(cs) /\ Tells(w, cs) /\ TelemetryShape' /\ (faults' = 0 => faults = 0)
    BY <1>0, <1>2, <2>2, WorkIsOwed
  <2>4. QED
    BY <1>0, <2>2, <2>3, HonestTells DEF HonestInv
<1>3. ASSUME NEW w \in Workers, Record(w)  PROVE HonestInv'
  <2>1. UNCHANGED vars /\ IInv' /\ SInv'
    BY <1>1, <1>3 DEF Record
  <2>2. TelemetryShape' /\ Tells(w, {})
    BY <1>0, <1>3, RecordTells
  <2>3. Happens({}) /\ (faults' = 0 => faults = 0)
    BY <1>0, <2>1, RestHappens
  <2>4. QED
    BY <1>0, <2>1, <2>2, <2>3, HonestTells DEF HonestInv
<1>4. ASSUME NEW w \in Workers, AbortRecorded(w)  PROVE HonestInv'
  <2>1. Abort(w) /\ IInv' /\ SInv'
    BY <1>1, <1>4 DEF AbortRecorded, Next
  <2>2. TelemetryShape' /\ Forgets(w)
    BY <1>0, <1>4, ForgettingTells DEF AbortRecorded
  <2>3. AllKept
    BY <2>1, QuietRows DEF Abort, history
  <2>4. faults' # 0
    BY <1>0, <2>1 DEF Abort, Fault, IInv, ShapeOK
  <2>5. QED
    BY <1>0, <2>1, <2>2, <2>3, <2>4, KeptHappens, HonestForgets DEF HonestInv
<1>5. ASSUME NEW w \in Workers, LoseRecord(w)  PROVE HonestInv'
  <2>1. faults' \in Nat /\ faults' # 0
    BY <1>0, <1>5 DEF LoseRecord, Fault, IInv, ShapeOK
  <2>2. IInv' /\ SInv'
    BY <1>0, <1>5, <2>1, FaultAlone DEF LoseRecord
  <2>3. TelemetryShape' /\ Forgets(w)
    BY <1>0, <1>5, ForgettingTells DEF LoseRecord
  <2>4. AllKept
    BY <1>5, QuietRows DEF LoseRecord, database, history
  <2>5. QED
    BY <1>0, <2>1, <2>2, <2>3, <2>4, KeptHappens, HonestForgets DEF HonestInv
<1>6. ASSUME UNCHANGED telemetry,
             \/ \E r \in Requests : RequestStep(r)
             \/ \E d \in Deleters : DeleterStep(d)
             \/ \E j \in Jobs : Lapse(j) \/ Age(j)
             \/ UNCHANGED vars
      PROVE  HonestInv'
  <2>1. IInv' /\ SInv'
    BY <1>1, <1>6 DEF Next
  <2>2. Happens({}) /\ (faults' = 0 => faults = 0)
    BY <1>0, <1>6, <2>1, RestHappens
  <2>3. TelemetryShape' /\ \A w \in Workers : Tells(w, {})
    BY <1>0, <1>6, QuietTells
  <2>4. Tells(one, {})
    BY <2>3
  <2>5. QED
    BY <1>0, <2>1, <2>2, <2>3, <2>4, HonestTells DEF HonestInv
<1>7. QED
  BY <1>2, <1>3, <1>4, <1>5, <1>6 DEF TelemetryNext, Quiescent, allVars

\* With one worker, record_simulation_started, _completed and _failed never count more
\* than was committed, on no path through recovery, expiry and the fallback, and count
\* all of it as long as no process dies and no database call raises.
THEOREM ReportsAreHonest == ASSUME Solo, Workers # {} PROVE TelemetrySpec => []TelemetryIsHonest
<1>1. TelemetryInit => HonestInv
  <2>1. SUFFICES ASSUME TelemetryInit PROVE HonestInv
    OBVIOUS
  <2>2. IInv /\ SInv
    BY <2>1, InitIInv, InitSInv DEF TelemetryInit
  <2>3. TelemetryShape
    BY <2>1 DEF TelemetryInit, TelemetryShape, Zero
  <2>4. ASSUME NEW c \in Counters  PROVE Reported(c) = 0
    <3>1. PICK f : f = [w \in Workers |-> Told(w, c)]
      OBVIOUS
    <3>2. f = [w \in Workers |-> 0]
      BY <2>1, <3>1 DEF TelemetryInit, Told, Zero
    <3>3. SumFunction(f) = 0
      BY <3>2, FewWorkers, SumOfZeros
    <3>4. QED
      BY <3>1, <3>3 DEF Reported
  <2>5. AllRuns = 0
    <3>1. PICK f : f = runs
      OBVIOUS
    <3>2. f = [j \in Jobs |-> 0]
      BY <2>1, <3>1 DEF TelemetryInit, Init
    <3>3. SumFunction(f) = 0
      BY <3>2, RowSets, SumOfZeros
    <3>4. QED
      BY <3>1, <3>3 DEF AllRuns
  <2>6. Outcomes("completed") = 0 /\ Outcomes("failed") = 0
    <3>1. \A j \in Jobs : job[j].status = "absent"
      BY <2>1 DEF TelemetryInit, Init, NoRow
    <3>2. {j \in Jobs : job[j].status = "completed"} = {} /\ {j \in Jobs : job[j].status = "failed"} = {}
      BY <3>1
    <3>3. QED
      BY <3>2, FS_EmptySet DEF Outcomes
  <2>7. QED
    BY <2>2, <2>3, <2>4, <2>5, <2>6 DEF HonestInv, TelemetryIsHonest, Reports, Counters
<1>2. HonestInv /\ [TelemetryNext]_allVars => HonestInv'
  BY HonestStep
<1>3. HonestInv => TelemetryIsHonest
  BY DEF HonestInv
<1>4. QED
  BY <1>1, <1>2, <1>3, PTL DEF TelemetrySpec

=============================================================================
