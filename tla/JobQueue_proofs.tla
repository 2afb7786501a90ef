--------------------------- MODULE JobQueue_proofs ---------------------------
(***************************************************************************)
(* Proofs about JobQueue, for any number of users, workers, requests and   *)
(* deleters and any value of the bounds.                                   *)
(***************************************************************************)
EXTENDS JobQueue, FiniteSetTheorems, TLAPS

-----------------------------------------------------------------------------
(* What the helpers that write a variable do to its shape.                 *)

LEMMA BecomeType ==
    ASSUME worker \in [Workers -> WorkerState], NEW w \in Workers,
           NEW pc \in {"idle", "scan", "claim", "run", "complete", "fail", "fallback"},
           NEW todo \in SUBSET Snapshot, Become(w, pc, todo)
    PROVE  worker' \in [Workers -> WorkerState]
  BY DEF Become, WorkerState

LEMMA ReleaseType ==
    ASSUME userLock \in [Users -> Workers \union {NoOne}],
           NEW w \in Workers, ReleaseLocks(w)
    PROVE  userLock' \in [Users -> Workers \union {NoOne}]
  BY DEF ReleaseLocks

LEMMA StatusType ==
    ASSUME job \in [Jobs -> Row], NEW j, NEW st \in Statuses,
           job' = [job EXCEPT ![j].status = st]
    PROVE  job' \in [Jobs -> Row]
  BY DEF Row

LEMMA GiveBackType ==
    ASSUME used \in [Users -> Nat], NEW u, GiveBack(u)
    PROVE  used' \in [Users -> Nat]
<1>1. CASE u \in Users
  <2>1. used[u] \in Nat /\ (used[u] >= 1 => used[u] - 1 \in Nat)
    BY <1>1
  <2>2. QED
    BY <1>1, <2>1 DEF GiveBack
<1>2. CASE u \notin Users
  BY <1>2 DEF GiveBack
<1>3. QED
  BY <1>1, <1>2

LEMMA CountRefundType ==
    ASSUME refunds \in [Jobs -> 0 .. 2], NEW j, CountRefund(j)
    PROVE  refunds' \in [Jobs -> 0 .. 2]
<1>1. \A i \in Jobs : refunds[i] \in 0 .. 2 /\ (refunds[i] < 2 => refunds[i] + 1 \in 0 .. 2)
  OBVIOUS
<1>2. QED
  BY <1>1 DEF CountRefund

LEMMA CountRunType ==
    ASSUME runs \in [Jobs -> 0 .. MaxAttempts + 1], NEW j, CountRun(j)
    PROVE  runs' \in [Jobs -> 0 .. MaxAttempts + 1]
<1>1. \A i \in Jobs : /\ runs[i] \in 0 .. MaxAttempts + 1
                      /\ runs[i] <= MaxAttempts => runs[i] + 1 \in 0 .. MaxAttempts + 1
  BY MaxAttemptsAssumption
<1>2. QED
  BY <1>1 DEF CountRun

LEMMA FailAndRefundType ==
    ASSUME ShapeOK, NEW j, NEW u, FailAndRefund(j, u)
    PROVE  /\ job' \in [Jobs -> Row]
           /\ used' \in [Users -> Nat]
           /\ refunds' \in [Jobs -> 0 .. 2]
  BY StatusType, GiveBackType, CountRefundType DEF FailAndRefund, ShapeOK, Statuses, Terminal

-----------------------------------------------------------------------------

\* A step of a worker that handles a candidate keeps the shape of the state.
LEMMA HandleType ==
    ASSUME ShapeOK, NEW w \in Workers, NEW s \in worker[w].todo, Handle(w, s)
    PROVE  ShapeOK'
<1>a. worker[w].todo \in SUBSET Snapshot /\ worker[w].todo \ {s} \in SUBSET Snapshot
  BY DEF ShapeOK, WorkerState
<1>b. {s} \in SUBSET Snapshot /\ {} \in SUBSET Snapshot
  BY <1>a
<1>c. s.id \in Jobs /\ s.owner \in Users /\ s.attempts \in Nat
  BY <1>a DEF Snapshot
<1>1. CASE FailCandidate(w, s)
  BY <1>1, <1>a, FailAndRefundType, ReleaseType, BecomeType DEF FailCandidate, ShapeOK
<1>2. CASE CheckCapacity(w, s)
  <2>1. worker' \in [Workers -> WorkerState]
    BY <1>2, <1>a, BecomeType DEF CheckCapacity, ShapeOK
  <2>2. QED
    BY <1>2, <2>1 DEF CheckCapacity, ShapeOK, history
<1>3. CASE Claim(w, s)
  <2>0. job[s.id] \in Row
    BY <1>c DEF ShapeOK
  <2>1. ClaimedRow(s, w) \in Row
    <3>1. [job[s.id] EXCEPT !.status = IF s.status = "pending" THEN "running" ELSE @] \in Row
      BY <2>0 DEF Row, Statuses
    <3>2. ASSUME NEW r \in Row
          PROVE  [r EXCEPT !.worker = w, !.attempts = s.attempts + 1, !.lapsed = FALSE] \in Row
      <4>1. s.attempts + 1 \in Nat
        BY <1>c
      <4>2. QED
        BY <4>1 DEF Row
    <3>3. ClaimedRow(s, w)
            = [[job[s.id] EXCEPT !.status = IF s.status = "pending" THEN "running" ELSE @]
                 EXCEPT !.worker = w, !.attempts = s.attempts + 1, !.lapsed = FALSE]
      BY <2>0 DEF ClaimedRow, Row
    <3>4. QED
      BY <3>1, <3>2, <3>3
  <2>2. job' \in [Jobs -> Row]
    BY <1>3, <1>c, <2>1 DEF Claim, ShapeOK
  <2>3. QED
    BY <1>3, <1>b, <2>2, ReleaseType, BecomeType, CountRunType DEF Claim, ShapeOK
<1>4. CASE CandidateGone(w, s)
  BY <1>4, <1>b, ReleaseType, BecomeType DEF CandidateGone, ShapeOK, history
<1>5. CASE ReadBack(w, s)
  <2>1. worker' \in [Workers -> WorkerState]
    BY <1>5, <1>b, BecomeType DEF ReadBack, ShapeOK
  <2>2. QED
    BY <1>5, <2>1 DEF ReadBack, ShapeOK, database, history
<1>6. CASE Complete(w, s)
  <2>1. job' \in [Jobs -> Row]
    BY <1>6, StatusType DEF Complete, ShapeOK, Statuses, Terminal
  <2>2. QED
    BY <1>6, <2>1, <1>b, BecomeType DEF Complete, ShapeOK, history
<1>7. CASE PersistFails(w, s)
  <2>1. job' \in [Jobs -> Row]
    BY <1>7, StatusType DEF PersistFails, ShapeOK, Statuses, Terminal
  <2>2. faults' \in Nat
    BY <1>7 DEF PersistFails, Fault, ShapeOK
  <2>3. QED
    BY <1>7, <2>1, <2>2, <1>b, BecomeType DEF PersistFails, ShapeOK, history
<1>8. CASE Fallback(w, s)
  BY <1>8, <1>b, FailAndRefundType, BecomeType DEF Fallback, ShapeOK
<1>9. CASE Fail(w, s)
  BY <1>9, <1>b, FailAndRefundType, BecomeType DEF Fail, ShapeOK
<1>10. QED
  BY <1>1, <1>2, <1>3, <1>4, <1>5, <1>6, <1>7, <1>8, <1>9 DEF Handle

\* The candidate query locks rows for the worker and takes snapshots of them.
LEMMA SelectType ==
    ASSUME ShapeOK, NEW w \in Workers, Select(w),
           \A j \in Jobs : Exists(j) => job[j].owner \in Users
    PROVE  ShapeOK'
<1>1. \A j \in Candidates : SnapshotOf(j) \in Snapshot
  <2>1. SUFFICES ASSUME NEW j \in Candidates
                 PROVE  SnapshotOf(j) \in Snapshot
    OBVIOUS
  <2>2. j \in Jobs /\ Claimable(j)
    BY DEF Candidates, Eligible
  <2>3. job[j] \in Row /\ job[j].status \in {"pending", "running"}
    BY <2>2 DEF ShapeOK, Claimable
  <2>4. job[j].owner \in Users
    BY <2>2, <2>3 DEF Exists
  <2>5. job[j].attempts \in Nat /\ job[j].overdue \in BOOLEAN
    BY <2>3 DEF Row
  <2>6. QED
    BY <2>2, <2>3, <2>4, <2>5 DEF SnapshotOf, Snapshot
<1>2. {SnapshotOf(j) : j \in Candidates} \in SUBSET Snapshot
  BY <1>1
<1>3. worker' \in [Workers -> WorkerState]
  BY <1>2, BecomeType DEF Select, ShapeOK
<1>4. QED
  BY <1>3 DEF Select, ShapeOK, history

\* A worker that gives up, for whatever reason, keeps the shape of the state.
LEMMA GiveUpType ==
    ASSUME ShapeOK, NEW w \in Workers, ReturnNone(w) \/ DeadlockVictim(w) \/ Abort(w)
    PROVE  ShapeOK'
<1>1. ReleaseLocks(w) /\ Become(w, "idle", {})
  BY DEF ReturnNone, DeadlockVictim, Abort
<1>2. faults' \in Nat
  BY DEF ReturnNone, DeadlockVictim, Abort, Fault, ShapeOK
<1>3. QED
  BY <1>1, <1>2, ReleaseType, BecomeType
  DEF ReturnNone, DeadlockVictim, Abort, Fault, ShapeOK, history

\* The INSERT of a request writes a row.
LEMMA InsertType ==
    ASSUME ShapeOK, NEW u \in Users \union {NoUser}, Insert(u)
    PROVE  job' \in [Jobs -> Row] /\ nextId' \in Nat \ {0}
<1>1. PICK row : row = [NoRow EXCEPT !.status = "pending", !.owner = u]
  OBVIOUS
<1>2. row \in Row
  BY <1>1 DEF NoRow, Row, Statuses
<1>3. job' = [job EXCEPT ![nextId] = row] /\ nextId' = nextId + 1
  BY <1>1 DEF Insert
<1>4. job \in [Jobs -> Row] /\ nextId \in Nat \ {0}
  BY DEF ShapeOK
<1>5. nextId' \in Nat \ {0}
  BY <1>3, <1>4
<1>6. job' \in [Jobs -> Row]
  BY <1>2, <1>3, <1>4
<1>7. QED
  BY <1>5, <1>6

\* A request keeps the shape of the state.
LEMMA RequestType ==
    ASSUME ShapeOK, NEW r \in Requests, RequestStep(r)
    PROVE  ShapeOK'
<1>1. ASSUME NEW u \in Users, Reserve(r, u)  PROVE ShapeOK'
  BY <1>1 DEF Reserve, ShapeOK, RequestState, history
<1>a. request[r].user \in Users \union {NoUser}
  BY DEF ShapeOK, RequestState
<1>b. ASSUME Answer(r)  PROVE request' \in [Requests -> RequestState]
  BY <1>b DEF Answer, ShapeOK, RequestState
<1>c. leaked \in [Users -> Nat] /\ \A u \in Users : leaked[u] + 1 \in Nat
  BY DEF ShapeOK
<1>2. CASE Create(r)
  <2>1. job' \in [Jobs -> Row] /\ nextId' \in Nat \ {0}
    BY <1>2, <1>a, InsertType DEF Create
  <2>2. request' \in [Requests -> RequestState]
    BY <1>2 DEF Create, ShapeOK, RequestState
  <2>3. QED
    BY <1>2, <2>1, <2>2 DEF Create, ShapeOK, history
<1>3. CASE CreateFails(r)
  <2>1. job' \in [Jobs -> Row] /\ nextId' \in Nat \ {0}
    BY <1>3, <1>a, InsertType DEF CreateFails, ShapeOK
  <2>2. leaked' \in [Users -> Nat] /\ faults' \in Nat
    BY <1>3, <1>c DEF CreateFails, Fault, ShapeOK
  <2>3. QED
    BY <1>3, <1>b, <2>1, <2>2 DEF CreateFails, ShapeOK
<1>4. CASE Created(r)
  BY <1>4, <1>b DEF Created, ShapeOK, database, history
<1>5. CASE RefundReservation(r)
  BY <1>5, <1>b, GiveBackType, CountRefundType DEF RefundReservation, ShapeOK
<1>6. CASE Abandon(r)
  <2>1. leaked' \in [Users -> Nat]
    BY <1>6, <1>c DEF Abandon
  <2>2. faults' \in Nat
    BY <1>6 DEF Abandon, Fault, ShapeOK
  <2>3. QED
    BY <1>6, <1>b, <2>1, <2>2 DEF Abandon, ShapeOK, database
<1>7. QED
  BY <1>1, <1>2, <1>3, <1>4, <1>5, <1>6 DEF RequestStep

\* All that a request does to the rows is to insert one.
LEMMA RequestInserts ==
    ASSUME NEW r \in Requests, RequestStep(r)
    PROVE  /\ UNCHANGED <<worker, rowLock, userLock>>
           /\ \/ UNCHANGED <<job, nextId>>
              \/ request[r].pc = "reserved" /\ Insert(request[r].user)
<1>1. ASSUME NEW u \in Users, Reserve(r, u)
      PROVE  UNCHANGED <<job, nextId, worker, rowLock, userLock>>
  BY <1>1 DEF Reserve
<1>2. CASE Create(r) \/ CreateFails(r)
  BY <1>2 DEF Create, CreateFails
<1>3. CASE Created(r) \/ RefundReservation(r) \/ Abandon(r)
  BY <1>3 DEF Created, RefundReservation, Abandon, database
<1>4. QED
  BY <1>1, <1>2, <1>3 DEF RequestStep

\* A DELETE request keeps the shape of the state.
LEMMA DeleterType ==
    ASSUME ShapeOK, NEW d \in Deleters, DeleterStep(d)
    PROVE  ShapeOK'
<1>1. ASSUME NEW j \in Jobs, ReadForDelete(d, j)  PROVE ShapeOK'
  <2>1. job[j].owner \in Users \union {NoUser}
    BY DEF ShapeOK, Row
  <2>2. QED
    BY <1>1, <2>1 DEF ReadForDelete, ShapeOK, DeleterState, database, history
<1>2. CASE RefundDeleted(d)
  BY <1>2, GiveBackType, CountRefundType DEF RefundDeleted, ShapeOK, DeleterState
<1>3. CASE DeleteRow(d)
  <2>1. NoRow \in Row
    BY DEF NoRow, Row, Statuses
  <2>2. QED
    BY <1>3, <2>1 DEF DeleteRow, EndDelete, ShapeOK, DeleterState, history
<1>4. CASE AbandonDelete(d)
  BY <1>4 DEF AbandonDelete, EndDelete, Fault, ShapeOK, DeleterState, database, history
<1>5. QED
  BY <1>1, <1>2, <1>3, <1>4 DEF DeleterStep

\* The passage of time keeps the shape of the state.
LEMMA TimeType ==
    ASSUME ShapeOK, NEW j \in Jobs, Lapse(j) \/ Age(j)
    PROVE  ShapeOK'
<1>1. job[j] \in Row
  BY DEF ShapeOK
<1>2. [job[j] EXCEPT !.lapsed = TRUE] \in Row /\ [job[j] EXCEPT !.overdue = TRUE] \in Row
  BY <1>1 DEF Row
<1>3. job' \in [Jobs -> Row]
  BY <1>2 DEF Lapse, Age, ShapeOK
<1>4. QED
  BY <1>3 DEF Lapse, Age, ShapeOK, history

-----------------------------------------------------------------------------
(* The inductive invariant.  A claim may add a running row, so what has to *)
(* be known is why there is room for it: the claiming worker holds the     *)
(* lock of the user's row since it counted, and the owner in its snapshot, *)
(* stale as it may be, is the owner of the row.                            *)

\* A row has an owner, and ids are not used again.
RowsAreOwned ==
    \A j \in Jobs : Exists(j) => job[j].owner \in Users /\ j < nextId

\* A request that has reserved knows for whom.
RequestsAreOwned ==
    \A r \in Requests : request[r].pc # "idle" => request[r].user \in Users

\* A snapshot is of a row that existed, and agrees with it on the owner.
SnapshotsAgree ==
    \A w \in Workers : \A s \in worker[w].todo :
        /\ s.id < nextId
        /\ Exists(s.id) => job[s.id].owner = s.owner

\* A worker has one snapshot of a row at most.
OneSnapshotPerRow ==
    \A w \in Workers : \A s, t \in worker[w].todo : s.id = t.id => s = t

\* Room for a pending job that is about to be claimed.
ClaimHasRoom ==
    \A w \in Workers : \A s \in worker[w].todo :
        At(w, s, "claim") /\ s.status = "pending" =>
            /\ userLock[s.owner] = w
            /\ Cardinality(Running(s.owner)) < MaxConcurrent

Ownership == RowsAreOwned /\ RequestsAreOwned /\ SnapshotsAgree /\ OneSnapshotPerRow

\* Here, nobody but a worker locks a row.
RowLocksOK == rowLock \in [Jobs -> Workers \union {NoOne}]

IInv == ShapeOK /\ RowLocksOK /\ Ownership /\ ClaimHasRoom /\ RunningWithinPlan

LEMMA InitIInv == Init => IInv
<1> SUFFICES ASSUME Init PROVE IInv
  OBVIOUS
<1>2. \A j \in Jobs : ~Exists(j)
  BY DEF Init, NoRow, Exists
<1>3. \A u \in Users : Running(u) = {}
  BY DEF Init, NoRow, Running
<1>4. \A w \in Workers : worker[w].todo = {}
  BY DEF Init
<1>5. ShapeOK
  <2>1. NoRow \in Row
    BY DEF NoRow, Row, Statuses
  <2>2. 0 \in 0 .. MaxAttempts + 1
    BY MaxAttemptsAssumption
  <2>3. QED
    BY <2>1, <2>2 DEF Init, ShapeOK, WorkerState, RequestState, DeleterState
<1>6. RowLocksOK
  BY DEF Init, RowLocksOK
<1>7. Ownership
  BY <1>2, <1>4 DEF Init, Ownership, RowsAreOwned, RequestsAreOwned, SnapshotsAgree,
                    OneSnapshotPerRow
<1>8. ClaimHasRoom
  BY <1>4 DEF ClaimHasRoom
<1>9. RunningWithinPlan
  BY <1>3, FS_EmptySet, MaxConcurrentAssumption DEF RunningWithinPlan
<1>10. QED
  BY <1>5, <1>6, <1>7, <1>8, <1>9 DEF IInv

\* Every step keeps the shape of the state.
LEMMA ShapeStep == ShapeOK /\ RowsAreOwned /\ [Next]_vars => ShapeOK'
<1> SUFFICES ASSUME ShapeOK, RowsAreOwned, [Next]_vars
             PROVE  ShapeOK'
  OBVIOUS
<1>1. ASSUME NEW w \in Workers, WorkerStep(w) \/ DeadlockVictim(w) \/ Abort(w)
      PROVE  ShapeOK'
  BY <1>1, SelectType, GiveUpType, HandleType DEF WorkerStep, RowsAreOwned
<1>2. ASSUME NEW r \in Requests, RequestStep(r) PROVE ShapeOK'
  BY <1>2, RequestType
<1>3. ASSUME NEW d \in Deleters, DeleterStep(d) PROVE ShapeOK'
  BY <1>3, DeleterType
<1>4. ASSUME NEW j \in Jobs, Lapse(j) \/ Age(j) PROVE ShapeOK'
  BY <1>4, TimeType
<1>5. CASE UNCHANGED vars
  BY <1>5 DEF vars, database, history, ShapeOK
<1>6. QED
  BY <1>1, <1>2, <1>3, <1>4, <1>5 DEF Next, Quiescent

\* Nobody but a worker locks a row.
LEMMA RowLocksStep == RowLocksOK /\ [Next]_vars => RowLocksOK'
<1> SUFFICES ASSUME RowLocksOK, [Next]_vars PROVE RowLocksOK'
  OBVIOUS
<1>1. ASSUME NEW w \in Workers, ReleaseLocks(w)  PROVE RowLocksOK'
  BY <1>1 DEF ReleaseLocks, RowLocksOK
<1>2. ASSUME UNCHANGED rowLock  PROVE RowLocksOK'
  BY <1>2 DEF RowLocksOK
<1>3. ASSUME NEW w \in Workers, Select(w)  PROVE RowLocksOK'
  BY <1>3 DEF Select, RowLocksOK
<1>4. ASSUME NEW w \in Workers, ReturnNone(w) \/ DeadlockVictim(w) \/ Abort(w)
      PROVE  RowLocksOK'
  BY <1>1, <1>4 DEF ReturnNone, DeadlockVictim, Abort
<1>5. ASSUME NEW w \in Workers, NEW s \in worker[w].todo, Handle(w, s)  PROVE RowLocksOK'
  BY <1>1, <1>2, <1>5 DEF Handle, FailCandidate, CheckCapacity, Claim, CandidateGone,
     ReadBack, Complete, PersistFails, Fallback, Fail, database
<1>6. ASSUME NEW r \in Requests, RequestStep(r)  PROVE RowLocksOK'
  BY <1>2, <1>6, RequestInserts
<1>7. ASSUME NEW d \in Deleters, DeleterStep(d)  PROVE RowLocksOK'
  BY <1>2, <1>7 DEF DeleterStep, ReadForDelete, RefundDeleted, DeleteRow, AbandonDelete,
                    database
<1>8. CASE (\E j \in Jobs : Lapse(j) \/ Age(j)) \/ UNCHANGED vars
  BY <1>2, <1>8 DEF Lapse, Age, vars, database
<1>9. QED
  BY <1>3, <1>4, <1>5, <1>6, <1>7, <1>8 DEF Next, WorkerStep, Quiescent

-----------------------------------------------------------------------------
(* What a step other than the candidate query and an insert does to the    *)
(* rows and to what workers remember of them: rows and snapshots may go,   *)
(* and none is added or changes owner.                                     *)

RowsOnlyGo == /\ \A j \in Jobs : Exists(j)' => Exists(j) /\ job'[j].owner = job[j].owner
              /\ \A w \in Workers : worker'[w].todo \subseteq worker[w].todo
              /\ nextId' = nextId

LEMMA HandleRowsGo ==
    ASSUME ShapeOK, NEW w \in Workers, NEW s \in worker[w].todo, Handle(w, s)
    PROVE  RowsOnlyGo
<1>a. s.id \in Jobs /\ worker \in [Workers -> WorkerState] /\ job \in [Jobs -> Row]
  BY DEF ShapeOK, WorkerState, Snapshot
<1>b. nextId' = nextId
  BY DEF Handle, FailCandidate, CheckCapacity, Claim, CandidateGone, ReadBack, Complete,
         PersistFails, Fallback, Fail, history, database
<1>c. \/ UNCHANGED job
      \/ Exists(s.id) /\ \E st \in Statuses : job' = [job EXCEPT ![s.id].status = st]
      \/ Exists(s.id) /\ job' = [job EXCEPT ![s.id] = ClaimedRow(s, w)]
  BY DEF Handle, FailCandidate, CheckCapacity, Claim, CandidateGone, ReadBack, Complete,
         PersistFails, Fallback, Fail, FailAndRefund, Statuses, Terminal, history, database
<1>1. \A j \in Jobs : Exists(j)' => Exists(j) /\ job'[j].owner = job[j].owner
  <2>1. \A j \in Jobs : j # s.id => job'[j] = job[j]
    BY <1>a, <1>c
  <2>2. job'[s.id].owner = job[s.id].owner
    <3>1. job[s.id] \in Row
      BY <1>a
    <3>2. /\ \A st \in Statuses : [job[s.id] EXCEPT !.status = st].owner = job[s.id].owner
          /\ ClaimedRow(s, w).owner = job[s.id].owner
      BY <3>1 DEF Row, ClaimedRow
    <3>3. \/ job'[s.id] = job[s.id]
          \/ \E st \in Statuses : job'[s.id] = [job[s.id] EXCEPT !.status = st]
          \/ job'[s.id] = ClaimedRow(s, w)
      BY <1>a, <1>c
    <3>4. QED
      BY <3>2, <3>3
  <2>3. Exists(s.id)' => Exists(s.id)
    BY <1>a, <1>c DEF Exists
  <2>4. QED
    BY <2>1, <2>2, <2>3 DEF Exists
<1>2. \E pc, todo : Become(w, pc, todo) /\ todo \subseteq worker[w].todo
  <2>1. worker[w].todo \ {s} \subseteq worker[w].todo /\ {s} \subseteq worker[w].todo
    OBVIOUS
  <2>2. QED
    BY <2>1 DEF Handle, FailCandidate, CheckCapacity, Claim, CandidateGone, ReadBack,
                Complete, PersistFails, Fallback, Fail
<1>3. \A v \in Workers : worker'[v].todo \subseteq worker[v].todo
  BY <1>2, <1>a DEF Become
<1>4. QED
  BY <1>1, <1>3, <1>b DEF RowsOnlyGo

LEMMA GiveUpRowsGo ==
    ASSUME ShapeOK, NEW w \in Workers, ReturnNone(w) \/ DeadlockVictim(w) \/ Abort(w)
    PROVE  RowsOnlyGo
  BY DEF ReturnNone, DeadlockVictim, Abort, Become, RowsOnlyGo, ShapeOK, Exists, history

LEMMA OthersRowsGo ==
    ASSUME ShapeOK,
           \/ \E r \in Requests : RequestStep(r) /\ UNCHANGED <<job, nextId>>
           \/ \E d \in Deleters : DeleterStep(d)
           \/ \E j \in Jobs : Lapse(j) \/ Age(j)
           \/ UNCHANGED vars
    PROVE  RowsOnlyGo
<1>1. CASE \E r \in Requests : RequestStep(r) /\ UNCHANGED <<job, nextId>>
  BY <1>1, RequestInserts DEF RowsOnlyGo, Exists
<1>2. ASSUME NEW d \in Deleters, DeleterStep(d) PROVE RowsOnlyGo
  <2>1. UNCHANGED <<worker, nextId>>
    BY <1>2 DEF DeleterStep, ReadForDelete, RefundDeleted, DeleteRow, AbandonDelete,
                database, history
  <2>2. UNCHANGED job \/ job' = [job EXCEPT ![deleter[d].id] = NoRow]
    BY <1>2 DEF DeleterStep, ReadForDelete, RefundDeleted, DeleteRow, AbandonDelete,
                database, history
  <2>3. \A j \in Jobs : job'[j] = job[j] \/ job'[j] = NoRow
    BY <2>2 DEF ShapeOK
  <2>4. NoRow.status = "absent"
    BY DEF NoRow
  <2>5. \A j \in Jobs : Exists(j)' => Exists(j) /\ job'[j].owner = job[j].owner
    BY <2>3, <2>4 DEF Exists
  <2>6. QED
    BY <2>1, <2>5 DEF RowsOnlyGo
<1>3. ASSUME NEW j \in Jobs, Lapse(j) \/ Age(j) PROVE RowsOnlyGo
  <2>1. UNCHANGED <<worker, nextId>>
    BY <1>3 DEF Lapse, Age
  <2>2. \A i \in Jobs : job'[i].owner = job[i].owner /\ job'[i].status = job[i].status
    <3>1. job[j] \in Row
      BY DEF ShapeOK
    <3>2. \A i \in Jobs : \/ job'[i] = job[i]
                          \/ i = j /\ job'[i] = [job[j] EXCEPT !.lapsed = TRUE]
                          \/ i = j /\ job'[i] = [job[j] EXCEPT !.overdue = TRUE]
      BY <1>3 DEF Lapse, Age, ShapeOK
    <3>3. QED
      BY <3>1, <3>2 DEF Row
  <2>3. QED
    BY <2>1, <2>2 DEF RowsOnlyGo, Exists
<1>4. CASE UNCHANGED vars
  BY <1>4 DEF vars, database, RowsOnlyGo, Exists
<1>5. QED
  BY <1>1, <1>2, <1>3, <1>4

\* Rows and snapshots that only go leave the ownership facts as they are.
LEMMA OwnershipOfRows ==
    ASSUME ShapeOK, Ownership, RowsOnlyGo
    PROVE  RowsAreOwned' /\ SnapshotsAgree' /\ OneSnapshotPerRow'
<1>1. \A w \in Workers : \A s \in worker[w].todo : s.id \in Jobs
  BY DEF ShapeOK, WorkerState, Snapshot
<1>2. RowsAreOwned'
  BY DEF Ownership, RowsAreOwned, RowsOnlyGo
<1>3. SnapshotsAgree'
  BY <1>1 DEF Ownership, SnapshotsAgree, RowsOnlyGo, Exists
<1>4. OneSnapshotPerRow'
  BY DEF Ownership, OneSnapshotPerRow, RowsOnlyGo
<1>5. QED
  BY <1>2, <1>3, <1>4

\* The candidate query takes its snapshots from rows that exist.
LEMMA OwnershipOfSelect ==
    ASSUME ShapeOK, Ownership, NEW w \in Workers, Select(w)
    PROVE  Ownership'
<1>1. UNCHANGED <<job, nextId, request>>
  BY DEF Select
<1>2. \A v \in Workers : worker'[v].todo = IF v = w THEN {SnapshotOf(j) : j \in Candidates}
                                          ELSE worker[v].todo
  BY DEF Select, Become, ShapeOK
<1>3. \A j \in Candidates : j \in Jobs /\ Exists(j) /\ SnapshotOf(j).id = j
                           /\ SnapshotOf(j).owner = job[j].owner
  BY DEF Candidates, Eligible, Claimable, Exists, SnapshotOf
<1>4. RowsAreOwned' /\ RequestsAreOwned'
  BY <1>1 DEF Ownership, RowsAreOwned, RequestsAreOwned, Exists
<1>5. SnapshotsAgree'
  <2>1. SUFFICES ASSUME NEW v \in Workers, NEW s \in worker'[v].todo
                 PROVE  s.id < nextId /\ (Exists(s.id) => job[s.id].owner = s.owner)
    BY <1>1 DEF SnapshotsAgree, Exists
  <2>2. CASE v = w
    <3>1. PICK j \in Candidates : s = SnapshotOf(j)
      BY <1>2, <2>1, <2>2
    <3>2. QED
      BY <1>3, <3>1 DEF Ownership, RowsAreOwned
  <2>3. CASE v # w
    BY <1>2, <2>1, <2>3 DEF Ownership, SnapshotsAgree
  <2>4. QED
    BY <2>2, <2>3
<1>6. OneSnapshotPerRow'
  <2>1. SUFFICES ASSUME NEW v \in Workers, NEW s \in worker'[v].todo,
                        NEW t \in worker'[v].todo, s.id = t.id
                 PROVE  s = t
    BY DEF OneSnapshotPerRow
  <2>2. CASE v = w
    <3>1. PICK i \in Candidates : s = SnapshotOf(i)
      BY <1>2, <2>1, <2>2
    <3>2. PICK j \in Candidates : t = SnapshotOf(j)
      BY <1>2, <2>1, <2>2
    <3>3. QED
      BY <1>3, <2>1, <3>1, <3>2
  <2>3. CASE v # w
    BY <1>2, <2>1, <2>3 DEF Ownership, OneSnapshotPerRow
  <2>4. QED
    BY <2>2, <2>3
<1>7. QED
  BY <1>4, <1>5, <1>6 DEF Ownership

\* An insert uses an id that no snapshot has.
LEMMA OwnershipOfInsert ==
    ASSUME ShapeOK, Ownership, NEW u \in Users, Insert(u), UNCHANGED worker
    PROVE  RowsAreOwned' /\ SnapshotsAgree' /\ OneSnapshotPerRow'
<1>1. nextId \in Nat
  BY DEF ShapeOK
<1>2. nextId' = nextId + 1
  BY DEF Insert
<1>3. \A j \in Jobs : /\ j # nextId => job'[j] = job[j]
                      /\ j = nextId => job'[j].owner = u
  BY DEF Insert, ShapeOK, NoRow
<1>4. RowsAreOwned'
  <2>1. SUFFICES ASSUME NEW j \in Jobs, Exists(j)'
                 PROVE  job'[j].owner \in Users /\ j < nextId + 1
    BY <1>2 DEF RowsAreOwned
  <2>2. CASE j = nextId
    BY <1>1, <1>3, <2>2
  <2>3. CASE j # nextId
    <3>1. job'[j] = job[j]
      BY <1>3, <2>3
    <3>2. job[j].owner \in Users /\ j < nextId
      BY <2>1, <3>1 DEF Exists, Ownership, RowsAreOwned
    <3>3. j \in Int
      BY MaxJobsAssumption DEF Jobs
    <3>4. QED
      BY <1>1, <3>1, <3>2, <3>3
  <2>4. QED
    BY <2>2, <2>3
<1>5. SnapshotsAgree'
  <2>1. \A v \in Workers : \A s \in worker[v].todo : s.id \in Jobs /\ s.id < nextId
    BY DEF ShapeOK, WorkerState, Snapshot, Ownership, SnapshotsAgree
  <2>2. SUFFICES ASSUME NEW v \in Workers, NEW s \in worker[v].todo
                 PROVE  s.id < nextId + 1 /\ (Exists(s.id)' => job'[s.id].owner = s.owner)
    BY <1>2 DEF SnapshotsAgree
  <2>3. s.id \in Jobs /\ s.id < nextId /\ s.id # nextId /\ s.id < nextId + 1
    BY <1>1, <2>1, MaxJobsAssumption DEF Jobs
  <2>4. job'[s.id] = job[s.id]
    BY <1>3, <2>3
  <2>5. QED
    BY <2>3, <2>4 DEF Ownership, SnapshotsAgree, Exists
<1>6. OneSnapshotPerRow'
  BY DEF Ownership, OneSnapshotPerRow
<1>7. QED
  BY <1>4, <1>5, <1>6

\* A step of a request is about that request.
LEMMA OneRequestMoves ==
    ASSUME ShapeOK, NEW r \in Requests, RequestStep(r)
    PROVE  \A q \in Requests : q # r => request'[q] = request[q]
<1>1. ASSUME NEW u \in Users, Reserve(r, u)
      PROVE  \E v : request' = [request EXCEPT ![r] = v]
  BY <1>1 DEF Reserve
<1>2. CASE Answer(r)
  BY <1>2 DEF Answer, ShapeOK
<1>3. CASE Create(r)
  BY <1>3 DEF Create, ShapeOK
<1>4. request \in [Requests -> RequestState]
  BY DEF ShapeOK
<1>5. QED
  BY <1>1, <1>2, <1>3, <1>4
  DEF RequestStep, Created, RefundReservation, CreateFails, Abandon

\* Requests keep the user they reserved for until they answer.
LEMMA OwnershipOfRequests ==
    ASSUME ShapeOK, RequestsAreOwned,
           UNCHANGED request \/ \E r \in Requests : RequestStep(r)
    PROVE  RequestsAreOwned'
<1>1. ASSUME NEW r \in Requests, RequestStep(r) PROVE RequestsAreOwned'
  <2>1. \A q \in Requests : q # r => request'[q] = request[q]
    BY <1>1, OneRequestMoves
  <2>2. request'[r].pc # "idle" => request'[r].user \in Users
    <3>1. ASSUME NEW u \in Users, Reserve(r, u)
          PROVE  request'[r].user \in Users
      BY <3>1 DEF Reserve, ShapeOK
    <3>2. CASE Create(r)
      BY <3>2 DEF Create, RequestsAreOwned, ShapeOK, RequestState
    <3>3. CASE Answer(r)
      BY <3>3 DEF Answer, ShapeOK
    <3>4. QED
      BY <1>1, <3>1, <3>2, <3>3
      DEF RequestStep, Created, RefundReservation, CreateFails, Abandon
  <2>3. QED
    BY <2>1, <2>2 DEF RequestsAreOwned
<1>2. QED
  BY <1>1 DEF RequestsAreOwned

LEMMA OwnershipStep == ShapeOK /\ Ownership /\ [Next]_vars => Ownership'
<1> SUFFICES ASSUME ShapeOK, Ownership, [Next]_vars
             PROVE  Ownership'
  OBVIOUS
<1>1. ASSUME NEW w \in Workers, Select(w) PROVE Ownership'
  BY <1>1, OwnershipOfSelect
<1>2. ASSUME NEW r \in Requests, RequestStep(r) PROVE Ownership'
  <2>1. UNCHANGED worker /\ RequestsAreOwned'
    BY <1>2, RequestInserts, OwnershipOfRequests DEF Ownership
  <2>2. CASE request[r].pc = "reserved" /\ Insert(request[r].user)
    <3>1. PICK u \in Users : u = request[r].user
      BY <2>2 DEF Ownership, RequestsAreOwned
    <3>2. Insert(u)
      BY <2>2, <3>1
    <3>3. QED
      BY <2>1, <3>2, OwnershipOfInsert DEF Ownership
  <2>3. CASE UNCHANGED <<job, nextId>>
    BY <1>2, <2>1, <2>3, OthersRowsGo, OwnershipOfRows DEF Ownership
  <2>4. QED
    BY <1>2, <2>2, <2>3, RequestInserts
<1>3. ASSUME RowsOnlyGo, UNCHANGED request
      PROVE  Ownership'
  BY <1>3, OwnershipOfRows, OwnershipOfRequests DEF Ownership
<1>4. ASSUME NEW w \in Workers, NEW s \in worker[w].todo, Handle(w, s)
      PROVE  Ownership'
  <2>1. UNCHANGED request
    BY <1>4 DEF Handle, FailCandidate, CheckCapacity, Claim, CandidateGone, ReadBack,
                Complete, PersistFails, Fallback, Fail
  <2>2. QED
    BY <1>3, <1>4, <2>1, HandleRowsGo
<1>5. ASSUME NEW w \in Workers, ReturnNone(w) \/ DeadlockVictim(w) \/ Abort(w)
      PROVE  Ownership'
  <2>1. UNCHANGED request
    BY <1>5 DEF ReturnNone, DeadlockVictim, Abort
  <2>2. QED
    BY <1>3, <1>5, <2>1, GiveUpRowsGo
<1>6. CASE \/ \E d \in Deleters : DeleterStep(d)
           \/ \E j \in Jobs : Lapse(j) \/ Age(j)
           \/ UNCHANGED vars
  <2>1. UNCHANGED request
    BY <1>6 DEF DeleterStep, ReadForDelete, RefundDeleted, DeleteRow, AbandonDelete,
                Lapse, Age, vars
  <2>2. QED
    BY <1>3, <1>6, <2>1, OthersRowsGo
<1>7. QED
  BY <1>1, <1>2, <1>4, <1>5, <1>6 DEF Next, WorkerStep, Quiescent

-----------------------------------------------------------------------------
(* The refunds.  Several processes fail jobs, and one that has been        *)
(* overtaken fails a row another one has dealt with; all that a refund     *)
(* ever does to the count of a job is to raise it.                         *)

\* The count of a job's refunds never falls.
RefundsOnlyRise == \A j \in Jobs : refunds[j] >= 1 => refunds'[j] >= 1

LEMMA CountRefundRises ==
    ASSUME refunds \in [Jobs -> 0 .. 2], NEW j, CountRefund(j)
    PROVE  RefundsOnlyRise /\ (j \in Jobs => refunds'[j] >= 1)
<1>1. \A i \in Jobs : refunds[i] \in 0 .. 2
  OBVIOUS
<1>2. \A i \in Jobs : refunds'[i] = IF i = j /\ refunds[i] < 2 THEN refunds[i] + 1 ELSE refunds[i]
  BY DEF CountRefund
<1>3. QED
  BY <1>1, <1>2 DEF RefundsOnlyRise

\* A step that sets no job failed, and takes no refund back.
LEMMA NoneFails ==
    ASSUME FailuresAreRefunded, RefundsOnlyRise,
           \A j \in Jobs : job'[j].status = "failed" => job[j].status = "failed"
    PROVE  FailuresAreRefunded'
  BY DEF FailuresAreRefunded, RefundsOnlyRise

\* Failing a job and refunding it are one commit.
LEMMA FailureIsRefunded ==
    ASSUME ShapeOK, FailuresAreRefunded, NEW j \in Jobs, NEW u, FailAndRefund(j, u)
    PROVE  FailuresAreRefunded'
<1>1. RefundsOnlyRise /\ refunds'[j] >= 1
  BY CountRefundRises DEF FailAndRefund, ShapeOK
<1>2. \A i \in Jobs : i # j => job'[i] = job[i]
  BY DEF FailAndRefund, ShapeOK
<1>3. QED
  BY <1>1, <1>2 DEF FailuresAreRefunded, RefundsOnlyRise

LEMMA FailuresStep == ShapeOK /\ FailuresAreRefunded /\ [Next]_vars => FailuresAreRefunded'
<1> SUFFICES ASSUME ShapeOK, FailuresAreRefunded, [Next]_vars
             PROVE  FailuresAreRefunded'
  OBVIOUS
<1>0. job \in [Jobs -> Row] /\ refunds \in [Jobs -> 0 .. 2]
  BY DEF ShapeOK
<1>1. ASSUME UNCHANGED <<job, refunds>>  PROVE FailuresAreRefunded'
  BY <1>1 DEF FailuresAreRefunded
<1>2. ASSUME UNCHANGED refunds,
             \A j \in Jobs : job'[j].status = "failed" => job[j].status = "failed"
      PROVE  FailuresAreRefunded'
  BY <1>2 DEF FailuresAreRefunded
<1>3. ASSUME NEW j, CountRefund(j), UNCHANGED job  PROVE FailuresAreRefunded'
  BY <1>0, <1>3, CountRefundRises, NoneFails
<1>4. ASSUME NEW w \in Workers, NEW s \in worker[w].todo, Handle(w, s)
      PROVE  FailuresAreRefunded'
  <2>1. s.id \in Jobs /\ job[s.id] \in Row
    BY <1>0 DEF ShapeOK, WorkerState, Snapshot
  <2>2. CASE FailCandidate(w, s) \/ Fallback(w, s) \/ Fail(w, s)
    BY <1>1, <2>1, <2>2, FailureIsRefunded DEF FailCandidate, Fallback, Fail
  <2>3. CASE CheckCapacity(w, s) \/ CandidateGone(w, s) \/ ReadBack(w, s)
    BY <1>1, <2>3 DEF CheckCapacity, CandidateGone, ReadBack, database, history
  <2>4. CASE Complete(w, s) \/ PersistFails(w, s)
    <3>1. /\ UNCHANGED refunds
          /\ UNCHANGED job \/ job' = [job EXCEPT ![s.id].status = "completed"]
      BY <2>4 DEF Complete, PersistFails, history
    <3>2. \A j \in Jobs : job'[j] = job[j] \/ job'[j].status = "completed"
      BY <1>0, <2>1, <3>1 DEF Row
    <3>3. QED
      BY <1>2, <3>1, <3>2
  <2>5. CASE Claim(w, s)
    <3>1. /\ UNCHANGED refunds
          /\ \A j \in Jobs : job'[j] = IF j = s.id THEN ClaimedRow(s, w) ELSE job[j]
      BY <1>0, <2>1, <2>5 DEF Claim
    <3>2. ClaimedRow(s, w).status \in {"running", job[s.id].status}
      BY <2>1 DEF ClaimedRow, Row
    <3>3. QED
      BY <1>2, <3>1, <3>2
  <2>6. QED
    BY <1>4, <2>2, <2>3, <2>4, <2>5 DEF Handle
<1>5. ASSUME NEW w \in Workers, Select(w) \/ ReturnNone(w) \/ DeadlockVictim(w) \/ Abort(w)
      PROVE  FailuresAreRefunded'
  BY <1>1, <1>5 DEF Select, ReturnNone, DeadlockVictim, Abort, history
<1>6. ASSUME NEW r \in Requests, RequestStep(r)  PROVE FailuresAreRefunded'
  <2>1. CASE RefundReservation(r)
    BY <1>3, <2>1 DEF RefundReservation
  <2>2. CASE ~RefundReservation(r)
    <3>1. UNCHANGED refunds
      BY <1>6, <2>2 DEF RequestStep, Reserve, Create, Created, CreateFails, Abandon, history
    <3>2. \A j \in Jobs : job'[j] = job[j] \/ job'[j].status = "pending"
      BY <1>0, <1>6, RequestInserts DEF Insert, NoRow
    <3>3. QED
      BY <1>2, <3>1, <3>2
  <2>3. QED
    BY <2>1, <2>2
<1>7. ASSUME NEW d \in Deleters, DeleterStep(d)  PROVE FailuresAreRefunded'
  <2>1. CASE RefundDeleted(d)
    BY <1>3, <2>1 DEF RefundDeleted
  <2>2. CASE ~RefundDeleted(d)
    <3>1. UNCHANGED refunds
      BY <1>7, <2>2 DEF DeleterStep, ReadForDelete, DeleteRow, AbandonDelete, history
    <3>2. UNCHANGED job \/ job' = [job EXCEPT ![deleter[d].id] = NoRow]
      BY <1>7, <2>2 DEF DeleterStep, ReadForDelete, DeleteRow, AbandonDelete, database
    <3>3. \A j \in Jobs : job'[j] = job[j] \/ job'[j].status = "absent"
      BY <1>0, <3>2 DEF NoRow
    <3>4. QED
      BY <1>2, <3>1, <3>3
  <2>3. QED
    BY <2>1, <2>2
<1>8. ASSUME NEW j \in Jobs, Lapse(j) \/ Age(j)  PROVE FailuresAreRefunded'
  BY <1>0, <1>2, <1>8 DEF Lapse, Age, history, Row
<1>9. QED
  BY <1>1, <1>4, <1>5, <1>6, <1>7, <1>8 DEF Next, WorkerStep, Quiescent, vars, database, history

-----------------------------------------------------------------------------
(* The plan's limit on running jobs.  A quiet step sets no row running and *)
(* takes no worker to "claim", nor its lock from one that is there.        *)

Quiet == /\ \A u \in Users : Running(u)' \subseteq Running(u)
         /\ \A w \in Workers : \A s \in worker'[w].todo :
               At(w, s, "claim")' =>
                   /\ s \in worker[w].todo /\ At(w, s, "claim")
                   /\ userLock[s.owner] = w => userLock'[s.owner] = w

LEMMA RunningFinite ==
    ASSUME NEW u PROVE IsFiniteSet(Running(u)) /\ Cardinality(Running(u)) \in Nat
<1>1. IsFiniteSet(Jobs)
  BY FS_Interval, MaxJobsAssumption DEF Jobs
<1>2. Running(u) \subseteq Jobs
  BY DEF Running
<1>3. QED
  BY <1>1, <1>2, FS_Subset, FS_CardinalityType

\* Fewer running rows take no more room.
LEMMA FewerRunning ==
    ASSUME NEW u, Running(u)' \subseteq Running(u)
    PROVE  /\ Cardinality(Running(u)') <= Cardinality(Running(u))
           /\ Cardinality(Running(u)') \in Nat
  BY RunningFinite, FS_Subset, FS_CardinalityType

LEMMA QuietStep ==
    ASSUME ShapeOK, ClaimHasRoom, RunningWithinPlan, Quiet
    PROVE  ClaimHasRoom' /\ RunningWithinPlan'
<1>1. RunningWithinPlan'
  BY FewerRunning, RunningFinite, MaxConcurrentAssumption DEF RunningWithinPlan, Quiet
<1>2. ClaimHasRoom'
  <2>1. SUFFICES ASSUME NEW w \in Workers, NEW s \in worker'[w].todo,
                        At(w, s, "claim")', s.status = "pending"
                 PROVE  /\ userLock'[s.owner] = w
                        /\ Cardinality(Running(s.owner)') < MaxConcurrent
    BY DEF ClaimHasRoom
  <2>2. /\ s \in worker[w].todo /\ At(w, s, "claim")
        /\ userLock[s.owner] = w => userLock'[s.owner] = w
    BY <2>1 DEF Quiet
  <2>3. userLock[s.owner] = w /\ Cardinality(Running(s.owner)) < MaxConcurrent
    BY <2>1, <2>2 DEF ClaimHasRoom
  <2>4. s.owner \in Users
    BY <2>2 DEF ShapeOK, WorkerState, Snapshot
  <2>5. QED
    BY <2>2, <2>3, <2>4, FewerRunning, RunningFinite, MaxConcurrentAssumption DEF Quiet
<1>3. QED
  BY <1>1, <1>2

\* A worker that drops its locks leaves those of the others alone.
LEMMA LeavingClaim ==
    ASSUME ShapeOK, NEW w \in Workers, NEW pc, NEW todo, pc # "claim",
           Become(w, pc, todo), ReleaseLocks(w) \/ UNCHANGED userLock
    PROVE  \A v \in Workers : \A s \in worker'[v].todo :
               At(v, s, "claim")' =>
                   /\ s \in worker[v].todo /\ At(v, s, "claim")
                   /\ userLock[s.owner] = v => userLock'[s.owner] = v
<1>1. SUFFICES ASSUME NEW v \in Workers, NEW s \in worker'[v].todo, At(v, s, "claim")'
               PROVE  /\ s \in worker[v].todo /\ At(v, s, "claim")
                      /\ userLock[s.owner] = v => userLock'[s.owner] = v
  OBVIOUS
<1>2. v # w /\ worker'[v] = worker[v]
  BY <1>1 DEF Become, At, ShapeOK
<1>3. s.owner \in Users
  BY <1>1, <1>2 DEF ShapeOK, WorkerState, Snapshot
<1>4. QED
  BY <1>1, <1>2, <1>3 DEF At, ReleaseLocks, ShapeOK

\* Setting a row's status to anything but running sets no row running.
LEMMA StatusNotRunning ==
    ASSUME ShapeOK, NEW j \in Jobs, NEW st \in {"pending", "completed", "failed"},
           UNCHANGED job \/ job' = [job EXCEPT ![j].status = st]
    PROVE  \A u \in Users : Running(u)' \subseteq Running(u)
<1>1. \A i \in Jobs : job'[i].status = "running" => job'[i] = job[i]
  BY DEF ShapeOK, Row
<1>2. QED
  BY <1>1 DEF Running

LEMMA QuietHandle ==
    ASSUME ShapeOK, NEW w \in Workers, NEW s \in worker[w].todo, Handle(w, s),
           ~CheckCapacity(w, s), ~Claim(w, s)
    PROVE  Quiet
<1>1. \E pc, todo : pc # "claim" /\ Become(w, pc, todo)
  BY DEF Handle, FailCandidate, CandidateGone, ReadBack, Complete, PersistFails, Fallback, Fail
<1>2. ReleaseLocks(w) \/ UNCHANGED userLock
  BY DEF Handle, FailCandidate, CandidateGone, ReadBack, Complete, PersistFails, Fallback,
         Fail, database
<1>3. \E st \in {"pending", "completed", "failed"} :
          UNCHANGED job \/ job' = [job EXCEPT ![s.id].status = st]
  BY DEF Handle, FailCandidate, CandidateGone, ReadBack, Complete, PersistFails, Fallback,
         Fail, FailAndRefund, database
<1>4. s.id \in Jobs
  BY DEF ShapeOK, WorkerState, Snapshot
<1>5. QED
  BY <1>1, <1>2, <1>3, <1>4, LeavingClaim, StatusNotRunning DEF Quiet

LEMMA QuietOthers ==
    ASSUME ShapeOK,
           \/ \E w \in Workers : \/ Select(w) \/ ReturnNone(w)
                                \/ DeadlockVictim(w) \/ Abort(w)
           \/ \E r \in Requests : RequestStep(r)
           \/ \E d \in Deleters : DeleterStep(d)
           \/ \E j \in Jobs : Lapse(j) \/ Age(j)
           \/ UNCHANGED vars
    PROVE  Quiet
<1>1. ASSUME NEW w \in Workers,
             Select(w) \/ ReturnNone(w) \/ DeadlockVictim(w) \/ Abort(w)
      PROVE  Quiet
  <2>1. \E pc, todo : pc # "claim" /\ Become(w, pc, todo)
    BY <1>1 DEF Select, ReturnNone, DeadlockVictim, Abort
  <2>2. ReleaseLocks(w) \/ UNCHANGED userLock
    BY <1>1 DEF Select, ReturnNone, DeadlockVictim, Abort
  <2>3. \A u \in Users : Running(u)' \subseteq Running(u)
    BY <1>1 DEF Select, ReturnNone, DeadlockVictim, Abort, Running
  <2>4. QED
    BY <2>1, <2>2, <2>3, LeavingClaim DEF Quiet
<1>2. ASSUME UNCHANGED <<worker, userLock>>,
             \A j \in Jobs : job'[j].status = "running" =>
                 job[j].status = "running" /\ job'[j].owner = job[j].owner
      PROVE  Quiet
  BY <1>2 DEF Quiet, Running, At
<1>3. ASSUME NEW r \in Requests, RequestStep(r) PROVE Quiet
  <2>1. UNCHANGED <<worker, userLock>>
    BY <1>3, RequestInserts
  <2>2. \A j \in Jobs : job'[j] = job[j] \/ job'[j].status = "pending"
    BY <1>3, RequestInserts DEF Insert, ShapeOK, NoRow
  <2>3. QED
    BY <1>2, <2>1, <2>2
<1>4. ASSUME NEW d \in Deleters, DeleterStep(d) PROVE Quiet
  <2>1. UNCHANGED <<worker, userLock>>
    BY <1>4 DEF DeleterStep, ReadForDelete, RefundDeleted, DeleteRow, AbandonDelete, database
  <2>2. UNCHANGED job \/ job' = [job EXCEPT ![deleter[d].id] = NoRow]
    BY <1>4 DEF DeleterStep, ReadForDelete, RefundDeleted, DeleteRow, AbandonDelete, database
  <2>3. \A j \in Jobs : job'[j] = job[j] \/ job'[j].status = "absent"
    BY <2>2 DEF ShapeOK, NoRow
  <2>4. QED
    BY <1>2, <2>1, <2>3
<1>5. ASSUME NEW j \in Jobs, Lapse(j) \/ Age(j) PROVE Quiet
  <2>1. UNCHANGED <<worker, userLock>>
    BY <1>5 DEF Lapse, Age
  <2>2. job[j] \in Row
    BY DEF ShapeOK
  <2>3. \A i \in Jobs : \/ job'[i] = job[i]
                        \/ i = j /\ job'[i] = [job[j] EXCEPT !.lapsed = TRUE]
                        \/ i = j /\ job'[i] = [job[j] EXCEPT !.overdue = TRUE]
    BY <1>5 DEF Lapse, Age, ShapeOK
  <2>4. QED
    BY <1>2, <2>1, <2>2, <2>3 DEF Row
<1>6. CASE UNCHANGED vars
  BY <1>2, <1>6 DEF vars, database
<1>7. QED
  BY <1>1, <1>3, <1>4, <1>5, <1>6

\* Of two rows one is older.
LEMMA NeitherOlder ==
    ASSUME NEW i \in Jobs, NEW j \in Jobs, ~Older(i, j), ~Older(j, i)
    PROVE  i = j
<1>1. CreatedAt[i] \in Nat /\ CreatedAt[j] \in Nat
  BY CreatedAtAssumption
<1>2. CreatedAt[i] = CreatedAt[j]
  BY <1>1 DEF Older
<1>3. QED
  BY <1>2, CreatedAtAssumption

\* Counting under the lock of the user's row makes room for one claim.
LEMMA RoomAfterCheck ==
    ASSUME ShapeOK, OneSnapshotPerRow, ClaimHasRoom, RunningWithinPlan,
           NEW w \in Workers, NEW s \in worker[w].todo, CheckCapacity(w, s)
    PROVE  ClaimHasRoom' /\ RunningWithinPlan'
<1>1. \A u : Running(u)' = Running(u)
  BY DEF CheckCapacity, Running
<1>2. RunningWithinPlan'
  BY <1>1 DEF RunningWithinPlan
<1>3. ClaimHasRoom'
  <2>1. SUFFICES ASSUME NEW v \in Workers, NEW t \in worker'[v].todo,
                        At(v, t, "claim")', t.status = "pending"
                 PROVE  /\ userLock'[t.owner] = v
                        /\ Cardinality(Running(t.owner)') < MaxConcurrent
    BY DEF ClaimHasRoom
  <2>2. CASE v = w
    <3>1. HasCapacity(s) /\ worker'[w].todo = worker[w].todo
      BY <2>1, <2>2 DEF CheckCapacity, Become, At, ShapeOK
    <3>2. t = s
      <4>1. At(w, s, "scan")
        BY DEF CheckCapacity
      <4>2. /\ t \in worker[w].todo /\ t.id \in Jobs /\ s.id \in Jobs
            /\ ~Older(t.id, s.id) /\ ~Older(s.id, t.id)
        BY <2>1, <2>2, <3>1, <4>1 DEF At, ShapeOK, WorkerState, Snapshot
      <4>3. QED
        BY <4>2, NeitherOlder DEF OneSnapshotPerRow
    <3>3. Cardinality(Running(s.owner)) < MaxConcurrent
      <4>1. Running(s.owner) \ {} = Running(s.owner)
        OBVIOUS
      <4>2. QED
        BY <2>1, <3>1, <3>2, <4>1 DEF HasCapacity, ActiveCount
    <3>4. userLock'[s.owner] = w
      BY DEF CheckCapacity, ShapeOK, WorkerState, Snapshot
    <3>5. QED
      BY <1>1, <2>2, <3>2, <3>3, <3>4
  <2>3. CASE v # w
    <3>1. worker'[v] = worker[v]
      BY <2>3 DEF CheckCapacity, Become, ShapeOK
    <3>2. userLock[t.owner] = v /\ Cardinality(Running(t.owner)) < MaxConcurrent
      BY <2>1, <3>1 DEF ClaimHasRoom, At
    <3>3. t.owner # s.owner
      BY <2>3, <3>2, ActorsAssumption DEF CheckCapacity
    <3>4. userLock'[t.owner] = v
      BY <3>2, <3>3 DEF CheckCapacity, ShapeOK
    <3>5. QED
      BY <1>1, <3>2, <3>4
  <2>4. QED
    BY <2>2, <2>3
<1>4. QED
  BY <1>2, <1>3

\* A claim fills the room its worker had found, and takes nobody else's.
LEMMA RoomAfterClaim ==
    ASSUME ShapeOK, Ownership, ClaimHasRoom, RunningWithinPlan,
           NEW w \in Workers, NEW s \in worker[w].todo, Claim(w, s)
    PROVE  ClaimHasRoom' /\ RunningWithinPlan'
<1>1. \A v \in Workers : \A t \in worker'[v].todo :
          At(v, t, "claim")' =>
              /\ t \in worker[v].todo /\ At(v, t, "claim")
              /\ userLock[t.owner] = v => userLock'[t.owner] = v
  BY LeavingClaim DEF Claim
<1>2. s.id \in Jobs /\ s.owner \in Users /\ job[s.id] \in Row
  BY DEF ShapeOK, WorkerState, Snapshot
<1>3. \A j \in Jobs : j # s.id => job'[j] = job[j]
  BY <1>2 DEF Claim, ShapeOK
<1>4. job'[s.id].owner = job[s.id].owner
  BY <1>2 DEF Claim, ClaimedRow, ShapeOK, Row
<1>5. CASE s.status # "pending"
  <2>1. job'[s.id].status = job[s.id].status
    BY <1>2, <1>5 DEF Claim, ClaimedRow, ShapeOK, Row
  <2>2. \A u \in Users : Running(u)' \subseteq Running(u)
    BY <1>3, <1>4, <2>1 DEF Running
  <2>3. QED
    BY <1>1, <2>2, QuietStep DEF Quiet
<1>6. CASE s.status = "pending"
  <2>1. userLock[s.owner] = w /\ Cardinality(Running(s.owner)) < MaxConcurrent
    BY <1>6 DEF Claim, ClaimHasRoom
  <2>2. job[s.id].owner = s.owner
    BY DEF Claim, Ownership, SnapshotsAgree
  <2>3. \A u \in Users \ {s.owner} : Running(u)' \subseteq Running(u)
    BY <1>3, <1>4, <2>2 DEF Running
  <2>4. Cardinality(Running(s.owner)') <= MaxConcurrent
    <3>1. Running(s.owner)' \subseteq Running(s.owner) \union {s.id}
      BY <1>3 DEF Running
    <3>2. /\ IsFiniteSet(Running(s.owner) \union {s.id})
          /\ Cardinality(Running(s.owner) \union {s.id}) <= Cardinality(Running(s.owner)) + 1
      BY RunningFinite, FS_AddElement
    <3>3. /\ Cardinality(Running(s.owner)')
               <= Cardinality(Running(s.owner) \union {s.id})
          /\ Cardinality(Running(s.owner)') \in Nat
          /\ Cardinality(Running(s.owner) \union {s.id}) \in Nat
      BY <3>1, <3>2, FS_Subset, FS_CardinalityType
    <3>4. Cardinality(Running(s.owner)) \in Nat
      BY RunningFinite
    <3>5. QED
      BY <2>1, <3>2, <3>3, <3>4, MaxConcurrentAssumption
  <2>5. RunningWithinPlan'
    <3>1. ASSUME NEW u \in Users \ {s.owner}
          PROVE  Cardinality(Running(u)') <= MaxConcurrent
      BY <2>3, FewerRunning, RunningFinite, MaxConcurrentAssumption DEF RunningWithinPlan
    <3>2. QED
      BY <2>4, <3>1 DEF RunningWithinPlan
  <2>6. ClaimHasRoom'
    <3>1. SUFFICES ASSUME NEW v \in Workers, NEW t \in worker'[v].todo,
                          At(v, t, "claim")', t.status = "pending"
                   PROVE  /\ userLock'[t.owner] = v
                          /\ Cardinality(Running(t.owner)') < MaxConcurrent
      BY DEF ClaimHasRoom
    <3>2. /\ t \in worker[v].todo /\ At(v, t, "claim")
          /\ userLock[t.owner] = v => userLock'[t.owner] = v
      BY <1>1, <3>1
    <3>3. userLock[t.owner] = v /\ Cardinality(Running(t.owner)) < MaxConcurrent
      BY <3>1, <3>2 DEF ClaimHasRoom
    <3>4. v # w
      BY <3>1 DEF Claim, Become, At, ShapeOK
    <3>5. t.owner \in Users \ {s.owner}
      BY <2>1, <3>2, <3>3, <3>4 DEF ShapeOK, WorkerState, Snapshot
    <3>6. QED
      BY <2>3, <3>2, <3>3, <3>5, FewerRunning, RunningFinite, MaxConcurrentAssumption
  <2>7. QED
    BY <2>5, <2>6
<1>7. QED
  BY <1>5, <1>6

LEMMA RoomStep ==
    ShapeOK /\ Ownership /\ ClaimHasRoom /\ RunningWithinPlan /\ [Next]_vars
      => ClaimHasRoom' /\ RunningWithinPlan'
<1> SUFFICES ASSUME ShapeOK, Ownership, ClaimHasRoom, RunningWithinPlan, [Next]_vars
             PROVE  ClaimHasRoom' /\ RunningWithinPlan'
  OBVIOUS
<1>1. ASSUME NEW w \in Workers, NEW s \in worker[w].todo, CheckCapacity(w, s)
      PROVE  ClaimHasRoom' /\ RunningWithinPlan'
  BY <1>1, RoomAfterCheck DEF Ownership
<1>2. ASSUME NEW w \in Workers, NEW s \in worker[w].todo, Claim(w, s)
      PROVE  ClaimHasRoom' /\ RunningWithinPlan'
  BY <1>2, RoomAfterClaim
<1>3. ASSUME NEW w \in Workers, NEW s \in worker[w].todo, Handle(w, s),
             ~CheckCapacity(w, s), ~Claim(w, s)
      PROVE  ClaimHasRoom' /\ RunningWithinPlan'
  BY <1>3, QuietHandle, QuietStep
<1>4. CASE \/ \E w \in Workers : \/ Select(w) \/ ReturnNone(w)
                                \/ DeadlockVictim(w) \/ Abort(w)
           \/ \E r \in Requests : RequestStep(r)
           \/ \E d \in Deleters : DeleterStep(d)
           \/ \E j \in Jobs : Lapse(j) \/ Age(j)
           \/ UNCHANGED vars
  BY <1>4, QuietOthers, QuietStep
<1>5. QED
  BY <1>1, <1>2, <1>3, <1>4 DEF Next, WorkerStep, Quiescent

-----------------------------------------------------------------------------
(* The bound on the attempts.  A claim writes the attempts its snapshot    *)
(* remembers and one more, over whatever the row says by then; so what has *)
(* to be known is that the snapshot that got through has one left, and     *)
(* that a running job never turns pending behind it.                       *)

\* A job that waits has an attempt left.
RowsHaveAttempts ==
    \A j \in Jobs : /\ job[j].attempts <= MaxAttempts
                    /\ job[j].status = "pending" => job[j].attempts < MaxAttempts

CandidatesHaveAttempts ==
    \A w \in Workers : \A s \in worker[w].todo :
        /\ s.attempts <= MaxAttempts
        /\ s.status = "pending" => s.attempts < MaxAttempts
        /\ s.status = "running" => job[s.id].status # "pending"
        /\ At(w, s, "claim") => s.attempts < MaxAttempts

AttemptsInv == ShapeOK /\ Ownership /\ RowsHaveAttempts /\ CandidatesHaveAttempts

\* Only an insert makes a job pending.
NobodyWaitsAgain ==
    \A j \in Jobs : job'[j].status = "pending" => job[j].status = "pending" \/ j = nextId

\* Rows that are not claimed keep their attempts, if they are kept at all.
LEMMA UnclaimedRows ==
    ASSUME AttemptsInv, [Next]_vars,
           \A w \in Workers : \A s \in worker[w].todo : ~Claim(w, s)
    PROVE  RowsHaveAttempts' /\ NobodyWaitsAgain
<1>0. /\ \A j \in Jobs : job[j] \in Row
      /\ job \in [Jobs -> Row]
      /\ MaxAttempts \in Nat \ {0}
  BY MaxAttemptsAssumption DEF AttemptsInv, ShapeOK
<1>1. ASSUME NEW j, NEW st \in {"completed", "failed"}, job' = [job EXCEPT ![j].status = st]
      PROVE  RowsHaveAttempts' /\ NobodyWaitsAgain
  BY <1>0, <1>1 DEF AttemptsInv, RowsHaveAttempts, NobodyWaitsAgain, Row
<1>2. ASSUME UNCHANGED job  PROVE RowsHaveAttempts' /\ NobodyWaitsAgain
  BY <1>2 DEF AttemptsInv, RowsHaveAttempts, NobodyWaitsAgain
<1>3. ASSUME NEW w \in Workers, NEW s \in worker[w].todo, Handle(w, s)
      PROVE  RowsHaveAttempts' /\ NobodyWaitsAgain
  <2>1. \E st \in {"completed", "failed"} : UNCHANGED job \/ job' = [job EXCEPT ![s.id].status = st]
    BY <1>3 DEF Handle, FailCandidate, CheckCapacity, CandidateGone, ReadBack, Complete,
                PersistFails, Fallback, Fail, FailAndRefund, database
  <2>2. QED
    BY <1>1, <1>2, <2>1
<1>4. ASSUME NEW w \in Workers, Select(w) \/ ReturnNone(w) \/ DeadlockVictim(w) \/ Abort(w)
      PROVE  RowsHaveAttempts' /\ NobodyWaitsAgain
  BY <1>2, <1>4 DEF Select, ReturnNone, DeadlockVictim, Abort
<1>5. ASSUME NEW r \in Requests, RequestStep(r)
      PROVE  RowsHaveAttempts' /\ NobodyWaitsAgain
  <2>1. CASE Insert(request[r].user)
    <3>1. PICK row : /\ row = [NoRow EXCEPT !.status = "pending", !.owner = request[r].user]
      OBVIOUS
    <3>2. row.attempts = 0
      BY <3>1 DEF NoRow
    <3>3. job' = [job EXCEPT ![nextId] = row]
      BY <2>1, <3>1 DEF Insert
    <3>4. QED
      BY <1>0, <3>2, <3>3 DEF AttemptsInv, RowsHaveAttempts, NobodyWaitsAgain
  <2>2. QED
    BY <1>2, <1>5, <2>1, RequestInserts
<1>6. ASSUME NEW d \in Deleters, DeleterStep(d)
      PROVE  RowsHaveAttempts' /\ NobodyWaitsAgain
  <2>1. CASE DeleteRow(d)
    <3>1. NoRow.attempts = 0 /\ NoRow.status = "absent"
      BY DEF NoRow
    <3>2. PICK k : job' = [job EXCEPT ![k] = NoRow]
      BY <2>1 DEF DeleteRow
    <3>3. QED
      BY <1>0, <3>1, <3>2 DEF AttemptsInv, RowsHaveAttempts, NobodyWaitsAgain
  <2>2. CASE ~DeleteRow(d)
    BY <1>2, <1>6, <2>2 DEF DeleterStep, ReadForDelete, RefundDeleted, AbandonDelete, database
  <2>3. QED
    BY <2>1, <2>2
<1>7. ASSUME NEW j \in Jobs, Lapse(j) \/ Age(j)
      PROVE  RowsHaveAttempts' /\ NobodyWaitsAgain
  BY <1>0, <1>7 DEF Lapse, Age, AttemptsInv, RowsHaveAttempts, NobodyWaitsAgain, Row
<1>8. QED
  BY <1>2, <1>3, <1>4, <1>5, <1>6, <1>7 DEF Next, WorkerStep, Quiescent, vars, database

\* A claim uses up the attempt its snapshot had left.
LEMMA ClaimedRows ==
    ASSUME AttemptsInv, NEW w \in Workers, NEW s \in worker[w].todo, Claim(w, s)
    PROVE  RowsHaveAttempts' /\ NobodyWaitsAgain
<1>1. /\ s.id \in Jobs /\ s.status \in {"pending", "running"} /\ s.attempts \in Nat
      /\ job \in [Jobs -> Row] /\ job[s.id] \in Row /\ MaxAttempts \in Nat
  BY MaxAttemptsAssumption DEF AttemptsInv, ShapeOK, WorkerState, Snapshot
<1>2. s.attempts < MaxAttempts /\ (s.status = "running" => job[s.id].status # "pending")
  BY DEF AttemptsInv, CandidatesHaveAttempts, Claim
<1>3. ClaimedRow(s, w).attempts = s.attempts + 1 /\ ClaimedRow(s, w).status # "pending"
  BY <1>1, <1>2 DEF ClaimedRow, Row
<1>4. \A j \in Jobs : job'[j] = IF j = s.id THEN ClaimedRow(s, w) ELSE job[j]
  BY <1>1 DEF Claim
<1>5. s.attempts + 1 <= MaxAttempts
  BY <1>1, <1>2
<1>6. QED
  BY <1>3, <1>4, <1>5 DEF AttemptsInv, RowsHaveAttempts, NobodyWaitsAgain

\* A candidate that is kept, and was not let through to its claim just now, is
\* as it was.
LEMMA KeptCandidates ==
    ASSUME AttemptsInv, NobodyWaitsAgain,
           \A v \in Workers : \A t \in worker'[v].todo :
               /\ t \in worker[v].todo
               /\ At(v, t, "claim")' => At(v, t, "claim") \/ t.attempts < MaxAttempts
    PROVE  CandidatesHaveAttempts'
<1>1. SUFFICES ASSUME NEW v \in Workers, NEW t \in worker'[v].todo
               PROVE  /\ t.attempts <= MaxAttempts
                      /\ t.status = "pending" => t.attempts < MaxAttempts
                      /\ t.status = "running" => job'[t.id].status # "pending"
                      /\ At(v, t, "claim")' => t.attempts < MaxAttempts
  BY DEF CandidatesHaveAttempts
<1>2. t \in worker[v].todo /\ (At(v, t, "claim")' => At(v, t, "claim") \/ t.attempts < MaxAttempts)
  BY <1>1
<1>3. t.id \in Jobs /\ t.id # nextId
  BY <1>2 DEF AttemptsInv, ShapeOK, WorkerState, Snapshot, Ownership, SnapshotsAgree
<1>4. QED
  BY <1>2, <1>3 DEF AttemptsInv, CandidatesHaveAttempts, NobodyWaitsAgain

\* A step that moves one worker at most, and not to a claim.
LEMMA FewerCandidates ==
    ASSUME AttemptsInv, NobodyWaitsAgain, NEW w \in Workers, NEW pc, NEW todo, pc # "claim",
           Become(w, pc, todo), todo \subseteq worker[w].todo
    PROVE  CandidatesHaveAttempts'
<1>1. /\ worker'[w].pc = pc /\ worker'[w].todo = todo
      /\ \A v \in Workers : v # w => worker'[v] = worker[v]
  BY DEF Become, AttemptsInv, ShapeOK
<1>2. ASSUME NEW v \in Workers, NEW t \in worker'[v].todo
      PROVE  t \in worker[v].todo /\ (At(v, t, "claim")' => At(v, t, "claim"))
  <2>1. CASE v = w
    BY <1>1, <1>2, <2>1 DEF At
  <2>2. CASE v # w
    BY <1>1, <1>2, <2>2 DEF At
  <2>3. QED
    BY <2>1, <2>2
<1>3. QED
  BY <1>2, KeptCandidates

\* get_user_concurrency_capacity is asked for candidates with attempts left.
LEMMA CheckedCandidate ==
    ASSUME AttemptsInv, NobodyWaitsAgain,
           NEW w \in Workers, NEW s \in worker[w].todo, CheckCapacity(w, s)
    PROVE  CandidatesHaveAttempts'
<1>1. CASE Become(w, "claim", worker[w].todo)
  <2>1. /\ worker'[w].pc = "claim" /\ worker'[w].todo = worker[w].todo
        /\ \A v \in Workers : v # w => worker'[v] = worker[v]
    BY <1>1 DEF Become, AttemptsInv, ShapeOK
  <2>2. /\ s.status \in {"pending", "running"} /\ s.attempts \in Nat
        /\ \A t \in worker[w].todo : t.id \in Jobs
        /\ MaxAttempts \in Nat
    BY MaxAttemptsAssumption DEF AttemptsInv, ShapeOK, WorkerState, Snapshot
  <2>3. s.attempts < MaxAttempts
    BY <2>2 DEF CheckCapacity, Exhausted, AttemptsInv, CandidatesHaveAttempts
  <2>4. ASSUME NEW v \in Workers, NEW t \in worker'[v].todo
        PROVE  /\ t \in worker[v].todo
               /\ At(v, t, "claim")' => At(v, t, "claim") \/ t.attempts < MaxAttempts
    <3>1. CASE v = w
      <4>1. t \in worker[w].todo
        BY <2>1, <2>4, <3>1
      <4>2. SUFFICES ASSUME At(w, t, "claim")' PROVE t = s
        BY <2>3, <3>1, <4>1
      <4>3. ~Older(t.id, s.id) /\ ~Older(s.id, t.id)
        BY <2>1, <4>1, <4>2 DEF At, CheckCapacity
      <4>4. s.id = t.id
        BY <2>2, <4>1, <4>3, NeitherOlder
      <4>5. QED
        BY <4>1, <4>4 DEF AttemptsInv, Ownership, OneSnapshotPerRow
    <3>2. CASE v # w
      BY <2>1, <2>4, <3>2 DEF At
    <3>3. QED
      BY <3>1, <3>2
  <2>5. QED
    BY <2>4, KeptCandidates
<1>2. CASE Become(w, "scan", worker[w].todo \ {s})
  BY <1>2, FewerCandidates
<1>3. QED
  BY <1>1, <1>2 DEF CheckCapacity

\* The candidates of a scan are as the rows are.
LEMMA SelectedCandidates ==
    ASSUME AttemptsInv, NobodyWaitsAgain, NEW w \in Workers, Select(w)
    PROVE  CandidatesHaveAttempts'
<1>1. /\ worker'[w].pc = "scan"
      /\ worker'[w].todo = {SnapshotOf(j) : j \in Candidates}
      /\ \A v \in Workers : v # w => worker'[v] = worker[v]
  BY DEF Select, Become, AttemptsInv, ShapeOK
<1>2. SUFFICES ASSUME NEW v \in Workers, NEW t \in worker'[v].todo
               PROVE  /\ t.attempts <= MaxAttempts
                      /\ t.status = "pending" => t.attempts < MaxAttempts
                      /\ t.status = "running" => job'[t.id].status # "pending"
                      /\ At(v, t, "claim")' => t.attempts < MaxAttempts
  BY DEF CandidatesHaveAttempts
<1>3. job' = job
  BY DEF Select
<1>4. CASE v = w
  <2>1. PICK j \in Jobs : t = SnapshotOf(j)
    BY <1>1, <1>2, <1>4 DEF Candidates, Eligible
  <2>2. t.id = j /\ t.attempts = job[j].attempts /\ t.status = job[j].status
    BY <2>1 DEF SnapshotOf
  <2>3. ~At(v, t, "claim")'
    BY <1>1, <1>4 DEF At
  <2>4. QED
    BY <1>3, <2>2, <2>3 DEF AttemptsInv, RowsHaveAttempts
<1>5. CASE v # w
  BY <1>1, <1>2, <1>3, <1>5 DEF At, AttemptsInv, CandidatesHaveAttempts
<1>6. QED
  BY <1>4, <1>5

LEMMA AttemptsStep == AttemptsInv /\ [Next]_vars => AttemptsInv'
<1> SUFFICES ASSUME AttemptsInv, [Next]_vars PROVE AttemptsInv'
  OBVIOUS
<1>1. ShapeOK' /\ Ownership'
  BY ShapeStep, OwnershipStep DEF AttemptsInv, Ownership
<1>2. RowsHaveAttempts' /\ NobodyWaitsAgain
  BY UnclaimedRows, ClaimedRows
<1>3. ASSUME UNCHANGED worker  PROVE CandidatesHaveAttempts'
  <2>1. \A v \in Workers : \A t \in worker'[v].todo :
            t \in worker[v].todo /\ (At(v, t, "claim")' => At(v, t, "claim"))
    BY <1>3 DEF At
  <2>2. QED
    BY <1>2, <2>1, KeptCandidates
<1>4. ASSUME NEW w \in Workers, NEW s \in worker[w].todo, Handle(w, s)
      PROVE  CandidatesHaveAttempts'
  <2>1. CASE CheckCapacity(w, s)
    BY <1>2, <2>1, CheckedCandidate
  <2>2. CASE ~CheckCapacity(w, s)
    <3>1. \E pc, todo : pc # "claim" /\ Become(w, pc, todo) /\ todo \subseteq worker[w].todo
      BY <1>4, <2>2 DEF Handle, FailCandidate, Claim, CandidateGone, ReadBack, Complete,
                        PersistFails, Fallback, Fail
    <3>2. QED
      BY <1>2, <3>1, FewerCandidates
  <2>3. QED
    BY <2>1, <2>2
<1>5. ASSUME NEW w \in Workers, ReturnNone(w) \/ DeadlockVictim(w) \/ Abort(w)
      PROVE  CandidatesHaveAttempts'
  <2>1. Become(w, "idle", {})
    BY <1>5 DEF ReturnNone, DeadlockVictim, Abort
  <2>2. QED
    BY <1>2, <2>1, FewerCandidates
<1>6. ASSUME NEW w \in Workers, Select(w)  PROVE CandidatesHaveAttempts'
  BY <1>2, <1>6, SelectedCandidates
<1>7. ASSUME \/ \E r \in Requests : RequestStep(r)
             \/ \E d \in Deleters : DeleterStep(d)
             \/ \E j \in Jobs : Lapse(j) \/ Age(j)
             \/ UNCHANGED vars
      PROVE  CandidatesHaveAttempts'
  <2>1. UNCHANGED worker
    BY <1>7, RequestInserts DEF DeleterStep, ReadForDelete, RefundDeleted, DeleteRow,
                                AbandonDelete, Lapse, Age, vars
  <2>2. QED
    BY <1>3, <2>1
<1>8. CandidatesHaveAttempts'
  BY <1>4, <1>5, <1>6, <1>7 DEF Next, WorkerStep, Quiescent
<1>9. QED
  BY <1>1, <1>2, <1>8 DEF AttemptsInv

LEMMA InitAttempts == Init => AttemptsInv
<1> SUFFICES ASSUME Init PROVE AttemptsInv
  OBVIOUS
<1>1. ShapeOK /\ Ownership
  BY InitIInv DEF IInv
<1>2. \A j \in Jobs : job[j].attempts = 0 /\ job[j].status = "absent"
  BY DEF Init, NoRow
<1>3. RowsHaveAttempts
  BY <1>2, MaxAttemptsAssumption DEF RowsHaveAttempts
<1>4. CandidatesHaveAttempts
  BY DEF Init, CandidatesHaveAttempts
<1>5. QED
  BY <1>1, <1>3, <1>4 DEF AttemptsInv

-----------------------------------------------------------------------------
(* The theorems.                                                           *)

LEMMA IInvStep == IInv /\ [Next]_vars => IInv'
  BY ShapeStep, RowLocksStep, OwnershipStep, RoomStep DEF IInv, Ownership

LEMMA Invariance == Spec => []IInv
  BY InitIInv, IInvStep, PTL DEF Spec

\* The state keeps its shape: no counter is ever negative, no lock is held by
\* anything but a worker, and every snapshot was taken of an owned row.
THEOREM TypeCorrect == Spec => []TypeOK
<1>1. IInv => TypeOK
  BY DEF IInv, RowLocksOK, TypeOK
<1>2. QED
  BY Invariance, <1>1, PTL

\* claim_next_job never exceeds a plan's concurrency, for any number of
\* workers: although candidate lists go stale, the count is made and used
\* under the lock of the user's row.
THEOREM ConcurrencySafe == Spec => []RunningWithinPlan
<1>1. IInv => RunningWithinPlan
  BY DEF IInv
<1>2. QED
  BY Invariance, <1>1, PTL

\* A failed job has been refunded, for any number of workers that overtake each
\* other and of processes that die or lose the answer to a commit: every place
\* that fails a row, process_claimed_job's fallback included, gives the quota
\* back in the same commit.
THEOREM FailuresRefunded == Spec => []FailuresAreRefunded
<1>1. Init => FailuresAreRefunded
  BY DEF Init, NoRow, FailuresAreRefunded
<1>2. IInv /\ FailuresAreRefunded /\ [Next]_vars => FailuresAreRefunded'
  BY FailuresStep DEF IInv
<1>3. QED
  BY Invariance, <1>1, <1>2, PTL DEF Spec

\* A row's attempt_count never exceeds max_attempts, for any number of workers:
\* a claim writes what its snapshot remembers and one more, so although two
\* workers may overwrite each other's count, neither takes it past the limit.
THEOREM AttemptsBounded == Spec => [](\A j \in Jobs : job[j].attempts <= MaxAttempts)
<1>1. AttemptsInv => \A j \in Jobs : job[j].attempts <= MaxAttempts
  BY DEF AttemptsInv, RowsHaveAttempts
<1>2. QED
  BY InitAttempts, AttemptsStep, <1>1, PTL DEF Spec

=============================================================================
