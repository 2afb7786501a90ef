------------------------------ MODULE JobQueue ------------------------------
(***************************************************************************)
(* The durable simulation queue: the rows of table simulations, the row    *)
(* locks PostgreSQL keeps on simulations and users, the monthly request    *)
(* counter, and the three kinds of process that work on them:              *)
(*                                                                         *)
(*   - workers (app/worker.py, app/services/worker.py), which claim a      *)
(*     row, run the engine outside any transaction and persist the result; *)
(*   - POST /simulations requests in the default, asynchronous mode;       *)
(*   - DELETE /simulations/{id} requests.                                  *)
(*                                                                         *)
(* One action is one statement or one commit, whichever is the smallest    *)
(* step another process can come between.  Sessions are opened with        *)
(* expire_on_commit=False, so a process keeps using the attribute values   *)
(* it read even after a commit has released its locks: what it read is     *)
(* kept as a snapshot record, and what it writes is computed from that.    *)
(***************************************************************************)
EXTENDS Integers, FiniteSets

CONSTANTS
    Users,            \* owners of jobs
    Workers,          \* SimulationWorker processes or threads
    Requests,         \* concurrent POST /simulations requests
    Deleters,         \* concurrent DELETE /simulations/{id} requests
    NoOne,            \* no worker, no lock owner
    NoUser,           \* no owner: the row does not exist
    MaxJobs,          \* bound: how many jobs are ever submitted
    MaxAttempts,      \* simulations.max_attempts
    MaxConcurrent,    \* plan.max_concurrent_simulations
    MonthlyRequests,  \* plan.monthly_requests
    CandidateLimit,   \* the LIMIT of the candidate query
    MaxFaults,        \* bound: crashes and failed database calls
    LostAcks,         \* may a commit take effect and still be reported failed?
    Suspendable,      \* users whose is_active an operator may change at any time
    CreatedAt         \* the place of each job in the order of created_at, id

ASSUME ActorsAssumption == /\ NoOne \notin Workers
                           /\ NoUser \notin Users
ASSUME MaxJobsAssumption == MaxJobs \in Nat
ASSUME MaxAttemptsAssumption == MaxAttempts \in Nat \ {0}
ASSUME MaxConcurrentAssumption == MaxConcurrent \in Nat \ {0}
ASSUME MonthlyRequestsAssumption == MonthlyRequests \in Nat
ASSUME CandidateLimitAssumption == CandidateLimit \in Nat \ {0}
ASSUME FaultsAssumption == MaxFaults \in Nat /\ LostAcks \in BOOLEAN
ASSUME SuspendableAssumption == Suspendable \subseteq Users

\* Jobs are numbered in the order their INSERTs commit.  Each draws created_at
\* before that, from the clock of its own process: any order of the two is
\* possible.  Where created_at is equal, the primary key decides.
Jobs == 1 .. MaxJobs

ASSUME CreatedAtAssumption == /\ CreatedAt \in [Jobs -> Nat]
                              /\ \A i, j \in Jobs : CreatedAt[i] = CreatedAt[j] => i = j

Terminal == {"completed", "failed"}
Statuses == {"absent", "pending", "running"} \union Terminal

\* A row of simulations.  lapsed: heartbeat_at is older than the lease;
\* overdue: created_at is older than max_pending_seconds.
Row == [status   : Statuses,
        owner    : Users \union {NoUser},
        worker   : Workers \union {NoOne},
        attempts : Nat,
        lapsed   : BOOLEAN,
        overdue  : BOOLEAN]

NoRow == [status |-> "absent", owner |-> NoUser, worker |-> NoOne,
          attempts |-> 0, lapsed |-> FALSE, overdue |-> FALSE]

\* What a scanning worker remembers of a candidate row.
Snapshot == [id       : Jobs,
             owner    : Users,
             status   : {"pending", "running"},
             attempts : Nat,
             overdue  : BOOLEAN]

WorkerState  == [pc   : {"idle", "scan", "claim", "run", "complete", "fail", "fallback"},
                 todo : SUBSET Snapshot]
RequestState == [pc   : {"idle", "reserved", "inserted"},
                 user : Users \union {NoUser},
                 id   : Nat]
DeleterState == [pc   : {"idle", "refund", "delete"},
                 id   : Jobs \union {0},
                 user : Users \union {NoUser}]

VARIABLES
    job,       \* table simulations
    rowLock,   \* who holds the FOR UPDATE lock of a simulations row
    userLock,  \* who holds the FOR UPDATE lock of a users row
    used,      \* monthly_usage.request_count of the current month
    worker,    \* local state of each worker
    request,   \* local state of each POST request
    deleter,   \* local state of each DELETE request
    nextId,    \* the id of the next job
    faults,    \* faults so far
    refunds,   \* history: refunds issued for a job (counted up to 2)
    runs,      \* history: engine runs started for a job (up to MaxAttempts + 1)
    leaked     \* history: reservations no job and no refund will ever match

database == <<job, rowLock, userLock, used>>
history  == <<refunds, runs, leaked>>
vars     == <<database, worker, request, deleter, nextId, faults, history>>

-----------------------------------------------------------------------------
(* Reading the tables.                                                     *)

Exists(j)  == job[j].status # "absent"
LiveRows   == {j \in Jobs : job[j].status \in {"pending", "running"}}
Running(u) == {j \in Jobs : job[j].status = "running" /\ job[j].owner = u}

\* ORDER BY created_at, id.
Older(i, j) == CreatedAt[i] < CreatedAt[j]

\* The WHERE clause of the candidate query.
Claimable(j) == \/ job[j].status = "pending"
                \/ job[j].status = "running" /\ job[j].lapsed

\* Mutant: the lease is not compared, every running row is taken for stuck.
EligibleAnyLease == {j \in Jobs : /\ job[j].status \in {"pending", "running"}
                                 /\ rowLock[j] = NoOne}

\* SELECT ... ORDER BY created_at FOR UPDATE SKIP LOCKED LIMIT n.
Eligible   == {j \in Jobs : Claimable(j) /\ rowLock[j] = NoOne}

Candidates == {j \in Eligible :
                 Cardinality({i \in Eligible : Older(i, j)}) < CandidateLimit}

SnapshotOf(j) == [id |-> j, owner |-> job[j].owner, status |-> job[j].status,
                  attempts |-> job[j].attempts, overdue |-> job[j].overdue]

\* Mutant: the candidates are gone through from the newest.
AtNewest(w, s, pc) == /\ worker[w].pc = pc
                      /\ s \in worker[w].todo
                      /\ \A t \in worker[w].todo : ~Older(s.id, t.id)

\* The candidate a worker is at: the oldest one it has not dealt with.
At(w, s, pc) == /\ worker[w].pc = pc
                /\ s \in worker[w].todo
                /\ \A t \in worker[w].todo : ~Older(t.id, s.id)

\* Mutant: the job about to be recovered is counted as well.
ActiveCountWithItself(s) == Cardinality(Running(s.owner))

\* count(*) of the user's running rows, less the job about to be recovered.
ActiveCount(s) ==
    Cardinality(Running(s.owner) \ (IF s.status = "running" THEN {s.id} ELSE {}))

HasCapacity(s) == ActiveCount(s) < MaxConcurrent

\* What users.is_active may read.  Nothing in the program ever changes it.
Activity(u) == IF u \in Suspendable THEN BOOLEAN ELSE {TRUE}

\* Mutant: one attempt too many before giving up.
ExhaustedLate(s) == s.status = "running" /\ s.attempts > MaxAttempts

\* Candidates the claim loop fails instead of claiming.
Exhausted(s) == s.status = "running" /\ s.attempts >= MaxAttempts
Expired(s)   == s.status = "pending" /\ s.overdue

\* The row lock an UPDATE or DELETE of j waits for.
Writable(j, who) == rowLock[j] \in {NoOne, who}

\* An INSERT that references a user waits for that user's FOR UPDATE lock.
CanReference(u, who) == userLock[u] \in {NoOne, who}

-----------------------------------------------------------------------------
(* Writing them.                                                           *)

\* The end of a transaction drops every lock it took.
ReleaseLocks(w) ==
    /\ rowLock'  = [j \in Jobs |-> IF rowLock[j] = w THEN NoOne ELSE rowLock[j]]
    /\ userLock' = [u \in Users |-> IF userLock[u] = w THEN NoOne ELSE userLock[u]]

\* Mutant: the CASE compares with > instead of >=.
GiveBackButOne(u) == used' = [used EXCEPT ![u] = IF @ > 1 THEN @ - 1 ELSE @]

\* Mutant: the CASE that keeps the counter from going below zero is left out.
GiveBackUnclamped(u) == used' = [used EXCEPT ![u] = @ - 1]

\* UPDATE monthly_usage: subtract one, never below zero.
GiveBack(u) == used' = [used EXCEPT ![u] = IF @ >= 1 THEN @ - 1 ELSE 0]

CountRefund(j) == refunds' = [refunds EXCEPT ![j] = IF @ < 2 THEN @ + 1 ELSE @]

CountRun(j) == runs' = [runs EXCEPT ![j] = IF @ <= MaxAttempts THEN @ + 1 ELSE @]

\* Mutant: the job is failed and the refund forgotten.
FailWithoutRefund(j, u) ==
    /\ job' = [job EXCEPT ![j].status = "failed"]
    /\ UNCHANGED <<used, refunds>>

\* status = failed and refund_usage, which commits both together.
FailAndRefund(j, u) ==
    /\ job' = [job EXCEPT ![j].status = "failed"]
    /\ GiveBack(u)
    /\ CountRefund(j)

Become(w, pc, todo) == worker' = [worker EXCEPT ![w] = [pc |-> pc, todo |-> todo]]

Fault == faults < MaxFaults /\ faults' = faults + 1

-----------------------------------------------------------------------------
(* The worker: claim_next_job.                                             *)

\* The candidate query: snapshots of the first rows nobody has locked, each
\* of them locked by this transaction from here on.
Select(w) ==
    /\ worker[w].pc = "idle"
    /\ Candidates # {}
    /\ rowLock' = [j \in Jobs |-> IF j \in Candidates THEN w ELSE rowLock[j]]
    /\ Become(w, "scan", {SnapshotOf(j) : j \in Candidates})
    /\ UNCHANGED <<job, userLock, used, request, deleter, nextId, faults, history>>

\* Mutant: the "continue" is missing, and the failed candidate is claimed.
FailCandidateFallsThrough(w, s) ==
    /\ At(w, s, "scan")
    /\ Exhausted(s) \/ Expired(s)
    /\ Exists(s.id)
    /\ Writable(s.id, w)
    /\ FailAndRefund(s.id, s.owner)
    /\ ReleaseLocks(w)
    /\ Become(w, "claim", worker[w].todo)
    /\ UNCHANGED <<request, deleter, nextId, faults, runs, leaked>>

\* Cases A and B of the loop: a candidate without attempts left, or one that
\* waited too long, is failed and refunded.  The commit inside refund_usage
\* ends the transaction: the remaining candidates stay in the loop, unlocked.
FailCandidate(w, s) ==
    /\ At(w, s, "scan")
    /\ Exhausted(s) \/ Expired(s)
    /\ Exists(s.id)
    /\ Writable(s.id, w)
    /\ FailAndRefund(s.id, s.owner)
    /\ ReleaseLocks(w)
    /\ Become(w, "scan", worker[w].todo \ {s})
    /\ UNCHANGED <<request, deleter, nextId, faults, runs, leaked>>

\* Mutant: the user's row is read without FOR UPDATE.
CheckCapacityUnlocked(w, s) ==
    /\ At(w, s, "scan")
    /\ ~Exhausted(s) /\ ~Expired(s)
    /\ \E active \in Activity(s.owner) :
          IF active /\ HasCapacity(s)
            THEN Become(w, "claim", worker[w].todo)
            ELSE Become(w, "scan", worker[w].todo \ {s})
    /\ UNCHANGED <<database, request, deleter, nextId, faults, history>>

\* get_user_concurrency_capacity: lock the user's row, then count; a user who
\* is not active has no capacity.  The locks stay until the transaction ends,
\* also when the candidate is passed over.
CheckCapacity(w, s) ==
    /\ At(w, s, "scan")
    /\ ~Exhausted(s) /\ ~Expired(s)
    /\ userLock[s.owner] \in {NoOne, w}
    /\ userLock' = [userLock EXCEPT ![s.owner] = w]
    /\ \E active \in Activity(s.owner) :
          IF active /\ HasCapacity(s)
            THEN Become(w, "claim", worker[w].todo)
            ELSE Become(w, "scan", worker[w].todo \ {s})
    /\ UNCHANGED <<job, rowLock, used, request, deleter, nextId, faults, history>>

\* The row a claim writes.  Recovering a stuck job leaves status alone: the
\* session only writes attributes that changed.
ClaimedRow(s, w) ==
    [job[s.id] EXCEPT !.status = IF s.status = "pending" THEN "running" ELSE @,
                      !.worker = w,
                      !.attempts = s.attempts + 1,
                      !.lapsed = FALSE]

\* The claim of a pending job, or the recovery of a stuck one, is committed
\* and the job is handed to process_claimed_job.
Claim(w, s) ==
    /\ At(w, s, "claim")
    /\ Exists(s.id)
    /\ Writable(s.id, w)
    /\ job' = [job EXCEPT ![s.id] = ClaimedRow(s, w)]
    /\ ReleaseLocks(w)
    /\ CountRun(s.id)
    /\ Become(w, "run", {s})
    /\ UNCHANGED <<used, request, deleter, nextId, faults, refunds, leaked>>

\* The UPDATE of a candidate matches no row (StaleDataError): the transaction
\* is rolled back and run_once gives up.
CandidateGone(w, s) ==
    /\ At(w, s, "claim") \/ (At(w, s, "scan") /\ (Exhausted(s) \/ Expired(s)))
    /\ ~Exists(s.id)
    /\ ReleaseLocks(w)
    /\ Become(w, "idle", {})
    /\ UNCHANGED <<job, used, request, deleter, nextId, faults, history>>

\* Every candidate was passed over or failed: return None.
ReturnNone(w) ==
    /\ worker[w].pc = "scan" /\ worker[w].todo = {}
    /\ ReleaseLocks(w)
    /\ Become(w, "idle", {})
    /\ UNCHANGED <<job, used, request, deleter, nextId, faults, history>>

-----------------------------------------------------------------------------
(* The worker: process_claimed_job.                                        *)

\* The row is still this worker's to finish.
StillMine(w, j) == job[j].status = "running" /\ job[j].worker = w

\* The engine has returned or raised; the row is read again, without a lock.
ReadBack(w, s) ==
    /\ At(w, s, "run")
    /\ IF StillMine(w, s.id)
         THEN \E outcome \in {"complete", "fail"} : Become(w, outcome, {s})
         ELSE Become(w, "idle", {})
    /\ UNCHANGED <<database, request, deleter, nextId, faults, history>>

\* The result and its usage event are committed together.
Complete(w, s) ==
    /\ At(w, s, "complete")
    /\ Exists(s.id)
    /\ Writable(s.id, w)
    /\ CanReference(s.owner, w)
    /\ job' = [job EXCEPT ![s.id].status = "completed"]
    /\ Become(w, "idle", {})
    /\ UNCHANGED <<rowLock, userLock, used, request, deleter, nextId, faults, history>>

\* Committing the result raises: because the row is gone, or because the
\* database call failed, in which case the commit may have taken effect.
PersistFails(w, s) ==
    /\ At(w, s, "complete")
    /\ \/ ~Exists(s.id) /\ UNCHANGED <<job, faults>>
       \/ Fault /\ UNCHANGED job
       \/ /\ LostAcks /\ Fault
          /\ Exists(s.id) /\ Writable(s.id, w) /\ CanReference(s.owner, w)
          /\ job' = [job EXCEPT ![s.id].status = "completed"]
    /\ Become(w, "fallback", {s})
    /\ UNCHANGED <<rowLock, userLock, used, request, deleter, nextId, history>>

\* After a failed commit of the result: mark whatever row there is failed,
\* and refund.
Fallback(w, s) ==
    /\ At(w, s, "fallback")
    /\ IF Exists(s.id)
         THEN Writable(s.id, w) /\ FailAndRefund(s.id, s.owner)
         ELSE UNCHANGED <<job, used, refunds>>
    /\ Become(w, "idle", {})
    /\ UNCHANGED <<rowLock, userLock, request, deleter, nextId, faults, runs, leaked>>

\* The engine raised: the job is failed and refunded.
Fail(w, s) ==
    /\ At(w, s, "fail")
    /\ IF Exists(s.id)
         THEN Writable(s.id, w) /\ FailAndRefund(s.id, s.owner)
         ELSE UNCHANGED <<job, used, refunds>>
    /\ Become(w, "idle", {})
    /\ UNCHANGED <<rowLock, userLock, request, deleter, nextId, faults, runs, leaked>>

\* The worker process dies, or a database call of its raises: run_once logs
\* the exception, the session closes and the transaction is rolled back.
Abort(w) ==
    /\ worker[w].pc # "idle"
    /\ Fault
    /\ ReleaseLocks(w)
    /\ Become(w, "idle", {})
    /\ UNCHANGED <<job, used, request, deleter, nextId, history>>

\* Whose lock the next statement of a scanning worker waits for.
Blocker(w) ==
    IF \E s \in worker[w].todo : At(w, s, "claim") \/ At(w, s, "scan")
      THEN LET s == CHOOSE s \in worker[w].todo : At(w, s, "claim") \/ At(w, s, "scan")
               lock == IF worker[w].pc = "claim" \/ Exhausted(s) \/ Expired(s)
                         THEN rowLock[s.id] ELSE userLock[s.owner]
           IN IF lock = w THEN NoOne ELSE lock
      ELSE NoOne

\* PostgreSQL finds a cycle of transactions waiting for each other and fails
\* the statement of one of them; the worker goes the way of any exception.
DeadlockVictim(w) ==
    /\ \E cycle \in SUBSET Workers : /\ w \in cycle
                                     /\ {Blocker(v) : v \in cycle} = cycle
    /\ ReleaseLocks(w)
    /\ Become(w, "idle", {})
    /\ UNCHANGED <<job, used, request, deleter, nextId, faults, history>>

-----------------------------------------------------------------------------
(* POST /simulations, asynchronous mode.                                   *)

Waiting(pc) == {r \in Requests : request[r].pc = pc}

\* The conditional UPDATE of reserve_usage.
CanReserve(u) == used[u] + 1 <= MonthlyRequests

\* reserve_usage: count the request against the quota, or answer 429.
Reserve(r, u) ==
    /\ request[r].pc = "idle"
    /\ nextId + Cardinality(Waiting("reserved")) <= MaxJobs
    /\ CanReserve(u)
    /\ CanReference(u, r)
    /\ used' = [used EXCEPT ![u] = @ + 1]
    /\ request' = [request EXCEPT ![r] = [pc |-> "reserved", user |-> u, id |-> 0]]
    /\ UNCHANGED <<job, rowLock, userLock, worker, deleter, nextId, faults, history>>

Answer(r) == request' = [request EXCEPT ![r] = [pc |-> "idle", user |-> NoUser, id |-> 0]]

\* The INSERT, committed.
Insert(u) ==
    /\ job' = [job EXCEPT ![nextId] = [NoRow EXCEPT !.status = "pending", !.owner = u]]
    /\ nextId' = nextId + 1

\* create_simulation_job, a transaction of its own.
Create(r) ==
    /\ request[r].pc = "reserved"
    /\ CanReference(request[r].user, r)
    /\ Insert(request[r].user)
    /\ request' = [request EXCEPT ![r].pc = "inserted", ![r].id = nextId]
    /\ UNCHANGED <<rowLock, userLock, used, worker, deleter, faults, history>>

\* Its db.refresh finds the row (or fails, which makes no difference to it): the
\* request is answered.
Created(r) ==
    /\ request[r].pc = "inserted"
    /\ Exists(request[r].id)
    /\ Answer(r)
    /\ UNCHANGED <<database, worker, deleter, nextId, faults, history>>

\* The row has been deleted already: db.refresh raises, and the handler refunds.
RefundReservation(r) ==
    /\ request[r].pc = "inserted"
    /\ ~Exists(request[r].id)
    /\ GiveBack(request[r].user)
    /\ CountRefund(request[r].id)
    /\ Answer(r)
    /\ UNCHANGED <<job, rowLock, userLock, worker, deleter, nextId, faults, runs, leaked>>

\* The INSERT or its commit raises.  The session is not rolled back, so that the
\* refund of the handler raises in its turn: the reservation stays, with the row
\* if the commit took effect after all, and otherwise with nothing.
CreateFails(r) ==
    /\ request[r].pc = "reserved"
    /\ Fault
    /\ \/ /\ leaked' = [leaked EXCEPT ![request[r].user] = @ + 1]
          /\ UNCHANGED <<job, nextId>>
       \/ /\ LostAcks /\ CanReference(request[r].user, r)
          /\ Insert(request[r].user)
          /\ UNCHANGED leaked
    /\ Answer(r)
    /\ UNCHANGED <<rowLock, userLock, used, worker, deleter, refunds, runs>>

\* The process dies, between the two transactions for instance.
Abandon(r) ==
    /\ request[r].pc # "idle"
    /\ Fault
    /\ leaked' = IF request[r].pc = "reserved"
                   THEN [leaked EXCEPT ![request[r].user] = @ + 1] ELSE leaked
    /\ Answer(r)
    /\ UNCHANGED <<database, worker, deleter, nextId, refunds, runs>>

-----------------------------------------------------------------------------
(* DELETE /simulations/{id}.                                               *)

\* The SELECT, which takes no lock, and the decision made on its result.  A
\* missing row (404) and a running one (409) end the request unchanged.
ReadForDelete(d, j) ==
    /\ deleter[d].pc = "idle"
    /\ job[j].status \in {"pending"} \union Terminal
    /\ deleter' = [deleter EXCEPT
         ![d] = [pc   |-> IF job[j].status = "pending" THEN "refund" ELSE "delete",
                 id   |-> j,
                 user |-> job[j].owner]]
    /\ UNCHANGED <<database, worker, request, nextId, faults, history>>

\* An unexecuted job is refunded, in a transaction of its own.
RefundDeleted(d) ==
    /\ deleter[d].pc = "refund"
    /\ GiveBack(deleter[d].user)
    /\ CountRefund(deleter[d].id)
    /\ deleter' = [deleter EXCEPT ![d].pc = "delete"]
    /\ UNCHANGED <<job, rowLock, userLock, worker, request, nextId, faults, runs, leaked>>

EndDelete(d) == deleter' = [deleter EXCEPT ![d] = [pc |-> "idle", id |-> 0, user |-> NoUser]]

\* DELETE ... WHERE id = ?, whatever the row's status is by now.
DeleteRow(d) ==
    /\ deleter[d].pc = "delete"
    /\ Writable(deleter[d].id, d)
    /\ job' = [job EXCEPT ![deleter[d].id] = NoRow]
    /\ EndDelete(d)
    /\ UNCHANGED <<rowLock, userLock, used, worker, request, nextId, faults, history>>

\* The request dies, between the refund and the deletion for instance.
AbandonDelete(d) ==
    /\ deleter[d].pc # "idle"
    /\ Fault
    /\ EndDelete(d)
    /\ UNCHANGED <<database, worker, request, nextId, history>>

-----------------------------------------------------------------------------
(* The passage of time.  Nothing in the program ever renews a heartbeat:   *)
(* update_job_heartbeat has no caller.                                     *)

Lapse(j) ==
    /\ job[j].status = "running" /\ ~job[j].lapsed
    /\ job' = [job EXCEPT ![j].lapsed = TRUE]
    /\ UNCHANGED <<rowLock, userLock, used, worker, request, deleter, nextId, faults, history>>

Age(j) ==
    /\ job[j].status = "pending" /\ ~job[j].overdue
    /\ job' = [job EXCEPT ![j].overdue = TRUE]
    /\ UNCHANGED <<rowLock, userLock, used, worker, request, deleter, nextId, faults, history>>

-----------------------------------------------------------------------------
Init ==
    /\ job      = [j \in Jobs |-> NoRow]
    /\ rowLock  = [j \in Jobs |-> NoOne]
    /\ userLock = [u \in Users |-> NoOne]
    /\ used     = [u \in Users |-> 0]
    /\ worker   = [w \in Workers |-> [pc |-> "idle", todo |-> {}]]
    /\ request  = [r \in Requests |-> [pc |-> "idle", user |-> NoUser, id |-> 0]]
    /\ deleter  = [d \in Deleters |-> [pc |-> "idle", id |-> 0, user |-> NoUser]]
    /\ nextId   = 1
    /\ faults   = 0
    /\ refunds  = [j \in Jobs |-> 0]
    /\ runs     = [j \in Jobs |-> 0]
    /\ leaked   = [u \in Users |-> 0]

\* What a worker does with one candidate or one claimed job.
Handle(w, s) ==
    \/ FailCandidate(w, s) \/ CheckCapacity(w, s)
    \/ Claim(w, s)         \/ CandidateGone(w, s)
    \/ ReadBack(w, s)      \/ Complete(w, s)
    \/ PersistFails(w, s)  \/ Fallback(w, s) \/ Fail(w, s)

WorkerStep(w) == \/ Select(w) \/ ReturnNone(w)
                 \/ \E s \in worker[w].todo : Handle(w, s)

RequestStep(r) == \/ \E u \in Users : Reserve(r, u)
                  \/ Create(r) \/ Created(r) \/ RefundReservation(r)
                  \/ CreateFails(r) \/ Abandon(r)

DeleterStep(d) == \/ \E j \in Jobs : ReadForDelete(d, j)
                  \/ RefundDeleted(d) \/ DeleteRow(d) \/ AbandonDelete(d)

\* Every actor is idle and no row is waiting for one.
Quiescent == /\ LiveRows = {}
             /\ \A w \in Workers : worker[w].pc = "idle"
             /\ \A r \in Requests : request[r].pc = "idle"
             /\ \A d \in Deleters : deleter[d].pc = "idle"
             /\ UNCHANGED vars

Next == \/ \E w \in Workers : WorkerStep(w) \/ DeadlockVictim(w) \/ Abort(w)
        \/ \E r \in Requests : RequestStep(r)
        \/ \E d \in Deleters : DeleterStep(d)
        \/ \E j \in Jobs : Lapse(j) \/ Age(j)
        \/ Quiescent

Spec == Init /\ [][Next]_vars

\* The worker loop keeps polling, requests run to completion, time passes.  A
\* statement that waits for a lock is next in PostgreSQL's queue for it, so it
\* is not passed over for ever although the lock is only free now and then.
Fairness == /\ \A w \in Workers : SF_vars(WorkerStep(w)) /\ WF_vars(DeadlockVictim(w))
            /\ \A r \in Requests : WF_vars(Create(r)) /\ WF_vars(Created(r) \/ RefundReservation(r))
            /\ \A d \in Deleters : WF_vars(RefundDeleted(d)) /\ WF_vars(DeleteRow(d))
            /\ \A j \in Jobs : WF_vars(Lapse(j)) /\ WF_vars(Age(j))

FairSpec == Spec /\ Fairness

-----------------------------------------------------------------------------
(* What the queue promises whatever the number of workers.                 *)

\* The shape of every variable but rowLock: other programs lock rows, too.
ShapeOK ==
    /\ job \in [Jobs -> Row]
    /\ userLock \in [Users -> Workers \union {NoOne}]
    /\ used \in [Users -> Nat]
    /\ worker \in [Workers -> WorkerState]
    /\ request \in [Requests -> RequestState]
    /\ deleter \in [Deleters -> DeleterState]
    /\ nextId \in Nat \ {0}
    /\ faults \in Nat
    /\ refunds \in [Jobs -> 0 .. 2]
    /\ runs \in [Jobs -> 0 .. MaxAttempts + 1]
    /\ leaked \in [Users -> Nat]

\* Every variable keeps its shape; in particular no counter goes below zero,
\* although a job may be refunded more than once, and only workers hold locks.
TypeOK == ShapeOK /\ rowLock \in [Jobs -> Workers \union {NoOne}]

\* A user never has more rows running than the plan allows, across any number
\* of workers, stale candidate lists and crashed claims.
RunningWithinPlan == \A u \in Users : Cardinality(Running(u)) <= MaxConcurrent

\* A job that is failed has been refunded, whichever process failed it, also one
\* that had been overtaken or had lost the answer to its commit.  (More than once,
\* it may be.)
FailuresAreRefunded == \A j \in Jobs : job[j].status = "failed" => refunds[j] >= 1

\* Running jobs of users an operator may suspend, with a lapsed lease.  While
\* their owner is suspended every scan passes them over: nobody fails them.
Stuck == {j \in Jobs : job[j].status = "running" /\ job[j].lapsed
                         /\ job[j].owner \in Suspendable}

\* They are all that the candidate query returns.
CrowdedOut(j) == Cardinality({i \in Stuck : Older(i, j)}) >= CandidateLimit

\* Every submitted job leaves the queue: it is completed, failed or deleted; unless
\* its owner is suspended, or the jobs of suspended owners fill the candidate query
\* from some time on.
JobsSettle ==
    \A j \in Jobs : Exists(j) /\ job[j].owner \notin Suspendable ~>
        (job[j].status \in Terminal \union {"absent"}) \/ []CrowdedOut(j)

-----------------------------------------------------------------------------
(* What it promises when one worker scans the queue and nobody deletes.    *)

\* A completed or failed job never changes status again.
TerminalIsFinal ==
    [][\A j \in Jobs : job[j].status \in Terminal =>
          job'[j].status \in {job[j].status, "absent"}]_vars

\* The quota of a job is given back once if it failed, and never otherwise.
RefundMatchesOutcome ==
    \A j \in Jobs : refunds[j] = IF job[j].status = "failed" THEN 1 ELSE 0

InFlight(u) == {r \in Requests : request[r].pc = "reserved" /\ request[r].user = u}
Billable(u) == {j \in Jobs : job[j].owner = u /\ refunds[j] = 0}

\* The counter is exactly what the user owes: requests that have not inserted their
\* job yet, jobs that were not refunded, and reservations a dead or failed request
\* left behind.
QuotaAccounted ==
    \A u \in Users :
        used[u] = Cardinality(InFlight(u)) + Cardinality(Billable(u)) + leaked[u]

\* attempt_count counts the engine runs of the job, so that retries end.
AttemptsCountRuns ==
    \A j \in Jobs : /\ runs[j] = job[j].attempts
                    /\ runs[j] <= MaxAttempts

\* A worker only ever takes over a row that is pending, or running with a
\* lapsed lease, at the moment it takes it.
ClaimsOnlyEligible ==
    [][\A j \in Jobs : runs'[j] # runs[j] => Claimable(j)]_vars

\* Every job of its user that was committed before it was created before it.
InSequence(i) == \A k \in 1 .. (i - 1) : job[k].owner = job[i].owner => Older(k, i)

\* i is before j in the queue of their user.
Precedes(i, j) == /\ i < j /\ Older(i, j) /\ InSequence(i)
                  /\ job[i].owner = job[j].owner /\ job[j].owner \notin Suspendable

\* A job is not started while one of its user that was created and committed
\* before it is pending: requests of a user that do not overlap, and whose clocks
\* agree, are executed in their order.  Two that did overlap may let a third one
\* past: when a scan finds no room for the one that is older and was committed
\* later, and then fails the other, the third one takes the room that makes.
OldestFirst ==
    [][\A j \in Jobs : job[j].status = "pending" /\ job'[j].status = "running" =>
          \A i \in Jobs : Precedes(i, j) => job[i].status # "pending"]_vars

\* The guard of DELETE: a row is not deleted while it is running.
RunningNeverDeleted ==
    [][\A j \in Jobs : job[j].status = "running" => job'[j].status # "absent"]_vars

=============================================================================
