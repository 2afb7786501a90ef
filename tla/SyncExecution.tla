---------------------------- MODULE SyncExecution ----------------------------
(***************************************************************************)
(* POST /simulations?sync=true beside the queue: the handler takes a slot  *)
(* of the in-memory limiter (app/core/concurrency.py), reserves, creates a *)
(* job like any other and executes it itself (execute_simulation_job),     *)
(* moving it with transition_job_status.  Its job is an ordinary row of    *)
(* simulations, so the workers of JobQueue see it.                         *)
(*                                                                         *)
(* transition_job_status decides on the status it has in memory, and its   *)
(* UPDATE is conditional on nothing.  It never sets heartbeat_at or        *)
(* worker_id, so a row it sets running has a lapsed lease from the start.  *)
(***************************************************************************)
EXTENDS JobQueue

CONSTANT Callers    \* concurrent synchronous requests, all in one API process

VARIABLES
    caller,    \* local state of each synchronous request
    slots,     \* ConcurrencyLimiter._active_counts
    withdrawn  \* history: jobs that a DELETE request has refunded

syncVars == <<caller, slots, withdrawn>>
execVars == <<vars, syncVars>>

\* pc, the caller's user and job, and job.status as the session remembers it.
NoCall == [pc |-> "idle", user |-> NoUser, id |-> 0, mem |-> "absent"]

Goto(c, pc)      == caller' = [caller EXCEPT ![c].pc = pc]
Keep             == UNCHANGED <<worker, request, deleter>>
KeepHistory      == UNCHANGED <<refunds, runs, leaked>>

can_transition(from, to) ==
    \/ from = "pending" /\ to \in {"running", "failed"}
    \/ from = "running" /\ to \in {"completed", "failed"}

-----------------------------------------------------------------------------
(* The limiter.  Both operations run under its thread lock.                *)

HasSlot(u) == slots[u] < MaxConcurrent

\* MaxJobs bounds the requests, of either kind, that will submit a job.
Submitting == {c \in Callers : caller[c].pc = "reserved"} \union Waiting("reserved")
RoomForJob == nextId + Cardinality(Submitting) <= MaxJobs
RoomForAll == nextId + Cardinality(Submitting) <= MaxJobs + 1

Acquire(c, u) ==
    /\ caller[c].pc = "idle"
    /\ HasSlot(u)
    /\ slots' = [slots EXCEPT ![u] = @ + 1]
    /\ caller' = [caller EXCEPT ![c] = [NoCall EXCEPT !.pc = "admitted", !.user = u]]
    /\ UNCHANGED <<vars, withdrawn>>

\* Mutant: an answer that forgets the slot.
AnswerWithoutRelease(c) ==
    /\ caller[c].pc = "finally"
    /\ caller' = [caller EXCEPT ![c] = NoCall]
    /\ UNCHANGED <<vars, slots, withdrawn>>

\* The finally clause, reached from every answer and every exception.
Release(c) ==
    /\ caller[c].pc = "finally"
    /\ slots' = [slots EXCEPT ![caller[c].user] = IF @ <= 1 THEN 0 ELSE @ - 1]
    /\ caller' = [caller EXCEPT ![c] = NoCall]
    /\ UNCHANGED <<vars, withdrawn>>

-----------------------------------------------------------------------------
(* Reserving and creating.                                                 *)

SyncReserve(c) ==
    LET u == caller[c].user
    IN /\ caller[c].pc = "admitted"
       /\ IF CanReserve(u)
            THEN /\ CanReference(u, c) /\ RoomForJob
                 /\ used' = [used EXCEPT ![u] = @ + 1]
                 /\ Goto(c, "reserved")
            ELSE Goto(c, "finally") /\ UNCHANGED used
       /\ UNCHANGED <<job, rowLock, userLock, nextId, faults, slots, withdrawn>>
       /\ Keep /\ KeepHistory

SyncCreate(c) ==
    LET u == caller[c].user
    IN /\ caller[c].pc = "reserved"
       /\ CanReference(u, c)
       /\ Insert(u)
       /\ caller' = [caller EXCEPT ![c].pc = "inserted", ![c].id = nextId, ![c].mem = "pending"]
       /\ UNCHANGED <<rowLock, userLock, used, faults, slots, withdrawn>>
       /\ Keep /\ KeepHistory

\* The INSERT or its commit raises, and so does the refund the handler attempts
\* in the session that was not rolled back.
SyncCreateFails(c) ==
    LET u == caller[c].user
    IN /\ caller[c].pc = "reserved"
       /\ Fault
       /\ \/ leaked' = [leaked EXCEPT ![u] = @ + 1] /\ UNCHANGED <<job, nextId>>
          \/ LostAcks /\ CanReference(u, c) /\ Insert(u) /\ UNCHANGED leaked
       /\ Goto(c, "finally")
       /\ UNCHANGED <<rowLock, userLock, used, slots, withdrawn, refunds, runs>>
       /\ Keep

\* The refresh of the row just committed.  If it is gone it raises, inside the
\* try of create_simulation_job ...
ReadNew(c) ==
    LET j == caller[c].id
    IN /\ caller[c].pc = "inserted"
       /\ caller' = [caller EXCEPT ![c].pc  = IF Exists(j) THEN "created" ELSE "unreserve",
                                   ![c].mem = job[j].status]
       /\ UNCHANGED <<vars, slots, withdrawn>>

\* ... and the handler refunds.
SyncUnreserve(c) ==
    /\ caller[c].pc = "unreserve"
    /\ GiveBack(caller[c].user)
    /\ CountRefund(caller[c].id)
    /\ Goto(c, "finally")
    /\ UNCHANGED <<job, rowLock, userLock, nextId, faults, slots, withdrawn, runs, leaked>>
    /\ Keep

-----------------------------------------------------------------------------
(* execute_simulation_job.                                                 *)

\* UPDATE simulations SET status = ?: a row never claimed has no heartbeat.
SetStatus(j, st) ==
    job' = [job EXCEPT ![j].status = st,
                       ![j].lapsed = IF st = "running" /\ job[j].worker = NoOne
                                       THEN TRUE ELSE @]

\* transition_job_status(running), decided on the status in memory: a no-op if a
\* worker had claimed the job before it was read back, an exception if it was over.
StartJob(c) ==
    LET j == caller[c].id
    IN /\ caller[c].pc = "created"
       /\ \/ /\ caller[c].mem = "running"
             /\ Goto(c, "engine") /\ CountRun(j) /\ UNCHANGED job
          \/ /\ ~can_transition(caller[c].mem, "running") /\ caller[c].mem # "running"
             /\ Goto(c, "finally") /\ UNCHANGED <<job, runs>>
          \/ /\ can_transition(caller[c].mem, "running") /\ Exists(j) /\ Writable(j, c)
             /\ SetStatus(j, "running")
             /\ Goto(c, "started") /\ UNCHANGED runs
          \/ /\ can_transition(caller[c].mem, "running") /\ ~Exists(j)
             /\ Goto(c, "finally") /\ UNCHANGED <<job, runs>>
       /\ UNCHANGED <<rowLock, userLock, used, nextId, faults, slots, withdrawn, refunds, leaked>>
       /\ Keep

\* The refresh that ends it: the session now remembers what the row says.
Refresh(c) ==
    LET j == caller[c].id
    IN /\ caller[c].pc = "started"
       /\ IF Exists(j)
            THEN /\ caller' = [caller EXCEPT ![c].pc = "engine", ![c].mem = job[j].status]
                 /\ CountRun(j)
            ELSE Goto(c, "finally") /\ UNCHANGED runs
       /\ UNCHANGED <<database, nextId, faults, slots, withdrawn, refunds, leaked>>
       /\ Keep

EngineReturns(c) ==
    /\ caller[c].pc = "engine"
    /\ \E next \in {"persist", "failing"} : Goto(c, next)
    /\ UNCHANGED <<vars, slots, withdrawn>>

\* Mutant: the handler goes on without refund_usage.
MarkFailedUnrefunded(c) ==
    /\ caller[c].pc \in {"failing", "giveback"}
    /\ Goto(c, IF caller[c].pc = "failing" THEN "recorded" ELSE "giveup")
    /\ UNCHANGED <<database, nextId, faults, slots, withdrawn>>
    /\ Keep /\ KeepHistory

\* The engine raised.  The refund is one transaction ...
RefundFailed(c) ==
    /\ caller[c].pc \in {"failing", "giveback"}
    /\ GiveBack(caller[c].user)
    /\ CountRefund(caller[c].id)
    /\ Goto(c, IF caller[c].pc = "failing" THEN "recorded" ELSE "giveup")
    /\ UNCHANGED <<job, rowLock, userLock, nextId, faults, slots, withdrawn, runs, leaked>>
    /\ Keep

\* ... and transition_job_status(failed) another.  A status that does not
\* allow it raises, in the handler of a persistence error silently.
MarkFailed(c) ==
    LET j == caller[c].id
    IN /\ caller[c].pc \in {"recorded", "giveup"}
       /\ IF can_transition(caller[c].mem, "failed") /\ Exists(j)
            THEN Writable(j, c) /\ SetStatus(j, "failed")
            ELSE UNCHANGED job
       /\ Goto(c, "finally")
       /\ UNCHANGED <<rowLock, userLock, used, nextId, faults, slots, withdrawn>>
       /\ Keep /\ KeepHistory

\* transition_job_status(completed): a no-op if the session already remembers
\* the job as completed, an exception (and a refund) if as failed.
PersistResult(c) ==
    LET j == caller[c].id
    IN /\ caller[c].pc = "persist"
       /\ \/ /\ caller[c].mem = "completed"
             /\ Goto(c, "finally") /\ UNCHANGED job
          \/ /\ caller[c].mem \notin {"completed", "running"}
             /\ Goto(c, "giveback") /\ UNCHANGED job
          \/ /\ caller[c].mem = "running" /\ Exists(j) /\ Writable(j, c)
             /\ SetStatus(j, "completed")
             /\ caller' = [caller EXCEPT ![c].pc = "saved", ![c].mem = "completed"]
       /\ UNCHANGED <<rowLock, userLock, used, nextId, faults, slots, withdrawn>>
       /\ Keep /\ KeepHistory

\* The refresh that ends it.  If the row is gone it raises, after the commit, and
\* the handler refunds a job that was completed.
ReadSaved(c) ==
    /\ caller[c].pc = "saved"
    /\ Goto(c, IF Exists(caller[c].id) THEN "finally" ELSE "giveback")
    /\ UNCHANGED <<vars, slots, withdrawn>>

\* The UPDATE fails, or matches no row.  The session was not rolled back, so
\* the refund the handler attempts raises too: the request ends here.
PersistRaises(c) ==
    /\ caller[c].pc = "persist" /\ caller[c].mem = "running"
    /\ \/ ~Exists(caller[c].id) /\ UNCHANGED faults
       \/ Fault
    /\ Goto(c, "finally")
    /\ UNCHANGED <<database, nextId, slots, withdrawn>>
    /\ Keep /\ KeepHistory

\* The API process dies, with its requests and its limiter.
ApiCrash ==
    /\ \E c \in Callers : caller[c].pc # "idle"
    /\ Fault
    /\ caller' = [c \in Callers |-> NoCall]
    /\ slots' = [u \in Users |-> 0]
    /\ UNCHANGED <<database, nextId, history, withdrawn>>
    /\ Keep

-----------------------------------------------------------------------------
SyncInit == /\ Init
            /\ caller = [c \in Callers |-> NoCall]
            /\ slots  = [u \in Users |-> 0]
            /\ withdrawn = {}

CallerStep(c) ==
    \/ \E u \in Users : Acquire(c, u)
    \/ SyncReserve(c) \/ SyncCreate(c) \/ ReadNew(c)
    \/ SyncCreateFails(c) \/ SyncUnreserve(c)
    \/ StartJob(c) \/ Refresh(c) \/ EngineReturns(c)
    \/ RefundFailed(c) \/ MarkFailed(c) \/ PersistResult(c) \/ PersistRaises(c)
    \/ ReadSaved(c) \/ Release(c)

Withdraws(d, j) == /\ deleter[d].pc = "refund" /\ deleter[d].id = j
                   /\ deleter'[d].pc = "delete"

\* A step of the queue, of its workers and of the other requests.
QueueStep ==
    /\ Next
    /\ UNCHANGED <<caller, slots>>
    /\ withdrawn' = withdrawn \union {j \in Jobs : \E d \in Deleters : Withdraws(d, j)}
    /\ RoomForAll'

SyncNext == \/ QueueStep
            \/ \E c \in Callers : CallerStep(c)
            \/ ApiCrash

SyncSpec == SyncInit /\ [][SyncNext]_execVars

-----------------------------------------------------------------------------
\* The limiter counts the synchronous requests under way, neither more (a slot
\* lost on some path would lock the user out for good) nor fewer.
LimiterIsExact ==
    \A u \in Users :
        /\ slots[u] = Cardinality({c \in Callers : caller[c].pc # "idle" /\ caller[c].user = u})
        /\ slots[u] <= MaxConcurrent

\* A job that no worker took up, that was not left pending until a worker expired
\* it, and that no DELETE has refunded, has been refunded once if it is failed and
\* not at all if it is completed, although its refund and its status are separate
\* transactions.
SyncOutcomesBalance ==
    \A j \in Jobs : job[j].worker = NoOne /\ ~job[j].overdue /\ j \notin withdrawn =>
        /\ job[j].status = "failed" => refunds[j] = 1
        /\ job[j].status = "completed" => refunds[j] = 0

\* A job is executed by one process at a time, and only by another once the
\* first has given it up.
OneEngineAtATime ==
    \A j \in Jobs :
        Cardinality({c \in Callers : caller[c].pc = "engine" /\ caller[c].id = j}
                    \union {w \in Workers : worker[w].pc = "run"
                                           /\ \E s \in worker[w].todo : s.id = j}) <= 1

=============================================================================
