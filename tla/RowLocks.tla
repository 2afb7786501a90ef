------------------------------ MODULE RowLocks ------------------------------
(***************************************************************************)
(* The row locks the transactions of the system take in PostgreSQL, on     *)
(* simulations, users and monthly_usage, in the order their statements     *)
(* take them.  The contents of the rows are left out (JobQueue and         *)
(* UsageLedger have them): any unlocked row may be found, and any test on  *)
(* one may come out either way.                                            *)
(*                                                                         *)
(* An UPDATE, a DELETE and a SELECT FOR UPDATE take a row for themselves.  *)
(* An INSERT that references a user takes the users row FOR KEY SHARE,     *)
(* which excludes FOR UPDATE only.  All locks go at the end of the         *)
(* transaction.  A statement waits for the locks in its way; PostgreSQL    *)
(* fails one of those that wait for each other.                            *)
(***************************************************************************)
EXTENDS Integers, Sequences, FiniteSets

CONSTANTS
    UserRows,     \* rows of users, and of monthly_usage
    JobRows,      \* rows of simulations, numbered in order of created_at
    Owner,        \* the user of each job
    Workers,      \* worker processes
    Handlers,     \* requests and cleanups
    MaxBegins     \* bound: scans of a worker, transactions of a request

ASSUME LocksAssumption == JobRows \subseteq Nat /\ Owner \in [JobRows -> UserRows]

VARIABLES
    held,     \* the locks each actor holds
    todo,     \* the statements it still has to issue: locks, and the end of a transaction
    pc,       \* where a worker is
    list,     \* the candidates a worker has not dealt with
    begun     \* how often each actor has begun

lockVars == <<held, todo, pc, list, begun>>

Actors == Workers \union Handlers
Lock(table, id) == [row |-> <<table, id>>, shared |-> FALSE]
KeyShare(u)     == [row |-> <<"users", u>>, shared |-> TRUE]
Commit          == [row |-> <<"commit">>, shared |-> TRUE]

JobLocks(js) == {Lock("simulations", j) : j \in js}

\* Those whose locks are in the way of a's next statement.
Blockers(a) ==
    IF todo[a] = <<>> THEN {}
    ELSE {b \in Actors \ {a} : \E l \in held[b] : /\ l.row = Head(todo[a]).row
                                                 /\ ~(l.shared /\ Head(todo[a]).shared)}

\* Rows FOR UPDATE SKIP LOCKED passes over.
Locked(j) == \E a \in Actors : Lock("simulations", j) \in held[a]

Idle(a) == todo[a] = <<>> /\ held[a] = {} /\ (a \in Workers => pc[a] = "idle")

-----------------------------------------------------------------------------
(* The transactions, each as the locks its statements take.                *)

\* reserve_usage: SELECT FOR UPDATE, the conditional UPDATE, the event.
Reserving(u) == <<Lock("monthly_usage", u), KeyShare(u), Commit>>

\* create_simulation_job, record_usage_result.
Inserting(u) == <<KeyShare(u), Commit>>

\* refund_usage, with nothing else in the session, and the event.
Refunding(u) == <<Lock("monthly_usage", u), Commit>> \o Inserting(u)

\* The worker's status = failed and refund_usage: the UPDATE of the counters is
\* issued, that of the job comes with the commit, the event in a transaction of
\* its own.
Failing(j) == <<Lock("monthly_usage", Owner[j]), Lock("simulations", j), Commit>>
                \o Inserting(Owner[j])

\* Mutant: the interactions generated are charged with the result.
CompletingWithCharge(j) ==
    {<<Lock("simulations", j), Lock("monthly_usage", Owner[j]), KeyShare(Owner[j]), Commit>>}

\* The result and its event are one flush, in whichever order.
Completing(j) == {<<Lock("simulations", j), KeyShare(Owner[j]), Commit>>,
                  <<KeyShare(Owner[j]), Lock("simulations", j), Commit>>}

\* transition_job_status, and the DELETE of a row.
Writing(j) == <<Lock("simulations", j), Commit>>

\* delete_simulation of a pending job, and execute_simulation_job when the
\* engine has raised.
RefundingFirst(j) == Refunding(Owner[j]) \o Writing(j)

\* create_api_key, which counts the keys under the lock.
CreatingKey(u) == <<Lock("users", u), Commit>>

Transactions ==
    (UNION {{Reserving(u), Inserting(u), Refunding(u), CreatingKey(u)} : u \in UserRows})
    \union (UNION {{Writing(j), RefundingFirst(j)} \union Completing(j) : j \in JobRows})

-----------------------------------------------------------------------------
Begin(a) == begun[a] < MaxBegins /\ begun' = [begun EXCEPT ![a] = @ + 1]

\* A request comes to one of its transactions.
Start(r) ==
    /\ Idle(r) /\ Begin(r)
    /\ \E t \in Transactions : todo' = [todo EXCEPT ![r] = t]
    /\ UNCHANGED <<held, pc, list>>

\* A cleanup selects a batch, and deletes what it has locked.
Sweep(r) ==
    /\ Idle(r) /\ Begin(r)
    /\ \E js \in SUBSET JobRows \ {{}} :
         /\ \A j \in js : ~Locked(j)
         /\ held' = [held EXCEPT ![r] = JobLocks(js)]
    /\ todo' = [todo EXCEPT ![r] = <<Commit>>]
    /\ UNCHANGED <<pc, list>>

\* The next statement of a transaction.
Issue(a) ==
    /\ todo[a] # <<>> /\ Head(todo[a]) # Commit /\ Blockers(a) = {}
    /\ held' = [held EXCEPT ![a] = @ \union {Head(todo[a])}]
    /\ todo' = [todo EXCEPT ![a] = Tail(@)]
    /\ UNCHANGED <<pc, list, begun>>

End(a) ==
    /\ todo[a] # <<>> /\ Head(todo[a]) = Commit
    /\ held' = [held EXCEPT ![a] = {}]
    /\ todo' = [todo EXCEPT ![a] = Tail(@)]
    /\ UNCHANGED <<pc, list, begun>>

-----------------------------------------------------------------------------
(* claim_next_job and process_claimed_job.                                 *)

At(w, p)     == pc[w] = p /\ todo[w] = <<>>
Goto(w, p)   == pc' = [pc EXCEPT ![w] = p]
Do(w, t)     == todo' = [todo EXCEPT ![w] = t]
Left(w, js)  == list' = [list EXCEPT ![w] = js]
Candidate(w) == CHOOSE j \in list[w] : \A k \in list[w] : j <= k

Select(w) ==
    /\ At(w, "idle") /\ Begin(w)
    /\ \E js \in SUBSET JobRows \ {{}} :
         /\ \A j \in js : ~Locked(j)
         /\ held' = [held EXCEPT ![w] = @ \union JobLocks(js)]
         /\ Left(w, js)
    /\ Goto(w, "scan")
    /\ UNCHANGED todo

\* Out of attempts, or pending for too long.
FailCandidate(w) ==
    /\ At(w, "scan") /\ list[w] # {}
    /\ Do(w, Failing(Candidate(w)))
    /\ Left(w, list[w] \ {Candidate(w)})
    /\ UNCHANGED <<held, pc, begun>>

\* get_user_concurrency_capacity.
CheckCapacity(w) ==
    /\ At(w, "scan") /\ list[w] # {}
    /\ Do(w, <<Lock("users", Owner[Candidate(w)])>>)
    /\ Goto(w, "counted")
    /\ UNCHANGED <<held, list, begun>>

\* No capacity: on to the next candidate, with the lock kept.
Pass(w) ==
    /\ At(w, "counted")
    /\ Left(w, list[w] \ {Candidate(w)})
    /\ Goto(w, "scan")
    /\ UNCHANGED <<held, todo, begun>>

Claim(w) ==
    /\ At(w, "counted")
    /\ Do(w, Writing(Candidate(w)))
    /\ Left(w, {Candidate(w)})
    /\ Goto(w, "run")
    /\ UNCHANGED <<held, begun>>

\* Mutant: the session is left open, its transaction with it.
ReturnNoneOpen(w) ==
    /\ At(w, "scan") /\ list[w] = {}
    /\ Goto(w, "idle")
    /\ UNCHANGED <<held, todo, list, begun>>

\* The list is through; the session is closed, which ends the transaction.
ReturnNone(w) ==
    /\ At(w, "scan") /\ list[w] = {}
    /\ Goto(w, "idle")
    /\ held' = [held EXCEPT ![w] = {}]
    /\ UNCHANGED <<todo, list, begun>>

\* The engine has run, outside any transaction: a failure, or nothing, when the
\* job is no longer the worker's ...
Fail(w) ==
    /\ At(w, "run")
    /\ \E t \in {Failing(Candidate(w)), <<>>} : Do(w, t)
    /\ Left(w, {})
    /\ Goto(w, "idle")
    /\ UNCHANGED <<held, begun>>

\* ... or the result.
Complete(w) ==
    /\ At(w, "run")
    /\ \E t \in Completing(Candidate(w)) : Do(w, t)
    /\ Goto(w, "result")
    /\ UNCHANGED <<held, list, begun>>

Completed(w) ==
    /\ At(w, "result")
    /\ Left(w, {})
    /\ Goto(w, "idle")
    /\ UNCHANGED <<held, todo, begun>>

\* An exception while the result is persisted: rollback, and the fallback.
PersistFails(w) ==
    /\ pc[w] = "result" /\ todo[w] # <<>>
    /\ held' = [held EXCEPT ![w] = {}]
    /\ Do(w, Failing(Candidate(w)))
    /\ Left(w, {})
    /\ Goto(w, "idle")
    /\ UNCHANGED <<begun>>

-----------------------------------------------------------------------------
\* Actors of which each waits for another one of them.
Deadlocked(as) == as # {} /\ \A a \in as : Blockers(a) \intersect as # {}

\* The exception ends what the actor was at.  (What a handler does about it is a
\* transaction of the kinds above.)
GiveUp(a) ==
    /\ held' = [held EXCEPT ![a] = {}]
    /\ todo' = [todo EXCEPT ![a] = <<>>]
    /\ pc'   = [w \in Workers |-> IF w = a THEN "idle" ELSE pc[w]]
    /\ list' = [w \in Workers |-> IF w = a THEN {} ELSE list[w]]
    /\ UNCHANGED <<begun>>

\* The statement of one of them fails.
Victim(a) ==
    /\ \E as \in SUBSET Actors : a \in as /\ Deadlocked(as)
    /\ IF a \in Workers /\ pc[a] = "result" THEN PersistFails(a) ELSE GiveUp(a)

WorkerStep(w) == \/ FailCandidate(w) \/ CheckCapacity(w) \/ Pass(w) \/ Claim(w)
                 \/ ReturnNone(w) \/ Fail(w) \/ Complete(w) \/ Completed(w)
Progress(a) == Issue(a) \/ End(a) \/ (a \in Workers /\ WorkerStep(a))

LocksInit ==
    /\ held  = [a \in Actors |-> {}]
    /\ todo  = [a \in Actors |-> <<>>]
    /\ pc    = [w \in Workers |-> "idle"]
    /\ list  = [w \in Workers |-> {}]
    /\ begun = [a \in Actors |-> 0]

LocksNext == \/ \E a \in Actors : Progress(a) \/ Victim(a)
        \/ \E w \in Workers : Select(w) \/ PersistFails(w)
        \/ \E r \in Handlers : Start(r) \/ Sweep(r)

LocksSpec == LocksInit /\ [][LocksNext]_lockVars

-----------------------------------------------------------------------------
\* In claim_next_job; "run" is also the commit of a claim.
Scanning(w) == pc[w] \in {"scan", "counted"} \/ (pc[w] = "run" /\ todo[w] # <<>>)

\* Submissions, refunds, deletions, results, key creations and cleanups never
\* wait for each other in a circle: a request is a deadlock victim only when a
\* worker is at its candidate list.
OnlyScansDeadlock ==
    \A as \in SUBSET Actors :
        Deadlocked(as) => \E w \in as \intersect Workers : Scanning(w)

\* Nobody leaves a lock behind: who holds one is in the middle of a transaction, or
\* of a candidate list, on every way through it, so that what waits gets its turn or
\* is in a circle that PostgreSQL breaks.
NoLockIsLeftBehind ==
    \A a \in Actors : held[a] # {} => todo[a] # <<>> \/ (a \in Workers /\ Scanning(a))

=============================================================================
