-------------------------- MODULE WorkerTelemetry --------------------------
(***************************************************************************)
(* What the workers of JobQueue report of themselves: every worker process *)
(* has an OperationalMetrics object of its own (app/core/metrics.py), in   *)
(* memory, and adds to it after the commit it reports.  Between the two    *)
(* the process can die, which also clears its counters, or a database call *)
(* can raise: the refresh of a claimed row, the event of a failed one.     *)
(***************************************************************************)
EXTENDS JobQueue, Functions

VARIABLES
    counts,    \* the lifecycle counters of each worker's OperationalMetrics
    owed       \* the counters a worker has yet to add to, for its last commit

telemetry == <<counts, owed>>
allVars   == <<vars, telemetry>>

Counters == {"started", "recovered", "completed", "failed", "exhausted"}
Zero     == [c \in Counters |-> 0]

Owe(w, cs) == owed' = [owed EXCEPT ![w] = cs] /\ UNCHANGED counts

-----------------------------------------------------------------------------
\* record_simulation_started, after record_simulation_recovered if it was one.
StartOf(s) == {"started"} \union IF s.status = "running" THEN {"recovered"} ELSE {}

\* record_simulation_failed, and record_simulation_exhausted_retries for a job
\* that has no attempts left.
FailureOf(s) == {"failed"} \union IF Exhausted(s) THEN {"exhausted"} ELSE {}

\* Mutant: the completion is counted before it is committed.
CompletesCountedFirst(w, s) ==
    (Complete(w, s) \/ PersistFails(w, s)) /\ Owe(w, {"completed"})

\* The result is committed, then counted.
Completes(w, s) == Complete(w, s) /\ Owe(w, {"completed"})

\* The engine raised, or the result could not be committed.  The row may have
\* gone: then nothing was committed, and nothing is recorded.
FailsClaimed(w, s) ==
    /\ Fallback(w, s) \/ Fail(w, s)
    /\ Owe(w, IF Exists(s.id) THEN {"failed"} ELSE {})

\* One step of a worker, with what it will have to record.
Work(w) ==
    \/ (Select(w) \/ ReturnNone(w) \/ DeadlockVictim(w)) /\ UNCHANGED telemetry
    \/ \E s \in worker[w].todo :
        \/ /\ CheckCapacity(w, s) \/ CandidateGone(w, s) \/ ReadBack(w, s) \/ PersistFails(w, s)
           /\ UNCHANGED telemetry
        \/ FailCandidate(w, s) /\ Owe(w, FailureOf(s))
        \/ Claim(w, s) /\ Owe(w, StartOf(s))
        \/ Completes(w, s) \/ FailsClaimed(w, s)

\* The record_* calls, each under the lock of the object.
Record(w) ==
    /\ owed[w] # {}
    /\ counts' = [counts EXCEPT ![w] = [c \in Counters |-> @[c] + IF c \in owed[w] THEN 1 ELSE 0]]
    /\ owed' = [owed EXCEPT ![w] = {}]
    /\ UNCHANGED vars

\* An exception ends the iteration of the loop, and the process lives on; or the
\* process dies, and one with new counters takes its place.
AbortRecorded(w) ==
    /\ Abort(w)
    /\ owed' = [owed EXCEPT ![w] = {}]
    /\ counts' \in {counts, [counts EXCEPT ![w] = Zero]}

\* The same after the last commit of an iteration, when JobQueue has the worker
\* idle already.  Only a process that dies loses a completion: the record follows
\* its commit at once, that of a failure comes after the event.
LoseRecord(w) ==
    /\ owed[w] # {} /\ worker[w].pc = "idle"
    /\ Fault
    /\ owed' = [owed EXCEPT ![w] = {}]
    /\ \/ counts' = [counts EXCEPT ![w] = Zero]
       \/ "completed" \notin owed[w] /\ UNCHANGED counts
    /\ UNCHANGED <<database, worker, request, deleter, nextId, history>>

-----------------------------------------------------------------------------
TelemetryInit == /\ Init
                 /\ counts = [w \in Workers |-> Zero]
                 /\ owed   = [w \in Workers |-> {}]

TelemetryNext ==
    \/ \E w \in Workers : \/ owed[w] = {} /\ Work(w)
                          \/ Record(w) \/ AbortRecorded(w) \/ LoseRecord(w)
    \/ /\ \/ \E r \in Requests : RequestStep(r)
          \/ \E d \in Deleters : DeleterStep(d)
          \/ \E j \in Jobs : Lapse(j) \/ Age(j)
          \/ Quiescent
       /\ UNCHANGED telemetry

TelemetrySpec == TelemetryInit /\ [][TelemetryNext]_allVars

-----------------------------------------------------------------------------
\* What a worker has reported, or is about to.
Told(w, c)       == counts[w][c] + IF c \in owed[w] THEN 1 ELSE 0
Reported(c)      == SumFunction([w \in Workers |-> Told(w, c)])
Outcomes(status) == Cardinality({j \in Jobs : job[j].status = status})
AllRuns          == SumFunction(runs)

Reports(counter, happened) == /\ Reported(counter) <= happened
                              /\ faults = 0 => Reported(counter) = happened

\* The workers never report more than happened: no run, completion or failure is
\* counted twice, on no path through the recovery and the fallback.  And as long as
\* nothing is lost with a process or an exception, they report all of it.
TelemetryIsHonest ==
    /\ Reports("started", AllRuns)
    /\ Reports("completed", Outcomes("completed"))
    /\ Reports("failed", Outcomes("failed"))

=============================================================================
