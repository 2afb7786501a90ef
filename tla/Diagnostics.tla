---------------------------- MODULE Diagnostics ----------------------------
(***************************************************************************)
(* GET /diagnostics and its cache of queue figures                         *)
(* (app/api/v1/diagnostics.py), beside a queue that moves.  The handler is *)
(* a plain def, so requests are threads of one process; the cache is read  *)
(* and written under a lock, but not computed under it.  The figures come  *)
(* from two queries, each of which sees what is committed when it starts.  *)
(***************************************************************************)
EXTENDS Integers, FiniteSets, FiniteSetsExt

CONSTANTS
    Readers,      \* concurrent GET /diagnostics requests
    Jobs,         \* rows of simulations
    TTL,          \* QUEUE_CACHE_TTL_SECONDS
    DepthLimit,   \* the depth that makes the queue unhealthy
    AgeLimit,     \* the oldest pending age that does
    MaxClock      \* bound: the clock

\* The settings are constants of the handler; a table has finitely many rows.
ASSUME DiagnosticsAssumption ==
    TTL \in Nat \ {0} /\ AgeLimit \in Nat /\ IsFiniteSet(Jobs)

NoAge == -1     \* None

VARIABLES
    clock,
    job,       \* status and timestamps of each row
    cache,     \* _queue_cached_data and _queue_cache_time
    reader,    \* local state of each request
    answer     \* history: what the answer of the last step said, if it gave one

diagnosticsVars == <<clock, job, cache, reader, answer>>

NoJob    == [status |-> "absent", created |-> 0]
Gone     == [status |-> "done", created |-> 0]
Kinds    == {"pending", "running"}
\* The two counts, and the age of the oldest pending row; the age of the oldest
\* running one is computed alike and nothing is decided on it.
NoData   == [count |-> [s \in Kinds |-> 0], oldest |-> NoAge]

With(status) == {j \in Jobs : job[j].status = status}
Live == UNION {With(status) : status \in Kinds}

\* What a request knows so far.  asked is its "now", utc its "now_utc"; history
\* are since, when its first query ran, and steady, the rows that were live at
\* that time and at the second query.
Fresh == [pc |-> "idle", asked |-> 0, utc |-> 0, data |-> NoData,
          since |-> 0, steady |-> {}]

NoAnswer == [lag |-> 0, healthy |-> TRUE, overdue |-> FALSE]
Silent   == answer' = NoAnswer

-----------------------------------------------------------------------------
(* The queue: the transitions of JobLifecycle, with their timestamps.      *)

Submit(j) == /\ job[j].status = "absent"
             /\ job' = [job EXCEPT ![j] = [NoJob EXCEPT !.status = "pending", !.created = clock]]
             /\ Silent /\ UNCHANGED <<clock, cache, reader>>

\* The time of a row that is no longer pending is not kept: nothing reads it.
StartJob(j) == /\ job[j].status = "pending"
            /\ job' = [job EXCEPT ![j] = [NoJob EXCEPT !.status = "running"]]
            /\ Silent /\ UNCHANGED <<clock, cache, reader>>

\* Completed, failed, expired or deleted.
Leave(j) == /\ job[j].status \in {"pending", "running"}
            /\ job' = [job EXCEPT ![j] = Gone]
            /\ Silent /\ UNCHANGED <<clock, cache, reader>>

ClockTick == /\ clock < MaxClock
        /\ clock' = clock + 1
        /\ Silent /\ UNCHANGED <<job, cache, reader>>

-----------------------------------------------------------------------------
(* get_diagnostics.                                                        *)

Depth(data) == data.count["pending"] + data.count["running"]

\* queue_healthy.
Healthy(data) ==
    /\ Depth(data) < DepthLimit
    /\ data.oldest = NoAge \/ data.oldest < AgeLimit

\* A job that has waited so long that no answer may overlook it.
Overdue(asked) == \E j \in With("pending") : job[j].created + AgeLimit + TTL <= asked

Respond(r, from) ==
    /\ answer' = [lag |-> reader[r].asked - from.since, healthy |-> Healthy(from.data),
                  overdue |-> Overdue(reader[r].asked)]
    /\ reader' = [reader EXCEPT ![r] = Fresh]

\* time.time(), before the lock is taken.
Ask(r) == /\ reader[r].pc = "idle"
          /\ reader' = [reader EXCEPT ![r] = [Fresh EXCEPT !.pc = "check", !.asked = clock]]
          /\ Silent /\ UNCHANGED <<clock, job, cache>>

\* Mutant: while one request computes the figures, the others take the old ones.
CachedWhileFilled(r) == \/ reader[r].asked - cache.time < TTL
                        \/ \E q \in Readers : reader[q].pc \in {"first", "second", "store"}

Cached(r) == reader[r].asked - cache.time < TTL

Hit(r) == /\ reader[r].pc = "check"
          /\ Cached(r)
          /\ Respond(r, cache)
          /\ UNCHANGED <<clock, job, cache>>

\* The lock is released, and now_utc taken.
Miss(r) == /\ reader[r].pc = "check"
           /\ ~Cached(r)
           /\ reader' = [reader EXCEPT ![r].pc = "first", ![r].utc = clock]
           /\ Silent /\ UNCHANGED <<clock, job, cache>>

\* The age of the oldest row; a row may be younger than now_utc.
Age(utc, times) == IF times = {} THEN NoAge ELSE Max({0, utc - Min(times)})

\* What a query finds: the number of rows, and the age of the oldest.
Queried(r, status) ==
    [count  |-> [reader[r].data.count EXCEPT ![status] = Cardinality(With(status))],
     oldest |-> IF status = "pending"
                  THEN Age(reader[r].utc, {job[j].created : j \in With("pending")})
                  ELSE reader[r].data.oldest]

\* Mutant: the running rows are counted first.
QueryOrderReversed == <<"running", "pending">>

QueryOrder == <<"pending", "running">>

FirstQuery(r) ==
    /\ reader[r].pc = "first"
    /\ reader' = [reader EXCEPT ![r].pc = "second", ![r].data = Queried(r, QueryOrder[1]),
                                ![r].utc = 0, ![r].since = clock, ![r].steady = Live]
    /\ Silent /\ UNCHANGED <<clock, job, cache>>

SecondQuery(r) ==
    /\ reader[r].pc = "second"
    /\ reader' = [reader EXCEPT ![r].pc = "store", ![r].data = Queried(r, QueryOrder[2]),
                                ![r].steady = @ \intersect Live]
    /\ Silent /\ UNCHANGED <<clock, job, cache>>

\* Mutant: the entry is stamped with the time it is stored at.
EntryStampedLate(r) == [time |-> clock, data |-> reader[r].data, since |-> reader[r].since]

\* The entry is stamped with the time its request began.
Entry(r) == [time |-> reader[r].asked, data |-> reader[r].data, since |-> reader[r].since]

\* Under the lock again, whatever others have stored meanwhile.
Store(r) ==
    /\ reader[r].pc = "store"
    /\ cache' = Entry(r)
    /\ Respond(r, reader[r])
    /\ UNCHANGED <<clock, job>>

-----------------------------------------------------------------------------
\* The cache starts with no data and time 0, which is long ago.
DiagnosticsInit ==
    /\ clock  = TTL
    /\ job    = [j \in Jobs |-> NoJob]
    /\ cache  = [time |-> 0, data |-> NoData, since |-> 0]
    /\ reader = [r \in Readers |-> Fresh]
    /\ answer = NoAnswer

ReaderStep(r) == \/ Ask(r) \/ Hit(r) \/ Miss(r)
                 \/ FirstQuery(r) \/ SecondQuery(r) \/ Store(r)

DiagnosticsNext == \/ \E r \in Readers : ReaderStep(r)
        \/ \E j \in Jobs : Submit(j) \/ StartJob(j) \/ Leave(j)
        \/ ClockTick

DiagnosticsSpec == DiagnosticsInit /\ [][DiagnosticsNext]_diagnosticsVars

-----------------------------------------------------------------------------
\* Figures are never older than the TTL when a request that gets them comes in,
\* however slow the request that computed them was, and although a slow one may
\* store its figures over newer ones.
AnswersAreRecent == answer.lag < TTL

\* The depth never misses a job: one that waits or runs during both queries is
\* counted, although it may be claimed in between.
NoLiveJobIsMissed ==
    \A r \in Readers : reader[r].pc = "store" => Depth(reader[r].data) >= Cardinality(reader[r].steady)

\* The alarm is late by the TTL at most: an answer never says healthy while a job
\* is pending that was overdue a TTL before the request came in.
BacklogRaisesAlarm == answer.overdue => ~answer.healthy

=============================================================================
