# BehaviorSim API: specifications and proofs

TLA+ modules for the parts of the BehaviorSim API that keep state and share it
between processes, threads or requests: the durable job queue, its workers and how
they are stopped, synchronous execution, quota accounting, retention, accounts with
their sessions and API keys, the rate limiter, the row locks of all transactions
together, the middlewares with the request counters, the cache of `/diagnostics`,
and the paged listing. TLC checks each of them on small instances. TLAPS proves
the safety properties, and two refinements, for every number of processes, users,
jobs, keys and months (section 4). All paths below are relative to `src/`.

## 1. Inventory

| Component | State | Operations | Where |
|---|---|---|---|
| Job queue and workers | rows of `simulations`, row locks on `simulations` and `users` | `claim_next_job`, `get_user_concurrency_capacity`, `process_claimed_job`, `SimulationWorker.run_once` | `app/services/worker.py`, `app/worker.py` |
| Job lifecycle | `simulations.status` | `create_simulation_job`, `transition_job_status`, `execute_simulation_job` | `app/services/simulation_job.py` |
| Submission and deletion | none of its own | `run_simulation` (asynchronous and synchronous), `delete_simulation` | `app/api/v1/simulations.py` |
| Concurrency limiter | `_active_counts`, in memory | `acquire`, `release` | `app/core/concurrency.py` |
| Usage and quota | `monthly_usage`, `usage_events` | `get_or_create_monthly_usage`, `reserve_usage`, `refund_usage`, `record_usage_result`, `get_user_usage_summary` | `app/services/usage.py` |
| Retention | deletes from `simulations` | `cleanup_expired_simulations` and its batches | `app/services/retention.py`, `app/cleanup.py` |
| Accounts, sessions, plans | `users`, `auth_identities`, `user_sessions`, `plans` | `resolve_or_create_user_identity`, `create_user_session`, `validate_session_token`, logout, `get_or_create_free_plan` | `app/auth/service.py`, `app/api/v1/auth.py`, `app/services/plan.py` |
| API keys | `api_keys` | `create_api_key`, `validate_api_key`, `revoke_api_key` | `app/services/api_key.py` |
| Rate limiter | `_records`, `_sweep_counter`, in memory | `check_rate_limit`, its sweep | `app/core/rate_limit.py` |
| Worker loop and its end | `_stop_requested`, a thread of the API or a process | `request_stop`, `run`, `run_once`, the lifespan that joins the thread | `app/worker.py`, `app/main.py` |
| Row locks | PostgreSQL's, on `simulations`, `users`, `monthly_usage` | every transaction above | all services |
| Diagnostics cache | `_queue_cached_data`, `_queue_cache_time` | `get_cached_queue_metrics`, `get_diagnostics` | `app/api/v1/diagnostics.py` |
| Operational metrics | counters in memory, one object in each process | `record_*`, `get_summary` | `app/core/metrics.py` |
| Middlewares, error handlers | the request id, in a context variable and on the request | `CorrelationIdMiddleware`, `RequestBodyLimitMiddleware`, exception handlers | `app/core/middleware.py`, `app/core/errors.py`, `app/main.py` |
| Listing | none; the client holds a page number | `list_simulations` | `app/api/v1/simulations.py` |
| The rest | none | engine adapter, OAuth clients, hashing, configuration, migrations | see `PROJECT.json` |

How they interact. `POST /simulations` charges the user (`reserve_usage`, one
transaction) and then creates a row (`create_simulation_job`, another). By
default the handler answers 202, and a worker process polls for the row, claims
it, runs the engine outside any transaction, reads the row back and commits the
result; failures refund. With `sync=true` the handler takes a slot of the
in-memory limiter and executes its own row, which the workers can see as well.
`DELETE /simulations/{id}` and the cleanup remove rows under the workers' feet.
Everything meets in PostgreSQL: there are no messages, only rows, row locks and
commits.

What is hard:

- **Snapshots outlive locks.** Sessions are opened with `autoflush=False` and
  `expire_on_commit=False` (`app/db/session.py:41`), and `refund_usage` commits.
  Inside the candidate loop of `claim_next_job` that commit drops the
  `FOR UPDATE SKIP LOCKED` locks of the candidates still in the list, and the
  loop goes on with what it read before.
- **Reads without locks that are decided on later**: the ownership check after
  the engine run, the guard of DELETE, `transition_job_status`.
- **One logical operation, several transactions**: reserve and create, refund
  and delete, refund and event, refund and status.
- **Time**: leases that nobody renews (`update_job_heartbeat` has no caller),
  pending timeouts, a change of month between a charge and its refund.
- **Crashes, failed commits, commits that took effect although they were
  reported failed, deadlock victims.**
- **Figures from several moments**: two counts of one queue, a total and a page, a
  cache that is filled outside its lock, counters that follow the commit they count.
- **Lock orders that nobody wrote down**: the candidate loop collects `users` rows
  while it holds job rows, and refunds in between.
- **Counted caps**: running jobs, API keys, slots and quotas, each counted first
  and used later.

What makes each component correct is stated as properties in its module. The
hazards, each at its line and with the properties that would catch it, are in
`PROJECT.json`.

## 2. Modules

| Module | What it is |
|---|---|
| `JobQueue` | the queue: workers, asynchronous submission, deletion, row locks, quota counter, faults, time |
| `JobLifecycle` | the abstract specification: the declared transitions, and what a job costs along them |
| `JobQueueRefinement` | the mapping from the first to the second |
| `JobQueue_proofs` | theorems about `JobQueue`, for any number of workers |
| `JobQueueSolo_proofs` | theorems about `JobQueue` and `WorkerTelemetry` with one worker, and that the queue implements `JobLifecycle` |
| `SyncExecution` | extends `JobQueue`: synchronous requests and the limiter |
| `Retention` | extends `JobQueue`: cleanups |
| `UsageLedger` | `monthly_usage` and `usage_events` in detail |
| `Accounts` | sign-in, plan seeding, sessions, API keys |
| `Accounts_proofs` | theorems about `Accounts` |
| `RateLimiter` | the sliding window, with a clock that can be set back |
| `WorkerTelemetry` | extends `JobQueue`: the counters each worker keeps of itself |
| `WorkerShutdown` | extends `JobQueue`: the loop of a worker, how it is stopped and cut off |
| `QueueExtensions_proofs` | theorems about `SyncExecution`, `Retention` and `WorkerShutdown` |
| `QuotaAccount` | the abstract specification of quota accounting: a charge and its return |
| `UsageLedgerRefinement` | the mapping from `UsageLedger` to it |
| `UsageLedger_proofs` | theorems about `UsageLedger`, and that it implements `QuotaAccount` |
| `RowLocks` | the locks of all transactions on three tables, without the rows' contents |
| `RequestPipeline` | a request on its way through the middlewares, and the request counters |
| `Diagnostics` | the cache of queue figures beside a queue that moves |
| `Listing` | a client that pages through its jobs while they change |
| `Listing_proofs` | theorems about `Listing` |
| `Periphery_proofs` | theorems about `RowLocks`, `RequestPipeline`, `Diagnostics` and `RateLimiter` |
| `Induction_proofs` | induction over numbers and finite sets, and how a sum changes with one summand |
| `MC*` | instances of these for TLC; `MCPeriphery` composes `RateLimiter`, `RowLocks`, `RequestPipeline`, `Diagnostics` and `Listing` |

### How the modules correspond to the code

**JobQueue.** `job` is the table `simulations`. Two booleans stand for the
timestamps: `lapsed` for `heartbeat_at < now - lease` and `overdue` for
`created_at < now - max_pending_seconds`. Jobs are numbered in the order their
`INSERT`s commit. `created_at` is drawn before that
(`app/services/simulation_job.py:163`), so the order of the candidate query is a
constant of its own, `CreatedAt`, and `Older` compares by it: any order of the two is possible.
`rowLock` and `userLock` are PostgreSQL's row locks, which a transaction
drops at its end. `used` is `request_count` of the month. One action is one
statement or one commit, whichever is the smallest step at which another
process can come in between:

| Code | Actions |
|---|---|
| candidate query (`worker.py:103`) | `Select` |
| exhausted or expired candidate (`:134`, `:196`), with the commit of `refund_usage` | `FailCandidate` |
| `get_user_concurrency_capacity` (`:47`) | `CheckCapacity` |
| claim or recovery (`:170`, `:235`) | `Claim`, `CandidateGone` when the row is gone |
| engine, read back (`:287`) | `ReadBack` |
| outcome (`:341`, `:373`, `:403`, `:412`) | `Fail`, `Complete`, `PersistFails`, `Fallback` |
| exception handler of `run_once`, death of the process | `Abort`, `DeadlockVictim` |
| `POST /simulations` | `Reserve`, `Create` (the commit), `Created` or `RefundReservation` (the refresh finds the row or not), `CreateFails`, `Abandon` |
| `DELETE /simulations/{id}` | `ReadForDelete`, `RefundDeleted`, `DeleteRow`, `AbandonDelete` |

A worker's `todo` holds the snapshots of the candidates it has not dealt with;
all it writes is computed from them. Since the loop's session does not flush
before `refund_usage` commits, the failed status and the refund are one commit.
The events of `usage_events` and the lock on the `monthly_usage` row are left to
`UsageLedger`. After a claim, the job is processed in a session of its own, so the row is
really read again. `CheckCapacity` reads `users.is_active` as well: nothing in the program
changes that column, so an operator may for the users in `Suspendable`, at any time, and
`Activity` is what a worker may read. A failed `INSERT` leaves its session in a failed
transaction, so the refund the handler attempts raises (`CreateFails`): the reservation
stays. Only the refresh of a row that was deleted at once leads to a refund.

**SyncExecution.** `caller` is a `run_simulation` handler in synchronous mode,
`slots` the limiter. The handler is a plain `def`, so FastAPI runs it in a
thread and callers interleave. `mem` is the status the caller's session
remembers, on which `transition_job_status` decides; the UPDATE behind it is
conditional on nothing. `transition_job_status` never sets `heartbeat_at`, and
the candidate query takes a missing heartbeat for a lapsed one, so
`SetStatus` makes such a row `lapsed` at once. Every commit is followed by a refresh,
a step of its own (`ReadNew`, `Refresh`, `ReadSaved`) that raises if a DELETE came in
between; the history variable `withdrawn` remembers which jobs a DELETE has refunded.

**Retention.** A cleanup fixes its cutoff (`expired` at that moment), then
`SelectBatch` locks ids, `DeleteBatch` deletes by id and commits. The retention
period (a day at least) is longer than the pending limit, hence the guard of
`Expire`. `BatchFails` is a batch that raises, also after its commit took effect;
`CleanupDies` is the process. The history variable `lost` counts the rows that went
without anybody being left to report them.

**UsageLedger.** A client is a session between its reservation and its outcome,
or in `get_user_usage_summary`. Row creation is three steps (`SelectNone`,
`Insert`, and back to `SelectFound` on a unique violation), and a row just inserted is not
locked. The period is computed when the reservation begins and again when the
refund is issued. The history variable `charge` says where the quota of a
request is. A request is not settled by the session that reserved only: a worker, its
fallback after a failed commit (`worker.py:412`), a second worker, the synchronous
request and DELETE each may refund it and add an event. `TakeOver` is any of them
coming to it, first or again, up to `MaxSettlers` times; `given` counts the refunds of a
request and `open` the sessions that took it on and have not refunded it.

**Accounts.** The handlers are coroutines that await nothing between their
database calls, so within one process they do not interleave; each actor is a
request in a process of its own. An account is named by its unique email,
an identity stands for a (provider, subject) pair. Unique constraints make
`SeedPlan` and `CreateAccount` fail. `_api_key_lock` serialises within one
process only and is therefore not modelled.

**RateLimiter.** The dependency is a coroutine without an await, so one check is
one action. Time is an integer number of ticks, several to a second, because
`Retry-After` is truncated to seconds. A missing key and an empty list are the
same thing to the code and to the model. The code reads `time.time()` (`now`), which
`StepBack` sets back; promises are measured by `elapsed`, which only goes forward.

**WorkerTelemetry.** `Work` is a step of a `JobQueue` worker together with the
counters it will add to (`owed`); `Record` adds them, in a step of its own, as the
calls follow the commit. In between the process may die, which also resets its
counters, or an exception may skip the calls.

**WorkerShutdown.** `loop` is where a worker is in `SimulationWorker.run`: at the head
of the loop, past the test of the flag, in an iteration, ended by itself, or gone.
`Poll` tests `_stop_requested`, `Find` and `FindNothing` are the candidate query, and
`Iterate` is any further step of `JobQueue`. A `Hosted` worker is the daemon thread
that `RUN_WORKER_THREAD` starts in the API process: `Exit` is the end of that
process, after a join that may have timed out, wherever the thread is.

**RowLocks.** Each transaction is the sequence of locks its statements take, in the
order in which the session issues them; `todo` is what is left of it. A worker keeps
its locks from one candidate to the next until something commits. An `INSERT` with a
foreign key to `users` takes that row `FOR KEY SHARE`, which conflicts with the
`FOR UPDATE` of the capacity check and of key creation only. `Blockers` says who is in the way of whose
next statement and `Victim` fails a statement in a circle. The contents of rows are
left out: any unlocked row may be a candidate, any test may come out either way.

**RequestPipeline.** `Stack` is the order the middlewares of `create_app` run in (the
one added last is outermost, which is Starlette's CORS layer, added when `CORS_ORIGINS`
is set), `request[r].pos` where a request is in it. `Cors` answers preflights itself,
outside the correlation middleware. `SecurityHeadersMiddleware` is left out: it passes
everything on and adds headers that nothing looks at. The two
halves of `record_request` are two steps under the lock, so that a reader without the
lock would see the difference. An exception nobody handles passes the middlewares as
an exception and is answered outside them all.

**Diagnostics.** `GET /diagnostics` is a plain `def`, so each request is a thread: it
takes its time (`Ask`), tests the cache (`Hit`, `Miss`), runs two queries
that each see their own moment, and stores what it found under the time it began.
`clock` only goes forward: if the system clock is set back, an entry stays in the cache
for as much longer, and the promises below are put off by that.

**Listing.** Each page is a request of its own with two statements, `Count` and
`Page`. `created_at` is drawn before the commit (`Flush`, `CommitJob`), so a row may turn
up behind younger ones. `stayed`, `arrivals` and `departures` are history variables of the walk.

**UsageLedgerRefinement.** The balance of a user in a month is the row of that month,
or nothing while there is no row, and a request is on the account from the moment it is charged.

## 3. Runs

The passing runs fire every action of every module between them.

| Run | Instance | Checks |
|---|---|---|
| `JobQueue_workers` | 1 user, who may be suspended, 2 workers, a submitter, a deleter, 2 jobs created in the reverse order, 2 attempts, cap 1, 1 fault, ambiguous commits | `TypeOK`, `FailuresAreRefunded`, `RunningWithinPlan` |
| `JobQueue_single` | 1 user, 1 worker with its counters, a submitter, 3 jobs (the second to commit created first), 2 attempts, cap 1, candidate limit 3, 2 faults | `RefundMatchesOutcome`, `QuotaAccounted`, `AttemptsCountRuns`, `TelemetryIsHonest`, `ClaimsOnlyEligible`, `OldestFirst`, `FollowsLifecycle` |
| `WorkerShutdown` | a worker thread of the API and a worker process, a backlog of 2 jobs: the older of a user who may be suspended, the younger of another; candidate limit 1, fairness | `EndsWithNothingLeft`, `JobsSettle` |
| `SyncExecution` | 2 users, 2 callers, 1 worker, a deleter, 1 job, 1 fault, ambiguous commits | `LimiterIsExact`, `SyncOutcomesBalance` |
| `UsageLedger` | 1 user, 2 clients, 2 requests, each settled up to twice, 2 months, 1 crash, fairness | `TypeOK`, `WithinMonthlyPlan`, `CountersAreExact`, `TrailIsHonest`, `ReservationsAreSettled`, `ImplementsAccount` |
| `Retention` | 1 user, 2 workers, 2 cleanups with batches of 1, 2 jobs, 1 fault, ambiguous commits | `OnlySettledJobsSwept`, `SweptFailuresWereRefunded`, `DeletionsAreReported` |
| `Accounts` | 2 emails, 2 identities, 2 callbacks, 2 clients, key cap 1, 3 keys, 1 session, 1 fault | `KeysWithinPlan`, `SignInReachesOwnAccount`, `AccountsAreComplete`, `RevocationIsFinal` |
| `Periphery` | see below | 13 properties |

`JobQueue_single` is an instance of `WorkerTelemetry`: its steps are those of the queue
and its counters change nothing else, so the properties of the queue are
checked in it as well. `JobsSettle` in `WorkerShutdown` is about workers that may be
asked to stop, end, or be cut off at any moment as long as one of them goes on; the
other faults of the queue (failed commits, ambiguous ones) are in the safety runs. It
starts from a backlog (`BacklogSpec`), a state the queue reaches by two submissions, and
it has the escape that the code needs: lapsed jobs of suspended users, if there are as
many as the candidate query returns, hold back every younger job while the suspension
lasts (`CrowdedOut`).

`Periphery` has the components that share no state with each other. Their steps
commute and no property is about two of them, so the initial state picks the one that
moves (`scene`), and the states of the components add up instead of multiplying. Deadlock is
checked in each: `Rest` says where a behaviour may stop.

| Scene | Instance | Properties |
|---|---|---|
| `limiter` | `RateLimiter`: 2 users, limit 2, window of 2 s and 4 ticks, sweep every 3 calls, 6 ticks, clock set back by 2 | `WindowNeverExceeded`, `RetryAfterIsEnough`, `LockoutIsBounded` |
| `pipeline` | `RequestPipeline`: 2 requests, any of nine kinds, and a reader | `SummaryIsConsistent`, `HandledAnswersAreCounted`, `AnswersNameTheirRequest` |
| `figures` | `Diagnostics`: 2 readers, a job, TTL 2, age limit 1, 5 ticks | `AnswersAreRecent`, `NoLiveJobIsMissed`, `BacklogRaisesAlarm` |
| `pages` | `Listing`: 3 jobs, pages of 1, a filter for running jobs, 3 values of `created_at` | `EachChangeHidesOneJob`, `OnlyArrivalsRepeat` |
| `locks` | `RowLocks`: 2 users with a job each, 2 workers, a request or cleanup of any kind | `OnlyScansDeadlock`, `NoLockIsLeftBehind` |

What they show, in words: a summary of the request counters is of one moment;
an answer given inside the correlation middleware is counted once and carries the id of
its request, and no other is counted; figures about the queue are
younger than the TTL however slow the request that computed them, and an overdue job
is noticed within it; someone who pages through jobs that change misses at most one
for each that came or went; only the candidate loop of a worker can close a circle of
waiting transactions, and nobody keeps a lock without something left to do.

Four runs show a disagreement between the code and what the repository says of
it (`findings` in `PROJECT.json`):

| Run | What happens |
|---|---|
| `JobQueue_two_terminal` | Worker A locks candidates 1 and 2 and fails 1 (expired). The commit of the refund unlocks 2; worker B claims and completes it; A, whose copy of 2 says pending, claims it again: completed becomes running. |
| `JobQueue_delete` | DELETE reads a pending row; a worker claims it; DELETE refunds and deletes it while the engine runs. |
| `SyncExecution_once` | A synchronous request sets its job running without a heartbeat; a polling worker takes it for stuck and executes it too. |
| `UsageLedger_rollover` | A simulation charged in one month fails in the next; the refund goes to the new month. |

Other places where the code does less than the repository says of it are in the
models too; the properties are phrased around them, and the comments say so:

- `create_simulation_job` commits and refreshes in one `try`
  (`app/services/simulation_job.py:191`): if DELETE removes and refunds the row in
  between, the handler refunds it again (`JobQueue!RefundReservation`,
  `SyncExecution!ReadNew`, against `README.md:597`). The refresh after a completed
  execution (`:120`) can raise in the same way, and a completed job is refunded
  (`SyncExecution!ReadSaved`).
- After a failed `INSERT` the session is not rolled back, so the handler's refund raises
  (`app/api/v1/simulations.py:257`), although the exception under way says "Failed to
  persist simulation run. Quota has been refunded." (`app/services/simulation_job.py:195`,
  `app/api/v1/simulations.py:275`): `CreateFails`, counted in `leaked`.
- Jobs start "FIFO" (`app/services/worker.py:107`) by `created_at`, which two requests that
  overlap may draw in the other order than they commit. Such a pair can even let a third
  job past: a scan finds no room for the one that is older and was committed later, fails
  the other, and gives the third the room that this makes. `OldestFirst` is therefore
  about jobs that were created and committed before another, with none of their user
  before them that was committed first and created later (`Precedes`).
- A candidate of a suspended user is passed over, and one that is running with a lapsed
  lease is failed by nobody. Ten of them fill the candidate query
  (`app/services/worker.py:124`) and hold back every younger job of every user:
  `CrowdedOut`, the escape of `JobsSettle`.
- A request may be settled more than once: a worker that lost the answer to its commit
  falls back to failing the job and refunding it (`app/services/worker.py:412`), although it
  is completed, or another worker's by now. So its trail can hold several outcomes, and it
  can be refunded more than once. `TrailIsHonest` is what is left: a failure for each refund.
- A cleanup that dies, or whose commit takes effect although it raises
  (`app/services/retention.py:322`), reports fewer rows than are gone (`Retention!lost`).
- Synchronous executions are not counted with the running rows of the workers
  (`app/core/concurrency.py:39`), so together they can exceed the cap of `README.md:595`.
- The lifespan joins the worker thread for three seconds only (`app/main.py:73`), against
  "finishing the current job" (`app/worker.py:38`): `WorkerShutdown!Exit`.
- A worker waits for a `users` row another one holds (`app/services/worker.py:59`), against
  "never block each other" (`:96`): `RowLocks!Blockers`.
- The depth of the queue may count a job twice, as pending and as running
  (`app/api/v1/diagnostics.py:65`); it never misses one (`NoLiveJobIsMissed`).
- Requests that arrive while the cache is being filled query the database too
  (`app/api/v1/diagnostics.py:47`, against `docs/capacity.md:302`).
- An exception nobody handles is answered outside the middlewares: it is missing from
  the request counters and its answer has no `X-Request-ID`
  (`app/core/middleware.py:60`, `app/core/errors.py:112`, against
  `docs/operations.md:140` and `README.md:600`).
- A preflight is answered by the CORS layer, which is outside the correlation middleware
  (`app/main.py:102`): it is not counted and has no `X-Request-ID`, whatever it carried
  (`RequestPipeline!Cors`, against `README.md:600`, and the requests of
  `docs/operations.md:140`). `HandledAnswersAreCounted` and `AnswersNameTheirRequest` are
  about what is answered inside.

The first of the four runs explains why the exact properties of `JobQueue_single` are stated for
one scanning worker without deletions: with two they do not hold. They are proved under
that hypothesis (`JobQueueSolo_proofs`), and the bounds that hold for any number of workers
(`JobQueue_workers`) are proved without it (`JobQueue_proofs`).

### Bounds

`MaxJobs`, `MaxFaults`, `MaxRequests`, `MaxSettlers`, `MaxMonths`, `MaxCrashes`, `MaxKeys`,
`MaxSessions`, `MaxBegins`, `MaxBack`, `MaxTime`, `MaxClock` and `MaxMoment` only limit how long the system runs; each is a guard of
one action. Asynchronous and synchronous requests share the ids up to `MaxJobs`: a request
begins when there is one left for it (`SyncExecution!RoomForAll`). Two workers and two jobs are enough for a candidate list to go
stale, two claims to count at once and two transactions to deadlock; three jobs for two
that are out of order and a third behind them, all on one list, which is where the third may
get past one of them; two jobs and a list of one for the limit to cut it off; two attempts for a
recovery and then for exhaustion; one or two faults for a crash between any two
commits, and for a second one during the recovery. One job is enough for `SyncExecution`,
where two callers compete for the quota, a worker and a DELETE for the row. A suspended user's
job and a list of one stand for ten jobs and a list of ten. The usage run has sizes that fit
once, fit with others, and exceed the per-request limit. Six ticks are one and a half windows of the
limiter, so that what it remembers leaves the window while newer requests are still in it, with
sweeps before and after. Two requests are enough for one to be
counted while the answer of another is on its way and a reader reads the summary. Five
ticks with a TTL of 2 let a slow reader store figures after a faster one has, and a later
one be answered from them. Three pages of one job let a job move past the client in either
direction. In `locks` every actor begins one
scan or transaction; a circle needs no more, as locks go with the transaction. Symmetry is
used in runs of invariants and in `Accounts`, whose property `RevocationIsFinal` is an
action property that names no model value; never with liveness. In `Periphery` only the
users of the limiter are symmetric. The accounts run was also carried out
with two sessions (and two keys), the listing with four jobs and pages of two, the
diagnostics with two jobs, the pipeline with three requests, the invariants of the
ledger with three requests, and `JobQueue_single` with a candidate limit of 2, where the list is cut off: they hold
there too, but take longer.

### Fairness

`JobQueue!FairSpec`: workers keep polling (`SimulationWorker.run` loops whatever
`run_once` returns or raises), requests run to completion, time passes, and PostgreSQL resolves
deadlocks (`WF` on `DeadlockVictim`). Worker steps are strongly fair: a
statement that waits for a row lock stands in PostgreSQL's queue for it, so it
is not passed over for ever although the lock is free only now and then.
Nothing is assumed of faults or of new requests. `WorkerShutdown!ShutdownFairness`
says the same of the loop: its own steps weakly fair (nothing can disable them), its
iterations and its candidate query strongly, for the sake of the locks they wait for;
and a process that is to exit does. That one worker is never stopped is the guard of
`RequestStop`. `UsageLedger!FairSpec` is the same assumption for a session that does
not die.

## 4. Proofs

Every theorem holds for every value of the constants that the named assumptions
allow. The bounds of the runs are constants, used for finiteness only.

### The queue with any number of workers: `JobQueue_proofs`

- `TypeCorrect`: `Spec => []TypeOK`;
- `ConcurrencySafe`: `Spec => []RunningWithinPlan`;
- `FailuresRefunded`: `Spec => []FailuresAreRefunded`;
- `AttemptsBounded`: no row's `attempts` ever exceeds `MaxAttempts`. No run states this one;
  `AttemptsCountRuns` contains it and is false for several workers.

The first two follow from one inductive invariant, `IInv`. `RunningWithinPlan` is not
inductive: when a worker claims, the count it made is several steps old. What
carries it is `ClaimHasRoom`: a worker at its claim holds the lock on the
owner's `users` row, and there is still room, because only a claim makes a row
running and every other claim for that user needs the same lock. To know that
the row claimed is the row counted, `Ownership` ties the owner in every snapshot,
also a stale one, to the owner of the row as long as the row exists
(`SnapshotsAgree`, `OneSnapshotPerRow`), although another worker or a deletion
may have changed everything else about it. Locks lost to the early commit do
not matter to this argument, which is why the cap holds although exclusive
claiming does not. The proof has one step per action; counting is done with the
lemmas on finite sets of `FiniteSetTheorems`.

`FailuresRefunded` rests on status and refund being one commit wherever a worker fails a
job, whoever else has failed or refunded it before; no other step makes a row failed, and
the refunds of a job only become more (`RefundsOnlyRise`).

`AttemptsBounded` has an invariant of its own. A claim does not add to the row: it writes
the attempts of its snapshot and one more, over whatever another worker has written
since. So `CandidatesHaveAttempts` is about the snapshots: one that got through to its
claim has an attempt left, and one taken of a running row is not of a row that waits
(`NobodyWaitsAgain`: only an insert makes a row pending), which the claim would leave
pending with its attempts used up. Two workers can thus run a job more often than
`attempts` says, but a row never claims more attempts than it was given.

`TypeOK` is in two parts: `ShapeOK`, which the modules that extend `JobQueue` keep as
well, and who may hold a row lock, which is one thing in `JobQueue` and another where
cleanups lock rows too.

### The queue with one worker: `JobQueueSolo_proofs`

The hypothesis is `Solo`: at most one worker, no deletions, and a commit that is
reported failed was not made. Requests, jobs, users, crashes, deadlocks and failed
commits are any number.

- `RefundsMatch`: `[]RefundMatchesOutcome`; `AttemptsAreRuns`: `[]AttemptsCountRuns`;
- `CounterIsExact`: `[]QuotaAccounted`;
- `ClaimsAreEligible`: `ClaimsOnlyEligible`; `StartsAreInOrder`: `OldestFirst`;
- `QueueFollowsLifecycle`: `Spec => FollowsLifecycle`, the refinement of `JobLifecycle`;
- `SettledIsFinal`: `TerminalIsFinal`, the very property that `JobQueue_two_terminal`
  refutes with two workers;
- `ReportsAreHonest`: `TelemetrySpec => []TelemetryIsHonest`.

The worker drops the locks of its candidates in the middle of its list here too. What
saves it is `ListsAreFresh`: status and attempts in a snapshot are those of the row as
long as nobody else writes them, and only a worker does. With it every write a worker
makes moves the row one step along its lifecycle, and touches no other (`RowsStep`: all
rows are kept, or one is submitted, started, retried, completed or failed). The
properties are then arithmetic on that step. `StartsAreInOrder` needs more: the older
pending jobs of a candidate's owner that precede it are on the list before it, or were
passed over because the owner has no room (`ScansAreInOrder`). The scan can only make room
again by failing a stuck job further on, and none of its owner has overtaken one that
precedes it and is still pending (`NoneOvertaken`). `CounterIsExact` counts finite sets
that change by one element, with `IdsSuffice` for the request that creates a row.
`ReportsAreHonest` counts what a worker owes as told (`Told`): then the commit changes what
happened and what is told alike (`Happens`, `Tells`), recording changes neither, and what
dies with a process leaves a fault behind (`Forgets`).

### What extends the queue: `QueueExtensions_proofs`

About `SyncExecution`:

- `SlotsAreExact`: `[]LimiterIsExact`. `slots[u]` is the number of requests of `u` under
  way (`LimiterOK`), since each path through the handler moves a request on or ends it
  with the release (`GoesOn`).
- `SyncJobsBalance`: `[]SyncOutcomesBalance`, if `Deleters = {}` (with a DELETE request it
  is model-checked, for the jobs that DELETE has not refunded), with any number of workers and with ambiguous commits.
  A worker that touches a row leaves its name or its age on it, so a row that shows
  neither (`Mine`) is as its request left it; `Stage` says how that is at each place of the
  handler, and `SnapshotsBalance` that a list read earlier cannot hide a worker. A row that
  was inserted is still there when its request reads it back (`AnsweredRowsStay`), which is
  where the hypothesis is used.

`RunningWithinPlan` does not hold here (section 3), so there is no theorem of it.

About `Retention`, without any hypothesis on workers and deletions:

- `OnlySettledGo`: `[]OnlySettledJobsSwept`; `SweptAreRefunded`:
  `[]SweptFailuresWereRefunded`; `DeletionsAddUp`: `[]DeletionsAreReported`;
- `FailedAreRefunded`: `[]FailuresAreRefunded`, the half of `RefundMatchesOutcome` that any
  number of workers, deletions and cleanups leave standing;
- `LimitOutlivesCleanups`: `[]RunningWithinPlan`. To what the workers
  rely on a cleanup is a quiet step (`CleanupIsQuiet`): it makes no row running, and
  takes no lock of a `users` row.

The ids of a batch are read in one statement and deleted in another. `BatchesAreHeld`: in
between the rows are locked by the cleanup and settled, since every writer of a settled
row waits for its lock. `FailuresAreRefunded` needs no lock: status and refund are one commit.
The sum of what the cleanups have deleted grows with a batch by as many rows as go with it,
`lost` by the rows of a batch whose answer is lost and by what a dying cleanup had deleted,
and a row that went does not come back (`SweptStayGone`), since ids are not used twice.

About `WorkerShutdown`:

- `LoopsEndClean`: `[]EndsWithNothingLeft`; `LimitOutlivesExits`: `[]RunningWithinPlan`,
  also when the API process takes its worker thread with it.

A loop ends between two iterations only. `RowsAreAttended`: while nothing fails, the
worker of a running row is working on it, or gone with its process.

### Accounts: `Accounts_proofs`

- `KeyCapSafe`: `Spec => []KeysWithinPlan`;
- `SignInSafe`: `Spec => []SignInReachesOwnAccount`;
- `CompleteAccounts`: `Spec => []AccountsAreComplete`;
- `RevocationFinal`: `Spec => RevocationIsFinal`.

The key cap needs the same idea as the concurrency cap: `InsertHasRoom`, the
request about to insert a key holds the lock on the `users` row, so nobody can have
used the room it counted. Sign-in rests on `IdentitiesMatch` (an identity leads to
the account it founded, and an email nobody registered has no founder) and
`CallbacksOnCourse` (a callback that is about to open a session is at the account
of its own identity, one that is about to create an account has seen a plan): the
step that creates an account gives a founder to an email that no identity, session or callback can have
pointed to before, and this is where the proof uses that the user and the identity
are one commit and both unique. `Attributed` (what is on record or under way
has an owner) makes these facts apply. Revocation only needs the types: of the
writers of a row, those that make it live or active find it in another state.

### Quota: `UsageLedger_proofs`

- `TypeCorrect`: `Spec => []TypeOK`, with it that no counter goes below zero;
- `MonthlyPlanSafe`: `Spec => []WithinMonthlyPlan`;
- `TrailHonest`: `Spec => []TrailIsHonest`;
- `LedgerExact`: `Spec => []CountersAreExact`;
- `LedgerImplementsAccount`: `Spec => ImplementsAccount`, the refinement of `QuotaAccount`.

`IInv` says that rows and locks keep their types, that a session is about a user, a
month and an amount that are real (`ClientsOK`; a row it is about to update exists,
since rows are never removed), and that the plan holds. The guard of the conditional
UPDATE carries the charge, although the row may have been created unlocked; `Lowered`
carries the refund, whichever month it goes to. Nothing is needed of the locks. The trail
needs `TInv`: an id is reserved for by one session only, and what history and trail say
about it is what the places of its sessions allow, of which there may be several; and it
needs a tally (`VInv`): refunds are the failures on record, the sessions between the two
commits, and at most as many more as sessions died. Each step adds the same to both sides
(`Tallied`, `SettlingTally`). `LedgerExact` adds that each row
holds what the requests it was charged with amount to, in number and in interactions. A
charge moves one request into these sets and a refund moves it out; a refund that meets the
row it was charged to finds at least its own amount there, so the cap at zero never acts.
Like the property, this is conditional on no refund having met another month's row, and
on none having come a second time. With
`IInv` and `TInv`, the refinement goes
action by action: the charge, the refund and the change of month are a step of the
account, and everything else leaves the mapped state alone.

### Around the queue: `Periphery_proofs`

- Of `RequestPipeline`: `SummaryAddsUp`, `AnswersAreCounted`, `AnswersAreNamed`. In
  `PipelineInv` the counters satisfy their equations up to what the request between the
  two halves of `record_request` still owes (`SumsOK`), which holds the lock a summary needs;
  and a request is counted exactly when it has passed the correlation middleware on its
  way out (`CountsOK`), which preflights and unhandled exceptions never do (`Uncounted`).
- Of `Diagnostics`: `FiguresAreRecent`, `LiveJobsAreCounted`, `BacklogIsTold`. `FiguresInv`
  rests on the order of the steps: the entry's stamp is taken before its figures, so they tell of
  every row that is older than the stamp (`Tells`), and pending rows are counted before
  running ones, so a job claimed in between is counted twice and not missed.
- Of `RowLocks`: `LocksAreReleased`, `OnlyListsDeadlock`. Outside the candidate list a
  transaction asks for its rows in an order (`May`), `Orderly` and `Continues` say it of
  what is left of each, so in a circle of waiting transactions the one that waits for the
  least would wait for less. That argument is on the smallest element of a set, for which
  `WellFoundedInduction` is used in the form without an operator parameter.
- Of `RateLimiter`: `WindowsHold`, `WaitingHelps`, `LockoutsEnd`. A record is as old by the
  clock as its admission is by elapsed time, or younger, because the clock is only ever set
  back. So for every moment at least as many timestamps count as later as there were
  admissions (`Kept`), and the check lets nobody in too early. The sweep drops a user when the last
  timestamp is dead, which is the one of the last admission (`LatestIsLast`), and nothing
  younger is lost. In the other direction every timestamp is traced to an admission
  (`Traced`), no further away than the clock was set back, which bounds a lockout.
  `Retry-After` is about the oldest timestamp in the window: when it has left, there is room.

### The listing: `Listing_proofs`

- `RepeatsAreArrivals`: `ListingSpec => []OnlyArrivalsRepeat`;
- `ChangesHideFew`: `ListingSpec => []EachChangeHidesOneJob`.

`ListingAssumption` says that jobs are finitely many and ordered by their ids, that
a page has a size, and that the filter is one of statuses. The offset of the next page is a line between the jobs
the client is past and those it has yet to see. `Again` are the jobs behind the line that it was
shown already, `Skipped` those in front that it was not. No two jobs have the same place,
so an arrival moves at most one job across the line and a departure at most one back
(`ArrivalMoves`, `DepartureMoves`), and `Bounded` holds: repeats and `Again` together stay within
the arrivals, `Skipped` within the departures. A page turns what it shows of `Again` into repeats
and moves the line past itself (`PageShows`). At the end nothing is left behind the line except as
many jobs as came since the count (`BehindTheLine`), since `has_next` was worked out from that.

### Sums and recursion: `Induction_proofs`

The theorems on induction in the library take the property as an operator. This module
derives from `WellFoundedInduction` the same principles for a set of numbers and for a set
of subsets (`NumberInduction`, `SubsetInduction`), and from them `SumChanges`: when a function over
a finite set changes at one place, its sum changes by the difference. `Periphery_proofs`
uses the first for `After`, the filter of the rate limiter, which is a recursion over a sequence:
what it keeps in what order, and how many (`AfterAppend`, `AfterAfter`, `CountMisses`);
`Listing_proofs` uses `SumGrows`, about many summands that grow by one.

### Assumptions

Constants are natural numbers, and positive where a limit of zero would mean something
else (`MaxAttempts`, `MaxConcurrent`, `CandidateLimit`, `BatchSize`); actors of different
kinds are different, and none of them is the model value for nobody (`ActorsAssumption`,
`CleanersAssumption`, `ClientsAssumption`, `LockAssumption`, `AccountsAssumption`);
requests, jobs and cleanups that are counted are finitely many (`PipelineAssumption`,
`DiagnosticsAssumption`, `CleanersAssumption`, `ListingAssumption`). TLC evaluates each in a run. Some theorems have
hypotheses of their own: `Solo`, `Deleters = {}` of `SyncJobsBalance`, and at least one worker
in `ReportsAreHonest`. The instances of the runs satisfy each.

### What is only model-checked

`JobsSettle` and `ReservationsAreSettled`: liveness under fairness is beyond the prover. All
other properties of the passing runs are proved, those of `JobQueue_single` for one worker
(with two they do not hold), and `SyncOutcomesBalance` without deletions.

## 5. Not modelled

- The engine: an outcome that is chosen, success or failure.
- The counters of the cleanups and of synchronous requests, and those by preset,
  method and route; durations, histograms, averages.
- OAuth token exchange, hashing, logging, configuration, presets, health, security headers:
  no shared state. Of CORS, the headers.
- The read of a single job and of the account: one query each. Of the listing, formats and
  the filters other than by status.
- Plans that change while requests are under way.
- SQLite, which only the tests use: locks are PostgreSQL's.
- The refresh that follows a commit, where no decision depends on it (after the last
  transition to failed).
- A system clock that is set back, except for the rate limiter (`RateLimiter!StepBack`):
  leases, months, the ages of jobs and the cache of `/diagnostics` go forward.

## 6. Plan

Built: the queue first, being the heart of the system; then what shares its rows
(`SyncExecution`, `Retention`, `WorkerTelemetry`, `WorkerShutdown`), then quota with its
abstract account, accounts, the rate limiter, and the components around the queue.

What is left: how many engine runs and refunds a job can have at most when lists go stale
under several workers (proved so far: attempts are bounded, and a failed job has been refunded;
to be looked for with TLC first); and a plan that changes while a request is under way.
