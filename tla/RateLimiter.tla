----------------------------- MODULE RateLimiter -----------------------------
(***************************************************************************)
(* The sliding-window rate limiter (app/core/rate_limit.py).  The check is *)
(* a dependency that runs on the event loop of one API process, so calls   *)
(* do not overlap, and all users share one record table that a sweep       *)
(* prunes on behalf of everybody once in SweepEvery calls.                 *)
(*                                                                         *)
(* Time is counted in ticks, TicksPerSecond of them in a second: timestamps*)
(* have fractions of a second, Retry-After has not.  The code measures with *)
(* time.time(), which an adjustment of the clock can set back; what was     *)
(* promised is measured in time that only passes.                           *)
(***************************************************************************)
EXTENDS Integers, Sequences

CONSTANTS
    Users,
    Limit,            \* plan.requests_per_minute
    WindowSeconds,    \* window_seconds
    TicksPerSecond,
    SweepEvery,       \* calls between sweeps, 100 in the code
    MaxTime,          \* bound: time stops here
    MaxBack           \* bound: how far the clock is set back, all in all

ASSUME ParametersAssumption == /\ Limit \in Nat \ {0} /\ WindowSeconds \in Nat \ {0}
                               /\ TicksPerSecond \in Nat \ {0} /\ SweepEvery \in Nat \ {0}
ASSUME BoundsAssumption == MaxTime \in Nat /\ MaxBack \in Nat

VARIABLES
    now,             \* time.time()
    elapsed,         \* time as it passes
    records,         \* _records: the timestamps of each user, oldest first
    sweep_counter,   \* _sweep_counter
    admitted,        \* history: when requests were let in lately, by elapsed
    retryAt          \* history: when the last 429 said to come back, 0 after an admission

clocks == <<now, elapsed>>
vars == <<clocks, records, sweep_counter, admitted, retryAt>>

Window == WindowSeconds * TicksPerSecond

\* The timestamps later than t, in their order.
After(timestamps, t) ==
    LET upTo[i \in 0 .. Len(timestamps)] ==
          IF i = 0 THEN <<>>
          ELSE IF timestamps[i] > t THEN Append(upTo[i - 1], timestamps[i]) ELSE upTo[i - 1]
    IN upTo[Len(timestamps)]

\* Those inside the window that ends at t.
Since(timestamps, t) == After(timestamps, t - Window)

\* Mutant: the oldest timestamp decides whether a key is dead.
DeadByOldest(timestamps) == timestamps = <<>> \/ Head(timestamps) <= now - Window

\* A key the sweep removes: its latest timestamp has left the window.
Dead(timestamps) == timestamps = <<>> \/ timestamps[Len(timestamps)] <= now - Window

\* The table as the check finds it, swept if it is the turn of this call.
Swept == IF sweep_counter + 1 >= SweepEvery
           THEN [u \in Users |-> IF Dead(records[u]) THEN <<>> ELSE records[u]]
           ELSE records

CountCall == sweep_counter' = IF sweep_counter + 1 >= SweepEvery THEN 0 ELSE sweep_counter + 1

Valid(u) == Since(Swept[u], now)

\* Mutant: the seconds left, rounded down.
RetryAfterRoundedDown(oldest) == (oldest + Window - now) \div TicksPerSecond

\* max(1, int(oldest + window_seconds - now) + 1), in whole seconds.
RetryAfter(oldest) ==
    LET seconds == (oldest + Window - now) \div TicksPerSecond + 1
    IN IF seconds > 1 THEN seconds ELSE 1

Admit(u) ==
    /\ Len(Valid(u)) < Limit
    /\ records' = [Swept EXCEPT ![u] = Append(Valid(u), now)]
    /\ admitted' = [admitted EXCEPT ![u] = Append(@, elapsed)]
    /\ retryAt' = [retryAt EXCEPT ![u] = 0]
    /\ CountCall
    /\ UNCHANGED clocks

\* Mutant: a refused request counts as well.
RefuseAndRecord(u) ==
    /\ Len(Valid(u)) >= Limit
    /\ records' = [Swept EXCEPT ![u] = Append(Tail(Valid(u)), now)]
    /\ retryAt' = [retryAt EXCEPT
         ![u] = elapsed + TicksPerSecond * RetryAfter(Head(Valid(u)))]
    /\ CountCall
    /\ UNCHANGED <<clocks, admitted>>

\* 429, with Retry-After.
Refuse(u) ==
    /\ Len(Valid(u)) >= Limit
    /\ records' = [Swept EXCEPT ![u] = Valid(u)]
    /\ retryAt' = [retryAt EXCEPT
         ![u] = elapsed + TicksPerSecond * RetryAfter(Head(Valid(u)))]
    /\ CountCall
    /\ UNCHANGED <<clocks, admitted>>

\* How far the clock is behind.
Behind == elapsed - now

Lately(u, ticks) == After(admitted[u], elapsed - ticks)

\* An admission is remembered until no clock the code reads can count it.
Tick ==
    /\ elapsed < MaxTime
    /\ now' = now + 1
    /\ elapsed' = elapsed + 1
    /\ admitted' = [u \in Users |-> After(admitted[u], elapsed' - (Window + MaxBack))]
    /\ UNCHANGED <<records, sweep_counter, retryAt>>

\* The system's clock is corrected.
StepBack ==
    /\ Behind < MaxBack
    /\ now' = now - 1
    /\ UNCHANGED <<elapsed, records, sweep_counter, admitted, retryAt>>

Init ==
    /\ now = 1
    /\ elapsed = 1
    /\ records  = [u \in Users |-> <<>>]
    /\ sweep_counter = 0
    /\ admitted = [u \in Users |-> <<>>]
    /\ retryAt  = [u \in Users |-> 0]

Next == \/ \E u \in Users : Admit(u) \/ Refuse(u)
        \/ Tick
        \/ StepBack

Spec == Init /\ [][Next]_vars

-----------------------------------------------------------------------------
\* No window of window_seconds ever holds more than Limit admitted requests of
\* a user, although the calls of other users sweep the table, and although the
\* clock may be set back and leave timestamps out of order.
WindowNeverExceeded == \A u \in Users : Len(Lately(u, Window)) <= Limit

\* As long as the clock is not set back, a user who waits for as long as
\* Retry-After said will be let in, whatever the calls of others have swept or
\* recorded since.
RetryAfterIsEnough ==
    \A u \in Users : Behind = 0 /\ retryAt[u] # 0 /\ elapsed >= retryAt[u] => Len(Valid(u)) < Limit

\* A clock that was set back shuts nobody out for longer than a window and the
\* step: who was let in no later than that has all of the limit again.
LockoutIsBounded ==
    \A u \in Users : Lately(u, Window + Behind) = <<>> => Valid(u) = <<>>

=============================================================================
