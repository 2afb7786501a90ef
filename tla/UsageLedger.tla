---------------------------- MODULE UsageLedger ----------------------------
(***************************************************************************)
(* Monthly quota accounting (app/services/usage.py): the monthly_usage     *)
(* rows, created by whoever needs one first, the conditional UPDATE that   *)
(* reserves, the refund, and the audit trail of usage_events.              *)
(*                                                                         *)
(* A client is a database session that reserves for one simulation, runs   *)
(* it and settles it, or that asks for the usage summary.  A reservation   *)
(* may be settled again by another session, whatever has become of it: by  *)
(* a worker that recovers the job or was overtaken, by the fallback after  *)
(* a commit whose answer was lost, by a DELETE request.  The calendar      *)
(* moves under it: every call of get_current_period_start asks again.      *)
(***************************************************************************)
EXTENDS Integers, Sequences, FiniteSets, Functions

CONSTANTS
    Users, Clients,
    NoOne,                        \* a row nobody has locked
    Sizes,                        \* interactions a request may ask for
    MonthlyRequests,              \* plan.monthly_requests
    MonthlyInteractions,          \* plan.monthly_interactions
    MaxInteractionsPerRequest,    \* plan.max_interactions_per_request
    MaxMonths,                    \* bound: months that pass
    MaxRequests,                  \* bound: requests ever made
    MaxSettlers,                  \* bound: sessions that settle one request
    MaxCrashes                    \* bound: clients that die

ASSUME PlanAssumption == /\ MonthlyRequests \in Nat
                         /\ MonthlyInteractions \in Nat
                         /\ MaxInteractionsPerRequest \in Nat
ASSUME SizesAssumption == Sizes \subseteq Nat
ASSUME ClientsAssumption == NoOne \notin Clients /\ IsFiniteSet(Clients)
ASSUME BoundsAssumption == MaxMonths \in Nat /\ MaxRequests \in Nat /\ MaxCrashes \in Nat

\* Periods are numbered from the month the system starts in.
Periods == 0 .. MaxMonths
Ids   == 1 .. MaxRequests
NoRow == [requests |-> -1, interactions |-> -1]
Zero  == [requests |-> 0, interactions |-> 0]

NoCharge == [user |-> NoOne, n |-> 0, period |-> 0, state |-> "none"]

VARIABLES
    today,    \* the month it is
    usage,    \* monthly_usage: user -> period -> counters
    lock,     \* the FOR UPDATE lock of each monthly_usage row
    client,   \* local state of each client
    nextId,   \* the id of the next request
    crashes,
    audit,    \* usage_events of each request, oldest first
    charge,   \* history: where the quota of each request is
    given,    \* history: refunds issued for each request
    open      \* history: sessions that took it on and have not refunded it

vars == <<today, usage, lock, client, nextId, crashes, audit, charge, given, open>>

Idle == [pc |-> "idle", user |-> NoOne, id |-> 0, n |-> 0,
         period |-> 0, then |-> "idle"]

ExistsRow(u, p) == usage[u][p] # NoRow
Free(u, p, c)   == lock[u][p] \in {NoOne, c}

\* get_current_period_start, asked again by every call that needs it.
CurrentPeriod == today

Goto(c, pc) == client' = [client EXCEPT ![c].pc = pc]
Unlock(c)   == lock' = [u \in Users |-> [p \in Periods |->
                          IF lock[u][p] = c THEN NoOne ELSE lock[u][p]]]

-----------------------------------------------------------------------------
(* get_or_create_monthly_usage.                                            *)

Call(c, u, id, n, then) ==
    client' = [client EXCEPT ![c] = [pc |-> "select", user |-> u, id |-> id, n |-> n,
                                     period |-> CurrentPeriod, then |-> then]]

\* reserve_usage, for a request within the per-request limit.  The period is
\* computed once, here.
BeginReserve(c, u, n) ==
    /\ client[c].pc = "idle"
    /\ nextId <= MaxRequests
    /\ n <= MaxInteractionsPerRequest
    /\ Call(c, u, nextId, n, "update")
    /\ nextId' = nextId + 1
    /\ charge' = [charge EXCEPT ![nextId] = [user |-> u, n |-> n, period |-> CurrentPeriod,
                                            state |-> "none"]]
    /\ UNCHANGED <<today, usage, lock, crashes, audit, given, open>>

\* get_user_usage_summary asks for the row without locking it.
BeginSummary(c, u) ==
    /\ client[c].pc = "idle"
    /\ Call(c, u, 0, 0, "summary")
    /\ UNCHANGED <<today, usage, lock, nextId, crashes, audit, charge, given, open>>

\* The row is there: the reservation locks it, the summary only reads it.
SelectFound(c) ==
    LET u == client[c].user  p == client[c].period
    IN /\ client[c].pc = "select"
       /\ ExistsRow(u, p)
       /\ IF client[c].then = "update"
            THEN Free(u, p, c) /\ lock' = [lock EXCEPT ![u][p] = c]
            ELSE UNCHANGED lock
       /\ Goto(c, client[c].then)
       /\ UNCHANGED <<today, usage, nextId, crashes, audit, charge, given, open>>

\* It is not: nothing is locked, and the client goes on to insert it.
SelectNone(c) ==
    /\ client[c].pc = "select"
    /\ ~ExistsRow(client[c].user, client[c].period)
    /\ Goto(c, "insert")
    /\ UNCHANGED <<today, usage, lock, nextId, crashes, audit, charge, given, open>>

\* Mutant: an insert that overwrites the row somebody else inserted meanwhile.
InsertOrReset(c) ==
    /\ client[c].pc = "insert"
    /\ usage' = [usage EXCEPT ![client[c].user][client[c].period] = Zero]
    /\ Goto(c, client[c].then)
    /\ UNCHANGED <<today, lock, nextId, crashes, audit, charge, given, open>>

\* The insert is committed, which leaves the new row unlocked; or it violates
\* the unique constraint, and the row is selected again.
Insert(c) ==
    LET u == client[c].user  p == client[c].period
    IN /\ client[c].pc = "insert"
       /\ IF ExistsRow(u, p)
            THEN Goto(c, "select") /\ UNCHANGED usage
            ELSE /\ usage' = [usage EXCEPT ![u][p] = Zero]
                 /\ Goto(c, client[c].then)
       /\ UNCHANGED <<today, lock, nextId, crashes, audit, charge, given, open>>

-----------------------------------------------------------------------------
(* reserve_usage, the outcome of the simulation, refund_usage.             *)

\* Mutant: only the request counter is compared with the plan.
WithinPlanRequestsOnly(row, n) == row.requests + 1 <= MonthlyRequests

WithinPlan(row, n) == /\ row.requests + 1 <= MonthlyRequests
                      /\ row.interactions + n <= MonthlyInteractions

\* The conditional UPDATE and the event are committed together; if the
\* UPDATE matches no row the request is refused, and its locks go.
Reserve(c) ==
    LET u == client[c].user  p == client[c].period  n == client[c].n  k == client[c].id
    IN /\ client[c].pc = "update"
       /\ Free(u, p, c)
       /\ Unlock(c)
       /\ IF WithinPlan(usage[u][p], n)
            THEN /\ usage' = [usage EXCEPT ![u][p].requests = @ + 1,
                                           ![u][p].interactions = @ + n]
                 /\ audit' = [audit EXCEPT ![k] = Append(@, "simulation_request")]
                 /\ charge' = [charge EXCEPT ![k].state = "charged"]
                 /\ open' = [open EXCEPT ![k] = @ + 1]
                 /\ Goto(c, "running")
            ELSE /\ client' = [client EXCEPT ![c] = Idle]
                 /\ UNCHANGED <<usage, audit, charge, open>>
       /\ UNCHANGED <<today, nextId, crashes, given>>

\* Another session settles a reservation, first or again: it has the request from
\* the simulations row, which does not say what was refunded.
TakeOver(c, k) ==
    /\ client[c].pc = "idle"
    /\ charge[k].state # "none"
    /\ open[k] + given[k] < MaxSettlers
    /\ open' = [open EXCEPT ![k] = @ + 1]
    /\ client' = [client EXCEPT ![c] = [pc |-> "running", user |-> charge[k].user, id |-> k,
                                        n |-> charge[k].n, period |-> charge[k].period,
                                        then |-> "update"]]
    /\ UNCHANGED <<today, usage, lock, nextId, crashes, audit, charge, given>>

\* record_usage_result: a transaction of its own.
RecordEvent(c, type) ==
    /\ audit' = [audit EXCEPT ![client[c].id] = Append(@, type)]
    /\ client' = [client EXCEPT ![c] = Idle]
    /\ UNCHANGED <<today, usage, lock, nextId, crashes, charge, given, open>>

\* Mutant: the outcome of a completed simulation is not recorded.
SucceedUnrecorded(c) ==
    /\ client[c].pc = "running"
    /\ client' = [client EXCEPT ![c] = Idle]
    /\ UNCHANGED <<today, usage, lock, nextId, crashes, audit, charge, given, open>>

Succeed(c) == client[c].pc = "running" /\ RecordEvent(c, "simulation_completed")

\* Mutant: the CASE expressions are left out.
LoweredUnclamped(row, n) ==
    [requests |-> row.requests - 1, interactions |-> row.interactions - n]

\* The counters go down to zero at most.
Lowered(row, n) ==
    [requests     |-> IF row.requests >= 1 THEN row.requests - 1 ELSE 0,
     interactions |-> IF row.interactions >= n THEN row.interactions - n ELSE 0]

\* refund_usage updates the row of the month it is now, if there is one.  The row
\* owes the request nothing any more if it was charged to another month, or has
\* been refunded before.
RefundUsage(c) ==
    LET u == client[c].user  n == client[c].n  k == client[c].id
    IN /\ Free(u, CurrentPeriod, c)
       /\ usage' = IF ExistsRow(u, CurrentPeriod)
                     THEN [usage EXCEPT ![u][CurrentPeriod] = Lowered(@, n)] ELSE usage
       /\ charge' = [charge EXCEPT ![k].state =
                       IF @ = "charged" /\ charge[k].period = CurrentPeriod
                         THEN "returned" ELSE "misplaced"]
       /\ given' = [given EXCEPT ![k] = @ + 1]
       /\ open' = [open EXCEPT ![k] = @ - 1]

\* Mutant: the failure is recorded and the refund left for later.
FailEventFirst(c) ==
    /\ client[c].pc = "running"
    /\ audit' = [audit EXCEPT ![client[c].id] = Append(@, "simulation_failed")]
    /\ client' = [client EXCEPT ![c].pc = "refunded"]
    /\ UNCHANGED <<today, usage, lock, nextId, crashes, charge, given, open>>

\* The simulation fails: first the refund ...
Fail(c) ==
    /\ client[c].pc = "running"
    /\ RefundUsage(c)
    /\ Goto(c, "refunded")
    /\ UNCHANGED <<today, lock, nextId, crashes, audit>>

\* ... then the event.
RecordFailure(c) == client[c].pc = "refunded" /\ RecordEvent(c, "simulation_failed")

\* get_user_usage_summary ends with the figures it read.
Summarise(c) ==
    /\ client[c].pc = "summary"
    /\ client' = [client EXCEPT ![c] = Idle]
    /\ UNCHANGED <<today, usage, lock, nextId, crashes, audit, charge, given, open>>

Crash(c) ==
    /\ client[c].pc # "idle"
    /\ crashes < MaxCrashes
    /\ crashes' = crashes + 1
    /\ Unlock(c)
    /\ client' = [client EXCEPT ![c] = Idle]
    /\ UNCHANGED <<today, usage, nextId, audit, charge, given, open>>

NewMonth ==
    /\ today < MaxMonths
    /\ today' = today + 1
    /\ UNCHANGED <<usage, lock, client, nextId, crashes, audit, charge, given, open>>

-----------------------------------------------------------------------------
Init ==
    /\ today   = 0
    /\ usage   = [u \in Users |-> [p \in Periods |-> NoRow]]
    /\ lock    = [u \in Users |-> [p \in Periods |-> NoOne]]
    /\ client  = [c \in Clients |-> Idle]
    /\ nextId  = 1
    /\ crashes = 0
    /\ audit   = [k \in Ids |-> <<>>]
    /\ charge  = [k \in Ids |-> NoCharge]
    /\ given   = [k \in Ids |-> 0]
    /\ open    = [k \in Ids |-> 0]

Settle(c) == \/ SelectFound(c) \/ SelectNone(c) \/ Insert(c) \/ Reserve(c)
             \/ Succeed(c) \/ Fail(c) \/ RecordFailure(c) \/ Summarise(c)

Next == \/ \E c \in Clients : \/ \E u \in Users : \/ BeginSummary(c, u)
                                               \/ \E n \in Sizes : BeginReserve(c, u, n)
                              \/ \E k \in Ids : TakeOver(c, k)
                              \/ Settle(c) \/ Crash(c)
        \/ NewMonth

Spec == Init /\ [][Next]_vars

\* A client that does not die runs to the end of its call; a statement that
\* waits for a row lock gets it in turn.
FairSpec == Spec /\ \A c \in Clients : SF_vars(Settle(c))

-----------------------------------------------------------------------------
Row == [requests : Nat, interactions : Nat]

TypeOK ==
    /\ today \in Periods
    /\ usage \in [Users -> [Periods -> Row \union {NoRow}]]
    /\ lock \in [Users -> [Periods -> Clients \union {NoOne}]]
    /\ \A c \in Clients : client[c].pc \in {"idle", "select", "insert", "update", "summary",
                                           "running", "refunded"}
    /\ nextId \in 1 .. MaxRequests + 1
    /\ crashes \in 0 .. MaxCrashes

\* No month of a user ever exceeds the plan, in requests or in interactions,
\* although the row a client has just inserted is not locked and refunds
\* arrive in between.
WithinMonthlyPlan ==
    \A u \in Users, p \in Periods :
        /\ usage[u][p].requests <= MonthlyRequests
        /\ usage[u][p].interactions <= MonthlyInteractions

Charged(u, p) == {k \in Ids : charge[k].state = "charged" /\ charge[k].user = u
                                                          /\ charge[k].period = p}
Interactions(ids) == SumFunction([k \in Ids |-> IF k \in ids THEN charge[k].n ELSE 0])

\* A row holds the requests charged to its month that have not failed.
Exact(u, p) ==
    LET ids == Charged(u, p)
        row == usage[u][p]
    IN IF row = NoRow THEN ids = {}
       ELSE row = [requests |-> Cardinality(ids), interactions |-> Interactions(ids)]

\* Until a refund is issued in another month than its reservation, or a second time,
\* every row is exact, whoever created it and whoever settles at the same time.
CountersAreExact ==
    (\A k \in Ids : charge[k].state # "misplaced") =>
        \A u \in Users, p \in Periods : Exact(u, p)

Failures(k) == Cardinality({i \in 1 .. Len(audit[k]) : audit[k][i] = "simulation_failed"})
At(pc, k)   == {c \in Clients : client[c].pc = pc /\ client[c].id = k}

\* The trail of a request begins with its reservation, and there is no other on it.
\* However many sessions settle the request, it has a failure on record for each
\* refund, the refund before the record, but for those whose session is between the
\* two commits or died there.
TrailIsHonest ==
    \A k \in Ids :
        /\ (charge[k].state = "none") = (audit[k] = <<>>)
        /\ \A i \in 1 .. Len(audit[k]) : (audit[k][i] = "simulation_request") = (i = 1)
        /\ Failures(k) + Cardinality(At("refunded", k)) <= given[k]
        /\ given[k] <= Failures(k) + Cardinality(At("refunded", k)) + crashes

\* Every reservation reaches the trail as completed or failed, unless a client died.
ReservationsAreSettled ==
    \A k \in Ids : Len(audit[k]) = 1 ~> Len(audit[k]) > 1 \/ crashes > 0

\* Once a simulation is on record as failed, the month it was charged to no
\* longer counts it.
FailureIsRefunded ==
    (\A c \in Clients : client[c].pc = "idle") =>
        \A u \in Users, p \in Periods : Exact(u, p)

=============================================================================
