------------------------- MODULE UsageLedger_proofs -------------------------
(***************************************************************************)
(* Proofs about UsageLedger, for any number of users, sessions, requests   *)
(* and months: no month of a user ever exceeds the plan, the audit trail   *)
(* of a request is honest, the counters are exact while refunds find their *)
(* month, and the ledger implements QuotaAccount.  The plan is compared    *)
(* with a row by the conditional UPDATE, so what the first invariant adds  *)
(* is that a session about to update has a row to update, and what its     *)
(* local variables hold.  The second one ties the trail and the charge of  *)
(* a request to where its sessions are, the third counts the sessions that *)
(* are about to refund or have refunded, and the last compares rows with   *)
(* charges.                                                                *)
(***************************************************************************)
EXTENDS UsageLedgerRefinement, Induction_proofs, SequenceTheorems, TLAPS

PCs == {"idle", "select", "insert", "update", "summary", "running", "refunded"}

ClientType == [pc : PCs, user : Users \union {NoOne}, id : Int, n : Nat,
               period : Periods, then : {"idle", "update", "summary"}]

\* A call that is under way is somebody's, and knows where it returns to.
CallOK(c) ==
    /\ client[c].pc # "idle" => client[c].user \in Users
    /\ client[c].pc \in {"select", "insert"} => client[c].then \in {"update", "summary"}

\* Whoever is about to update a row, has found or made it.
RowIsThere(c) ==
    client[c].pc = "update" => ExistsRow(client[c].user, client[c].period)

UsageType == usage \in [Users -> [Periods -> Row \union {NoRow}]]
LockType  == lock \in [Users -> [Periods -> Clients \union {NoOne}]]
CountType == today \in Periods /\ nextId \in 1 .. MaxRequests + 1 /\ crashes \in 0 .. MaxCrashes

ClientsOK == /\ client \in [Clients -> ClientType]
             /\ \A c \in Clients : CallOK(c) /\ RowIsThere(c)

IInv == UsageType /\ LockType /\ CountType /\ ClientsOK /\ WithinMonthlyPlan

Events  == {"simulation_request", "simulation_completed", "simulation_failed"}
Charges == [user : Users \union {NoOne}, n : Nat, period : Periods,
            state : {"none", "charged", "returned", "misplaced"}]

\* The local state of a session that reserves, runs or settles, and of one that has
\* not reserved yet.
Claiming(r) == r.pc # "idle" /\ r.then = "update"
Asking(r)   == r.pc \in {"select", "insert", "update"} /\ r.then = "update"

\* What is on record about a request when a session of it is at each place.
Stage(r) ==
    /\ r.pc \in {"select", "insert", "update"} => charge[r.id].state = "none"
    /\ r.pc \in {"running", "refunded"} => charge[r.id].state # "none"

InOrder(r) ==
    /\ r.pc \in {"update", "running", "refunded"} => r.then = "update"
    /\ r.pc = "summary" => r.then = "summary"
    /\ Claiming(r) =>
         /\ r.id \in Ids /\ r.id < nextId
         /\ charge[r.id].user = r.user /\ charge[r.id].n = r.n
         /\ charge[r.id].period = r.period
         /\ Stage(r)

\* A request is reserved for by one session only.
ClaimsOK ==
    /\ \A c \in Clients : InOrder(client[c])
    /\ \A c, d \in Clients :
         c # d /\ Asking(client[c]) /\ Asking(client[d]) => client[c].id # client[d].id

\* An id that has been given out belongs to a request that was possible, made in a
\* month that has come; the others are blank.
ChargeOK(k) ==
    /\ charge[k].period <= today
    /\ k < nextId => charge[k].user \in Users /\ charge[k].n \in Sizes
    /\ k >= nextId => charge[k] = NoCharge

\* A trail begins with its reservation, and there is no other on it.
Begins(tr) == \A i \in 1 .. Len(tr) : (tr[i] = "simulation_request") = (i = 1)

TrailOK(k) == (charge[k].state = "none") = (audit[k] = <<>>) /\ Begins(audit[k])

RecordType == charge \in [Ids -> Charges] /\ audit \in [Ids -> Seq(Events)]

TInv == RecordType /\ ClaimsOK /\ \A k \in Ids : ChargeOK(k) /\ TrailOK(k)

-----------------------------------------------------------------------------
\* A period is a month that has come (get_current_period_start).
LEMMA PeriodsAreNat == Periods \subseteq Nat /\ 0 \in Periods
  BY BoundsAssumption DEF Periods

\* A refund never leaves the counters of a row below zero or above what they
\* were (the CASE expressions of refund_usage).
LEMMA LoweredIsRow ==
  ASSUME NEW row \in Row, NEW n \in Nat
  PROVE  /\ Lowered(row, n) \in Row
         /\ Lowered(row, n).requests <= row.requests
         /\ Lowered(row, n).interactions <= row.interactions
  BY DEF Lowered, Row

\* The row an insert makes is a row, and no row is the missing one.
LEMMA RowFacts == /\ Zero \in Row
                  /\ \A row \in Row : row # NoRow
                  /\ NoRow.requests = -1 /\ NoRow.interactions = -1
  <1>1. \A row \in Row : row.requests # NoRow.requests
    BY DEF Row, NoRow
  <1>. QED  BY <1>1 DEF Zero, Row, NoRow

\* The two assignments of the UPDATE are made to one row.
LEMMA Charging ==
  ASSUME NEW row \in Row, NEW n \in Nat
  PROVE  [[row EXCEPT !.requests = @ + 1] EXCEPT !.interactions = @ + n]
           = [requests |-> row.requests + 1, interactions |-> row.interactions + n]
  <1>. DEFINE one == [row EXCEPT !.requests = @ + 1]
  <1>1. one \in Row /\ one.requests = row.requests + 1 /\ one.interactions = row.interactions
    BY DEF Row
  <1>2. ASSUME NEW r \in Row
        PROVE  [r EXCEPT !.interactions = @ + n]
                 = [requests |-> r.requests, interactions |-> r.interactions + n]
    BY DEF Row
  <1>. HIDE DEF one
  <1>3. [one EXCEPT !.interactions = @ + n]
          = [requests |-> row.requests + 1, interactions |-> row.interactions + n]
    BY <1>1, <1>2
  <1>. QED  BY <1>3 DEF one

\* Every place of the table holds a row that exists, or none.
LEMMA RowAt ==
  ASSUME UsageType, NEW u \in Users, NEW p \in Periods, ExistsRow(u, p)
  PROVE  usage[u][p] \in Row
  BY DEF UsageType, ExistsRow

\* A row that is replaced by a row within the plan leaves the table typed,
\* within the plan, and every row that was there still there.
LEMMA Replaced ==
  ASSUME UsageType, WithinMonthlyPlan,
         NEW u \in Users, NEW p \in Periods, NEW row \in Row,
         row.requests <= MonthlyRequests, row.interactions <= MonthlyInteractions,
         usage' = [usage EXCEPT ![u][p] = row]
  PROVE  /\ UsageType' /\ WithinMonthlyPlan'
         /\ \A v \in Users, q \in Periods : ExistsRow(v, q) => ExistsRow(v, q)'
         /\ ExistsRow(u, p)'
  <1>1. \A v \in Users, q \in Periods :
           usage'[v][q] = IF v = u /\ q = p THEN row ELSE usage[v][q]
    BY DEF UsageType
  <1>2. usage' \in [Users -> [Periods -> Row \union {NoRow}]]
    BY DEF UsageType
  <1>3. \A v \in Users, q \in Periods : ExistsRow(v, q) => ExistsRow(v, q)'
    BY <1>1, RowFacts DEF ExistsRow
  <1>4. WithinMonthlyPlan'
    BY <1>1 DEF WithinMonthlyPlan
  <1>5. ExistsRow(u, p)'
    BY <1>1, RowFacts DEF ExistsRow
  <1>. QED  BY <1>2, <1>3, <1>4, <1>5 DEF UsageType

\* A session that moves on, while no row goes away, keeps the sessions in order.
LEMMA Moved ==
  ASSUME ClientsOK, NEW c \in Clients, NEW to \in ClientType,
         client' = [client EXCEPT ![c] = to],
         \A v \in Users, q \in Periods : ExistsRow(v, q) => ExistsRow(v, q)',
         CallOK(c)', RowIsThere(c)'
  PROVE  ClientsOK'
  <1>1. client' \in [Clients -> ClientType]
    BY DEF ClientsOK
  <1>2. ASSUME NEW d \in Clients, d # c  PROVE CallOK(d)' /\ RowIsThere(d)'
    <2>1. client'[d] = client[d] /\ client[d] \in ClientType
      BY <1>2 DEF ClientsOK
    <2>2. CallOK(d) /\ RowIsThere(d)
      BY DEF ClientsOK
    <2>3. CallOK(d)'
      BY <2>1, <2>2 DEF CallOK
    <2>4. client[d].pc = "update" => client[d].user \in Users /\ client[d].period \in Periods
      BY <2>1, <2>2 DEF CallOK, ClientType
    <2>5. RowIsThere(d)'
      BY <2>1, <2>2, <2>4 DEF RowIsThere
    <2>. QED  BY <2>3, <2>5
  <1>. QED  BY <1>1, <1>2 DEF ClientsOK

\* Releasing the locks of a session leaves the locks typed.
LEMMA Unlocked ==
  ASSUME LockType, NEW c \in Clients, Unlock(c)
  PROVE  LockType'
  BY DEF LockType, Unlock

-----------------------------------------------------------------------------
\* The period of a session is a month that is in the table.
LEMMA ClientFacts ==
  ASSUME IInv, NEW c \in Clients
  PROVE  /\ client[c] \in ClientType /\ CallOK(c) /\ RowIsThere(c)
         /\ client[c].period \in Periods /\ client[c].n \in Nat
         /\ client[c].pc # "idle" => client[c].user \in Users
  BY DEF IInv, ClientsOK, CallOK, ClientType

\* A session that only goes from one place of its call to another.
LEMMA Went ==
  ASSUME IInv, NEW c \in Clients, NEW pc \in PCs, Goto(c, pc),
         client[c].pc # "idle", pc \notin {"select", "insert"},
         \A v \in Users, q \in Periods : ExistsRow(v, q) => ExistsRow(v, q)',
         pc = "update" => usage'[client[c].user][client[c].period] # NoRow
  PROVE  ClientsOK'
  <1>. DEFINE to == [client[c] EXCEPT !.pc = pc]
  <1>1. client[c] \in ClientType /\ CallOK(c) /\ ClientsOK
    BY ClientFacts DEF IInv
  <1>2. to \in ClientType /\ client' = [client EXCEPT ![c] = to]
    BY <1>1 DEF ClientType, Goto
  <1>3. client'[c] = to
    BY <1>2, <1>1 DEF ClientsOK
  <1>4. to.pc = pc /\ to.user = client[c].user /\ to.period = client[c].period
    BY <1>1 DEF ClientType
  <1>5. CallOK(c)' /\ RowIsThere(c)'
    BY <1>1, <1>3, <1>4 DEF CallOK, RowIsThere, ExistsRow
  <1>. QED  BY <1>1, <1>2, <1>5, Moved

\* A session that ends its call.
LEMMA Ended ==
  ASSUME IInv, NEW c \in Clients, client' = [client EXCEPT ![c] = Idle],
         \A v \in Users, q \in Periods : ExistsRow(v, q) => ExistsRow(v, q)'
  PROVE  ClientsOK'
  <1>1. Idle \in ClientType
    BY PeriodsAreNat DEF Idle, ClientType, PCs
  <1>2. client'[c] = Idle
    BY DEF IInv, ClientsOK
  <1>3. CallOK(c)' /\ RowIsThere(c)'
    BY <1>2 DEF CallOK, RowIsThere, Idle
  <1>. QED  BY <1>1, <1>3, Moved DEF IInv

\* A session that starts a call.
LEMMA Called ==
  ASSUME IInv, NEW c \in Clients, NEW u \in Users, NEW id \in Int, NEW n \in Nat,
         NEW then \in {"update", "summary"}, Call(c, u, id, n, then), UNCHANGED usage
  PROVE  ClientsOK'
  <1>. DEFINE to == [pc |-> "select", user |-> u, id |-> id, n |-> n,
                     period |-> CurrentPeriod, then |-> then]
  <1>1. to \in ClientType
    BY DEF ClientType, PCs, CurrentPeriod, IInv, CountType
  <1>2. client' = [client EXCEPT ![c] = to] /\ client'[c] = to
    BY DEF IInv, ClientsOK, Call
  <1>3. CallOK(c)' /\ RowIsThere(c)'
    BY <1>2 DEF CallOK, RowIsThere
  <1>4. \A v \in Users, q \in Periods : ExistsRow(v, q) => ExistsRow(v, q)'
    BY DEF ExistsRow
  <1>. QED  BY <1>1, <1>2, <1>3, <1>4, Moved DEF IInv

-----------------------------------------------------------------------------
LEMMA InitIInv == Init => IInv
  <1>1. SUFFICES ASSUME Init PROVE IInv
    OBVIOUS
  <1>2. UsageType /\ LockType
    BY <1>1 DEF Init, UsageType, LockType
  <1>3. CountType
    BY <1>1, PeriodsAreNat, BoundsAssumption DEF Init, CountType
  <1>4. ClientsOK
    <2>1. Idle \in ClientType
      BY PeriodsAreNat DEF Idle, ClientType, PCs
    <2>. QED  BY <1>1, <2>1 DEF Init, ClientsOK, CallOK, RowIsThere, Idle
  <1>5. WithinMonthlyPlan
    BY <1>1, RowFacts, PlanAssumption DEF Init, WithinMonthlyPlan
  <1>. QED  BY <1>2, <1>3, <1>4, <1>5 DEF IInv

-----------------------------------------------------------------------------
\* reserve_usage adds to a row only what the row has room for.
LEMMA ReserveStep ==
  ASSUME IInv, NEW c \in Clients, Reserve(c)
  PROVE  IInv'
  <1>0. PICK u \in Users, p \in Periods, n \in Nat :
           u = client[c].user /\ p = client[c].period /\ n = client[c].n
    BY ClientFacts DEF Reserve
  <1>. DEFINE row == usage[u][p]
              charged == [requests |-> row.requests + 1, interactions |-> row.interactions + n]
  <1>1. client[c].pc = "update"
    BY DEF Reserve
  <1>2. row \in Row
    BY <1>0, <1>1, ClientFacts, RowAt DEF RowIsThere, IInv
  <1>3. LockType' /\ CountType'
    BY Unlocked DEF Reserve, IInv, CountType
  <1>4. CASE WithinPlan(row, n)
    <2>1. usage' = [usage EXCEPT ![u][p] = charged] /\ Goto(c, "running")
      <3>1. /\ Goto(c, "running")
            /\ usage' = [usage EXCEPT ![u][p].requests = @ + 1, ![u][p].interactions = @ + n]
        BY <1>0, <1>4, Zenon DEF Reserve
      <3>2. usage \in [Users -> [Periods -> Row \union {NoRow}]]
        BY DEF IInv, UsageType
      <3>3. [usage EXCEPT ![u][p].requests = @ + 1, ![u][p].interactions = @ + n]
              = [usage EXCEPT ![u][p] = [[row EXCEPT !.requests = @ + 1]
                                            EXCEPT !.interactions = @ + n]]
        BY <1>2, <3>2 DEF Row
      <3>4. [[row EXCEPT !.requests = @ + 1] EXCEPT !.interactions = @ + n] = charged
        BY <1>2, Charging
      <3>. QED  BY <3>1, <3>3, <3>4
    <2>2. charged \in Row
      BY <1>2 DEF Row
    <2>3. charged.requests <= MonthlyRequests /\ charged.interactions <= MonthlyInteractions
      BY <1>4 DEF WithinPlan
    <2>4. /\ UsageType' /\ WithinMonthlyPlan'
          /\ \A v \in Users, q \in Periods : ExistsRow(v, q) => ExistsRow(v, q)'
      BY <1>1, <2>1, <2>2, <2>3, Replaced DEF IInv
    <2>5. ClientsOK'
      BY <1>1, <2>1, <2>4, Went DEF PCs
    <2>. QED  BY <1>3, <2>4, <2>5 DEF IInv
  <1>5. CASE ~WithinPlan(row, n)
    <2>1. client' = [client EXCEPT ![c] = Idle] /\ UNCHANGED usage
      BY <1>0, <1>5, Zenon DEF Reserve
    <2>2. UsageType' /\ WithinMonthlyPlan'
      BY <2>1 DEF IInv, UsageType, WithinMonthlyPlan
    <2>3. ClientsOK'
      BY <2>1, Ended DEF ExistsRow
    <2>. QED  BY <1>3, <2>2, <2>3 DEF IInv
  <1>. QED  BY <1>4, <1>5

\* refund_usage lowers a row that exists and makes none.
LEMMA FailStep ==
  ASSUME IInv, NEW c \in Clients, Fail(c)
  PROVE  IInv'
  <1>0. PICK u \in Users, n \in Nat : u = client[c].user /\ n = client[c].n
    BY ClientFacts DEF Fail
  <1>. DEFINE row == usage[u][today]
  <1>1. client[c].pc = "running" /\ today \in Periods
    BY DEF Fail, IInv, CountType
  <1>2. LockType' /\ CountType'
    BY DEF Fail, IInv, LockType, CountType
  <1>3. /\ UsageType' /\ WithinMonthlyPlan'
        /\ \A v \in Users, q \in Periods : ExistsRow(v, q) => ExistsRow(v, q)'
    <2>1. CASE ExistsRow(u, today)
      <3>1. row \in Row
        BY <1>1, <2>1, RowAt DEF IInv
      <3>2. row.requests <= MonthlyRequests /\ row.interactions <= MonthlyInteractions
        BY <1>1 DEF IInv, WithinMonthlyPlan
      <3>3. /\ Lowered(row, n) \in Row
            /\ Lowered(row, n).requests <= MonthlyRequests
            /\ Lowered(row, n).interactions <= MonthlyInteractions
        <4>1. /\ Lowered(row, n) \in Row
              /\ Lowered(row, n).requests <= row.requests
              /\ Lowered(row, n).interactions <= row.interactions
          BY <3>1, LoweredIsRow
        <4>. QED  BY <3>1, <3>2, <4>1, PlanAssumption DEF Row
      <3>4. usage' = [usage EXCEPT ![u][today] = Lowered(row, n)]
        BY <1>0, <2>1, Zenon DEF Fail, RefundUsage, CurrentPeriod
      <3>. QED  BY <1>1, <3>3, <3>4, Replaced DEF IInv
    <2>2. CASE ~ExistsRow(u, today)
      <3>1. usage' = usage
        BY <1>0, <2>2, Zenon DEF Fail, RefundUsage, CurrentPeriod
      <3>. QED  BY <3>1 DEF IInv, UsageType, WithinMonthlyPlan, ExistsRow
    <2>. QED  BY <2>1, <2>2
  <1>4. ClientsOK'
    BY <1>1, <1>3, Went DEF Fail, PCs
  <1>. QED  BY <1>2, <1>3, <1>4 DEF IInv

\* The insert makes an empty row or, if it meets one, changes nothing.
LEMMA InsertStep ==
  ASSUME IInv, NEW c \in Clients, Insert(c)
  PROVE  IInv'
  <1>0. PICK u \in Users, p \in Periods : u = client[c].user /\ p = client[c].period
    BY ClientFacts DEF Insert
  <1>1. client[c].pc = "insert" /\ client[c].then \in {"update", "summary"}
    BY ClientFacts DEF Insert, CallOK
  <1>2. LockType' /\ CountType'
    BY DEF Insert, IInv, LockType, CountType
  <1>3. CASE ExistsRow(u, p)
    <2>1. Goto(c, "select") /\ UNCHANGED usage
      BY <1>0, <1>3, Zenon DEF Insert
    <2>2. UsageType' /\ WithinMonthlyPlan'
      BY <2>1 DEF IInv, UsageType, WithinMonthlyPlan
    <2>3. ClientsOK'
      <3>. DEFINE to == [client[c] EXCEPT !.pc = "select"]
      <3>1. client[c] \in ClientType
        BY ClientFacts
      <3>2. to \in ClientType /\ client' = [client EXCEPT ![c] = to] /\ client'[c] = to
        BY <2>1, <3>1 DEF ClientType, PCs, Goto, IInv, ClientsOK
      <3>3. to.pc = "select" /\ to.user = client[c].user /\ to.then = client[c].then
        BY <3>1 DEF ClientType
      <3>4. CallOK(c)' /\ RowIsThere(c)'
        BY <1>0, <1>1, <3>2, <3>3 DEF CallOK, RowIsThere
      <3>. QED  BY <2>1, <3>2, <3>4, Moved DEF IInv, ExistsRow
    <2>. QED  BY <1>2, <2>2, <2>3 DEF IInv
  <1>4. CASE ~ExistsRow(u, p)
    <2>1. usage' = [usage EXCEPT ![u][p] = Zero] /\ Goto(c, client[c].then)
      BY <1>0, <1>4, Zenon DEF Insert
    <2>2. Zero.requests <= MonthlyRequests /\ Zero.interactions <= MonthlyInteractions
      BY PlanAssumption DEF Zero
    <2>3. /\ UsageType' /\ WithinMonthlyPlan' /\ usage'[u][p] # NoRow
          /\ \A v \in Users, q \in Periods : ExistsRow(v, q) => ExistsRow(v, q)'
      BY <1>1, <2>1, <2>2, RowFacts, Replaced DEF IInv, ExistsRow
    <2>4. ClientsOK'
      BY <1>0, <1>1, <2>1, <2>3, Went DEF PCs
    <2>. QED  BY <1>2, <2>3, <2>4 DEF IInv
  <1>. QED  BY <1>3, <1>4

-----------------------------------------------------------------------------
\* Every step keeps the invariant.
LEMMA StepIInv == IInv /\ TInv /\ [Next]_vars => IInv'
  <1>. SUFFICES ASSUME IInv, TInv, [Next]_vars PROVE IInv'
    OBVIOUS
  <1>1. ASSUME UNCHANGED usage
        PROVE  /\ UsageType' /\ WithinMonthlyPlan'
               /\ \A v \in Users, q \in Periods : ExistsRow(v, q) => ExistsRow(v, q)'
    BY <1>1 DEF IInv, UsageType, WithinMonthlyPlan, ExistsRow
  <1>2. ASSUME NEW c \in Clients, NEW u \in Users, BeginSummary(c, u)  PROVE IInv'
    <2>1. Call(c, u, 0, 0, "summary") /\ UNCHANGED <<today, usage, lock, nextId, crashes>>
      BY <1>2 DEF BeginSummary
    <2>2. ClientsOK'
      BY <2>1, Called
    <2>. QED  BY <1>1, <2>1, <2>2 DEF IInv, LockType, CountType
  <1>3. ASSUME NEW c \in Clients, NEW u \in Users, NEW n \in Sizes, BeginReserve(c, u, n)
        PROVE  IInv'
    <2>1. /\ Call(c, u, nextId, n, "update") /\ nextId <= MaxRequests /\ nextId' = nextId + 1
          /\ UNCHANGED <<today, usage, lock, crashes>>
      BY <1>3 DEF BeginReserve
    <2>2. n \in Nat /\ nextId \in Int
      BY SizesAssumption DEF IInv, CountType
    <2>3. ClientsOK'
      BY <2>1, <2>2, Called
    <2>4. CountType'
      BY <2>1, BoundsAssumption DEF IInv, CountType
    <2>. QED  BY <1>1, <2>1, <2>3, <2>4 DEF IInv, LockType
  <1>4. ASSUME NEW c \in Clients, SelectFound(c)  PROVE IInv'
    <2>1. /\ client[c].pc = "select" /\ ExistsRow(client[c].user, client[c].period)
          /\ Goto(c, client[c].then) /\ UNCHANGED <<today, usage, nextId, crashes>>
          /\ client[c].then \in {"update", "summary"}
          /\ client[c].user \in Users /\ client[c].period \in Periods
      BY <1>4, ClientFacts DEF SelectFound, CallOK
    <2>2. LockType'
      BY <1>4, <2>1 DEF SelectFound, IInv, LockType
    <2>3. usage'[client[c].user][client[c].period] # NoRow
      BY <2>1 DEF ExistsRow
    <2>4. client[c].then \in PCs /\ client[c].then \notin {"select", "insert"}
      BY <2>1 DEF PCs
    <2>5. ClientsOK'
      BY <1>1, <2>1, <2>3, <2>4, Went
    <2>. QED  BY <1>1, <2>1, <2>2, <2>5 DEF IInv, CountType
  <1>5. ASSUME NEW c \in Clients, SelectNone(c)  PROVE IInv'
    <2>1. client[c].pc = "select" /\ Goto(c, "insert") /\ UNCHANGED <<today, usage, lock, nextId, crashes>>
      BY <1>5 DEF SelectNone
    <2>2. ClientsOK'
      <3>. DEFINE to == [client[c] EXCEPT !.pc = "insert"]
      <3>1. client[c] \in ClientType /\ CallOK(c)
        BY ClientFacts
      <3>2. to \in ClientType /\ client' = [client EXCEPT ![c] = to] /\ client'[c] = to
        BY <2>1, <3>1 DEF ClientType, PCs, Goto, IInv, ClientsOK
      <3>3. to.pc = "insert" /\ to.user = client[c].user /\ to.then = client[c].then
        BY <3>1 DEF ClientType
      <3>4. CallOK(c)' /\ RowIsThere(c)'
        BY <2>1, <3>1, <3>2, <3>3 DEF CallOK, RowIsThere
      <3>. QED  BY <1>1, <2>1, <3>2, <3>4, Moved DEF IInv
    <2>. QED  BY <1>1, <2>1, <2>2 DEF IInv, LockType, CountType
  <1>6. ASSUME NEW c \in Clients, NEW type, RecordEvent(c, type)  PROVE IInv'
    <2>1. client' = [client EXCEPT ![c] = Idle] /\ UNCHANGED <<today, usage, lock, nextId, crashes>>
      BY <1>6 DEF RecordEvent
    <2>2. ClientsOK'
      BY <1>1, <2>1, Ended
    <2>. QED  BY <1>1, <2>1, <2>2 DEF IInv, LockType, CountType
  <1>7. ASSUME NEW c \in Clients, Summarise(c)  PROVE IInv'
    <2>1. client' = [client EXCEPT ![c] = Idle] /\ UNCHANGED <<today, usage, lock, nextId, crashes>>
      BY <1>7 DEF Summarise
    <2>2. ClientsOK'
      BY <1>1, <2>1, Ended
    <2>. QED  BY <1>1, <2>1, <2>2 DEF IInv, LockType, CountType
  <1>8. ASSUME NEW c \in Clients, Crash(c)  PROVE IInv'
    <2>1. /\ client' = [client EXCEPT ![c] = Idle] /\ Unlock(c) /\ UNCHANGED <<today, usage, nextId>>
          /\ crashes < MaxCrashes /\ crashes' = crashes + 1
      BY <1>8 DEF Crash
    <2>2. ClientsOK' /\ LockType'
      BY <1>1, <2>1, Ended, Unlocked DEF IInv
    <2>3. CountType'
      BY <2>1, BoundsAssumption DEF IInv, CountType
    <2>. QED  BY <1>1, <2>1, <2>2, <2>3 DEF IInv
  <1>9. CASE NewMonth
    <2>1. today' \in Periods
      BY <1>9, BoundsAssumption DEF NewMonth, IInv, CountType, Periods
    <2>2. ClientsOK'
      BY <1>9 DEF NewMonth, IInv, ClientsOK, CallOK, RowIsThere, ExistsRow
    <2>. QED  BY <1>1, <1>9, <2>1, <2>2 DEF NewMonth, IInv, LockType, CountType
  <1>10. CASE UNCHANGED vars
    <2>1. ClientsOK'
      BY <1>10 DEF vars, IInv, ClientsOK, CallOK, RowIsThere, ExistsRow
    <2>. QED  BY <1>1, <1>10, <2>1 DEF vars, IInv, LockType, CountType
  <1>11. ASSUME NEW c \in Clients, NEW k \in Ids, TakeOver(c, k)  PROVE IInv'
    <2>. DEFINE to == [pc |-> "running", user |-> charge[k].user, id |-> k, n |-> charge[k].n,
                       period |-> charge[k].period, then |-> "update"]
    <2>1. client' = [client EXCEPT ![c] = to] /\ UNCHANGED <<today, usage, lock, nextId, crashes>>
      BY <1>11 DEF TakeOver
    <2>2. charge[k] \in Charges /\ charge[k].user \in Users
      <3>1. charge[k].state # "none" /\ ChargeOK(k) /\ nextId \in Int /\ k \in Int
        BY <1>11 DEF TakeOver, TInv, IInv, CountType, Ids
      <3>2. k < nextId
        BY <3>1 DEF ChargeOK, NoCharge
      <3>. QED  BY <3>1, <3>2 DEF ChargeOK, TInv, RecordType
    <2>3. to \in ClientType
      BY <2>2 DEF ClientType, PCs, Charges, Ids
    <2>4. to.pc = "running" /\ to.user \in Users
      BY <2>2
    <2>. HIDE DEF to
    <2>5. client'[c] = to
      BY <2>1 DEF IInv, ClientsOK
    <2>6. CallOK(c)' /\ RowIsThere(c)'
      BY <2>4, <2>5 DEF CallOK, RowIsThere
    <2>7. ClientsOK'
      BY <1>1, <2>1, <2>3, <2>6, Moved DEF IInv
    <2>. QED  BY <1>1, <2>1, <2>7 DEF IInv, LockType, CountType
  <1>. QED  BY <1>2, <1>3, <1>4, <1>5, <1>6, <1>7, <1>8, <1>9, <1>10, <1>11,
               ReserveStep, FailStep, InsertStep
            DEF Next, Settle, Succeed, RecordFailure

-----------------------------------------------------------------------------
(* The trail.  Each session that reserves has an id of its own, and what    *)
(* the history and the audit trail say about that id is what the places of  *)
(* its sessions in the code allow.                                          *)

\* An event appended to a trail.
LEMMA Appended ==
  ASSUME NEW tr \in Seq(Events), NEW e \in Events
  PROVE  /\ Append(tr, e) \in Seq(Events) /\ Append(tr, e) # <<>>
         /\ Len(tr) \in Nat /\ Len(Append(tr, e)) = Len(tr) + 1
         /\ \A i \in 1 .. Len(tr) : Append(tr, e)[i] = tr[i]
         /\ Append(tr, e)[Len(tr) + 1] = e
  <1>1. /\ Append(tr, e) \in Seq(Events) /\ Len(tr) \in Nat
        /\ Len(Append(tr, e)) = Len(tr) + 1
        /\ \A i \in 1 .. Len(tr) : Append(tr, e)[i] = tr[i]
        /\ Append(tr, e)[Len(tr) + 1] = e
    BY AppendProperties
  <1>2. Len(<<>>) = 0
    OBVIOUS
  <1>. QED  BY <1>1, <1>2

\* A reservation begins a trail, and an outcome does not begin another.
LEMMA Continued ==
  ASSUME NEW tr \in Seq(Events), NEW e \in Events, Begins(tr),
         (e = "simulation_request") = (tr = <<>>)
  PROVE  Begins(Append(tr, e))
  <1>1. PICK n \in Nat : n = Len(tr) /\ Len(Append(tr, e)) = n + 1
    BY Appended
  <1>2. ASSUME NEW i \in 1 .. n + 1
        PROVE  (Append(tr, e)[i] = "simulation_request") = (i = 1)
    <2>1. CASE i \in 1 .. n
      BY <1>1, <2>1, Appended DEF Begins
    <2>2. CASE i = n + 1
      <3>1. Append(tr, e)[i] = e
        BY <1>1, <2>2, Appended
      <3>2. (tr = <<>>) = (n = 0)
        BY <1>1, EmptySeq
      <3>. QED  BY <2>2, <3>1, <3>2
    <2>. QED  BY <1>1, <2>1, <2>2
  <1>. QED  BY <1>1, <1>2 DEF Begins

\* A session that moves on while the record of its request, and of no other, may
\* change: k is the id it has or takes.  Sessions that only settle k may be many.
LEMMA Booked ==
  ASSUME IInv, TInv, CountType', RecordType', NEW c \in Clients, NEW k \in Ids,
         \A d \in Clients : d # c => client'[d] = client[d],
         \A j \in Ids : j # k => charge'[j] = charge[j] /\ audit'[j] = audit[j],
         \A d \in Clients : d # c /\ Asking(client[d]) => client[d].id # k,
         \A d \in Clients : d # c /\ Claiming(client[d]) /\ client[d].id = k =>
           /\ charge'[k].user = charge[k].user /\ charge'[k].n = charge[k].n
           /\ charge'[k].period = charge[k].period /\ charge'[k].state # "none",
         Asking(client'[c]) => client'[c].id = k, InOrder(client[c])',
         ChargeOK(k)', TrailOK(k)', nextId' >= nextId, today' >= today,
         \A j \in Ids : j # k => (j < nextId <=> j < nextId')
  PROVE  TInv'
  <1>1. ASSUME NEW d \in Clients, d # c  PROVE InOrder(client[d])'
    <2>1. InOrder(client[d]) /\ client[d] \in ClientType /\ nextId \in Int /\ nextId' \in Int
      BY DEF TInv, ClaimsOK, IInv, ClientsOK, CountType
    <2>2. CASE Claiming(client[d])
      <3>1. client[d].id \in Ids /\ client[d].id < nextId'
        BY <1>1, <2>1, <2>2 DEF InOrder, Ids
      <3>2. CASE client[d].id # k
        <4>1. charge'[client[d].id] = charge[client[d].id]
          BY <3>1, <3>2
        <4>. QED  BY <1>1, <2>1, <2>2, <3>1, <4>1 DEF InOrder, Claiming, Stage
      <3>3. CASE client[d].id = k
        <4>1. /\ charge'[k].user = charge[k].user /\ charge'[k].n = charge[k].n
              /\ charge'[k].period = charge[k].period /\ charge'[k].state # "none"
              /\ client[d].pc \notin {"select", "insert", "update"}
          BY <1>1, <2>2, <3>3 DEF Asking, Claiming
        <4>. QED  BY <1>1, <2>1, <2>2, <3>1, <3>3, <4>1 DEF InOrder, Claiming, Stage
      <3>. QED  BY <3>2, <3>3
    <2>3. CASE ~Claiming(client[d])
      BY <1>1, <2>1, <2>3 DEF InOrder, Claiming
    <2>. QED  BY <2>2, <2>3
  <1>2. ClaimsOK'
    <2>1. \A d \in Clients : InOrder(client[d])'
      BY <1>1
    <2>2. ASSUME NEW d \in Clients, NEW e \in Clients, d # e,
                 Asking(client'[d]), Asking(client'[e])
          PROVE  client'[d].id # client'[e].id
      BY <2>2 DEF TInv, ClaimsOK
    <2>. QED  BY <2>1, <2>2 DEF ClaimsOK, Asking
  <1>3. ASSUME NEW j \in Ids, j # k  PROVE ChargeOK(j)' /\ TrailOK(j)'
    <2>1. ChargeOK(j) /\ TrailOK(j) /\ charge[j] \in Charges
      BY DEF TInv, RecordType
    <2>2. TrailOK(j)'
      BY <1>3, <2>1 DEF TrailOK
    <2>3. charge[j].period \in Int /\ today \in Int /\ today' \in Int
      BY <2>1 DEF Charges, IInv, CountType, Periods
    <2>4. nextId \in Int /\ nextId' \in Int /\ j \in Int
      BY DEF IInv, CountType, Ids
    <2>5. ChargeOK(j)'
      BY <1>3, <2>1, <2>3, <2>4 DEF ChargeOK
    <2>. QED  BY <2>2, <2>5
  <1>. QED  BY <1>2, <1>3 DEF TInv

\* A session that moves on and leaves the records alone.
LEMMA Unbooked ==
  ASSUME IInv, TInv, CountType', NEW c \in Clients, NEW to \in ClientType,
         client' = [client EXCEPT ![c] = to],
         UNCHANGED <<charge, audit, nextId, today>>,
         Asking(to) => Asking(client[c]) /\ to.id = client[c].id, InOrder(to)
  PROVE  TInv'
  <1>1. client' \in [Clients -> ClientType] /\ client'[c] = to
        /\ \A d \in Clients : d # c => client'[d] = client[d]
    BY DEF IInv, ClientsOK
  <1>2. \A d \in Clients : InOrder(client'[d])
    BY <1>1 DEF TInv, ClaimsOK
  <1>3. \A r : InOrder(r) => InOrder(r)'
    BY DEF InOrder, Claiming, Stage
  <1>4. \A d \in Clients : InOrder(client[d])'
    BY <1>2, <1>3 DEF InOrder, Claiming, Stage
  <1>5. ASSUME NEW d \in Clients, NEW e \in Clients, d # e,
               Asking(client'[d]), Asking(client'[e])
        PROVE  client'[d].id # client'[e].id
    BY <1>1, <1>5 DEF TInv, ClaimsOK
  <1>6. ClaimsOK'
    BY <1>4, <1>5 DEF ClaimsOK, Asking
  <1>. QED  BY <1>6 DEF TInv, RecordType, ChargeOK, TrailOK

\* A session that ends its call and leaves the records alone.
LEMMA EndedTrail ==
  ASSUME IInv, TInv, CountType', NEW c \in Clients, client' = [client EXCEPT ![c] = Idle],
         UNCHANGED <<charge, audit, nextId, today>>
  PROVE  TInv'
  <1>1. Idle \in ClientType /\ ~Asking(Idle) /\ InOrder(Idle)
    BY PeriodsAreNat DEF Idle, ClientType, PCs, Claiming, Asking, InOrder
  <1>. QED  BY <1>1, Unbooked

\* What is known of the request of a session that is to update, run or settle it.
LEMMA ClaimFacts ==
  ASSUME IInv, TInv, NEW c \in Clients, client[c].pc \in {"update", "running", "refunded"}
  PROVE  /\ Claiming(client[c]) /\ InOrder(client[c]) /\ client[c] \in ClientType
         /\ client[c].id \in Ids /\ client[c].id < nextId
         /\ charge[client[c].id] \in Charges /\ audit[client[c].id] \in Seq(Events)
         /\ charge[client[c].id].user = client[c].user /\ charge[client[c].id].n = client[c].n
         /\ charge[client[c].id].period = client[c].period
         /\ Stage(client[c]) /\ ChargeOK(client[c].id) /\ TrailOK(client[c].id)
         /\ \A d \in Clients : d # c /\ Asking(client[d]) => client[d].id # client[c].id
  <1>1. InOrder(client[c]) /\ client[c] \in ClientType
    BY DEF TInv, ClaimsOK, IInv, ClientsOK
  <1>2. Claiming(client[c])
    BY <1>1 DEF InOrder, Claiming
  <1>3. \A d \in Clients : d # c /\ Asking(client[d]) => client[d].id # client[c].id
    <2>1. ASSUME NEW d \in Clients, d # c, Asking(client[d]), client[d].id = client[c].id
          PROVE  FALSE
      <3>1. InOrder(client[d]) /\ Claiming(client[d])
        BY <2>1 DEF TInv, ClaimsOK, Asking, Claiming
      <3>2. charge[client[c].id].state = "none"
        BY <2>1, <3>1 DEF InOrder, Stage, Asking
      <3>3. client[c].pc = "update" /\ Asking(client[c])
        BY <1>1, <1>2, <3>2 DEF InOrder, Stage, Asking, Claiming
      <3>. QED  BY <2>1, <3>3 DEF TInv, ClaimsOK
    <2>. QED  BY <2>1
  <1>4. client[c].id \in Ids
    BY <1>1, <1>2 DEF InOrder
  <1>. QED  BY <1>1, <1>2, <1>3, <1>4 DEF TInv, RecordType, InOrder

\* A request gets a blank id, the next one.
LEMMA BeginReserveTrail ==
  ASSUME IInv, TInv, CountType', NEW c \in Clients, NEW u \in Users, NEW n \in Sizes,
         BeginReserve(c, u, n)
  PROVE  TInv'
  <1>0. PICK k \in Ids, p \in Periods : k = nextId /\ p = today
    BY DEF BeginReserve, IInv, CountType, Ids
  <1>. DEFINE to == [pc |-> "select", user |-> u, id |-> k, n |-> n,
                     period |-> p, then |-> "update"]
              ch == [user |-> u, n |-> n, period |-> p, state |-> "none"]
  <1>1. /\ k \in Int /\ p \in Int /\ n \in Nat /\ nextId' = k + 1 /\ today' = p
    BY <1>0, SizesAssumption DEF BeginReserve, Ids, Periods
  <1>2. to \in ClientType /\ ch \in Charges
    BY <1>1 DEF ClientType, PCs, Charges
  <1>3. /\ client' = [client EXCEPT ![c] = to] /\ charge' = [charge EXCEPT ![k] = ch]
        /\ audit' = audit
    BY <1>0 DEF BeginReserve, Call, CurrentPeriod
  <1>4. audit[k] = <<>>
    BY <1>0, <1>1 DEF TInv, ChargeOK, TrailOK, NoCharge
  <1>6. charge'[k] = ch /\ audit'[k] = <<>>
    BY <1>3, <1>4 DEF TInv, RecordType
  <1>7. InOrder(client[c])'
    <2>0. client'[c] = to
      BY <1>2, <1>3 DEF IInv, ClientsOK
    <2>1. to.id = k /\ k < nextId' /\ to.pc = "select" /\ to.then = "update"
      BY <1>1
    <2>2. to.user = ch.user /\ to.n = ch.n /\ to.period = ch.period /\ ch.state = "none"
      OBVIOUS
    <2>. HIDE DEF to, ch
    <2>. QED  BY <1>6, <2>0, <2>1, <2>2 DEF InOrder, Claiming, Stage
  <1>8. ChargeOK(k)' /\ TrailOK(k)'
    <2>1. ChargeOK(k)'
      BY <1>1, <1>6 DEF ChargeOK
    <2>2. TrailOK(k)'
      BY <1>6 DEF TrailOK, Begins
    <2>. QED  BY <2>1, <2>2
  <1>9. \A d \in Clients : Claiming(client[d]) \/ Asking(client[d]) => client[d].id # k
    BY <1>0, <1>1 DEF TInv, ClaimsOK, InOrder, Asking, Claiming
  <1>10. /\ nextId' >= nextId /\ today' >= today
         /\ \A j \in Ids : j # k => (j < nextId <=> j < nextId')
    BY <1>0, <1>1 DEF Ids
  <1>. HIDE DEF to, ch
  <1>11. /\ RecordType' /\ client'[c] = to
         /\ \A d \in Clients : d # c => client'[d] = client[d]
         /\ \A j \in Ids : j # k => charge'[j] = charge[j] /\ audit'[j] = audit[j]
    BY <1>2, <1>3 DEF TInv, RecordType, IInv, ClientsOK
  <1>12. client'[c].id = k
    BY <1>11 DEF to
  <1>. QED  BY <1>7, <1>8, <1>9, <1>10, <1>11, <1>12, Booked

\* A session that has a request moves on to pc, or ends its call, and sets the
\* state or adds to the trail of its request.
LEMMA Settled ==
  ASSUME IInv, TInv, NEW c \in Clients, client[c].pc \in {"update", "running", "refunded"},
         NEW pc \in {"idle", "running", "refunded"},
         NEW st \in {"charged", "returned", "misplaced"}, NEW tr \in Seq(Events),
         UNCHANGED <<nextId, today>>, crashes' \in 0 .. MaxCrashes,
         \/ Goto(c, pc) /\ pc # "idle"
         \/ client' = [client EXCEPT ![c] = Idle] /\ pc = "idle",
         charge' = [charge EXCEPT ![client[c].id] =
                      [user |-> client[c].user, n |-> client[c].n,
                       period |-> client[c].period, state |-> st]],
         audit' = [audit EXCEPT ![client[c].id] = tr],
         tr # <<>>, Begins(tr)
  PROVE  TInv'
  <1>0. PICK k \in Ids : k = client[c].id
    BY ClaimFacts
  <1>. DEFINE ch == [user |-> client[c].user, n |-> client[c].n,
                     period |-> client[c].period, state |-> st]
  <1>1. ch \in Charges
    BY ClaimFacts DEF Charges, ClientType
  <1>2. /\ client' \in [Clients -> ClientType] /\ client'[c].pc = pc
        /\ \A d \in Clients : d # c => client'[d] = client[d]
        /\ pc # "idle" => /\ client'[c].then = client[c].then /\ client'[c].id = k
                          /\ client'[c].user = client[c].user /\ client'[c].n = client[c].n
                          /\ client'[c].period = client[c].period
    <2>1. client \in [Clients -> ClientType]
      BY DEF IInv, ClientsOK
    <2>2. CASE pc # "idle"
      <3>1. PICK r : r = [client[c] EXCEPT !.pc = pc]
        OBVIOUS
      <3>2. /\ r \in ClientType /\ r.pc = pc /\ r.then = client[c].then /\ r.id = client[c].id
            /\ r.user = client[c].user /\ r.n = client[c].n /\ r.period = client[c].period
        BY <2>1, <3>1 DEF ClientType, PCs
      <3>3. client' = [client EXCEPT ![c] = r]
        BY <2>1, <2>2, <3>1 DEF Goto
      <3>. QED  BY <1>0, <2>1, <3>2, <3>3
    <2>3. CASE pc = "idle"
      <3>1. Idle \in ClientType /\ Idle.pc = "idle"
        BY PeriodsAreNat DEF Idle, ClientType, PCs
      <3>2. client' = [client EXCEPT ![c] = Idle]
        BY <2>3
      <3>. QED  BY <2>1, <2>3, <3>1, <3>2
    <2>. QED  BY <2>2, <2>3
  <1>3. /\ charge'[k] = ch /\ audit'[k] = tr /\ RecordType'
        /\ \A j \in Ids : j # k => charge'[j] = charge[j] /\ audit'[j] = audit[j]
    BY <1>0, <1>1 DEF TInv, RecordType
  <1>4. /\ ch.state = st /\ ch.user = charge[k].user /\ ch.n = charge[k].n
        /\ ch.period = charge[k].period
        /\ ch.user = client[c].user /\ ch.n = client[c].n /\ ch.period = client[c].period
    BY <1>0, ClaimFacts
  <1>. HIDE DEF ch
  <1>5. k < nextId /\ nextId \in Int /\ k \in Int /\ today \in Int /\ CountType'
    BY <1>0, ClaimFacts DEF IInv, CountType, Ids, Periods
  <1>6. InOrder(client[c])'
    <2>1. Stage(client[c])' \/ pc = "idle"
      BY <1>2, <1>3, <1>4 DEF Stage
    <2>2. client[c].then = "update"
      BY ClaimFacts DEF Claiming
    <2>. QED  BY <1>2, <1>3, <1>4, <1>5, <2>1, <2>2 DEF InOrder, Claiming
  <1>7. ChargeOK(k)' /\ TrailOK(k)'
    <2>1. ChargeOK(k)
      BY <1>0, ClaimFacts
    <2>2. ChargeOK(k)'
      BY <1>3, <1>4, <1>5, <2>1 DEF ChargeOK
    <2>3. TrailOK(k)'
      BY <1>3, <1>4 DEF TrailOK, Begins
    <2>. QED  BY <2>2, <2>3
  <1>8. \A d \in Clients : d # c /\ Asking(client[d]) => client[d].id # k
    BY <1>0, ClaimFacts
  <1>9. /\ nextId' >= nextId /\ today' >= today
        /\ \A j \in Ids : j # k => (j < nextId <=> j < nextId')
    BY <1>5
  <1>10. ~Asking(client'[c])
    BY <1>2 DEF Asking
  <1>11. /\ charge'[k].user = charge[k].user /\ charge'[k].n = charge[k].n
         /\ charge'[k].period = charge[k].period /\ charge'[k].state # "none"
    BY <1>3, <1>4
  <1>. QED  BY <1>2, <1>3, <1>5, <1>6, <1>7, <1>8, <1>9, <1>10, <1>11, Booked

\* The state of a charge is assigned, and nothing else of it.
LEMMA StateOf ==
  ASSUME TInv, NEW k \in Ids, NEW st, charge' = [charge EXCEPT ![k].state = st]
  PROVE  charge' = [charge EXCEPT ![k] = [user |-> charge[k].user, n |-> charge[k].n,
                                          period |-> charge[k].period, state |-> st]]
  <1>1. \A ch \in Charges : [ch EXCEPT !.state = st] = [user |-> ch.user, n |-> ch.n,
                                                       period |-> ch.period, state |-> st]
    BY DEF Charges
  <1>2. charge[k] \in Charges
    BY DEF TInv, RecordType
  <1>3. charge' = [charge EXCEPT ![k] = [charge[k] EXCEPT !.state = st]]
    BY DEF TInv, RecordType
  <1>. QED  BY <1>1, <1>2, <1>3

\* A reservation that the plan has room for is on the trail, with its charge.
LEMMA ReserveTrail ==
  ASSUME IInv, TInv, CountType', NEW c \in Clients, Reserve(c)
  PROVE  TInv'
  <1>0. PICK u \in Users, p \in Periods, k \in Ids :
           u = client[c].user /\ p = client[c].period /\ k = client[c].id
    BY ClientFacts, ClaimFacts DEF Reserve
  <1>1. client[c].pc = "update" /\ UNCHANGED <<nextId, today, crashes>>
    BY DEF Reserve
  <1>2. CASE WithinPlan(usage[u][p], client[c].n)
    <2>1. /\ Goto(c, "running")
          /\ audit' = [audit EXCEPT ![k] = Append(@, "simulation_request")]
          /\ charge' = [charge EXCEPT ![k].state = "charged"]
      BY <1>0, <1>2, Zenon DEF Reserve
    <2>2. charge[k].state = "none" /\ TrailOK(k) /\ charge[k] \in Charges
      BY <1>0, <1>1, ClaimFacts DEF Stage
    <2>3. audit[k] = <<>>
      BY <2>2 DEF TrailOK
    <2>4. PICK tr \in Seq(Events) : /\ tr = Append(<<>>, "simulation_request")
                                   /\ tr # <<>> /\ Begins(tr)
      <3>1. <<>> \in Seq(Events) /\ "simulation_request" \in Events /\ Begins(<<>>)
        BY EmptySeq DEF Events, Begins
      <3>. QED  BY <3>1, Appended, Continued
    <2>6. audit' = [audit EXCEPT ![client[c].id] = tr]
      BY <1>0, <2>1, <2>3, <2>4
    <2>5. charge' = [charge EXCEPT ![client[c].id] =
                       [user |-> client[c].user, n |-> client[c].n,
                        period |-> client[c].period, state |-> "charged"]]
      <3>1. /\ charge[k].user = client[c].user /\ charge[k].n = client[c].n
            /\ charge[k].period = client[c].period
        BY <1>0, <1>1, ClaimFacts
      <3>2. charge' = [charge EXCEPT ![k] = [user |-> charge[k].user, n |-> charge[k].n,
                                             period |-> charge[k].period, state |-> "charged"]]
        BY <2>1, StateOf
      <3>. QED  BY <1>0, <3>1, <3>2
    <2>7. crashes' \in 0 .. MaxCrashes
      BY <1>1 DEF IInv, CountType
    <2>. QED  BY <1>1, <2>1, <2>4, <2>5, <2>6, <2>7, Settled
  <1>3. CASE ~WithinPlan(usage[u][p], client[c].n)
    <2>1. client' = [client EXCEPT ![c] = Idle] /\ UNCHANGED <<audit, charge>>
      BY <1>0, <1>3, Zenon DEF Reserve
    <2>. QED  BY <1>1, <2>1, EndedTrail
  <1>. QED  BY <1>2, <1>3

\* A failure settles the charge, before anything is on the trail.
LEMMA FailTrail ==
  ASSUME IInv, TInv, CountType', NEW c \in Clients, Fail(c)
  PROVE  TInv'
  <1>0. PICK k \in Ids : k = client[c].id
    BY ClaimFacts DEF Fail
  <1>1. PICK st \in {"returned", "misplaced"} : charge' = [charge EXCEPT ![k].state = st]
    <2>1. charge' = [charge EXCEPT ![k].state =
                       IF charge[k].state = "charged" /\ charge[k].period = CurrentPeriod
                         THEN "returned" ELSE "misplaced"]
      BY <1>0 DEF Fail, RefundUsage, TInv, RecordType, Charges
    <2>. QED  BY <2>1
  <1>2. /\ client[c].pc = "running" /\ Goto(c, "refunded")
        /\ UNCHANGED <<nextId, today, crashes, audit>>
    BY DEF Fail
  <1>3. PICK tr \in Seq(Events) : tr = audit[k] /\ tr # <<>> /\ Begins(tr)
    BY <1>0, <1>2, ClaimFacts DEF Stage, TrailOK
  <1>4. audit' = [audit EXCEPT ![client[c].id] = tr]
    BY <1>0, <1>2, <1>3 DEF TInv, RecordType
  <1>5. charge' = [charge EXCEPT ![client[c].id] =
                     [user |-> client[c].user, n |-> client[c].n,
                      period |-> client[c].period, state |-> st]]
    <2>1. /\ charge[k].user = client[c].user /\ charge[k].n = client[c].n
          /\ charge[k].period = client[c].period
      BY <1>0, <1>2, ClaimFacts
    <2>2. charge' = [charge EXCEPT ![k] = [user |-> charge[k].user, n |-> charge[k].n,
                                           period |-> charge[k].period, state |-> st]]
      BY <1>1, StateOf
    <2>. QED  BY <1>0, <2>1, <2>2
  <1>6. crashes' \in 0 .. MaxCrashes
    BY <1>2 DEF IInv, CountType
  <1>. QED  BY <1>2, <1>3, <1>4, <1>5, <1>6, Settled

\* The outcome is on the trail after the reservation.
LEMMA RecordTrail ==
  ASSUME IInv, TInv, CountType', NEW c \in Clients,
         NEW type \in {"simulation_completed", "simulation_failed"}, RecordEvent(c, type),
         client[c].pc \in {"running", "refunded"}
  PROVE  TInv'
  <1>0. PICK k \in Ids : k = client[c].id
    BY ClaimFacts
  <1>1. /\ client' = [client EXCEPT ![c] = Idle] /\ UNCHANGED <<nextId, today, crashes, charge>>
        /\ audit' = [audit EXCEPT ![k] = Append(@, type)]
    BY <1>0 DEF RecordEvent
  <1>2. /\ charge[k] \in Charges /\ audit[k] \in Seq(Events) /\ charge[k].state # "none"
        /\ TrailOK(k)
        /\ charge[k].user = client[c].user /\ charge[k].n = client[c].n
        /\ charge[k].period = client[c].period
    BY <1>0, ClaimFacts DEF Stage
  <1>3. PICK tr \in Seq(Events) : tr = Append(audit[k], type) /\ tr # <<>> /\ Begins(tr)
    <2>1. audit[k] # <<>> /\ Begins(audit[k])
      BY <1>2 DEF TrailOK
    <2>2. type \in Events /\ type # "simulation_request"
      BY DEF Events
    <2>. QED  BY <1>2, <2>1, <2>2, Appended, Continued
  <1>4. audit' = [audit EXCEPT ![client[c].id] = tr]
    BY <1>0, <1>1, <1>3
  <1>5. PICK st \in {"charged", "returned", "misplaced"} : st = charge[k].state
    BY <1>2 DEF Charges
  <1>6. charge' = [charge EXCEPT ![client[c].id] =
                     [user |-> client[c].user, n |-> client[c].n,
                      period |-> client[c].period, state |-> st]]
    <2>1. charge \in [Ids -> Charges]
      BY DEF TInv, RecordType
    <2>2. charge' = [charge EXCEPT ![k].state = st]
      BY <1>1, <1>2, <1>5, <2>1 DEF Charges
    <2>3. charge' = [charge EXCEPT ![k] = [user |-> charge[k].user, n |-> charge[k].n,
                                           period |-> charge[k].period, state |-> st]]
      BY <2>2, StateOf
    <2>. QED  BY <1>0, <1>2, <2>3
  <1>7. PICK pc \in {"idle", "running", "refunded"} : pc = "idle"
    OBVIOUS
  <1>8. /\ client[c].pc \in {"update", "running", "refunded"}
        /\ UNCHANGED <<nextId, today>> /\ crashes' \in 0 .. MaxCrashes
    BY <1>1 DEF IInv, CountType
  <1>9. \/ Goto(c, pc) /\ pc # "idle"
        \/ client' = [client EXCEPT ![c] = Idle] /\ pc = "idle"
    BY <1>1, <1>7
  <1>. QED  BY <1>3, <1>4, <1>6, <1>8, <1>9, Settled

\* Looking for a row and making one, on the way to the update or the summary.
LEMMA WalkedTrail ==
  ASSUME IInv, TInv, CountType', NEW c \in Clients, client[c].pc \in {"select", "insert"},
         NEW pc, pc \in {"select", "insert"} \/ pc = client[c].then, Goto(c, pc),
         UNCHANGED <<charge, audit, nextId, today>>
  PROVE  TInv'
  <1>. DEFINE to == [client[c] EXCEPT !.pc = pc]
  <1>1. client[c] \in ClientType /\ InOrder(client[c]) /\ client[c].then \in {"update", "summary"}
    BY ClientFacts DEF TInv, ClaimsOK, CallOK
  <1>2. to \in ClientType /\ client' = [client EXCEPT ![c] = to]
    BY <1>1 DEF ClientType, PCs, Goto
  <1>3. /\ to.pc = pc /\ to.then = client[c].then /\ to.id = client[c].id
        /\ to.user = client[c].user /\ to.n = client[c].n /\ to.period = client[c].period
    BY <1>1 DEF ClientType
  <1>. HIDE DEF to
  <1>4. Asking(to) => Asking(client[c])
    BY <1>3 DEF Asking
  <1>5. InOrder(to)
    BY <1>1, <1>3 DEF InOrder, Claiming, Stage
  <1>. QED  BY <1>2, <1>3, <1>4, <1>5, Unbooked

LEMMA InitTInv == Init => TInv
  <1>. SUFFICES ASSUME Init PROVE TInv
    OBVIOUS
  <1>1. RecordType
    BY PeriodsAreNat, EmptySeq DEF Init, RecordType, Charges, NoCharge
  <1>2. ClaimsOK
    BY DEF Init, ClaimsOK, InOrder, Claiming, Asking, Idle
  <1>3. ASSUME NEW k \in Ids  PROVE ChargeOK(k) /\ TrailOK(k)
    BY EmptySeq DEF Init, ChargeOK, TrailOK, Begins, NoCharge, Ids
  <1>. QED  BY <1>1, <1>2, <1>3 DEF TInv

\* Every step keeps the trail and the claims in order.
LEMMA StepTInv == IInv /\ TInv /\ [Next]_vars => TInv'
  <1>. SUFFICES ASSUME IInv, TInv, [Next]_vars PROVE TInv'
    OBVIOUS
  <1>0. CountType'
    BY StepIInv DEF IInv
  <1>1. ASSUME NEW c \in Clients, NEW u \in Users, BeginSummary(c, u)  PROVE TInv'
    <2>. DEFINE to == [pc |-> "select", user |-> u, id |-> 0, n |-> 0,
                       period |-> today, then |-> "summary"]
    <2>1. to \in ClientType /\ ~Asking(to) /\ InOrder(to)
      BY DEF ClientType, PCs, Claiming, Asking, InOrder, IInv, CountType
    <2>2. client' = [client EXCEPT ![c] = to] /\ UNCHANGED <<charge, audit, nextId, today>>
      BY <1>1 DEF BeginSummary, Call, CurrentPeriod
    <2>. HIDE DEF to
    <2>. QED  BY <1>0, <2>1, <2>2, Unbooked
  <1>2. ASSUME NEW c \in Clients, SelectFound(c)  PROVE TInv'
    BY <1>0, <1>2, WalkedTrail DEF SelectFound
  <1>3. ASSUME NEW c \in Clients, SelectNone(c)  PROVE TInv'
    BY <1>0, <1>3, WalkedTrail DEF SelectNone
  <1>4. ASSUME NEW c \in Clients, Insert(c)  PROVE TInv'
    <2>1. /\ client[c].pc = "insert" /\ UNCHANGED <<charge, audit, nextId, today>>
          /\ Goto(c, "select") \/ Goto(c, client[c].then)
      BY <1>4 DEF Insert
    <2>. QED  BY <1>0, <2>1, WalkedTrail
  <1>5. ASSUME NEW c \in Clients, Succeed(c)  PROVE TInv'
    BY <1>0, <1>5, RecordTrail DEF Succeed
  <1>6. ASSUME NEW c \in Clients, RecordFailure(c)  PROVE TInv'
    BY <1>0, <1>6, RecordTrail DEF RecordFailure
  <1>7. ASSUME NEW c \in Clients, Summarise(c)  PROVE TInv'
    BY <1>0, <1>7, EndedTrail DEF Summarise
  <1>8. ASSUME NEW c \in Clients, Crash(c)  PROVE TInv'
    BY <1>0, <1>8, EndedTrail DEF Crash
  <1>9. CASE NewMonth
    <2>1. UNCHANGED <<client, nextId, audit, charge>> /\ today' = today + 1 /\ today \in Int
      BY <1>9 DEF NewMonth, IInv, CountType, Periods
    <2>2. RecordType' /\ ClaimsOK'
      BY <2>1 DEF TInv, RecordType, ClaimsOK, InOrder, Claiming, Asking, Stage
    <2>3. ASSUME NEW k \in Ids  PROVE ChargeOK(k)' /\ TrailOK(k)'
      <3>1. ChargeOK(k) /\ TrailOK(k) /\ charge[k].period \in Int
        BY DEF TInv, RecordType, Charges, Periods
      <3>. QED  BY <2>1, <3>1 DEF ChargeOK, TrailOK
    <2>. QED  BY <2>2, <2>3 DEF TInv
  <1>10. CASE UNCHANGED vars
    BY <1>10 DEF vars, TInv, RecordType, ClaimsOK, InOrder, Claiming, Asking, Stage, ChargeOK, TrailOK
  <1>11. ASSUME NEW c \in Clients, NEW k \in Ids, TakeOver(c, k)  PROVE TInv'
    <2>. DEFINE to == [pc |-> "running", user |-> charge[k].user, id |-> k, n |-> charge[k].n,
                       period |-> charge[k].period, then |-> "update"]
    <2>1. client' = [client EXCEPT ![c] = to] /\ UNCHANGED <<charge, audit, nextId, today>>
      BY <1>11 DEF TakeOver
    <2>2. /\ charge[k].state # "none" /\ ChargeOK(k) /\ charge[k] \in Charges
          /\ nextId \in Int /\ k \in Int
      BY <1>11 DEF TakeOver, TInv, RecordType, IInv, CountType, Ids
    <2>3. k < nextId
      BY <2>2 DEF ChargeOK, NoCharge
    <2>4. to \in ClientType
      BY <2>2 DEF ClientType, PCs, Charges, Ids
    <2>5. /\ to.pc = "running" /\ to.then = "update" /\ to.id = k
          /\ to.user = charge[k].user /\ to.n = charge[k].n /\ to.period = charge[k].period
      OBVIOUS
    <2>. HIDE DEF to
    <2>6. InOrder(to) /\ ~Asking(to)
      BY <2>2, <2>3, <2>5 DEF InOrder, Claiming, Asking, Stage
    <2>. QED  BY <1>0, <2>1, <2>4, <2>6, Unbooked
  <1>. QED  BY <1>0, <1>1, <1>2, <1>3, <1>4, <1>5, <1>6, <1>7, <1>8, <1>9, <1>10, <1>11,
               BeginReserveTrail, ReserveTrail, FailTrail
            DEF Next, Settle

-----------------------------------------------------------------------------
\* The counters are never negative and every row, lock and period keeps its
\* type, whichever sessions meet, die or run past the end of a month.
THEOREM TypeCorrect == Spec => []TypeOK
  <1>1. IInv => TypeOK
    BY DEF IInv, TypeOK, UsageType, LockType, CountType, ClientsOK, ClientType, PCs
  <1>. QED  BY InitIInv, StepIInv, InitTInv, StepTInv, <1>1, PTL DEF Spec

\* reserve_usage never takes a month of a user above the plan, in requests or
\* in interactions, for any number of sessions and any sizes.
THEOREM MonthlyPlanSafe == Spec => []WithinMonthlyPlan
  <1>1. IInv => WithinMonthlyPlan
    BY DEF IInv
  <1>. QED  BY InitIInv, StepIInv, InitTInv, StepTInv, <1>1, PTL DEF Spec

-----------------------------------------------------------------------------
(* The tally of a request: the sessions that may yet refund it, and those    *)
(* that have and are to record the failure, beside what was taken on and     *)
(* what was given back.                                                      *)

FailuresOn(tr) == Cardinality({i \in 1 .. Len(tr) : tr[i] = "simulation_failed"})
Here(cl, pc, k) == {c \in Clients : cl[c].pc = pc /\ cl[c].id = k}
Bit(r, pc, k)   == IF r.pc = pc /\ r.id = k THEN 1 ELSE 0
OthersStay(cl, dl, c) == \A d \in Clients \ {c} : dl[d] = cl[d]

Tally(k) ==
    /\ Failures(k) + Cardinality(At("refunded", k)) <= given[k]
    /\ given[k] <= Failures(k) + Cardinality(At("refunded", k)) + crashes
    /\ Cardinality(At("running", k)) <= open[k]

VInv == /\ given \in [Ids -> Int] /\ open \in [Ids -> Int]
        /\ \A k \in Ids : Tally(k)

\* One event more on a trail is one failure more, or none.
LEMMA OneEventMore ==
  ASSUME NEW tr \in Seq(Events), NEW e \in Events
  PROVE  /\ FailuresOn(tr) \in Nat
         /\ FailuresOn(Append(tr, e)) = FailuresOn(tr) + (IF e = "simulation_failed" THEN 1 ELSE 0)
  <1>1. PICK n \in Nat : n = Len(tr)
    BY LenProperties
  <1>2. PICK A : A = {i \in 1 .. n : tr[i] = "simulation_failed"}
    OBVIOUS
  <1>3. PICK B : B = {i \in 1 .. n + 1 : Append(tr, e)[i] = "simulation_failed"}
    OBVIOUS
  <1>4. FailuresOn(tr) = Cardinality(A) /\ FailuresOn(Append(tr, e)) = Cardinality(B)
    BY <1>1, <1>2, <1>3, Appended DEF FailuresOn
  <1>5. IsFiniteSet(A) /\ Cardinality(A) \in Nat
    <2>1. A \subseteq 1 .. n /\ IsFiniteSet(1 .. n)
      BY <1>2, FS_Interval
    <2>. QED  BY <2>1, FS_Subset, FS_CardinalityType
  <1>6. (\A i \in 1 .. n : Append(tr, e)[i] = tr[i]) /\ Append(tr, e)[n + 1] = e
    BY <1>1, Appended
  <1>7. B = IF e = "simulation_failed" THEN A \union {n + 1} ELSE A
    BY <1>1, <1>2, <1>3, <1>6
  <1>8. n + 1 \notin A
    BY <1>1, <1>2
  <1>9. CASE e = "simulation_failed"
    <2>1. Cardinality(B) = Cardinality(A) + 1
      BY <1>5, <1>7, <1>8, <1>9, FS_AddElement
    <2>. QED  BY <1>4, <1>5, <1>9, <2>1
  <1>10. CASE e # "simulation_failed"
    BY <1>4, <1>5, <1>7, <1>10
  <1>. QED  BY <1>9, <1>10

\* A session that moves leaves one place and comes to another.
LEMMA OneMoves ==
  ASSUME NEW cl \in [Clients -> ClientType], NEW dl \in [Clients -> ClientType],
         NEW c \in Clients, OthersStay(cl, dl, c), NEW pc, NEW k
  PROVE  /\ Cardinality(Here(cl, pc, k)) \in Nat /\ Cardinality(Here(dl, pc, k)) \in Nat
         /\ Bit(cl[c], pc, k) <= Cardinality(Here(cl, pc, k))
         /\ Cardinality(Here(dl, pc, k)) + Bit(cl[c], pc, k)
              = Cardinality(Here(cl, pc, k)) + Bit(dl[c], pc, k)
  <1>1. PICK A : A = {d \in Clients \ {c} : cl[d].pc = pc /\ cl[d].id = k}
    OBVIOUS
  <1>2. /\ Here(cl, pc, k) = IF cl[c].pc = pc /\ cl[c].id = k THEN A \union {c} ELSE A
        /\ Here(dl, pc, k) = IF dl[c].pc = pc /\ dl[c].id = k THEN A \union {c} ELSE A
    BY <1>1 DEF Here, OthersStay
  <1>3. IsFiniteSet(A) /\ c \notin A
    <2>1. A \subseteq Clients
      BY <1>1
    <2>. QED  BY <1>1, <2>1, ClientsAssumption, FS_Subset
  <1>4. PICK a \in Nat : a = Cardinality(A) /\ Cardinality(A \union {c}) = a + 1
    BY <1>3, FS_CardinalityType, FS_AddElement
  <1>5. PICK x, y : x = Here(cl, pc, k) /\ y = Here(dl, pc, k)
    OBVIOUS
  <1>6. /\ Cardinality(x) = a + Bit(cl[c], pc, k) /\ Cardinality(y) = a + Bit(dl[c], pc, k)
        /\ Bit(cl[c], pc, k) \in 0 .. 1 /\ Bit(dl[c], pc, k) \in 0 .. 1
    BY <1>2, <1>4, <1>5 DEF Bit
  <1>7. /\ Cardinality(x) \in Nat /\ Cardinality(y) \in Nat
        /\ Bit(cl[c], pc, k) <= Cardinality(x)
        /\ Cardinality(y) + Bit(cl[c], pc, k) = Cardinality(x) + Bit(dl[c], pc, k)
    BY <1>4, <1>6
  <1>. QED  BY <1>5, <1>7

\* The failures of a trail are a number, and so are the sessions at a place.
LEMMA Counts ==
  ASSUME IInv, TInv, NEW k \in Ids
  PROVE  /\ Failures(k) = FailuresOn(audit[k]) /\ Failures(k) \in Nat
         /\ \A pc : At(pc, k) = Here(client, pc, k)
         /\ crashes \in Nat
  <1>1. Failures(k) = FailuresOn(audit[k]) /\ audit[k] \in Seq(Events)
    BY DEF Failures, FailuresOn, TInv, RecordType
  <1>2. "simulation_failed" \in Events
    BY DEF Events
  <1>. QED  BY <1>1, <1>2, OneEventMore DEF At, Here, IInv, CountType

\* What a step adds to the sessions about to record a failure, and to the failures
\* on record, it adds to the refunds, but for a crash; and what it adds to the
\* sessions about to refund, to the sessions that may.
LEMMA Tallied ==
  ASSUME IInv, TInv, IInv', TInv', NEW k \in Ids, Tally(k), given[k] \in Int, open[k] \in Int,
         NEW c \in Clients, NEW to \in ClientType, client' = [client EXCEPT ![c] = to],
         NEW df \in 0 .. 1, Failures(k)' = Failures(k) + df,
         NEW dg \in 0 .. 1, given'[k] = given[k] + dg,
         NEW do \in Int, open'[k] = open[k] + do,
         NEW dx \in 0 .. 1, crashes' = crashes + dx,
         df + Bit(to, "refunded", k) <= dg + Bit(client[c], "refunded", k),
         dg + Bit(client[c], "refunded", k) <= df + Bit(to, "refunded", k) + dx,
         Bit(to, "running", k) <= Bit(client[c], "running", k) + do
  PROVE  Tally(k)'
  <1>1. /\ client \in [Clients -> ClientType] /\ client' \in [Clients -> ClientType]
        /\ OthersStay(client, client', c) /\ client'[c] = to
    BY DEF IInv, ClientsOK, OthersStay
  <1>2. PICK f, x \in Nat : f = Failures(k) /\ x = crashes
    BY Counts
  <1>3. PICK g, o \in Int : g = given[k] /\ o = open[k]
    OBVIOUS
  <1>4. PICK r0, r1, b0, b1 \in Nat :
          /\ r0 = Cardinality(At("refunded", k)) /\ r1 = Cardinality(At("refunded", k)')
          /\ b0 = Bit(client[c], "refunded", k) /\ b1 = Bit(to, "refunded", k)
          /\ r1 + b0 = r0 + b1
    <2>1. At("refunded", k) = Here(client, "refunded", k)
          /\ At("refunded", k)' = Here(client', "refunded", k)
      BY DEF At, Here
    <2>2. Bit(client[c], "refunded", k) \in Nat /\ Bit(to, "refunded", k) \in Nat
      BY DEF Bit
    <2>3. /\ Cardinality(Here(client, "refunded", k)) \in Nat
          /\ Cardinality(Here(client', "refunded", k)) \in Nat
          /\ Cardinality(Here(client', "refunded", k)) + Bit(client[c], "refunded", k)
               = Cardinality(Here(client, "refunded", k)) + Bit(to, "refunded", k)
      <3>1. PICK cl, dl \in [Clients -> ClientType] : cl = client /\ dl = client'
        BY <1>1
      <3>2. OthersStay(cl, dl, c)
        BY <1>1, <3>1
      <3>3. /\ Cardinality(Here(cl, "refunded", k)) \in Nat /\ Cardinality(Here(dl, "refunded", k)) \in Nat
            /\ Cardinality(Here(dl, "refunded", k)) + Bit(cl[c], "refunded", k)
                 = Cardinality(Here(cl, "refunded", k)) + Bit(dl[c], "refunded", k)
        BY <3>2, OneMoves
      <3>. QED  BY <1>1, <3>1, <3>3
    <2>. QED  BY <2>1, <2>2, <2>3
  <1>5. PICK u0, u1, d0, d1 \in Nat :
          /\ u0 = Cardinality(At("running", k)) /\ u1 = Cardinality(At("running", k)')
          /\ d0 = Bit(client[c], "running", k) /\ d1 = Bit(to, "running", k)
          /\ u1 + d0 = u0 + d1
    <2>1. At("running", k) = Here(client, "running", k)
          /\ At("running", k)' = Here(client', "running", k)
      BY DEF At, Here
    <2>2. Bit(client[c], "running", k) \in Nat /\ Bit(to, "running", k) \in Nat
      BY DEF Bit
    <2>3. /\ Cardinality(Here(client, "running", k)) \in Nat
          /\ Cardinality(Here(client', "running", k)) \in Nat
          /\ Cardinality(Here(client', "running", k)) + Bit(client[c], "running", k)
               = Cardinality(Here(client, "running", k)) + Bit(to, "running", k)
      <3>1. PICK cl, dl \in [Clients -> ClientType] : cl = client /\ dl = client'
        BY <1>1
      <3>2. OthersStay(cl, dl, c)
        BY <1>1, <3>1
      <3>3. /\ Cardinality(Here(cl, "running", k)) \in Nat /\ Cardinality(Here(dl, "running", k)) \in Nat
            /\ Cardinality(Here(dl, "running", k)) + Bit(cl[c], "running", k)
                 = Cardinality(Here(cl, "running", k)) + Bit(dl[c], "running", k)
        BY <3>2, OneMoves
      <3>. QED  BY <1>1, <3>1, <3>3
    <2>. QED  BY <2>1, <2>2, <2>3
  <1>6. f + r0 <= g /\ g <= f + r0 + x /\ u0 <= o
    BY <1>2, <1>3, <1>4, <1>5 DEF Tally
  <1>7. df + b1 <= dg + b0 /\ dg + b0 <= df + b1 + dx /\ d1 <= d0 + do
    BY <1>4, <1>5
  <1>8. f + df + r1 <= g + dg /\ g + dg <= f + df + r1 + (x + dx) /\ u1 <= o + do
    BY <1>4, <1>5, <1>6, <1>7
  <1>9. /\ Failures(k)' = f + df /\ given'[k] = g + dg /\ crashes' = x + dx /\ open'[k] = o + do
        /\ Cardinality(At("refunded", k))' = r1 /\ Cardinality(At("running", k))' = u1
    BY <1>2, <1>3, <1>4, <1>5
  <1>. QED  BY <1>8, <1>9 DEF Tally

\* The failures on record stay, when the trail does.
LEMMA SameFailures ==
  ASSUME NEW k, audit'[k] = audit[k]
  PROVE  Failures(k)' = Failures(k)
  BY DEF Failures

\* A session that moves where neither a refund nor a failure is due.
LEMMA QuietTally ==
  ASSUME IInv, TInv, VInv, IInv', TInv', NEW c \in Clients, NEW to \in ClientType,
         client' = [client EXCEPT ![c] = to],
         client[c].pc \notin {"running", "refunded"}, to.pc \notin {"running", "refunded"},
         NEW dx \in 0 .. 1, crashes' = crashes + dx, UNCHANGED <<given, open, audit>>
  PROVE  VInv'
  <1>1. ASSUME NEW k \in Ids  PROVE Tally(k)'
    <2>1. Tally(k) /\ given[k] \in Int /\ open[k] \in Int /\ Failures(k)' = Failures(k) + 0
      <3>1. Failures(k)' = Failures(k) /\ Failures(k) \in Nat
        BY SameFailures, Counts
      <3>. QED  BY <3>1 DEF VInv
    <2>2. /\ Bit(client[c], "refunded", k) = 0 /\ Bit(to, "refunded", k) = 0
          /\ Bit(client[c], "running", k) = 0 /\ Bit(to, "running", k) = 0
      BY DEF Bit
    <2>3. given'[k] = given[k] + 0 /\ open'[k] = open[k] + 0
      BY <2>1
    <2>4. 0 \in 0 .. 1 /\ 0 \in Int
      OBVIOUS
    <2>5. /\ 0 + Bit(to, "refunded", k) <= 0 + Bit(client[c], "refunded", k)
          /\ 0 + Bit(client[c], "refunded", k) <= 0 + Bit(to, "refunded", k) + dx
          /\ Bit(to, "running", k) <= Bit(client[c], "running", k) + 0
      BY <2>2
    <2>. QED  BY <2>1, <2>3, <2>4, <2>5, Tallied
  <1>. QED  BY <1>1 DEF VInv

One(pc, x) == IF pc = x THEN 1 ELSE 0

\* A session that moves and settles the request j, or comes to settle it.
LEMMA SettlingTally ==
  ASSUME IInv, TInv, VInv, IInv', TInv', NEW c \in Clients, NEW to \in ClientType,
         client' = [client EXCEPT ![c] = to], NEW j \in Ids,
         client[c].pc \in {"running", "refunded"} => client[c].id = j,
         to.pc \in {"running", "refunded"} => to.id = j,
         NEW df \in 0 .. 1, Failures(j)' = Failures(j) + df,
         \A k \in Ids : k # j => audit'[k] = audit[k],
         NEW dg \in 0 .. 1, given' = [given EXCEPT ![j] = given[j] + dg],
         NEW do \in -1 .. 1, open' = [open EXCEPT ![j] = open[j] + do],
         NEW dx \in 0 .. 1, crashes' = crashes + dx,
         df + One(to.pc, "refunded") <= dg + One(client[c].pc, "refunded"),
         dg + One(client[c].pc, "refunded") <= df + One(to.pc, "refunded") + dx,
         One(to.pc, "running") <= One(client[c].pc, "running") + do
  PROVE  VInv'
  <1>1. given' \in [Ids -> Int] /\ open' \in [Ids -> Int]
    BY DEF VInv
  <1>2. Tally(j)'
    <2>1. Tally(j) /\ given[j] \in Int /\ open[j] \in Int
      BY DEF VInv
    <2>2. given'[j] = given[j] + dg /\ open'[j] = open[j] + do /\ do \in Int
      BY DEF VInv
    <2>3. /\ Bit(to, "refunded", j) = One(to.pc, "refunded")
          /\ Bit(to, "running", j) = One(to.pc, "running")
          /\ Bit(client[c], "refunded", j) = One(client[c].pc, "refunded")
          /\ Bit(client[c], "running", j) = One(client[c].pc, "running")
      BY DEF Bit, One
    <2>4. /\ df + Bit(to, "refunded", j) <= dg + Bit(client[c], "refunded", j)
          /\ dg + Bit(client[c], "refunded", j) <= df + Bit(to, "refunded", j) + dx
          /\ Bit(to, "running", j) <= Bit(client[c], "running", j) + do
      BY <2>3
    <2>. QED  BY <2>1, <2>2, <2>4, Tallied
  <1>3. ASSUME NEW k \in Ids, k # j  PROVE Tally(k)'
    <2>1. Tally(k) /\ given[k] \in Int /\ open[k] \in Int
      BY DEF VInv
    <2>2. given'[k] = given[k] + 0 /\ open'[k] = open[k] + 0
      BY <1>3, <2>1 DEF VInv
    <2>3. /\ Bit(to, "refunded", k) = 0 /\ Bit(to, "running", k) = 0
          /\ Bit(client[c], "refunded", k) = 0 /\ Bit(client[c], "running", k) = 0
      BY <1>3 DEF Bit
    <2>4. Failures(k)' = Failures(k) + 0
      <3>1. Failures(k)' = Failures(k) /\ Failures(k) \in Nat
        BY <1>3, SameFailures, Counts
      <3>. QED  BY <3>1
    <2>5. 0 \in 0 .. 1 /\ 0 \in Int
      OBVIOUS
    <2>6. /\ 0 + Bit(to, "refunded", k) <= 0 + Bit(client[c], "refunded", k)
          /\ 0 + Bit(client[c], "refunded", k) <= 0 + Bit(to, "refunded", k) + dx
          /\ Bit(to, "running", k) <= Bit(client[c], "running", k) + 0
      BY <2>3
    <2>. QED  BY <2>1, <2>2, <2>4, <2>5, <2>6, Tallied
  <1>. QED  BY <1>1, <1>2, <1>3 DEF VInv

\* A session that goes from one place of its call to another, or ends it.
LEMMA GoneTo ==
  ASSUME IInv, NEW c \in Clients, NEW pc \in PCs, Goto(c, pc)
  PROVE  \E to \in ClientType : /\ client' = [client EXCEPT ![c] = to]
                                /\ to.pc = pc /\ to.id = client[c].id
  <1>1. PICK to : to = [client[c] EXCEPT !.pc = pc]
    OBVIOUS
  <1>2. client[c] \in ClientType
    BY ClientFacts
  <1>3. to \in ClientType /\ to.pc = pc /\ to.id = client[c].id
    BY <1>1, <1>2 DEF ClientType
  <1>. QED  BY <1>1, <1>3 DEF Goto

LEMMA IdleFacts == Idle \in ClientType /\ Idle.pc = "idle"
  BY PeriodsAreNat DEF Idle, ClientType, PCs

\* The failures of a request after one event more.
LEMMA FailuresAfter ==
  ASSUME IInv, TInv, IInv', TInv', NEW j \in Ids, NEW e \in Events,
         audit' = [audit EXCEPT ![j] = Append(@, e)]
  PROVE  /\ Failures(j)' = Failures(j) + One(e, "simulation_failed")
         /\ \A k \in Ids : k # j => audit'[k] = audit[k]
  <1>1. audit[j] \in Seq(Events) /\ audit'[j] = Append(audit[j], e)
        /\ \A k \in Ids : k # j => audit'[k] = audit[k]
    BY DEF TInv, RecordType
  <1>2. FailuresOn(audit'[j]) = FailuresOn(audit[j]) + One(e, "simulation_failed")
    BY <1>1, OneEventMore DEF One
  <1>3. Failures(j) = FailuresOn(audit[j]) /\ Failures(j)' = FailuresOn(audit'[j])
    BY DEF Failures, FailuresOn
  <1>. QED  BY <1>1, <1>2, <1>3

\* A reservation opens one settlement, and a session that takes a request on another.
LEMMA ReserveTally ==
  ASSUME IInv, TInv, VInv, IInv', TInv', NEW c \in Clients, Reserve(c)
  PROVE  VInv'
  <1>0. PICK k \in Ids : k = client[c].id
    BY ClaimFacts DEF Reserve
  <1>1. client[c].pc = "update" /\ UNCHANGED <<crashes, given>> /\ crashes \in Nat
    BY Counts, <1>0 DEF Reserve
  <1>2. CASE WithinPlan(usage[client[c].user][client[c].period], client[c].n)
    <2>1. /\ Goto(c, "running") /\ open' = [open EXCEPT ![k] = open[k] + 1]
          /\ audit' = [audit EXCEPT ![k] = Append(@, "simulation_request")]
      BY <1>0, <1>2, Zenon DEF Reserve
    <2>2. PICK to \in ClientType : /\ client' = [client EXCEPT ![c] = to]
                                   /\ to.pc = "running" /\ to.id = k
      BY <1>0, <2>1, GoneTo DEF PCs
    <2>3. /\ Failures(k)' = Failures(k) + 0
          /\ \A j \in Ids : j # k => audit'[j] = audit[j]
      <3>1. "simulation_request" \in Events /\ One("simulation_request", "simulation_failed") = 0
        BY DEF Events, One
      <3>. QED  BY <2>1, <3>1, FailuresAfter
    <2>4. /\ given' = [given EXCEPT ![k] = given[k] + 0] /\ crashes' = crashes + 0
          /\ 0 \in 0 .. 1 /\ 1 \in -1 .. 1
      BY <1>1 DEF VInv
    <2>5. /\ 0 + One(to.pc, "refunded") <= 0 + One(client[c].pc, "refunded")
          /\ 0 + One(client[c].pc, "refunded") <= 0 + One(to.pc, "refunded") + 0
          /\ One(to.pc, "running") <= One(client[c].pc, "running") + 1
      BY <1>1, <2>2 DEF One
    <2>. QED  BY <1>1, <2>1, <2>2, <2>3, <2>4, <2>5, SettlingTally
  <1>3. CASE ~WithinPlan(usage[client[c].user][client[c].period], client[c].n)
    <2>1. client' = [client EXCEPT ![c] = Idle] /\ UNCHANGED <<audit, open>>
      BY <1>3, Zenon DEF Reserve
    <2>2. crashes' = crashes + 0 /\ 0 \in 0 .. 1
      BY <1>1
    <2>. QED  BY <1>1, <2>1, <2>2, IdleFacts, QuietTally
  <1>. QED  BY <1>2, <1>3

LEMMA TakeOverTally ==
  ASSUME IInv, TInv, VInv, IInv', TInv', NEW c \in Clients, NEW k \in Ids, TakeOver(c, k)
  PROVE  VInv'
  <1>1. /\ client[c].pc = "idle" /\ UNCHANGED <<crashes, given, audit>> /\ crashes \in Nat
        /\ open' = [open EXCEPT ![k] = open[k] + 1]
    BY Counts DEF TakeOver
  <1>2. PICK to \in ClientType : /\ client' = [client EXCEPT ![c] = to]
                                 /\ to.pc = "running" /\ to.id = k
    <2>1. PICK to : to = [pc |-> "running", user |-> charge[k].user, id |-> k, n |-> charge[k].n,
                          period |-> charge[k].period, then |-> "update"]
      OBVIOUS
    <2>2. client' = [client EXCEPT ![c] = to]
      BY <2>1 DEF TakeOver
    <2>3. charge[k] \in Charges
      BY DEF TInv, RecordType
    <2>4. to \in ClientType
      BY <2>1, <2>3 DEF ClientType, PCs, Charges, Ids
    <2>5. to.pc = "running" /\ to.id = k
      BY <2>1
    <2>. QED  BY <2>2, <2>4, <2>5
  <1>3. Failures(k)' = Failures(k) + 0 /\ \A j \in Ids : j # k => audit'[j] = audit[j]
    <2>1. Failures(k)' = Failures(k) /\ Failures(k) \in Nat
      BY <1>1, SameFailures, Counts
    <2>. QED  BY <1>1, <2>1
  <1>4. /\ given' = [given EXCEPT ![k] = given[k] + 0] /\ crashes' = crashes + 0
        /\ 0 \in 0 .. 1 /\ 1 \in -1 .. 1
    BY <1>1 DEF VInv
  <1>5. /\ 0 + One(to.pc, "refunded") <= 0 + One(client[c].pc, "refunded")
        /\ 0 + One(client[c].pc, "refunded") <= 0 + One(to.pc, "refunded") + 0
        /\ One(to.pc, "running") <= One(client[c].pc, "running") + 1
    BY <1>1, <1>2 DEF One
  <1>. QED  BY <1>1, <1>2, <1>3, <1>4, <1>5, SettlingTally

\* An event recorded at the end: a failure, if the refund came before it.
LEMMA RecordTally ==
  ASSUME IInv, TInv, VInv, IInv', TInv', NEW c \in Clients, NEW type \in Events,
         RecordEvent(c, type),
         \/ client[c].pc = "running" /\ type = "simulation_completed"
         \/ client[c].pc = "refunded" /\ type = "simulation_failed"
  PROVE  VInv'
  <1>0. PICK k \in Ids : k = client[c].id
    BY ClaimFacts
  <1>1. /\ client' = [client EXCEPT ![c] = Idle] /\ UNCHANGED <<crashes, given, open>>
        /\ audit' = [audit EXCEPT ![k] = Append(@, type)] /\ crashes \in Nat
    BY <1>0, Counts DEF RecordEvent
  <1>2. PICK df \in 0 .. 1 : df = One(type, "simulation_failed")
    BY DEF One
  <1>3. Failures(k)' = Failures(k) + df /\ \A j \in Ids : j # k => audit'[j] = audit[j]
    BY <1>1, <1>2, FailuresAfter
  <1>4. /\ given' = [given EXCEPT ![k] = given[k] + 0] /\ crashes' = crashes + 0
        /\ open' = [open EXCEPT ![k] = open[k] + 0] /\ 0 \in 0 .. 1 /\ 0 \in -1 .. 1
    BY <1>1 DEF VInv
  <1>5. /\ df + One(Idle.pc, "refunded") <= 0 + One(client[c].pc, "refunded")
        /\ 0 + One(client[c].pc, "refunded") <= df + One(Idle.pc, "refunded") + 0
        /\ One(Idle.pc, "running") <= One(client[c].pc, "running") + 0
    BY <1>2, IdleFacts DEF One
  <1>. QED  BY <1>0, <1>1, <1>3, <1>4, <1>5, IdleFacts, SettlingTally

\* A refund is one settlement less that is open, and a failure that is due.
LEMMA FailTally ==
  ASSUME IInv, TInv, VInv, IInv', TInv', NEW c \in Clients, Fail(c)
  PROVE  VInv'
  <1>0. PICK k \in Ids : k = client[c].id
    BY ClaimFacts DEF Fail
  <1>1. /\ client[c].pc = "running" /\ Goto(c, "refunded") /\ UNCHANGED <<crashes, audit>>
        /\ given' = [given EXCEPT ![k] = given[k] + 1]
        /\ open' = [open EXCEPT ![k] = open[k] - 1] /\ crashes \in Nat
    BY <1>0, Counts DEF Fail, RefundUsage
  <1>2. PICK to \in ClientType : /\ client' = [client EXCEPT ![c] = to]
                                 /\ to.pc = "refunded" /\ to.id = k
    BY <1>0, <1>1, GoneTo DEF PCs
  <1>3. Failures(k)' = Failures(k) + 0 /\ \A j \in Ids : j # k => audit'[j] = audit[j]
    <2>1. Failures(k)' = Failures(k) /\ Failures(k) \in Nat
      BY <1>1, SameFailures, Counts
    <2>. QED  BY <1>1, <2>1
  <1>4. /\ open' = [open EXCEPT ![k] = open[k] + (-1)] /\ crashes' = crashes + 0
        /\ 0 \in 0 .. 1 /\ 1 \in 0 .. 1 /\ -1 \in -1 .. 1
    <2>1. open[k] \in Int
      BY DEF VInv
    <2>2. open[k] - 1 = open[k] + (-1) /\ crashes' = crashes + 0
      BY <1>1, <2>1
    <2>3. 0 \in 0 .. 1 /\ 1 \in 0 .. 1 /\ -1 \in -1 .. 1
      OBVIOUS
    <2>. QED  BY <1>1, <2>2, <2>3
  <1>5. /\ 0 + One(to.pc, "refunded") <= 1 + One(client[c].pc, "refunded")
        /\ 1 + One(client[c].pc, "refunded") <= 0 + One(to.pc, "refunded") + 0
        /\ One(to.pc, "running") <= One(client[c].pc, "running") + (-1)
    BY <1>1, <1>2 DEF One
  <1>. QED  BY <1>0, <1>1, <1>2, <1>3, <1>4, <1>5, SettlingTally

\* A session that dies after its refund leaves it without a failure on record.
LEMMA CrashTally ==
  ASSUME IInv, TInv, VInv, IInv', TInv', NEW c \in Clients, Crash(c)
  PROVE  VInv'
  <1>1. /\ client' = [client EXCEPT ![c] = Idle] /\ crashes' = crashes + 1
        /\ UNCHANGED <<audit, given, open>> /\ 1 \in 0 .. 1 /\ 0 \in 0 .. 1 /\ 0 \in -1 .. 1
    BY DEF Crash
  <1>2. CASE client[c].pc \in {"running", "refunded"}
    <2>0. PICK k \in Ids : k = client[c].id
      BY <1>2, ClaimFacts
    <2>1. Failures(k)' = Failures(k) + 0 /\ \A j \in Ids : j # k => audit'[j] = audit[j]
      <3>1. Failures(k)' = Failures(k) /\ Failures(k) \in Nat
        BY <1>1, SameFailures, Counts
      <3>. QED  BY <1>1, <3>1
    <2>2. /\ given' = [given EXCEPT ![k] = given[k] + 0]
          /\ open' = [open EXCEPT ![k] = open[k] + 0]
      BY <1>1 DEF VInv
    <2>3. /\ 0 + One(Idle.pc, "refunded") <= 0 + One(client[c].pc, "refunded")
          /\ 0 + One(client[c].pc, "refunded") <= 0 + One(Idle.pc, "refunded") + 1
          /\ One(Idle.pc, "running") <= One(client[c].pc, "running") + 0
      BY IdleFacts DEF One
    <2>. QED  BY <1>1, <2>0, <2>1, <2>2, <2>3, IdleFacts, SettlingTally
  <1>3. CASE client[c].pc \notin {"running", "refunded"}
    BY <1>1, <1>3, IdleFacts, QuietTally
  <1>. QED  BY <1>2, <1>3

LEMMA InitVInv == Init => VInv
  <1>. SUFFICES ASSUME Init PROVE VInv
    OBVIOUS
  <1>1. ASSUME NEW k \in Ids  PROVE Tally(k)
    <2>1. /\ Failures(k) = Cardinality({}) /\ At("refunded", k) = {} /\ At("running", k) = {}
      BY DEF Init, Failures, At, Idle
    <2>2. given[k] = 0 /\ open[k] = 0 /\ crashes = 0
      BY DEF Init
    <2>. QED  BY <2>1, <2>2, FS_EmptySet DEF Tally
  <1>. QED  BY <1>1 DEF Init, VInv

\* Every step keeps the tally.
LEMMA StepVInv == IInv /\ TInv /\ VInv /\ [Next]_vars => VInv'
  <1>. SUFFICES ASSUME IInv, TInv, VInv, [Next]_vars PROVE VInv'
    OBVIOUS
  <1>0. IInv' /\ TInv' /\ crashes \in Int /\ 0 \in 0 .. 1
    BY StepIInv, StepTInv DEF IInv, CountType
  <1>1. ASSUME NEW c \in Clients, NEW pc \in PCs, Goto(c, pc),
               client[c].pc \in {"select", "insert"}, pc \notin {"running", "refunded"},
               UNCHANGED <<given, open, crashes, audit>>
        PROVE  VInv'
    <2>1. PICK to \in ClientType : client' = [client EXCEPT ![c] = to] /\ to.pc = pc
      BY <1>1, GoneTo
    <2>2. crashes' = crashes + 0
      BY <1>0, <1>1
    <2>. QED  BY <1>0, <1>1, <2>1, <2>2, QuietTally
  <1>2. ASSUME NEW c \in Clients, NEW u \in Users, NEW id \in Int, NEW n \in Nat,
               NEW then \in {"update", "summary"}, Call(c, u, id, n, then),
               client[c].pc = "idle", UNCHANGED <<given, open, crashes, audit>>
        PROVE  VInv'
    <2>1. PICK to : to = [pc |-> "select", user |-> u, id |-> id, n |-> n,
                          period |-> today, then |-> then]
      OBVIOUS
    <2>2. to \in ClientType /\ to.pc = "select"
      BY <2>1 DEF ClientType, PCs, IInv, CountType
    <2>3. client' = [client EXCEPT ![c] = to]
      BY <1>2, <2>1 DEF Call, CurrentPeriod
    <2>4. crashes' = crashes + 0
      BY <1>0, <1>2
    <2>. QED  BY <1>0, <1>2, <2>2, <2>3, <2>4, QuietTally
  <1>3. ASSUME NEW c \in Clients, NEW u \in Users, BeginSummary(c, u)  PROVE VInv'
    BY <1>2, <1>3 DEF BeginSummary
  <1>4. ASSUME NEW c \in Clients, NEW u \in Users, NEW n \in Sizes, BeginReserve(c, u, n)
        PROVE  VInv'
    BY <1>2, <1>4, SizesAssumption DEF BeginReserve, IInv, CountType
  <1>5. ASSUME NEW c \in Clients, SelectFound(c) \/ SelectNone(c) \/ Insert(c)  PROVE VInv'
    <2>1. /\ client[c].pc \in {"select", "insert"} /\ client[c].then \in {"update", "summary"}
          /\ UNCHANGED <<given, open, crashes, audit>>
          /\ Goto(c, client[c].then) \/ Goto(c, "insert") \/ Goto(c, "select")
      BY <1>5, ClientFacts DEF SelectFound, SelectNone, Insert, CallOK
    <2>. QED  BY <1>1, <2>1 DEF PCs
  <1>6. ASSUME NEW c \in Clients, Summarise(c)  PROVE VInv'
    <2>1. /\ client[c].pc = "summary" /\ client' = [client EXCEPT ![c] = Idle]
          /\ UNCHANGED <<given, open, audit>> /\ crashes' = crashes + 0
      BY <1>0, <1>6 DEF Summarise
    <2>. QED  BY <1>0, <2>1, IdleFacts, QuietTally
  <1>7. ASSUME NEW c \in Clients, Succeed(c) \/ RecordFailure(c)  PROVE VInv'
    BY <1>0, <1>7, RecordTally DEF Succeed, RecordFailure, Events
  <1>8. ASSUME UNCHANGED <<client, given, open, crashes, audit>>  PROVE VInv'
    BY <1>8 DEF VInv, Tally, Failures, At
  <1>. QED  BY <1>0, <1>3, <1>4, <1>5, <1>6, <1>7, <1>8,
               ReserveTally, TakeOverTally, FailTally, CrashTally
            DEF Next, Settle, NewMonth, vars

\* A trail begins with its reservation, and however many sessions settle the request,
\* it has a failure on record for each refund and after it, but for those that are
\* between the two commits or died there (refund_usage, record_usage_result).
THEOREM TrailHonest == Spec => []TrailIsHonest
  <1>1. TInv /\ VInv => TrailIsHonest
    BY DEF TInv, TrailOK, Begins, VInv, Tally, TrailIsHonest
  <1>. QED  BY InitIInv, StepIInv, InitTInv, StepTInv, InitVInv, StepVInv, <1>1, PTL DEF Spec

-----------------------------------------------------------------------------
(* The counters.  What a row says is compared with the charges of the       *)
(* history, request by request: a step moves one request into the charges   *)
(* of a row or out of them, and the row with it.                            *)

AllExact == \A u \in Users, p \in Periods : Exact(u, p)
Placed   == \A k \in Ids : charge[k].state # "misplaced"

\* What each request of a set of them counts for, by the records in ch.
Weights(ids, ch) == [k \in Ids |-> IF k \in ids THEN ch[k].n ELSE 0]

LEMMA IdsAreFinite == IsFiniteSet(Ids)
  BY FS_Interval, BoundsAssumption DEF Ids

\* One request more: one more to count, and its interactions.
LEMMA OneMore ==
  ASSUME NEW A \in SUBSET Ids, NEW k \in Ids, k \notin A, NEW B, B = A \union {k},
         NEW f \in [Ids -> Charges], NEW g \in [Ids -> Charges],
         \A j \in A : g[j].n = f[j].n
  PROVE  \E a, s \in Nat :
           /\ a = Cardinality(A) /\ Cardinality(B) = a + 1
           /\ s = SumFunction(Weights(A, f)) /\ SumFunction(Weights(B, g)) = s + g[k].n
  <1>1. PICK x, y : x = Weights(A, f) /\ y = Weights(B, g)
    OBVIOUS
  <1>2. x \in [Ids -> Nat] /\ y \in [Ids -> Nat] /\ x[k] = 0 /\ y[k] = g[k].n
    BY <1>1 DEF Weights, Charges
  <1>3. \A j \in Ids \ {k} : y[j] = x[j]
    BY <1>1 DEF Weights
  <1>4. /\ SumFunction(x) \in Nat /\ SumFunction(y) \in Nat
        /\ SumFunction(y) + x[k] = SumFunction(x) + y[k]
    BY <1>2, <1>3, IdsAreFinite, SumChanges
  <1>5. SumFunction(y) = SumFunction(x) + g[k].n
    BY <1>2, <1>4
  <1>6. IsFiniteSet(A)
    BY IdsAreFinite, FS_Subset
  <1>7. Cardinality(A) \in Nat /\ Cardinality(B) = Cardinality(A) + 1
    BY <1>6, FS_CardinalityType, FS_AddElement
  <1>. QED  BY <1>1, <1>4, <1>5, <1>7

\* No request: nothing to count.
LEMMA NoneCharged ==
  ASSUME NEW u, NEW p, Charged(u, p) = {}
  PROVE  Cardinality(Charged(u, p)) = 0 /\ Interactions(Charged(u, p)) = 0
  <1>1. PICK x : x = [k \in Ids |-> IF k \in Charged(u, p) THEN charge[k].n ELSE 0]
    OBVIOUS
  <1>2. x = [k \in Ids |-> 0]
    BY <1>1
  <1>. QED  BY <1>1, <1>2, IdsAreFinite, SumOfZeros, FS_EmptySet DEF Interactions

\* A row and its two counters.
LEMMA RowParts ==
  ASSUME NEW row \in Row, NEW a, NEW b, row.requests = a, row.interactions = b
  PROVE  row = [requests |-> a, interactions |-> b]
  BY DEF Row

\* The charges of a month stay as they are.
LEMMA SameCharges ==
  ASSUME NEW u, NEW p,
         \A k \in Ids : charge'[k] = charge[k] \/ (k \notin Charged(u, p) /\ k \notin Charged(u, p)')
  PROVE  /\ Charged(u, p)' = Charged(u, p)
         /\ Interactions(Charged(u, p))' = Interactions(Charged(u, p))
  <1>1. Charged(u, p)' = Charged(u, p)
    BY DEF Charged
  <1>2. \A k \in Ids : k \in Charged(u, p) => charge'[k] = charge[k]
    OBVIOUS
  <1>3. PICK x : x = [k \in Ids |-> IF k \in Charged(u, p) THEN charge[k].n ELSE 0]
    OBVIOUS
  <1>4. x = [k \in Ids |-> IF k \in Charged(u, p)' THEN charge'[k].n ELSE 0]
    BY <1>1, <1>2, <1>3
  <1>. QED  BY <1>1, <1>3, <1>4 DEF Interactions

\* So its row stays exact, if it is not written or made.
LEMMA SameRow ==
  ASSUME NEW u, NEW p, Exact(u, p),
         usage'[u][p] = usage[u][p] \/ (usage[u][p] = NoRow /\ usage'[u][p] = Zero),
         \A k \in Ids : charge'[k] = charge[k] \/ (k \notin Charged(u, p) /\ k \notin Charged(u, p)')
  PROVE  Exact(u, p)'
  <1>1. /\ Charged(u, p)' = Charged(u, p)
        /\ Interactions(Charged(u, p))' = Interactions(Charged(u, p))
    BY SameCharges
  <1>2. CASE usage'[u][p] = usage[u][p]
    BY <1>1, <1>2 DEF Exact
  <1>3. CASE usage[u][p] = NoRow /\ usage'[u][p] = Zero
    <2>1. Charged(u, p) = {}
      BY <1>3 DEF Exact
    <2>2. Cardinality(Charged(u, p)) = 0 /\ Interactions(Charged(u, p)) = 0
      BY <2>1, NoneCharged
    <2>3. Zero = [requests |-> Cardinality(Charged(u, p)),
                  interactions |-> Interactions(Charged(u, p))]
      BY <2>2 DEF Zero
    <2>4. Zero # NoRow
      BY RowFacts
    <2>. QED  BY <1>1, <1>3, <2>3, <2>4 DEF Exact
  <1>. QED  BY <1>2, <1>3

\* A step that neither charges nor settles a request keeps the counters exact.
LEMMA QuietExact ==
  ASSUME CountersAreExact, UsageType,
         UNCHANGED usage \/ \E u \in Users, p \in Periods :
           ~ExistsRow(u, p) /\ usage' = [usage EXCEPT ![u][p] = Zero],
         \A k \in Ids : charge'[k] = charge[k]
                          \/ (charge[k].state = "none" /\ charge'[k].state = "none")
  PROVE  CountersAreExact'
  <1>1. SUFFICES ASSUME Placed', NEW u \in Users, NEW p \in Periods  PROVE Exact(u, p)'
    BY DEF CountersAreExact, Placed
  <1>2. Placed
    BY <1>1 DEF Placed
  <1>3. Exact(u, p)
    BY <1>2 DEF Placed, CountersAreExact
  <1>4. usage'[u][p] = usage[u][p] \/ (usage[u][p] = NoRow /\ usage'[u][p] = Zero)
    BY DEF UsageType, ExistsRow
  <1>5. \A k \in Ids : charge'[k] = charge[k] \/ (k \notin Charged(u, p) /\ k \notin Charged(u, p)')
    BY DEF Charged
  <1>. QED  BY <1>3, <1>4, <1>5, SameRow

\* A reservation adds to the row what it adds to the charges.
LEMMA ReserveExact ==
  ASSUME IInv, TInv, TInv', CountersAreExact, NEW c \in Clients, Reserve(c)
  PROVE  CountersAreExact'
  <1>0. PICK u \in Users, p \in Periods, k \in Ids, n \in Nat :
           /\ u = client[c].user /\ p = client[c].period /\ k = client[c].id /\ n = client[c].n
           /\ charge[k].state = "none" /\ charge[k].user = u /\ charge[k].n = n
           /\ charge[k].period = p
    BY ClientFacts, ClaimFacts DEF Reserve, Stage
  <1>1. usage[u][p] \in Row /\ ExistsRow(u, p)
    BY <1>0, ClientFacts, RowAt DEF RowIsThere, IInv, Reserve
  <1>2. CASE ~WithinPlan(usage[u][p], n)
    <2>1. UNCHANGED <<usage, charge>>
      BY <1>0, <1>2, Zenon DEF Reserve
    <2>. QED  BY <2>1, QuietExact DEF IInv
  <1>3. CASE WithinPlan(usage[u][p], n)
    <2>1. /\ usage' = [usage EXCEPT ![u][p].requests = @ + 1, ![u][p].interactions = @ + n]
          /\ charge' = [charge EXCEPT ![k].state = "charged"]
      BY <1>0, <1>3, Zenon DEF Reserve
    <2>2. charge \in [Ids -> Charges] /\ charge' \in [Ids -> Charges]
      BY DEF TInv, RecordType
    <2>3. /\ charge'[k].state = "charged" /\ charge'[k].user = u /\ charge'[k].n = n
          /\ charge'[k].period = p
          /\ \A j \in Ids \ {k} : charge'[j] = charge[j]
      BY <1>0, <2>1, <2>2 DEF Charges
    <2>4. /\ usage'[u][p] \in Row
          /\ usage'[u][p].requests = usage[u][p].requests + 1
          /\ usage'[u][p].interactions = usage[u][p].interactions + n
          /\ \A v \in Users, q \in Periods : v # u \/ q # p => usage'[v][q] = usage[v][q]
      <3>1. usage \in [Users -> [Periods -> Row \union {NoRow}]]
        BY DEF IInv, UsageType
      <3>2. PICK row : row = [[usage[u][p] EXCEPT !.requests = @ + 1]
                                EXCEPT !.interactions = @ + n]
        OBVIOUS
      <3>3. usage' = [usage EXCEPT ![u][p] = row]
        BY <1>1, <2>1, <3>1, <3>2 DEF Row
      <3>4. row = [requests |-> usage[u][p].requests + 1,
                   interactions |-> usage[u][p].interactions + n]
        BY <1>1, <3>2, Charging
      <3>5. row \in Row
        BY <1>1, <3>4 DEF Row
      <3>. QED  BY <3>1, <3>3, <3>4, <3>5
    <2>5. SUFFICES ASSUME Placed', NEW v \in Users, NEW q \in Periods  PROVE Exact(v, q)'
      BY DEF CountersAreExact, Placed
    <2>6. Placed
      BY <1>0, <2>3, <2>5 DEF Placed
    <2>7. Exact(v, q)
      BY <2>6 DEF Placed, CountersAreExact
    <2>8. CASE v = u /\ q = p
      <3>1. PICK A \in SUBSET Ids : A = Charged(u, p)
        BY DEF Charged
      <3>2. PICK B \in SUBSET Ids : B = Charged(u, p)'
        BY DEF Charged
      <3>3. k \notin A /\ B = A \union {k}
        BY <1>0, <2>3, <3>1, <3>2 DEF Charged
      <3>4. \A j \in A : charge'[j].n = charge[j].n
        BY <2>3, <3>3
      <3>5. PICK f, g \in [Ids -> Charges] : f = charge /\ g = charge'
        BY <2>2
      <3>6. PICK a, s \in Nat :
              /\ a = Cardinality(A) /\ Cardinality(B) = a + 1
              /\ s = SumFunction(Weights(A, f)) /\ SumFunction(Weights(B, g)) = s + g[k].n
        BY <3>3, <3>4, <3>5, OneMore
      <3>7. s = Interactions(Charged(u, p)) /\ s + n = Interactions(Charged(u, p))'
        BY <2>3, <3>1, <3>2, <3>5, <3>6 DEF Weights, Interactions
      <3>8. usage[u][p] = [requests |-> a, interactions |-> s]
        BY <1>1, <2>7, <2>8, <3>1, <3>6, <3>7, RowFacts DEF Exact
      <3>9. usage'[u][p].requests = a + 1 /\ usage'[u][p].interactions = s + n
        BY <2>4, <3>8
      <3>10. usage'[u][p] = [requests |-> a + 1, interactions |-> s + n]
        BY <2>4, <3>9, RowParts
      <3>11. usage'[u][p] # NoRow
        BY <2>4, RowFacts
      <3>. QED  BY <2>8, <3>2, <3>6, <3>7, <3>10, <3>11 DEF Exact
    <2>9. CASE v # u \/ q # p
      <3>1. \A j \in Ids : \/ charge'[j] = charge[j]
                           \/ j \notin Charged(v, q) /\ j \notin Charged(v, q)'
        BY <1>0, <2>3, <2>9 DEF Charged
      <3>. QED  BY <2>4, <2>7, <2>9, <3>1, SameRow
    <2>. QED  BY <2>8, <2>9
  <1>. QED  BY <1>2, <1>3

\* A refund in the month of its reservation takes from the row what it takes
\* from the charges, and never has to be cut off at zero.
LEMMA FailExact ==
  ASSUME IInv, TInv, TInv', CountersAreExact, NEW c \in Clients, Fail(c)
  PROVE  CountersAreExact'
  <1>0. PICK u \in Users, k \in Ids, n \in Nat, m \in Periods :
           /\ u = client[c].user /\ k = client[c].id /\ n = client[c].n /\ m = today
           /\ charge[k].user = u /\ charge[k].n = n
    BY ClientFacts, ClaimFacts DEF Fail, IInv, CountType
  <1>1. /\ charge' = [charge EXCEPT ![k].state =
                         IF @ = "charged" /\ charge[k].period = m
                           THEN "returned" ELSE "misplaced"]
        /\ usage' = IF ExistsRow(u, m) THEN [usage EXCEPT ![u][m] = Lowered(@, n)] ELSE usage
    BY <1>0, Zenon DEF Fail, RefundUsage, CurrentPeriod
  <1>2. charge \in [Ids -> Charges] /\ charge' \in [Ids -> Charges]
    BY DEF TInv, RecordType
  <1>3. /\ charge'[k].state = IF charge[k].state = "charged" /\ charge[k].period = m
                               THEN "returned" ELSE "misplaced"
        /\ \A j \in Ids \ {k} : charge'[j] = charge[j]
    BY <1>1, <1>2 DEF Charges
  <1>4. SUFFICES ASSUME Placed', NEW v \in Users, NEW q \in Periods  PROVE Exact(v, q)'
    BY DEF CountersAreExact, Placed
  <1>5. charge[k].state = "charged" /\ charge[k].period = m /\ Placed
    BY <1>0, <1>3, <1>4 DEF Placed
  <1>6. Exact(v, q) /\ Exact(u, m)
    BY <1>5 DEF Placed, CountersAreExact
  <1>7. ExistsRow(u, m) /\ usage[u][m] \in Row
    <2>1. k \in Charged(u, m)
      BY <1>0, <1>5 DEF Charged
    <2>2. ExistsRow(u, m)
      BY <1>6, <2>1 DEF Exact, ExistsRow
    <2>. QED  BY <2>2, RowAt DEF IInv
  <1>8. /\ usage'[u][m] = Lowered(usage[u][m], n) /\ usage'[u][m] \in Row
        /\ \A i \in Users, j \in Periods : i # u \/ j # m => usage'[i][j] = usage[i][j]
    <2>1. usage \in [Users -> [Periods -> Row \union {NoRow}]]
      BY DEF IInv, UsageType
    <2>2. PICK row \in Row : row = Lowered(usage[u][m], n)
      BY <1>7, LoweredIsRow
    <2>3. usage' = [usage EXCEPT ![u][m] = row]
      BY <1>1, <1>7, <2>2
    <2>. QED  BY <2>1, <2>2, <2>3
  <1>9. CASE v = u /\ q = m
    <2>1. PICK A \in SUBSET Ids : A = Charged(u, m)'
      BY DEF Charged
    <2>2. PICK B \in SUBSET Ids : B = Charged(u, m)
      BY DEF Charged
    <2>3. k \notin A /\ B = A \union {k}
      BY <1>0, <1>3, <1>5, <2>1, <2>2 DEF Charged
    <2>4. \A j \in A : charge[j].n = charge'[j].n
      BY <1>3, <2>3
    <2>5. PICK f, g \in [Ids -> Charges] : f = charge' /\ g = charge
      BY <1>2
    <2>6. PICK a, s \in Nat :
            /\ a = Cardinality(A) /\ Cardinality(B) = a + 1
            /\ s = SumFunction(Weights(A, f)) /\ SumFunction(Weights(B, g)) = s + g[k].n
      BY <2>3, <2>4, <2>5, OneMore
    <2>7. s = Interactions(Charged(u, m))' /\ s + n = Interactions(Charged(u, m))
      BY <1>0, <2>1, <2>2, <2>5, <2>6 DEF Weights, Interactions
    <2>8. usage[u][m] = [requests |-> a + 1, interactions |-> s + n]
      BY <1>6, <1>7, <2>2, <2>6, <2>7 DEF Exact, ExistsRow
    <2>9. usage[u][m].requests = a + 1 /\ usage[u][m].interactions = s + n
      BY <2>8
    <2>10. Lowered(usage[u][m], n) = [requests |-> a, interactions |-> s]
      BY <2>9 DEF Lowered
    <2>11. usage'[u][m] # NoRow
      BY <1>8, RowFacts
    <2>. QED  BY <1>8, <1>9, <2>1, <2>6, <2>7, <2>10, <2>11 DEF Exact
  <1>10. CASE v # u \/ q # m
    <2>1. \A j \in Ids : \/ charge'[j] = charge[j]
                         \/ j \notin Charged(v, q) /\ j \notin Charged(v, q)'
      <3>1. charge'[k].state = "returned"
        BY <1>3, <1>5
      <3>. QED  BY <1>0, <1>3, <1>5, <1>10, <3>1 DEF Charged
    <2>. QED  BY <1>6, <1>8, <1>10, <2>1, SameRow
  <1>. QED  BY <1>9, <1>10

LEMMA StepExact == IInv /\ TInv /\ CountersAreExact /\ [Next]_vars => CountersAreExact'
  <1>. SUFFICES ASSUME IInv, TInv, CountersAreExact, [Next]_vars PROVE CountersAreExact'
    OBVIOUS
  <1>0. UsageType /\ TInv'
    BY StepTInv DEF IInv
  <1>1. ASSUME UNCHANGED <<usage, charge>>  PROVE CountersAreExact'
    BY <1>0, <1>1, QuietExact
  <1>2. ASSUME NEW c \in Clients, NEW u \in Users, NEW n \in Sizes, BeginReserve(c, u, n)
        PROVE  CountersAreExact'
    <2>1. PICK k \in Ids : k = nextId
      BY <1>2 DEF BeginReserve, IInv, CountType, Ids
    <2>2. /\ UNCHANGED usage
          /\ charge' = [charge EXCEPT ![k] = [user |-> u, n |-> n, period |-> today, state |-> "none"]]
      BY <1>2, <2>1 DEF BeginReserve, CurrentPeriod
    <2>3. charge[k].state = "none" /\ charge'[k].state = "none"
          /\ \A j \in Ids : j # k => charge'[j] = charge[j]
      BY <2>1, <2>2 DEF TInv, RecordType, ChargeOK, NoCharge, Ids
    <2>. QED  BY <1>0, <2>2, <2>3, QuietExact
  <1>3. ASSUME NEW c \in Clients, Insert(c)  PROVE CountersAreExact'
    <2>1. client[c].user \in Users /\ client[c].period \in Periods /\ UNCHANGED charge
      BY <1>3, ClientFacts DEF Insert
    <2>2. \/ UNCHANGED usage
          \/ /\ ~ExistsRow(client[c].user, client[c].period)
             /\ usage' = [usage EXCEPT ![client[c].user][client[c].period] = Zero]
      BY <1>3, Zenon DEF Insert
    <2>. QED  BY <1>0, <2>1, <2>2, QuietExact
  <1>. QED  BY <1>0, <1>1, <1>2, <1>3, ReserveExact, FailExact
            DEF Next, Settle, vars, BeginSummary, TakeOver, SelectFound, SelectNone, Succeed,
                RecordFailure, RecordEvent, Summarise, Crash, NewMonth

\* While every refund comes in the month of its reservation, each monthly_usage row
\* holds exactly the requests and interactions that were reserved and not refunded:
\* the CASE expressions of refund_usage never have to cut anything off, and nobody
\* who makes the row at the same time loses a reservation.
THEOREM LedgerExact == Spec => []CountersAreExact
  <1>1. Init => CountersAreExact
    <2>1. SUFFICES ASSUME Init, NEW u \in Users, NEW p \in Periods  PROVE Exact(u, p)
      BY DEF CountersAreExact
    <2>2. usage[u][p] = NoRow /\ Charged(u, p) = {}
      BY <2>1 DEF Init, Charged, NoCharge
    <2>. QED  BY <2>2 DEF Exact
  <1>. QED  BY InitIInv, StepIInv, InitTInv, StepTInv, StepExact, <1>1, PTL DEF Spec

-----------------------------------------------------------------------------
(* The refinement of QuotaAccount.                                         *)

Bills == [k \in Ids |-> Bill(k)]

\* What a balance is.
LEMMA BalanceFacts ==
  ASSUME UsageType
  PROVE  /\ Balance \in [Users -> [Periods -> Row]]
         /\ \A u \in Users, p \in Periods :
              Balance[u][p] = IF ExistsRow(u, p) THEN usage[u][p] ELSE Zero
  BY RowFacts DEF Balance, UsageType, ExistsRow

\* Both modules lower a balance alike, and nothing is taken from an empty one.
LEMMA LoweredAlike ==
  ASSUME NEW row \in Row, NEW n \in Nat
  PROVE  /\ Lowered(row, n) = [requests     |-> Account!Less(row.requests, 1),
                              interactions |-> Account!Less(row.interactions, n)]
         /\ Lowered(Zero, n) = Zero
  BY DEF Row, Lowered, Zero, Account!Less

\* A row that is replaced is a balance that is replaced.
LEMMA BalanceReplaced ==
  ASSUME UsageType, NEW u \in Users, NEW p \in Periods, NEW row \in Row,
         usage' = [usage EXCEPT ![u][p] = row]
  PROVE  Balance' = [Balance EXCEPT ![u][p] = row]
  <1>1. \A v \in Users, q \in Periods :
           usage'[v][q] = IF v = u /\ q = p THEN row ELSE usage[v][q]
    BY DEF UsageType
  <1>2. Balance' = [v \in Users |-> [q \in Periods |->
                      IF usage'[v][q] # NoRow THEN usage'[v][q] ELSE Zero]]
    BY DEF Balance, ExistsRow
  <1>3. \A v \in Users, q \in Periods :
           Balance'[v][q] = IF v = u /\ q = p THEN row ELSE Balance[v][q]
    BY <1>1, <1>2, BalanceFacts, RowFacts DEF ExistsRow
  <1>4. Balance' \in [Users -> [Periods -> Row]]
    BY <1>1, <1>2, RowFacts DEF UsageType
  <1>. QED  BY <1>3, <1>4, BalanceFacts

LEMMA AccountInit == Init => Account!Init
  <1>. SUFFICES ASSUME Init PROVE Account!Init
    OBVIOUS
  <1>1. Balance = [u \in Users |-> [p \in Periods |-> Account!Zero]]
    BY DEF Init, Balance, ExistsRow, Zero, Account!Zero
  <1>2. [k \in Ids |-> Bill(k)] = [k \in Ids |-> Account!Free]
    BY DEF Init, Bill, NoCharge, Account!Free
  <1>3. open = [k \in Ids |-> 0]
    BY DEF Init
  <1>. QED  BY <1>1, <1>2, <1>3 DEF Account!Init

\* A step that changes no row, but for making an empty one, and settles no charge
\* is none of the account.
LEMMA AccountStutters ==
  ASSUME UsageType, UsageType',
         UNCHANGED usage \/ \E u \in Users, p \in Periods :
           ~ExistsRow(u, p) /\ usage' = [usage EXCEPT ![u][p] = Zero],
         UNCHANGED <<Bills, open>>
  PROVE  UNCHANGED Account!account
  <1>1. Balance' = Balance
    <2>1. CASE UNCHANGED usage
      BY <2>1 DEF Balance, ExistsRow
    <2>2. ASSUME NEW u \in Users, NEW p \in Periods, ~ExistsRow(u, p),
                 usage' = [usage EXCEPT ![u][p] = Zero]
          PROVE  Balance' = Balance
      <3>0. Zero \in Row
        BY RowFacts
      <3>1. Balance' = [Balance EXCEPT ![u][p] = Zero]
        BY <2>2, <3>0, BalanceReplaced
      <3>2. Balance[u][p] = Zero /\ Balance \in [Users -> [Periods -> Row]]
        BY <2>2, BalanceFacts
      <3>3. [Balance[u] EXCEPT ![p] = Zero] = Balance[u]
        BY <3>2
      <3>. QED  BY <3>1, <3>2, <3>3
    <2>. QED  BY <2>1, <2>2
  <1>. QED  BY <1>1 DEF Account!account, Bills

\* The bill of one request follows the state of its charge.
LEMMA BillFollows ==
  ASSUME TInv, NEW k \in Ids, NEW st \in {"charged", "returned", "misplaced"},
         charge' = [charge EXCEPT ![k].state = st]
  PROVE  Bills' = [Bills EXCEPT ![k] = [state |-> st, user |-> charge[k].user,
                                        n |-> charge[k].n, month |-> charge[k].period]]
  <1>1. /\ charge'[k].state = st /\ charge'[k].user = charge[k].user
        /\ charge'[k].n = charge[k].n /\ charge'[k].period = charge[k].period
        /\ \A j \in Ids : j # k => charge'[j] = charge[j]
    BY DEF TInv, RecordType, Charges
  <1>2. Bills' = [j \in Ids |-> IF j = k THEN [state |-> st, user |-> charge[k].user,
                                              n |-> charge[k].n, month |-> charge[k].period]
                               ELSE Bill(j)]
    BY <1>1 DEF Bills, Bill
  <1>. QED  BY <1>2 DEF Bills

\* A reservation is a charge, or nothing.
LEMMA ReserveCharges ==
  ASSUME IInv, TInv, UsageType', NEW c \in Clients, Reserve(c)
  PROVE  [Account!Next]_(Account!account)
  <1>0. PICK u \in Users, p \in Periods, k \in Ids, n \in Sizes :
           /\ u = client[c].user /\ p = client[c].period /\ k = client[c].id /\ n = client[c].n
           /\ charge[k].state = "none" /\ charge[k].user = u /\ charge[k].n = n
           /\ charge[k].period = p
    BY ClientFacts, ClaimFacts DEF Reserve, Stage, ChargeOK
  <1>1. usage[u][p] \in Row /\ ExistsRow(u, p) /\ n \in Nat
    BY <1>0, ClientFacts, RowAt, SizesAssumption DEF RowIsThere, IInv, Reserve
  <1>2. CASE WithinPlan(usage[u][p], n)
    <2>1. /\ usage' = [usage EXCEPT ![u][p].requests = @ + 1, ![u][p].interactions = @ + n]
          /\ charge' = [charge EXCEPT ![k].state = "charged"]
          /\ open' = [open EXCEPT ![k] = @ + 1]
      BY <1>0, <1>2, Zenon DEF Reserve
    <2>. DEFINE row == [requests |-> usage[u][p].requests + 1,
                        interactions |-> usage[u][p].interactions + n]
    <2>2. usage' = [usage EXCEPT ![u][p] = row] /\ row \in Row
      <3>1. usage \in [Users -> [Periods -> Row \union {NoRow}]]
        BY DEF IInv, UsageType
      <3>2. [usage EXCEPT ![u][p].requests = @ + 1, ![u][p].interactions = @ + n]
              = [usage EXCEPT ![u][p] = [[usage[u][p] EXCEPT !.requests = @ + 1]
                                            EXCEPT !.interactions = @ + n]]
        BY <1>1, <3>1 DEF Row
      <3>3. [[usage[u][p] EXCEPT !.requests = @ + 1] EXCEPT !.interactions = @ + n] = row
        BY <1>1, Charging
      <3>4. row \in Row
        BY <1>1 DEF Row
      <3>. QED  BY <2>1, <3>2, <3>3, <3>4
    <2>3. Balance' = [Balance EXCEPT ![u][p] = row]
      BY <2>2, BalanceReplaced DEF IInv
    <2>4. Balance \in [Users -> [Periods -> Row]] /\ Balance[u][p] = usage[u][p]
      BY <1>1, BalanceFacts DEF IInv
    <2>5. Balance' = [Balance EXCEPT ![u][p].requests = @ + 1, ![u][p].interactions = @ + n]
      <3>1. [Balance EXCEPT ![u][p].requests = @ + 1, ![u][p].interactions = @ + n]
              = [Balance EXCEPT ![u][p] = [[Balance[u][p] EXCEPT !.requests = @ + 1]
                                              EXCEPT !.interactions = @ + n]]
        BY <1>1, <2>4 DEF Row
      <3>2. [[Balance[u][p] EXCEPT !.requests = @ + 1] EXCEPT !.interactions = @ + n] = row
        BY <1>1, <2>4, Charging
      <3>. QED  BY <2>3, <3>1, <3>2
    <2>6. Bills' = [Bills EXCEPT ![k] = [state |-> "charged", user |-> u, n |-> n, month |-> p]]
      BY <1>0, <2>1, BillFollows
    <2>7. Bills[k].state = "none"
      BY <1>0 DEF Bills, Bill
    <2>8. Account!HasRoom(Balance[u][p], n)
      BY <1>2, <2>4 DEF WithinPlan, Account!HasRoom
    <2>9. Account!Charge(k, u, n, p)
      BY <2>1, <2>5, <2>6, <2>7, <2>8 DEF Account!Charge, Bills
    <2>. QED  BY <2>9 DEF Account!Next
  <1>3. CASE ~WithinPlan(usage[u][p], n)
    <2>1. UNCHANGED <<usage, charge, open>>
      BY <1>0, <1>3, Zenon DEF Reserve
    <2>. QED  BY <2>1, AccountStutters DEF IInv, Bills, Bill
  <1>. QED  BY <1>2, <1>3

\* A failure is a return, to the month it happens in.
LEMMA FailReturns ==
  ASSUME IInv, TInv, VInv, UsageType', NEW c \in Clients, Fail(c)
  PROVE  [Account!Next]_(Account!account)
  <1>0. PICK u \in Users, k \in Ids, n \in Nat, m \in Periods :
           /\ u = client[c].user /\ k = client[c].id /\ n = client[c].n /\ m = today
           /\ charge[k].state # "none" /\ charge[k].user = u /\ charge[k].n = n
           /\ charge[k].period <= m
    BY ClientFacts, ClaimFacts DEF Fail, Stage, ChargeOK, IInv, CountType
  <1>. DEFINE st == IF charge[k].state = "charged" /\ m = charge[k].period
                      THEN "returned" ELSE "misplaced"
  <1>1. /\ charge' = [charge EXCEPT ![k].state = st]
        /\ usage' = IF ExistsRow(u, m) THEN [usage EXCEPT ![u][m] = Lowered(@, n)] ELSE usage
    <2>1. /\ charge' = [charge EXCEPT ![k].state =
                           IF @ = "charged" /\ charge[k].period = m
                             THEN "returned" ELSE "misplaced"]
          /\ usage' = IF ExistsRow(u, m) THEN [usage EXCEPT ![u][m] = Lowered(@, n)] ELSE usage
      BY <1>0, Zenon DEF Fail, RefundUsage, CurrentPeriod
    <2>2. charge \in [Ids -> Charges]
      BY DEF TInv, RecordType
    <2>. QED  BY <2>1, <2>2 DEF Charges
  <1>2. Balance \in [Users -> [Periods -> Row]] /\ Balance[u][m] \in Row
    BY BalanceFacts DEF IInv
  <1>3. Balance' = [Balance EXCEPT ![u][m] = Lowered(Balance[u][m], n)]
    <2>1. CASE ExistsRow(u, m)
      <3>1. usage[u][m] \in Row /\ Balance[u][m] = usage[u][m]
        BY <2>1, RowAt, BalanceFacts DEF IInv
      <3>2. Lowered(usage[u][m], n) \in Row
        BY <3>1, LoweredIsRow
      <3>3. usage' = [usage EXCEPT ![u][m] = Lowered(usage[u][m], n)]
        BY <1>1, <2>1
      <3>. QED  BY <3>1, <3>2, <3>3, BalanceReplaced DEF IInv
    <2>2. CASE ~ExistsRow(u, m)
      <3>1. usage' = usage /\ Balance[u][m] = Zero
        BY <1>1, <2>2, BalanceFacts DEF IInv
      <3>2. Balance' = Balance /\ Lowered(Balance[u][m], n) = Balance[u][m]
        BY <3>1, LoweredAlike, RowFacts DEF Balance, ExistsRow
      <3>3. [Balance[u] EXCEPT ![m] = Balance[u][m]] = Balance[u]
        BY <1>2
      <3>. QED  BY <1>2, <3>2, <3>3
    <2>. QED  BY <2>1, <2>2
  <1>4. Bills' = [Bills EXCEPT ![k].state = st]
    <2>1. Bills' = [Bills EXCEPT ![k] = [state |-> st, user |-> charge[k].user,
                                         n |-> charge[k].n, month |-> charge[k].period]]
      BY <1>1, BillFollows
    <2>. QED  BY <1>0, <2>1 DEF Bills, Bill
  <1>5. /\ Bills[k].state = charge[k].state /\ Bills[k].user = u /\ Bills[k].n = n
        /\ Bills[k].month = charge[k].period
    BY <1>0 DEF Bills, Bill
  <1>6. m >= Bills[k].month
    BY <1>0, <1>5 DEF TInv, RecordType, Charges, Periods
  <1>7. open[k] > 0 /\ open' = [open EXCEPT ![k] = @ - 1]
    <2>1. Tally(k) /\ open[k] \in Int
      BY DEF VInv
    <2>2. Bit(client[c], "running", k) = 1
      BY <1>0 DEF Bit, Fail
    <2>3. PICK cl \in [Clients -> ClientType] : cl = client
      BY DEF IInv, ClientsOK
    <2>4. Bit(cl[c], "running", k) <= Cardinality(Here(cl, "running", k))
      BY OneMoves DEF OthersStay
    <2>5. At("running", k) = Here(client, "running", k)
      BY <1>0, Counts
    <2>6. 1 <= Cardinality(At("running", k)) /\ Cardinality(At("running", k)) \in Nat
      BY <2>2, <2>3, <2>4, <2>5, OneMoves DEF OthersStay
    <2>7. open[k] > 0
      BY <2>1, <2>6 DEF Tally
    <2>. QED  BY <1>0, <2>7 DEF Fail, RefundUsage
  <1>8. Bills' = [Bills EXCEPT ![k].state = IF @ = "charged" /\ m = Bills[k].month
                                             THEN "returned" ELSE "misplaced"]
    BY <1>4, <1>5 DEF Bills
  <1>9. Account!Return(k, m)
    <2>1. Bills[k].state # "none"
      BY <1>0, <1>5
    <2>2. Lowered(Balance[u][m], n) = [requests     |-> Account!Less(Balance[u][m].requests, 1),
                                      interactions |-> Account!Less(Balance[u][m].interactions, n)]
      BY <1>2, LoweredAlike
    <2>3. Balance' = [Balance EXCEPT ![Bills[k].user][m] =
                        [requests     |-> Account!Less(@.requests, 1),
                         interactions |-> Account!Less(@.interactions, Bills[k].n)]]
      BY <1>2, <1>3, <1>5, <2>2
    <2>. QED  BY <1>6, <1>7, <1>8, <2>1, <2>3 DEF Account!Return, Bills
  <1>. QED  BY <1>9 DEF Account!Next

\* Every other step leaves the account alone.
LEMMA AccountStep == IInv /\ TInv /\ VInv /\ [Next]_vars => [Account!Next]_(Account!account)
  <1>. SUFFICES ASSUME IInv, TInv, VInv, [Next]_vars PROVE [Account!Next]_(Account!account)
    OBVIOUS
  <1>0. UsageType /\ UsageType'
    BY StepIInv DEF IInv
  <1>1. ASSUME UNCHANGED <<usage, charge, open>>  PROVE UNCHANGED Account!account
    BY <1>0, <1>1, AccountStutters DEF Bills, Bill
  <1>2. ASSUME NEW c \in Clients, NEW u \in Users, NEW n \in Sizes, BeginReserve(c, u, n)
        PROVE  UNCHANGED Account!account
    <2>1. PICK k \in Ids : k = nextId
      BY <1>2 DEF BeginReserve, IInv, CountType, Ids
    <2>2. /\ UNCHANGED <<usage, open>>
          /\ charge' = [charge EXCEPT ![k] = [user |-> u, n |-> n, period |-> today, state |-> "none"]]
      BY <1>2, <2>1 DEF BeginReserve, CurrentPeriod
    <2>3. charge[k].state = "none" /\ charge'[k].state = "none"
          /\ \A j \in Ids : j # k => charge'[j] = charge[j]
      BY <2>1, <2>2 DEF TInv, RecordType, ChargeOK, NoCharge, Ids
    <2>4. UNCHANGED Bills
      BY <2>3 DEF Bills, Bill
    <2>. QED  BY <1>0, <2>2, <2>4, AccountStutters
  <1>3. ASSUME NEW c \in Clients, Insert(c)  PROVE UNCHANGED Account!account
    <2>1. client[c].user \in Users /\ client[c].period \in Periods /\ UNCHANGED <<charge, open>>
      BY <1>3, ClientFacts DEF Insert
    <2>2. \/ UNCHANGED usage
          \/ /\ ~ExistsRow(client[c].user, client[c].period)
             /\ usage' = [usage EXCEPT ![client[c].user][client[c].period] = Zero]
      BY <1>3, Zenon DEF Insert
    <2>. QED  BY <1>0, <2>1, <2>2, AccountStutters DEF Bills, Bill
  <1>4. ASSUME NEW c \in Clients, NEW k \in Ids, TakeOver(c, k)  PROVE Account!Next
    <2>1. /\ charge[k].state # "none" /\ UNCHANGED <<usage, charge>>
          /\ open' = [open EXCEPT ![k] = @ + 1]
      BY <1>4 DEF TakeOver
    <2>2. Balance' = Balance /\ Bills' = Bills /\ Bills[k].state # "none"
      BY <2>1 DEF Balance, ExistsRow, Bills, Bill
    <2>3. Account!Join(k)
      BY <2>1, <2>2 DEF Account!Join, Bills
    <2>. QED  BY <2>3, PeriodsAreNat DEF Account!Next
  <1>. QED  BY <1>0, <1>1, <1>2, <1>3, <1>4, ReserveCharges, FailReturns
            DEF Next, Settle, vars, BeginSummary, SelectFound, SelectNone, Succeed, RecordFailure,
                RecordEvent, Summarise, Crash, NewMonth

\* What sessions, locks and months make of the quota is what QuotaAccount says: one
\* step charges a request, if the plan has room for all of it, one step takes it
\* back, from the month of the failure and once for each session that took the
\* request on, and nothing else changes a balance
\* (get_or_create_monthly_usage, reserve_usage, refund_usage).
THEOREM LedgerImplementsAccount == Spec => ImplementsAccount
  <1>. QED  BY InitIInv, StepIInv, InitTInv, StepTInv, InitVInv, StepVInv, AccountInit, AccountStep, PTL
            DEF Spec, ImplementsAccount, Account!Spec
=============================================================================
