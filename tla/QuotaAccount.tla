---------------------------- MODULE QuotaAccount ----------------------------
(***************************************************************************)
(* What quota accounting comes to, said without rows, locks or sessions: a *)
(* simulation is charged to a month in one step, if the plan has room for  *)
(* all of it, and a failure takes it back in one step -- from the month of *)
(* the failure, never below zero, and once for each process that takes the *)
(* simulation on, which should be one.                                     *)
(***************************************************************************)
EXTENDS Integers

CONSTANTS Users, NoOne, Ids, Sizes, Periods, MonthlyRequests, MonthlyInteractions

VARIABLES
    balance,     \* what each user has used of the plan in each month
    charge,      \* what each simulation was charged, and whether it still is
    open         \* how many processes may yet take it back

account == <<balance, charge, open>>

Zero == [requests |-> 0, interactions |-> 0]

Free == [state |-> "none", user |-> NoOne, n |-> 0, month |-> 0]

HasRoom(used, n) == /\ used.requests + 1 <= MonthlyRequests
                    /\ used.interactions + n <= MonthlyInteractions

Charge(k, u, n, m) ==
    /\ charge[k].state = "none"
    /\ HasRoom(balance[u][m], n)
    /\ balance' = [balance EXCEPT ![u][m].requests = @ + 1, ![u][m].interactions = @ + n]
    /\ charge' = [charge EXCEPT ![k] = [state |-> "charged", user |-> u, n |-> n, month |-> m]]
    /\ open' = [open EXCEPT ![k] = @ + 1]

\* One process more that settles the simulation, though it may be settled already.
Join(k) ==
    /\ charge[k].state # "none"
    /\ open' = [open EXCEPT ![k] = @ + 1]
    /\ UNCHANGED <<balance, charge>>

Less(a, b) == IF a >= b THEN a - b ELSE 0

\* A simulation that outlives its month is taken off the month it fails in.
Return(k, m) ==
    /\ charge[k].state # "none" /\ open[k] > 0
    /\ m >= charge[k].month
    /\ balance' = [balance EXCEPT ![charge[k].user][m] =
         [requests     |-> Less(@.requests, 1),
          interactions |-> Less(@.interactions, charge[k].n)]]
    /\ charge' = [charge EXCEPT
         ![k].state = IF @ = "charged" /\ m = charge[k].month THEN "returned" ELSE "misplaced"]
    /\ open' = [open EXCEPT ![k] = @ - 1]

Init == /\ balance = [u \in Users |-> [m \in Periods |-> Zero]]
        /\ charge  = [k \in Ids |-> Free]
        /\ open    = [k \in Ids |-> 0]

Next == \E k \in Ids, m \in Periods : \/ \E u \in Users, n \in Sizes : Charge(k, u, n, m)
                                      \/ Join(k) \/ Return(k, m)

Spec == Init /\ [][Next]_account
=============================================================================
