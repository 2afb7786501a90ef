----------------------- MODULE UsageLedgerRefinement -----------------------
(* UsageLedger implements QuotaAccount: the balance of a month is its row, *)
(* or nothing while there is no row; open is the history of that name.     *)
EXTENDS UsageLedger

Balance == [u \in Users |-> [p \in Periods |->
              IF ExistsRow(u, p) THEN usage[u][p] ELSE Zero]]

\* A request is on the account from the moment it is charged.
Bill(k) ==
    IF charge[k].state = "none"
      THEN [state |-> "none", user |-> NoOne, n |-> 0, month |-> 0]
      ELSE [state |-> charge[k].state, user |-> charge[k].user, n |-> charge[k].n,
            month |-> charge[k].period]

Account == INSTANCE QuotaAccount WITH balance <- Balance,
                                      charge  <- [k \in Ids |-> Bill(k)]

\* Creating rows, locking them, reading summaries, crashing and recording events
\* change no balance; a reservation and a refund change it in one step, by what the
\* simulation costs, and no session that takes a simulation on refunds it twice.
ImplementsAccount == Account!Spec
=============================================================================
