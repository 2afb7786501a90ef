---------------------------- MODULE MCUsageLedger ----------------------------
(* Instances of UsageLedger for TLC.                                       *)
EXTENDS UsageLedgerRefinement, TLC

CONSTANTS u1, u2, c1, c2, c3

OneUser      == {u1}
TwoUsers     == {u1, u2}
TwoClients   == {c1, c2}
ThreeClients == {c1, c2, c3}
=============================================================================
