----------------------------- MODULE MCAccounts -----------------------------
(* Instances of Accounts for TLC.                                          *)
EXTENDS Accounts, TLC

CONSTANTS e1, e2, s1, s2, l1, l2, c1, c2

TwoEmails   == {e1, e2}
TwoSubjects == {s1, s2}
TwoLogins   == {l1, l2}
TwoClients  == {c1, c2}

Symmetry == Permutations(Emails) \union Permutations(Subjects)
              \union Permutations(Logins) \union Permutations(Clients)
=============================================================================
