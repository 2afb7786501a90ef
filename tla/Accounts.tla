------------------------------- MODULE Accounts -------------------------------
(***************************************************************************)
(* Accounts, sessions and API keys: the OAuth callback that finds or       *)
(* creates the account of a provider identity and opens a session          *)
(* (app/auth/service.py, app/api/v1/auth.py), the seeding of the free plan *)
(* (app/services/plan.py), and the creation, use and revocation of API     *)
(* keys (app/services/api_key.py).                                         *)
(*                                                                         *)
(* The handlers are coroutines that await nothing between their database   *)
(* calls, so requests interleave when several API processes serve them:    *)
(* every actor below is a request in a process of its own, and one action  *)
(* is one statement or one commit.  An account is named by its email,      *)
(* which is unique.                                                        *)
(***************************************************************************)
EXTENDS Integers, FiniteSets

CONSTANTS
    Emails,       \* emails, and the accounts registered under them
    Subjects,     \* (provider, provider_subject) pairs
    NoAccount, NoSubject, NoOne,
    Logins,       \* concurrent OAuth callbacks
    Clients,      \* concurrent requests that create, use or revoke a key or log out
    MaxApiKeys,   \* plan.max_api_keys
    MaxKeys,      \* bound: keys ever created
    MaxSessions,  \* bound: sessions ever opened
    MaxFaults     \* bound: requests that die

ASSUME AccountsAssumption == NoAccount \notin Emails /\ NoSubject \notin Subjects
ASSUME LockAssumption == NoOne \notin Clients
ASSUME MaxApiKeysAssumption == MaxApiKeys \in Nat
ASSUME BoundsAssumption == /\ MaxKeys \in Nat /\ MaxSessions \in Nat
                           /\ MaxFaults \in Nat

Keys     == 1 .. MaxKeys
Sessions == 1 .. MaxSessions

\* Rows of user_sessions and api_keys, and what a request remembers.
SessionRow  == [user  : Emails \union {NoAccount},
                by    : Subjects \union {NoSubject},
                state : {"none", "live", "expired", "revoked"}]
KeyRow      == [user  : Emails \union {NoAccount},
                state : {"none", "active", "revoked"}]
LoginState  == [pc      : {"idle", "identity", "email", "plan", "seed", "create", "session"},
                subject : Subjects \union {NoSubject},
                email   : Emails \union {NoAccount}]
ClientState == [pc   : {"idle", "create", "insert", "logout", "revoke", "use"},
                user : Emails \union {NoAccount},
                id   : Nat]

VARIABLES
    plan,       \* is the free plan in table plans?
    account,    \* users: "none", "active" or "inactive" (is_active)
    founder,    \* users: the identity the account was created for
    identity,   \* auth_identities: the account an identity signs in to
    session,    \* user_sessions: [user, by, state]
    key,        \* api_keys: [user, state]
    userLock,   \* who holds the FOR UPDATE lock of a users row
    login,      \* local state of each callback
    client,     \* local state of each other request
    faults

accounts == <<plan, account, founder, identity>>
vars == <<accounts, session, key, userLock, login, client, faults>>

NoLogin   == [pc |-> "idle", subject |-> NoSubject, email |-> NoAccount]
NoClient  == [pc |-> "idle", user |-> NoAccount, id |-> 0]
NoSession == [user |-> NoAccount, by |-> NoSubject, state |-> "none"]
NoKey     == [user |-> NoAccount, state |-> "none"]

ActiveKeys(u) == {k \in Keys : key[k].user = u /\ key[k].state = "active"}

-----------------------------------------------------------------------------
(* GET /auth/{provider}/callback.                                          *)

GotoLogin(l, pc) == login' = [login EXCEPT ![l].pc = pc]
EndLogin(l)      == login' = [login EXCEPT ![l] = NoLogin]
KeepRest         == UNCHANGED <<session, key, userLock, client, faults>>

\* The code was exchanged: the provider vouches for a subject and an email,
\* which need not be the email the account was created with.
Callback(l, s, e) ==
    /\ login[l].pc = "idle"
    /\ login' = [login EXCEPT ![l] = [pc |-> "identity", subject |-> s, email |-> e]]
    /\ UNCHANGED accounts /\ KeepRest

\* 1. An identity that is known signs in to its account, if that is active.
FindIdentity(l) ==
    LET u == identity[login[l].subject]
    IN /\ login[l].pc = "identity"
       /\ \/ /\ u = NoAccount
             /\ GotoLogin(l, "email")
          \/ /\ u # NoAccount /\ account[u] = "active"
             /\ login' = [login EXCEPT ![l].pc = "session", ![l].email = u]
          \/ /\ u # NoAccount /\ account[u] # "active"
             /\ EndLogin(l)
       /\ UNCHANGED accounts /\ KeepRest

\* 2. An email that is registered is not merged: 409.
CheckEmail(l) ==
    /\ login[l].pc = "email"
    /\ IF account[login[l].email] = "none" THEN GotoLogin(l, "plan") ELSE EndLogin(l)
    /\ UNCHANGED accounts /\ KeepRest

\* get_or_create_free_plan: look it up ...
FindPlan(l) ==
    /\ login[l].pc = "plan"
    /\ GotoLogin(l, IF plan THEN "create" ELSE "seed")
    /\ UNCHANGED accounts /\ KeepRest

\* ... or insert it, which fails if another process was faster: 500.
SeedPlan(l) ==
    /\ login[l].pc = "seed"
    /\ plan' = TRUE
    /\ IF plan THEN EndLogin(l) ELSE GotoLogin(l, "create")
    /\ UNCHANGED <<account, founder, identity>> /\ KeepRest

\* Mutant: the conflict is taken for the same user, and the identity attached.
CreateOrAttach(l) ==
    LET s == login[l].subject  e == login[l].email
    IN /\ login[l].pc = "create"
       /\ account' = [account EXCEPT ![e] = IF @ = "none" THEN "active" ELSE @]
       /\ founder' = [founder EXCEPT ![e] = IF @ = NoSubject THEN s ELSE @]
       /\ identity' = [identity EXCEPT ![s] = e]
       /\ GotoLogin(l, "session")
       /\ UNCHANGED plan /\ KeepRest

\* Mutant: the user is committed before its identity.
CreateInTwoCommits(l) ==
    LET s == login[l].subject  e == login[l].email
    IN /\ login[l].pc = "create"
       /\ \/ /\ account[e] = "none"
             /\ account' = [account EXCEPT ![e] = "active"]
             /\ founder' = [founder EXCEPT ![e] = s]
             /\ UNCHANGED <<identity, login>>
          \/ /\ account[e] # "none"
             /\ identity' = [identity EXCEPT ![s] = e]
             /\ GotoLogin(l, "session")
             /\ UNCHANGED <<account, founder>>
       /\ UNCHANGED plan /\ KeepRest

\* 3. The user and its identity are committed together; the unique email and
\* the unique (provider, subject) make the later of two callbacks fail: 500.
CreateAccount(l) ==
    LET s == login[l].subject  e == login[l].email
    IN /\ login[l].pc = "create"
       /\ IF account[e] = "none" /\ identity[s] = NoAccount
            THEN /\ account'  = [account EXCEPT ![e] = "active"]
                 /\ founder'  = [founder EXCEPT ![e] = s]
                 /\ identity' = [identity EXCEPT ![s] = e]
                 /\ GotoLogin(l, "session")
            ELSE EndLogin(l) /\ UNCHANGED <<account, founder, identity>>
       /\ UNCHANGED plan /\ KeepRest

\* create_user_session.
OpenSession(l, n) ==
    /\ login[l].pc = "session"
    /\ session[n].state = "none" /\ \A m \in 1 .. n - 1 : session[m].state # "none"
    /\ session' = [session EXCEPT ![n] = [user  |-> login[l].email,
                                          by    |-> login[l].subject,
                                          state |-> "live"]]
    /\ EndLogin(l)
    /\ UNCHANGED <<accounts, key, userLock, client, faults>>

-----------------------------------------------------------------------------
(* Requests with a credential.                                             *)

Goto(c, pc)  == client' = [client EXCEPT ![c].pc = pc]
EndClient(c) == client' = [client EXCEPT ![c] = NoClient]
KeepAccounts == UNCHANGED <<accounts, login>>
Begin(c, pc, u, n) == /\ client[c].pc = "idle"
                      /\ client' = [client EXCEPT ![c] = [pc |-> pc, user |-> u, id |-> n]]
Unlock(c) == userLock' = [u \in Emails |-> IF userLock[u] = c THEN NoOne ELSE userLock[u]]

\* validate_session_token, and the check of the owner that follows it.
Authenticated(n) == session[n].state = "live" /\ account[session[n].user] = "active"

\* A request authenticated by session n, to create a key or to log out.
Authenticate(c, n) ==
    /\ Authenticated(n)
    /\ \/ Begin(c, "create", session[n].user, n)
       \/ Begin(c, "logout", session[n].user, n)
    /\ KeepAccounts
    /\ UNCHANGED <<session, key, userLock, faults>>

Logout(c) ==
    /\ client[c].pc = "logout"
    /\ session' = [session EXCEPT ![client[c].id].state = "revoked"]
    /\ EndClient(c)
    /\ KeepAccounts
    /\ UNCHANGED <<key, userLock, faults>>

\* The session's expires_at passes.
SessionExpires(n) ==
    /\ session[n].state = "live"
    /\ session' = [session EXCEPT ![n].state = "expired"]
    /\ UNCHANGED <<accounts, key, userLock, login, client, faults>>

\* Mutant: the active keys are counted without the lock on the user.
CountKeysUnlocked(c) ==
    /\ client[c].pc = "create"
    /\ IF Cardinality(ActiveKeys(client[c].user)) < MaxApiKeys
         THEN Goto(c, "insert") ELSE EndClient(c)
    /\ KeepAccounts
    /\ UNCHANGED <<session, key, userLock, faults>>

\* create_api_key: lock the user, count; over the limit, answer 403.
CountKeys(c) ==
    LET u == client[c].user
    IN /\ client[c].pc = "create"
       /\ userLock[u] \in {NoOne, c}
       /\ IF Cardinality(ActiveKeys(u)) < MaxApiKeys
            THEN Goto(c, "insert") /\ userLock' = [userLock EXCEPT ![u] = c]
            ELSE EndClient(c) /\ UNCHANGED userLock
       /\ KeepAccounts
       /\ UNCHANGED <<session, key, faults>>

InsertKey(c, k) ==
    /\ client[c].pc = "insert"
    /\ key[k].state = "none" /\ \A i \in 1 .. k - 1 : key[i].state # "none"
    /\ key' = [key EXCEPT ![k] = [user |-> client[c].user, state |-> "active"]]
    /\ Unlock(c)
    /\ EndClient(c)
    /\ KeepAccounts
    /\ UNCHANGED <<session, faults>>

\* revoke_api_key: the row is read, and if it is active ...
ReadForRevoke(c, k) ==
    /\ key[k].state = "active"
    /\ Begin(c, "revoke", key[k].user, k)
    /\ KeepAccounts
    /\ UNCHANGED <<session, key, userLock, faults>>

\* ... its is_active and revoked_at are written.
Revoke(c) ==
    /\ client[c].pc = "revoke"
    /\ key' = [key EXCEPT ![client[c].id].state = "revoked"]
    /\ EndClient(c)
    /\ KeepAccounts
    /\ UNCHANGED <<session, userLock, faults>>

\* validate_api_key: the candidate is found while it is active ...
FindKey(c, k) ==
    /\ key[k].state = "active"
    /\ Begin(c, "use", key[k].user, k)
    /\ KeepAccounts
    /\ UNCHANGED <<session, key, userLock, faults>>

\* Mutant: the whole row is written back as it was read.
UseKeyWholeRow(c) ==
    /\ client[c].pc = "use"
    /\ key' = IF account[client[c].user] = "active"
                THEN [key EXCEPT ![client[c].id].state = "active"] ELSE key
    /\ EndClient(c)
    /\ KeepAccounts
    /\ UNCHANGED <<session, userLock, faults>>

\* ... its owner is checked, and last_used_at alone is written.  The request
\* may be one to create another key.
UseKey(c) ==
    /\ client[c].pc = "use"
    /\ \/ EndClient(c)
       \/ account[client[c].user] = "active" /\ Goto(c, "create")
    /\ KeepAccounts
    /\ UNCHANGED <<session, key, userLock, faults>>

\* An operator deactivates an account, or reactivates it.
SetActive(u) ==
    /\ account[u] # "none"
    /\ account' = [account EXCEPT ![u] = IF @ = "active" THEN "inactive" ELSE "active"]
    /\ UNCHANGED <<plan, founder, identity, session, key, userLock, login, client, faults>>

\* A request dies and its transaction is rolled back.
Die ==
    /\ faults < MaxFaults
    /\ faults' = faults + 1
    /\ \/ \E l \in Logins : login[l].pc # "idle" /\ EndLogin(l) /\ UNCHANGED <<client, userLock>>
       \/ \E c \in Clients : /\ client[c].pc # "idle"
                             /\ EndClient(c) /\ Unlock(c) /\ UNCHANGED login
    /\ UNCHANGED <<accounts, session, key>>

-----------------------------------------------------------------------------
Init ==
    /\ plan     = FALSE
    /\ account  = [e \in Emails |-> "none"]
    /\ founder  = [e \in Emails |-> NoSubject]
    /\ identity = [s \in Subjects |-> NoAccount]
    /\ session  = [n \in Sessions |-> NoSession]
    /\ key      = [k \in Keys |-> NoKey]
    /\ userLock = [e \in Emails |-> NoOne]
    /\ login    = [l \in Logins |-> NoLogin]
    /\ client   = [c \in Clients |-> NoClient]
    /\ faults   = 0

LoginStep(l) ==
    \/ \E s \in Subjects, e \in Emails : Callback(l, s, e)
    \/ FindIdentity(l) \/ CheckEmail(l) \/ FindPlan(l) \/ SeedPlan(l) \/ CreateAccount(l)
    \/ \E n \in Sessions : OpenSession(l, n)

ClientStep(c) ==
    \/ \E n \in Sessions : Authenticate(c, n)
    \/ \E k \in Keys : InsertKey(c, k) \/ ReadForRevoke(c, k) \/ FindKey(c, k)
    \/ CountKeys(c) \/ Revoke(c) \/ UseKey(c) \/ Logout(c)

Next == \/ \E l \in Logins : LoginStep(l)
        \/ \E c \in Clients : ClientStep(c)
        \/ \E n \in Sessions : SessionExpires(n)
        \/ \E u \in Emails : SetActive(u)
        \/ Die

Spec == Init /\ [][Next]_vars

-----------------------------------------------------------------------------
\* The states of every table and of every request.
TypeOK ==
    /\ plan \in BOOLEAN
    /\ account \in [Emails -> {"none", "active", "inactive"}]
    /\ founder \in [Emails -> Subjects \union {NoSubject}]
    /\ identity \in [Subjects -> Emails \union {NoAccount}]
    /\ session \in [Sessions -> SessionRow]
    /\ key \in [Keys -> KeyRow]
    /\ userLock \in [Emails -> Clients \union {NoOne}]
    /\ login \in [Logins -> LoginState]
    /\ client \in [Clients -> ClientState]
    /\ faults \in Nat

\* A user never has more active keys than the plan allows, although creations
\* in several processes count before they insert.
KeysWithinPlan == \A u \in Emails : Cardinality(ActiveKeys(u)) <= MaxApiKeys

\* A session belongs to the account that was created for the identity it was
\* opened with: no order of callbacks lets one identity into the account of
\* another, whatever emails the providers report.
SignInReachesOwnAccount ==
    \A n \in Sessions : session[n].state # "none" => founder[session[n].user] = session[n].by

\* Every account can be signed in to, by the identity it was created for, and
\* has a plan: no crash leaves a user without one of them.
AccountsAreComplete ==
    \A e \in Emails : account[e] # "none" => plan /\ \E s \in Subjects : /\ founder[e] = s
                                                                      /\ identity[s] = e

\* Revoking a key or a session is for good, although requests that read it
\* before still write to its row.
RevocationIsFinal ==
    [][/\ \A k \in Keys : key[k].state = "revoked" => key'[k].state = "revoked"
       /\ \A n \in Sessions : session[n].state = "revoked" => session'[n].state = "revoked"]_vars

=============================================================================
