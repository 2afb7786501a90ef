--------------------------- MODULE Accounts_proofs ---------------------------
(***************************************************************************)
(* Proofs about Accounts, for any number of processes, accounts and keys.  *)
(***************************************************************************)
EXTENDS Accounts, FiniteSetTheorems, TLAPS

-----------------------------------------------------------------------------
(* The inductive invariant.                                                *)

\* Whatever is under way or on record has an owner, and a logout has a session.
Attributed ==
    /\ \A n \in Sessions : session[n].state # "none" =>
          session[n].user \in Emails /\ session[n].by \in Subjects
    /\ \A k \in Keys : key[k].state = "active" => key[k].user \in Emails
    /\ \A l \in Logins : login[l].pc # "idle" =>
          login[l].subject \in Subjects /\ login[l].email \in Emails
    /\ \A c \in Clients : client[c].pc # "idle" => client[c].user \in Emails
    /\ \A c \in Clients : client[c].pc = "logout" =>
          client[c].id \in Sessions /\ session[client[c].id].state # "none"

\* The account an identity signs in to was created for it, and nobody founded
\* an account that does not exist.
IdentitiesMatch ==
    /\ \A s \in Subjects : identity[s] # NoAccount => founder[identity[s]] = s
    /\ \A e \in Emails : account[e] = "none" => founder[e] = NoSubject

\* A callback about to open a session is at the account of its identity, and
\* one about to create an account has a plan to give to it.
CallbacksOnCourse ==
    \A l \in Logins : /\ login[l].pc = "session" => founder[login[l].email] = login[l].subject
                      /\ login[l].pc = "create" => plan

SignIn == /\ IdentitiesMatch
          /\ CallbacksOnCourse
          /\ SignInReachesOwnAccount
          /\ AccountsAreComplete

\* A request about to insert a key holds the lock of its user, and there is
\* still room for the key.
InsertHasRoom ==
    \A c \in Clients : client[c].pc = "insert" =>
        /\ userLock[client[c].user] = c
        /\ Cardinality(ActiveKeys(client[c].user)) < MaxApiKeys

KeyCap == InsertHasRoom /\ KeysWithinPlan

IInv == TypeOK /\ Attributed /\ SignIn /\ KeyCap

-----------------------------------------------------------------------------
(* Types and owners.                                                       *)

\* Ending a login or moving it on keeps its shape.
LEMMA LoginType ==
    ASSUME TypeOK, Attributed, NEW l \in Logins,
           EndLogin(l) \/ \E pc \in {"email", "plan", "seed", "create", "session"} :
                             login[l].pc # "idle" /\ GotoLogin(l, pc)
    PROVE  /\ login' \in [Logins -> LoginState]
           /\ \A m \in Logins : login'[m].pc # "idle" =>
                 login'[m].subject \in Subjects /\ login'[m].email \in Emails
<1>1. CASE EndLogin(l)
  BY <1>1 DEF TypeOK, Attributed, LoginState, EndLogin, NoLogin
<1>2. ASSUME NEW pc \in {"email", "plan", "seed", "create", "session"},
             login[l].pc # "idle", GotoLogin(l, pc)
      PROVE  /\ login' \in [Logins -> LoginState]
             /\ \A m \in Logins : login'[m].pc # "idle" =>
                   login'[m].subject \in Subjects /\ login'[m].email \in Emails
  <2>1. /\ login \in [Logins -> LoginState]
        /\ \A m \in Logins : login[m].pc # "idle" =>
              login[m].subject \in Subjects /\ login[m].email \in Emails
    BY DEF TypeOK, Attributed
  <2>2. PICK r : r = [login[l] EXCEPT !.pc = pc]
    OBVIOUS
  <2>3. login[l] \in LoginState /\ r \in LoginState
    BY <2>1, <2>2 DEF LoginState
  <2>4. r.pc = pc /\ r.subject = login[l].subject /\ r.email = login[l].email
    BY <2>2, <2>3 DEF LoginState
  <2>5. login' = [login EXCEPT ![l] = r]
    BY <1>2, <2>1, <2>2 DEF GotoLogin
  <2>6. QED
    BY <1>2, <2>1, <2>3, <2>4, <2>5
<1>3. QED
  BY <1>1, <1>2

\* Each step of a callback keeps the shape of the state and its owners.
LEMMA LoginStepType ==
    ASSUME TypeOK, Attributed, NEW l \in Logins, LoginStep(l)
    PROVE  TypeOK' /\ Attributed'
<1>1. ASSUME NEW s \in Subjects, NEW e \in Emails, Callback(l, s, e)
      PROVE  TypeOK' /\ Attributed'
  <2>1. /\ login' \in [Logins -> LoginState]
        /\ \A m \in Logins : login'[m].pc # "idle" =>
              login'[m].subject \in Subjects /\ login'[m].email \in Emails
    BY <1>1 DEF Callback, TypeOK, Attributed, LoginState
  <2>2. QED
    BY <1>1, <2>1 DEF Callback, KeepRest, accounts, TypeOK, Attributed
<1>2. CASE FindIdentity(l)
  <2>1. login[l].subject \in Subjects
    BY <1>2 DEF FindIdentity, Attributed
  <2>2. /\ login' \in [Logins -> LoginState]
        /\ \A m \in Logins : login'[m].pc # "idle" =>
              login'[m].subject \in Subjects /\ login'[m].email \in Emails
    <3>1. CASE login' = [login EXCEPT ![l].pc = "session",
                                      ![l].email = identity[login[l].subject]]
               /\ identity[login[l].subject] # NoAccount
      <4>1. identity[login[l].subject] \in Emails
        BY <2>1, <3>1 DEF TypeOK
      <4>2. QED
        <5>1. login[l] \in LoginState
          BY DEF TypeOK
        <5>2. /\ login'[l] = [login[l] EXCEPT !.pc = "session",
                                              !.email = identity[login[l].subject]]
              /\ \A m \in Logins \ {l} : login'[m] = login[m]
              /\ login' \in [Logins -> LoginState]
          BY <3>1, <4>1, <5>1 DEF TypeOK, LoginState
        <5>3. login'[l].subject \in Subjects /\ login'[l].email \in Emails
          BY <2>1, <4>1, <5>1, <5>2 DEF LoginState
        <5>4. QED
          BY <5>2, <5>3 DEF Attributed
    <3>2. QED
      BY <1>2, <3>1, LoginType DEF FindIdentity
  <2>3. QED
    BY <1>2, <2>2 DEF FindIdentity, KeepRest, accounts, TypeOK, Attributed
<1>3. CASE CheckEmail(l) \/ FindPlan(l) \/ SeedPlan(l) \/ CreateAccount(l)
  <2>1. /\ login' \in [Logins -> LoginState]
        /\ \A m \in Logins : login'[m].pc # "idle" =>
              login'[m].subject \in Subjects /\ login'[m].email \in Emails
    BY <1>3, LoginType DEF CheckEmail, FindPlan, SeedPlan, CreateAccount
  <2>2. login[l].subject \in Subjects /\ login[l].email \in Emails
    BY <1>3 DEF CheckEmail, FindPlan, SeedPlan, CreateAccount, Attributed
  <2>3. CASE CreateAccount(l)
    BY <2>1, <2>2, <2>3 DEF CreateAccount, KeepRest, TypeOK, Attributed
  <2>4. CASE ~CreateAccount(l)
    BY <1>3, <2>1, <2>4 DEF CheckEmail, FindPlan, SeedPlan, KeepRest, accounts, TypeOK, Attributed
  <2>5. QED
    BY <2>3, <2>4
<1>4. ASSUME NEW n \in Sessions, OpenSession(l, n)
      PROVE  TypeOK' /\ Attributed'
  <2>1. /\ login' \in [Logins -> LoginState]
        /\ \A m \in Logins : login'[m].pc # "idle" =>
              login'[m].subject \in Subjects /\ login'[m].email \in Emails
    BY <1>4, LoginType DEF OpenSession
  <2>2. login[l].subject \in Subjects /\ login[l].email \in Emails
    BY <1>4 DEF OpenSession, Attributed
  <2>3. /\ session' \in [Sessions -> SessionRow]
        /\ \A m \in Sessions :
              /\ session'[m].state # "none" =>
                    session'[m].user \in Emails /\ session'[m].by \in Subjects
              /\ session[m].state # "none" => session'[m].state # "none"
    BY <1>4, <2>2 DEF OpenSession, TypeOK, Attributed, SessionRow
  <2>4. QED
    BY <1>4, <2>1, <2>3 DEF OpenSession, accounts, TypeOK, Attributed
<1>5. QED
  BY <1>1, <1>2, <1>3, <1>4 DEF LoginStep

\* A request that moves on keeps its user, one that ends has none.
LEMMA ClientType ==
    ASSUME TypeOK, Attributed, NEW c \in Clients,
           \/ EndClient(c)
           \/ \E pc \in {"create", "insert"} : client[c].pc # "idle" /\ Goto(c, pc)
    PROVE  /\ client' \in [Clients -> ClientState]
           /\ \A d \in Clients : client'[d].pc # "idle" => client'[d].user \in Emails
           /\ \A d \in Clients : client'[d].pc = "logout" => client'[d] = client[d]
<1>1. CASE EndClient(c)
  BY <1>1 DEF TypeOK, Attributed, ClientState, EndClient, NoClient
<1>2. ASSUME NEW pc \in {"create", "insert"}, client[c].pc # "idle", Goto(c, pc)
      PROVE  /\ client' \in [Clients -> ClientState]
             /\ \A d \in Clients : client'[d].pc # "idle" => client'[d].user \in Emails
             /\ \A d \in Clients : client'[d].pc = "logout" => client'[d] = client[d]
  <2>1. /\ client \in [Clients -> ClientState]
        /\ \A d \in Clients : client[d].pc # "idle" => client[d].user \in Emails
    BY DEF TypeOK, Attributed
  <2>2. PICK r : r = [client[c] EXCEPT !.pc = pc]
    OBVIOUS
  <2>3. client[c] \in ClientState /\ r \in ClientState
    BY <2>1, <2>2 DEF ClientState
  <2>4. r.pc = pc /\ r.user = client[c].user /\ pc # "logout"
    BY <2>2, <2>3 DEF ClientState
  <2>5. client' = [client EXCEPT ![c] = r]
    BY <1>2, <2>1, <2>2 DEF Goto
  <2>6. QED
    BY <1>2, <2>1, <2>3, <2>4, <2>5
<1>3. QED
  BY <1>1, <1>2

\* A request that begins on behalf of a user.
LEMMA BeginType ==
    ASSUME TypeOK, Attributed, NEW c \in Clients, NEW u \in Emails, NEW n \in Nat,
           NEW pc \in {"create", "logout", "revoke", "use"}, Begin(c, pc, u, n)
    PROVE  /\ client' \in [Clients -> ClientState]
           /\ \A d \in Clients : client'[d].pc # "idle" => client'[d].user \in Emails
           /\ \A d \in Clients : client'[d].pc = "logout" =>
                 client'[d] = client[d] \/ (d = c /\ pc = "logout" /\ client'[d].id = n)
  BY DEF TypeOK, Attributed, ClientState, Begin

LEMMA UnlockType ==
    ASSUME TypeOK, NEW c \in Clients, Unlock(c)
    PROVE  userLock' \in [Emails -> Clients \union {NoOne}]
  BY DEF TypeOK, Unlock

\* Each step of a request with a credential keeps the shape and the owners.
LEMMA ClientStepType ==
    ASSUME TypeOK, Attributed, NEW c \in Clients, ClientStep(c)
    PROVE  TypeOK' /\ Attributed'
<1>n. Sessions \subseteq Nat /\ Keys \subseteq Nat
  BY BoundsAssumption DEF Sessions, Keys
<1>1. ASSUME NEW n \in Sessions, Authenticate(c, n)
      PROVE  TypeOK' /\ Attributed'
  <2>1. session[n].state # "none" /\ session[n].user \in Emails
    BY <1>1 DEF Authenticate, Authenticated, Attributed
  <2>2. /\ client' \in [Clients -> ClientState]
        /\ \A d \in Clients : client'[d].pc # "idle" => client'[d].user \in Emails
        /\ \A d \in Clients : client'[d].pc = "logout" =>
              client'[d] = client[d] \/ client'[d].id = n
    BY <1>n, <1>1, <2>1, BeginType DEF Authenticate
  <2>3. QED
    BY <1>1, <2>1, <2>2 DEF Authenticate, KeepAccounts, accounts, TypeOK, Attributed
<1>2. ASSUME NEW k \in Keys, ReadForRevoke(c, k) \/ FindKey(c, k)
      PROVE  TypeOK' /\ Attributed'
  <2>1. key[k].user \in Emails
    BY <1>2 DEF ReadForRevoke, FindKey, Attributed
  <2>2. /\ client' \in [Clients -> ClientState]
        /\ \A d \in Clients : client'[d].pc # "idle" => client'[d].user \in Emails
        /\ \A d \in Clients : client'[d].pc = "logout" => client'[d] = client[d]
    BY <1>n, <1>2, <2>1, BeginType DEF ReadForRevoke, FindKey
  <2>3. QED
    BY <1>2, <2>2 DEF ReadForRevoke, FindKey, KeepAccounts, accounts, TypeOK, Attributed
<1>3. ASSUME NEW k \in Keys, InsertKey(c, k)
      PROVE  TypeOK' /\ Attributed'
  <2>1. client[c].user \in Emails
    BY <1>3 DEF InsertKey, Attributed
  <2>2. /\ key' \in [Keys -> KeyRow]
        /\ \A i \in Keys : key'[i].state = "active" => key'[i].user \in Emails
    BY <1>3, <2>1 DEF InsertKey, TypeOK, Attributed, KeyRow
  <2>3. QED
    BY <1>3, <2>2, ClientType, UnlockType DEF InsertKey, KeepAccounts, accounts, TypeOK, Attributed
<1>4. CASE CountKeys(c)
  <2>1. userLock' \in [Emails -> Clients \union {NoOne}]
    BY <1>4 DEF CountKeys, TypeOK
  <2>2. QED
    BY <1>4, <2>1, ClientType DEF CountKeys, KeepAccounts, accounts, TypeOK, Attributed
<1>5. CASE Revoke(c)
  <2>1. /\ key' \in [Keys -> KeyRow]
        /\ \A i \in Keys : key'[i].state = "active" => key'[i].user \in Emails
    <3>1. /\ key' \in [Keys -> KeyRow]
          /\ \A i \in Keys : i # client[c].id => key'[i] = key[i]
          /\ client[c].id \in Keys => key'[client[c].id].state = "revoked"
      BY <1>5 DEF Revoke, TypeOK, KeyRow
    <3>2. QED
      BY <3>1 DEF Attributed
  <2>2. QED
    BY <1>5, <2>1, ClientType DEF Revoke, KeepAccounts, accounts, TypeOK, Attributed
<1>6. CASE UseKey(c)
  BY <1>6, ClientType DEF UseKey, KeepAccounts, accounts, TypeOK, Attributed
<1>7. CASE Logout(c)
  <2>1. client[c].id \in Sessions /\ session[client[c].id].state # "none"
    BY <1>7 DEF Logout, Attributed
  <2>2. /\ session' \in [Sessions -> SessionRow]
        /\ \A n \in Sessions : session'[n].state # "none" =>
              /\ session[n].state # "none"
              /\ session'[n].user = session[n].user /\ session'[n].by = session[n].by
        /\ \A n \in Sessions : session[n].state # "none" => session'[n].state # "none"
    BY <1>7, <2>1 DEF Logout, TypeOK, SessionRow
  <2>3. QED
    BY <1>7, <2>2, ClientType DEF Logout, KeepAccounts, accounts, TypeOK, Attributed
<1>8. QED
  BY <1>1, <1>2, <1>3, <1>4, <1>5, <1>6, <1>7 DEF ClientStep

\* Every step keeps the shape of the state and its owners.
LEMMA StepType ==
    ASSUME TypeOK, Attributed, [Next]_vars
    PROVE  TypeOK' /\ Attributed'
<1>1. ASSUME NEW n \in Sessions, SessionExpires(n)
      PROVE  TypeOK' /\ Attributed'
  <2>1. /\ session' \in [Sessions -> SessionRow]
        /\ \A m \in Sessions : session'[m].state # "none" =>
              /\ session[m].state # "none"
              /\ session'[m].user = session[m].user /\ session'[m].by = session[m].by
        /\ \A m \in Sessions : session[m].state # "none" => session'[m].state # "none"
    BY <1>1 DEF SessionExpires, TypeOK, SessionRow
  <2>2. QED
    BY <1>1, <2>1 DEF SessionExpires, accounts, TypeOK, Attributed
<1>2. ASSUME NEW u \in Emails, SetActive(u)
      PROVE  TypeOK' /\ Attributed'
  <2>1. account' \in [Emails -> {"none", "active", "inactive"}]
    BY <1>2 DEF SetActive, TypeOK
  <2>2. QED
    BY <1>2, <2>1 DEF SetActive, TypeOK, Attributed
<1>3. CASE Die
  <2>1. faults' \in Nat
    BY <1>3 DEF Die, TypeOK
  <2>2. ASSUME NEW l \in Logins, EndLogin(l), UNCHANGED <<client, userLock>>
        PROVE  TypeOK' /\ Attributed'
    BY <1>3, <2>1, <2>2, LoginType DEF Die, accounts, TypeOK, Attributed
  <2>3. ASSUME NEW c \in Clients, EndClient(c), Unlock(c), UNCHANGED login
        PROVE  TypeOK' /\ Attributed'
    BY <1>3, <2>1, <2>3, ClientType, UnlockType DEF Die, accounts, TypeOK, Attributed
  <2>4. QED
    BY <1>3, <2>2, <2>3 DEF Die
<1>4. CASE UNCHANGED vars
  BY <1>4 DEF vars, accounts, TypeOK, Attributed
<1>5. QED
  BY <1>1, <1>2, <1>3, <1>4, LoginStepType, ClientStepType DEF Next

-----------------------------------------------------------------------------
(* Signing in.                                                             *)

\* A step that creates no account and no session keeps SignIn, if the callbacks
\* it moves are on course.
LEMMA SignInFrame ==
    ASSUME SignIn,
           UNCHANGED <<founder, identity>>,
           plan => plan',
           \A e \in Emails : account'[e] = "none" <=> account[e] = "none",
           \A n \in Sessions : session'[n].state # "none" =>
              /\ session[n].state # "none"
              /\ session'[n].user = session[n].user /\ session'[n].by = session[n].by,
           \A l \in Logins :
              /\ login'[l].pc = "session" => founder[login'[l].email] = login'[l].subject
              /\ login'[l].pc = "create" => plan'
    PROVE  SignIn'
  BY DEF SignIn, IdentitiesMatch, CallbacksOnCourse, SignInReachesOwnAccount, AccountsAreComplete

\* Ending a callback, or moving it anywhere but to a new session, keeps it on course.
LEMMA OnCourse ==
    ASSUME TypeOK, SignIn, NEW l \in Logins, plan => plan',
           \/ EndLogin(l)
           \/ \E pc \in {"email", "plan", "seed"} : GotoLogin(l, pc)
           \/ GotoLogin(l, "create") /\ plan'
    PROVE  \A m \in Logins :
              /\ login'[m].pc = "session" => founder[login'[m].email] = login'[m].subject
              /\ login'[m].pc = "create" => plan'
<1>1. CASE EndLogin(l)
  BY <1>1 DEF TypeOK, LoginState, SignIn, CallbacksOnCourse, EndLogin, NoLogin
<1>2. ASSUME NEW pc \in {"email", "plan", "seed", "create"}, GotoLogin(l, pc),
             pc = "create" => plan'
      PROVE  \A m \in Logins :
                /\ login'[m].pc = "session" => founder[login'[m].email] = login'[m].subject
                /\ login'[m].pc = "create" => plan'
  BY <1>2 DEF TypeOK, LoginState, SignIn, CallbacksOnCourse, GotoLogin
<1>3. QED
  BY <1>1, <1>2

\* CreateAccount: no identity and no session was tied to the new account
\* before, and no account to its identity.
LEMMA CreateAccountSignIn ==
    ASSUME TypeOK, Attributed, SignIn, NEW l \in Logins, CreateAccount(l)
    PROVE  SignIn'
<1> DEFINE s == login[l].subject
           e == login[l].email
<1>1. s \in Subjects /\ e \in Emails /\ plan
  BY DEF CreateAccount, Attributed, SignIn, CallbacksOnCourse
<1>2. CASE account[e] = "none" /\ identity[s] = NoAccount
  <2>1. /\ founder' = [founder EXCEPT ![e] = s]
        /\ identity' = [identity EXCEPT ![s] = e]
        /\ account' = [account EXCEPT ![e] = "active"]
        /\ login' = [login EXCEPT ![l].pc = "session"]
        /\ plan' = plan /\ session' = session
    BY <1>2 DEF CreateAccount, GotoLogin, KeepRest
  <2>2. /\ founder[e] = NoSubject
        /\ founder'[e] = s /\ \A f \in Emails \ {e} : founder'[f] = founder[f]
        /\ identity'[s] = e /\ \A t \in Subjects \ {s} : identity'[t] = identity[t]
        /\ account'[e] = "active" /\ \A f \in Emails \ {e} : account'[f] = account[f]
    BY <1>1, <1>2, <2>1 DEF TypeOK, SignIn, IdentitiesMatch
  <2>3. IdentitiesMatch'
    <3>1. ASSUME NEW t \in Subjects, identity'[t] # NoAccount
          PROVE  founder'[identity'[t]] = t
      <4>1. CASE t = s
        BY <2>2, <4>1
      <4>2. CASE t # s
        <5>1. founder[identity[t]] = t /\ identity[t] \in Emails
          BY <2>2, <3>1, <4>2 DEF TypeOK, SignIn, IdentitiesMatch
        <5>2. identity[t] # e
          BY <2>2, <5>1, AccountsAssumption
        <5>3. QED
          BY <2>2, <4>2, <5>1, <5>2
      <4>3. QED
        BY <4>1, <4>2
    <3>2. \A f \in Emails : account'[f] = "none" => founder'[f] = NoSubject
      BY <2>2 DEF SignIn, IdentitiesMatch
    <3>3. QED
      BY <3>1, <3>2 DEF IdentitiesMatch
  <2>4. CallbacksOnCourse'
    <3>1. /\ login'[l].pc = "session" /\ login'[l].email = e /\ login'[l].subject = s
          /\ \A m \in Logins \ {l} : login'[m] = login[m]
      BY <2>1 DEF TypeOK, LoginState
    <3>2. ASSUME NEW m \in Logins \ {l}, login[m].pc = "session"
          PROVE  founder'[login[m].email] = login[m].subject
      <4>1. /\ founder[login[m].email] = login[m].subject
            /\ login[m].email \in Emails /\ login[m].subject \in Subjects
        BY <3>2 DEF Attributed, SignIn, CallbacksOnCourse
      <4>2. QED
        BY <2>2, <4>1, AccountsAssumption
    <3>3. QED
      BY <1>1, <2>1, <2>2, <3>1, <3>2 DEF CallbacksOnCourse
  <2>5. SignInReachesOwnAccount'
    <3>1. ASSUME NEW n \in Sessions, session[n].state # "none"
          PROVE  founder'[session[n].user] = session[n].by
      <4>1. /\ founder[session[n].user] = session[n].by
            /\ session[n].user \in Emails /\ session[n].by \in Subjects
        BY <3>1 DEF Attributed, SignIn, SignInReachesOwnAccount
      <4>2. QED
        BY <2>2, <4>1, AccountsAssumption
    <3>2. QED
      BY <2>1, <3>1 DEF SignInReachesOwnAccount
  <2>6. AccountsAreComplete'
    <3>1. ASSUME NEW f \in Emails, account'[f] # "none"
          PROVE  plan' /\ \E t \in Subjects : founder'[f] = t /\ identity'[t] = f
      <4>1. CASE f = e
        BY <1>1, <2>1, <2>2, <4>1
      <4>2. CASE f # e
        <5>1. PICK t \in Subjects : founder[f] = t /\ identity[t] = f
          BY <2>2, <3>1, <4>2 DEF SignIn, AccountsAreComplete
        <5>2. t # s
          BY <1>2, <5>1, AccountsAssumption
        <5>3. QED
          BY <1>1, <2>1, <2>2, <4>2, <5>1, <5>2
      <4>3. QED
        BY <4>1, <4>2
    <3>2. QED
      BY <3>1 DEF AccountsAreComplete
  <2>7. QED
    BY <2>3, <2>4, <2>5, <2>6 DEF SignIn
<1>3. CASE ~(account[e] = "none" /\ identity[s] = NoAccount)
  <2>1. EndLogin(l) /\ UNCHANGED <<plan, account, founder, identity, session>>
    BY <1>3 DEF CreateAccount, KeepRest
  <2>2. QED
    BY <2>1, OnCourse, SignInFrame
<1>4. QED
  BY <1>2, <1>3

\* Each step of a callback keeps SignIn.
LEMMA LoginStepSignIn ==
    ASSUME TypeOK, Attributed, SignIn, NEW l \in Logins, LoginStep(l)
    PROVE  SignIn'
<1>1. ASSUME NEW s \in Subjects, NEW e \in Emails, Callback(l, s, e)
      PROVE  SignIn'
  <2>1. \A m \in Logins : login'[m] = login[m] \/ login'[m].pc = "identity"
    BY <1>1 DEF Callback, TypeOK
  <2>2. QED
    BY <1>1, <2>1, SignInFrame DEF Callback, KeepRest, accounts, SignIn, CallbacksOnCourse
<1>2. CASE FindIdentity(l)
  <2>1. CASE login' = [login EXCEPT ![l].pc = "session",
                                    ![l].email = identity[login[l].subject]]
             /\ identity[login[l].subject] # NoAccount
    <3>1. login[l].subject \in Subjects
      BY <1>2 DEF FindIdentity, Attributed
    <3>2. /\ login'[l].pc = "session"
          /\ login'[l].email = identity[login[l].subject]
          /\ login'[l].subject = login[l].subject
          /\ \A m \in Logins \ {l} : login'[m] = login[m]
      <4>1. login[l] \in LoginState
        BY DEF TypeOK
      <4>2. /\ login'[l] = [login[l] EXCEPT !.pc = "session",
                                            !.email = identity[login[l].subject]]
            /\ \A m \in Logins \ {l} : login'[m] = login[m]
        BY <2>1, <4>1 DEF TypeOK, LoginState
      <4>3. QED
        BY <4>1, <4>2 DEF LoginState
    <3>3. founder[login'[l].email] = login'[l].subject
      BY <2>1, <3>1, <3>2 DEF SignIn, IdentitiesMatch
    <3>4. \A m \in Logins :
             /\ login'[m].pc = "session" => founder[login'[m].email] = login'[m].subject
             /\ login'[m].pc = "create" => plan
      BY <3>2, <3>3 DEF SignIn, CallbacksOnCourse
    <3>5. QED
      BY <1>2, <3>4, SignInFrame DEF FindIdentity, KeepRest, accounts
  <2>2. CASE GotoLogin(l, "email") \/ EndLogin(l)
    BY <1>2, <2>2, OnCourse, SignInFrame DEF FindIdentity, KeepRest, accounts
  <2>3. QED
    BY <1>2, <2>1, <2>2 DEF FindIdentity
<1>3. CASE CheckEmail(l) \/ FindPlan(l) \/ SeedPlan(l)
  <2>1. /\ UNCHANGED <<account, founder, identity, session>>
        /\ plan => plan'
    BY <1>3 DEF CheckEmail, FindPlan, SeedPlan, KeepRest, accounts
  <2>2. \/ EndLogin(l)
        \/ \E pc \in {"email", "plan", "seed"} : GotoLogin(l, pc)
        \/ GotoLogin(l, "create") /\ plan'
    BY <1>3 DEF CheckEmail, FindPlan, SeedPlan, accounts
  <2>3. QED
    BY <2>1, <2>2, OnCourse, SignInFrame
<1>4. ASSUME NEW n \in Sessions, OpenSession(l, n)
      PROVE  SignIn'
  <2>1. founder[login[l].email] = login[l].subject
    BY <1>4 DEF OpenSession, SignIn, CallbacksOnCourse
  <2>2. /\ session'[n].user = login[l].email /\ session'[n].by = login[l].subject
        /\ \A m \in Sessions \ {n} : session'[m] = session[m]
    BY <1>4 DEF OpenSession, TypeOK
  <2>3. UNCHANGED accounts
    BY <1>4 DEF OpenSession
  <2>4. SignInReachesOwnAccount'
    BY <2>1, <2>2, <2>3 DEF accounts, SignIn, SignInReachesOwnAccount
  <2>5. CallbacksOnCourse'
    BY <1>4, <2>3, OnCourse DEF OpenSession, accounts, CallbacksOnCourse
  <2>6. QED
    BY <2>3, <2>4, <2>5 DEF accounts, SignIn, IdentitiesMatch, AccountsAreComplete
<1>5. QED
  BY <1>1, <1>2, <1>3, <1>4, CreateAccountSignIn DEF LoginStep

\* Every step keeps SignIn.
LEMMA StepSignIn ==
    ASSUME TypeOK, Attributed, SignIn, [Next]_vars
    PROVE  SignIn'
<1> USE DEF SignIn, CallbacksOnCourse
<1>1. ASSUME NEW c \in Clients, ClientStep(c)
      PROVE  SignIn'
  <2>1. UNCHANGED <<accounts, login>>
    BY <1>1 DEF ClientStep, Authenticate, InsertKey, ReadForRevoke, FindKey, CountKeys,
                Revoke, UseKey, Logout, KeepAccounts
  <2>2. \A n \in Sessions : session'[n].state # "none" =>
           /\ session[n].state # "none"
           /\ session'[n].user = session[n].user /\ session'[n].by = session[n].by
    <3>1. CASE Logout(c)
      <4>1. client[c].id \in Sessions /\ session[client[c].id].state # "none"
        BY <3>1 DEF Logout, Attributed
      <4>2. QED
        BY <3>1, <4>1 DEF Logout, TypeOK, SessionRow
    <3>2. CASE ~Logout(c)
      BY <1>1, <3>2 DEF ClientStep, Authenticate, InsertKey, ReadForRevoke, FindKey,
                        CountKeys, Revoke, UseKey
    <3>3. QED
      BY <3>1, <3>2
  <2>3. QED
    BY <2>1, <2>2, SignInFrame DEF accounts
<1>2. ASSUME NEW n \in Sessions, SessionExpires(n)
      PROVE  SignIn'
  <2>1. \A m \in Sessions : session'[m].state # "none" =>
           /\ session[m].state # "none"
           /\ session'[m].user = session[m].user /\ session'[m].by = session[m].by
    BY <1>2 DEF SessionExpires, TypeOK, SessionRow
  <2>2. QED
    BY <1>2, <2>1, SignInFrame DEF SessionExpires, accounts
<1>3. ASSUME NEW u \in Emails, SetActive(u)
      PROVE  SignIn'
  <2>1. \A e \in Emails : account'[e] = "none" <=> account[e] = "none"
    BY <1>3 DEF SetActive, TypeOK
  <2>2. QED
    BY <1>3, <2>1, SignInFrame DEF SetActive
<1>4. CASE Die
  <2>1. UNCHANGED <<plan, account, founder, identity, session>>
    BY <1>4 DEF Die, accounts
  <2>2. \A l \in Logins :
           /\ login'[l].pc = "session" => founder[login'[l].email] = login'[l].subject
           /\ login'[l].pc = "create" => plan'
    BY <1>4, <2>1, OnCourse DEF Die
  <2>3. QED
    BY <2>1, <2>2, SignInFrame
<1>5. CASE UNCHANGED vars
  BY <1>5, SignInFrame DEF vars, accounts
<1>6. QED
  BY <1>1, <1>2, <1>3, <1>4, <1>5, LoginStepSignIn DEF Next

-----------------------------------------------------------------------------
(* Keys.                                                                   *)

\* The active keys of a user are finite, and a part of them is no larger.
LEMMA KeysFinite ==
    ASSUME NEW u
    PROVE  /\ IsFiniteSet(ActiveKeys(u)) /\ Cardinality(ActiveKeys(u)) \in Nat
           /\ \A S : S \subseteq ActiveKeys(u) => Cardinality(S) <= Cardinality(ActiveKeys(u))
<1>1. IsFiniteSet(Keys)
  BY FS_Interval, BoundsAssumption DEF Keys
<1>2. IsFiniteSet(ActiveKeys(u))
  BY <1>1, FS_Subset DEF ActiveKeys
<1>3. QED
  BY <1>2, FS_Subset, FS_CardinalityType

\* InsertHasRoom of the next state, with the user of the request given a name.
LEMMA RoomByUser ==
    ASSUME \A c \in Clients : \A u : client'[c].pc = "insert" /\ client'[c].user = u =>
              userLock'[u] = c /\ Cardinality(ActiveKeys(u)') < MaxApiKeys
    PROVE  InsertHasRoom'
  BY DEF InsertHasRoom, ActiveKeys

\* A step that activates no key keeps KeyCap, if the requests it sends to
\* insert have the lock and the room.
LEMMA KeyCapFrame ==
    ASSUME Attributed, Attributed', KeyCap,
           \A k \in Keys : key'[k].state = "active" =>
              key[k].state = "active" /\ key'[k].user = key[k].user,
           \A c \in Clients : client'[c].pc = "insert" =>
              /\ userLock'[client'[c].user] = c
              /\ Cardinality(ActiveKeys(client'[c].user)) < MaxApiKeys
    PROVE  KeyCap'
<1>1. ASSUME NEW u \in Emails
      PROVE  /\ Cardinality(ActiveKeys(u)') \in Nat
             /\ Cardinality(ActiveKeys(u)') <= Cardinality(ActiveKeys(u))
             /\ Cardinality(ActiveKeys(u)) \in Nat
  <2>1. ActiveKeys(u)' \subseteq ActiveKeys(u)
    BY DEF ActiveKeys
  <2>2. IsFiniteSet(ActiveKeys(u)')
    BY <2>1, KeysFinite, FS_Subset
  <2>3. QED
    BY <2>1, <2>2, KeysFinite, FS_CardinalityType
<1>2. KeysWithinPlan'
  <2>1. ASSUME NEW u \in Emails
        PROVE  Cardinality(ActiveKeys(u)') <= MaxApiKeys
    <3>1. Cardinality(ActiveKeys(u)) <= MaxApiKeys
      BY DEF KeyCap, KeysWithinPlan
    <3>2. QED
      BY <1>1, <3>1, MaxApiKeysAssumption
  <2>2. QED
    BY <2>1 DEF KeysWithinPlan
<1>3. InsertHasRoom'
  <2>1. ASSUME NEW c \in Clients, NEW u, client'[c].pc = "insert", client'[c].user = u
        PROVE  userLock'[u] = c /\ Cardinality(ActiveKeys(u)') < MaxApiKeys
    <3>1. u \in Emails
      BY <2>1 DEF Attributed
    <3>2. userLock'[u] = c /\ Cardinality(ActiveKeys(u)) < MaxApiKeys
      BY <2>1
    <3>3. QED
      BY <1>1, <3>1, <3>2, MaxApiKeysAssumption
  <2>2. QED
    BY <2>1, RoomByUser
<1>4. QED
  BY <1>2, <1>3 DEF KeyCap

\* Releasing the locks of one request takes none from another.
LEMMA UnlockOthers ==
    ASSUME TypeOK, Attributed, KeyCap, NEW c \in Clients, Unlock(c), EndClient(c)
    PROVE  \A d \in Clients : client'[d].pc = "insert" =>
              /\ d # c /\ client'[d] = client[d]
              /\ userLock[client[d].user] = d
              /\ userLock'[client'[d].user] = d
              /\ Cardinality(ActiveKeys(client'[d].user)) < MaxApiKeys
<1>1. /\ client'[c].pc = "idle"
      /\ \A d \in Clients \ {c} : client'[d] = client[d]
  BY DEF EndClient, NoClient, TypeOK
<1>2. ASSUME NEW d \in Clients \ {c}, client[d].pc = "insert"
      PROVE  /\ userLock[client[d].user] = d
             /\ userLock'[client[d].user] = d
             /\ Cardinality(ActiveKeys(client[d].user)) < MaxApiKeys
  <2>1. client[d].user \in Emails
    BY <1>2 DEF Attributed
  <2>2. /\ userLock[client[d].user] = d
        /\ Cardinality(ActiveKeys(client[d].user)) < MaxApiKeys
    BY <1>2 DEF KeyCap, InsertHasRoom
  <2>3. QED
    BY <2>1, <2>2 DEF Unlock
<1>3. QED
  BY <1>1, <1>2

\* InsertKey: the key that is added still had room when it was counted,
\* because nobody else could insert for the same user since.
LEMMA InsertKeyCap ==
    ASSUME TypeOK, Attributed, KeyCap,
           NEW c \in Clients, NEW k \in Keys, NEW u, u = client[c].user, InsertKey(c, k)
    PROVE  KeyCap'
<1>1. /\ u \in Emails /\ userLock[u] = c
      /\ Cardinality(ActiveKeys(u)) < MaxApiKeys
  BY DEF InsertKey, Attributed, KeyCap, InsertHasRoom
<1>2. /\ key'[k].user = u /\ key'[k].state = "active"
      /\ \A i \in Keys \ {k} : key'[i] = key[i]
      /\ key[k].state = "none"
  BY DEF InsertKey, TypeOK, KeyRow
<1>3. ActiveKeys(u)' = ActiveKeys(u) \union {k} /\ k \notin ActiveKeys(u)
  BY <1>2 DEF ActiveKeys
<1>4. \A v : v # u => ActiveKeys(v)' = ActiveKeys(v)
  BY <1>2 DEF ActiveKeys
<1>5. KeysWithinPlan'
  <2>1. Cardinality(ActiveKeys(u)') = Cardinality(ActiveKeys(u)) + 1
    BY <1>3, KeysFinite, FS_AddElement
  <2>2. Cardinality(ActiveKeys(u)') <= MaxApiKeys
    BY <1>1, <2>1, KeysFinite, MaxApiKeysAssumption
  <2>3. \A v \in Emails : v # u => Cardinality(ActiveKeys(v)') <= MaxApiKeys
    BY <1>4 DEF KeyCap, KeysWithinPlan
  <2>4. \A v \in Emails : Cardinality(ActiveKeys(v)') <= MaxApiKeys
    BY <2>2, <2>3
  <2>5. QED
    BY <2>4 DEF KeysWithinPlan
<1>6. InsertHasRoom'
  <2>1. ASSUME NEW d \in Clients, NEW v, client'[d].pc = "insert", client'[d].user = v
        PROVE  userLock'[v] = d /\ Cardinality(ActiveKeys(v)') < MaxApiKeys
    <3>1. /\ d # c /\ userLock[v] = d /\ userLock'[v] = d
          /\ Cardinality(ActiveKeys(v)) < MaxApiKeys
      BY <2>1, UnlockOthers DEF InsertKey
    <3>2. v # u
      BY <1>1, <3>1
    <3>3. QED
      BY <1>4, <3>1, <3>2
  <2>2. QED
    BY <2>1, RoomByUser
<1>7. QED
  BY <1>5, <1>6 DEF KeyCap

\* Each step of a request with a credential keeps KeyCap.
LEMMA ClientStepKeyCap ==
    ASSUME TypeOK, Attributed, Attributed', KeyCap, NEW c \in Clients, ClientStep(c)
    PROVE  KeyCap'
<1>a. \A d \in Clients : client[d].pc = "insert" =>
         /\ userLock[client[d].user] = d
         /\ Cardinality(ActiveKeys(client[d].user)) < MaxApiKeys
  BY DEF KeyCap, InsertHasRoom
<1>1. CASE \E n \in Sessions : Authenticate(c, n)
  <2>1. \A d \in Clients : client'[d].pc = "insert" => client'[d] = client[d]
    BY <1>1 DEF Authenticate, Begin, TypeOK
  <2>2. QED
    BY <1>1, <1>a, <2>1, KeyCapFrame DEF Authenticate
<1>2. CASE \E k \in Keys : ReadForRevoke(c, k) \/ FindKey(c, k)
  <2>1. \A d \in Clients : client'[d].pc = "insert" => client'[d] = client[d]
    BY <1>2 DEF ReadForRevoke, FindKey, Begin, TypeOK
  <2>2. QED
    BY <1>2, <1>a, <2>1, KeyCapFrame DEF ReadForRevoke, FindKey
<1>3. CASE UseKey(c) \/ Logout(c)
  <2>1. \A d \in Clients : client'[d].pc = "insert" => client'[d] = client[d]
    BY <1>3 DEF UseKey, Logout, Goto, EndClient, NoClient, TypeOK, ClientState
  <2>2. QED
    BY <1>3, <1>a, <2>1, KeyCapFrame DEF UseKey, Logout
<1>4. CASE Revoke(c)
  <2>1. \A d \in Clients : client'[d].pc = "insert" => client'[d] = client[d]
    BY <1>4 DEF Revoke, EndClient, NoClient, TypeOK
  <2>2. \A k \in Keys : key'[k].state = "active" =>
           key[k].state = "active" /\ key'[k].user = key[k].user
    BY <1>4 DEF Revoke, TypeOK, KeyRow
  <2>3. QED
    BY <1>4, <1>a, <2>1, <2>2, KeyCapFrame DEF Revoke
<1>5. ASSUME CountKeys(c), NEW u, u = client[c].user
      PROVE  KeyCap'
  <2>1. u \in Emails /\ userLock[u] \in {NoOne, c} /\ key' = key
    BY <1>5 DEF CountKeys, Attributed
  <2>2. CASE Goto(c, "insert") /\ userLock' = [userLock EXCEPT ![u] = c]
             /\ Cardinality(ActiveKeys(u)) < MaxApiKeys
    <3>1. /\ client'[c].user = u
          /\ \A d \in Clients \ {c} : client'[d] = client[d]
      BY <1>5, <2>2 DEF Goto, TypeOK, ClientState
    <3>2. /\ userLock'[u] = c
          /\ \A v \in Emails \ {u} : userLock'[v] = userLock[v]
      BY <2>1, <2>2 DEF TypeOK
    <3>3. ASSUME NEW d \in Clients \ {c}, client[d].pc = "insert"
          PROVE  userLock'[client[d].user] = d
      <4>1. client[d].user \in Emails /\ userLock[client[d].user] = d
        BY <1>a, <3>3 DEF Attributed
      <4>2. client[d].user # u
        BY <2>1, <4>1, LockAssumption
      <4>3. QED
        BY <3>2, <4>1, <4>2
    <3>4. \A d \in Clients : client'[d].pc = "insert" =>
             /\ userLock'[client'[d].user] = d
             /\ Cardinality(ActiveKeys(client'[d].user)) < MaxApiKeys
      BY <1>a, <2>2, <3>1, <3>2, <3>3
    <3>5. QED
      BY <2>1, <3>4, KeyCapFrame
  <2>3. CASE EndClient(c) /\ UNCHANGED userLock
    <3>1. \A d \in Clients : client'[d].pc = "insert" => client'[d] = client[d]
      BY <2>3 DEF EndClient, NoClient, TypeOK
    <3>2. QED
      BY <1>a, <2>1, <2>3, <3>1, KeyCapFrame
  <2>4. QED
    BY <1>5, <2>2, <2>3 DEF CountKeys
<1>6. QED
  BY <1>1, <1>2, <1>3, <1>4, <1>5, InsertKeyCap DEF ClientStep

\* Every step keeps KeyCap.
LEMMA StepKeyCap ==
    ASSUME TypeOK, Attributed, Attributed', KeyCap, [Next]_vars
    PROVE  KeyCap'
<1>1. CASE UNCHANGED <<client, key, userLock>>
  BY <1>1 DEF KeyCap, InsertHasRoom, KeysWithinPlan, ActiveKeys
<1>2. ASSUME NEW l \in Logins, LoginStep(l)
      PROVE  UNCHANGED <<client, key, userLock>>
  BY <1>2 DEF LoginStep, Callback, FindIdentity, CheckEmail, FindPlan, SeedPlan,
              CreateAccount, OpenSession, KeepRest
<1>3. CASE Die
  <2>1. ASSUME NEW c \in Clients, EndClient(c), Unlock(c)
        PROVE  KeyCap'
    BY <1>3, <2>1, UnlockOthers, KeyCapFrame DEF Die
  <2>2. QED
    BY <1>1, <1>3, <2>1 DEF Die
<1>4. QED
  BY <1>1, <1>2, <1>3, ClientStepKeyCap DEF Next, SessionExpires, SetActive, vars

-----------------------------------------------------------------------------
(* The theorems.                                                           *)

LEMMA InitInvariant == Init => IInv
<1> SUFFICES ASSUME Init PROVE IInv
  OBVIOUS
<1>1. TypeOK
  BY DEF Init, TypeOK, SessionRow, KeyRow, LoginState, ClientState, NoSession, NoKey,
         NoLogin, NoClient
<1>2. Attributed /\ SignIn
  BY AccountsAssumption
     DEF Init, Attributed, SignIn, IdentitiesMatch, CallbacksOnCourse,
         SignInReachesOwnAccount, AccountsAreComplete, NoSession, NoKey, NoLogin, NoClient
<1>3. \A u : ActiveKeys(u) = {}
  BY DEF Init, ActiveKeys, NoKey
<1>4. KeyCap
  <2>1. InsertHasRoom
    BY DEF Init, InsertHasRoom, NoClient
  <2>2. Cardinality({}) <= MaxApiKeys
    BY FS_EmptySet, MaxApiKeysAssumption
  <2>3. KeysWithinPlan
    BY <1>3, <2>2 DEF KeysWithinPlan
  <2>4. QED
    BY <2>1, <2>3 DEF KeyCap
<1>5. QED
  BY <1>1, <1>2, <1>4 DEF IInv

\* The invariant is one of every behaviour.
LEMMA Invariance == Spec => []IInv
<1>1. IInv /\ [Next]_vars => IInv'
  BY StepType, StepSignIn, StepKeyCap DEF IInv
<1>2. QED
  BY InitInvariant, <1>1, PTL DEF Spec

\* No number of concurrent create_api_key requests, whatever is revoked
\* or dies in between, takes a user over the plan's number of keys.
THEOREM KeyCapSafe == Spec => []KeysWithinPlan
<1>1. IInv => KeysWithinPlan
  BY DEF IInv, KeyCap
<1>2. QED
  BY Invariance, <1>1, PTL

\* No order of concurrent OAuth callbacks opens a session in an account that
\* was created for another identity.
THEOREM SignInSafe == Spec => []SignInReachesOwnAccount
<1>1. IInv => SignInReachesOwnAccount
  BY DEF IInv, SignIn
<1>2. QED
  BY Invariance, <1>1, PTL

\* Every account on record has the identity it was created for, and a plan.
THEOREM CompleteAccounts == Spec => []AccountsAreComplete
<1>1. IInv => AccountsAreComplete
  BY DEF IInv, SignIn
<1>2. QED
  BY Invariance, <1>1, PTL

\* No step revives a revoked key or a revoked session.
LEMMA StaysRevoked ==
    ASSUME TypeOK, Next
    PROVE  /\ \A k \in Keys : key[k].state = "revoked" => key'[k].state = "revoked"
           /\ \A n \in Sessions : session[n].state = "revoked" => session'[n].state = "revoked"
<1>1. CASE UNCHANGED <<key, session>>
  BY <1>1
<1>2. ASSUME NEW l \in Logins, LoginStep(l)
      PROVE  /\ key' = key
             /\ \A n \in Sessions : session[n].state = "revoked" => session'[n].state = "revoked"
  <2>1. ASSUME NEW n \in Sessions, OpenSession(l, n)
        PROVE  /\ key' = key
               /\ \A m \in Sessions : session[m].state = "revoked" => session'[m] = session[m]
    BY <2>1 DEF OpenSession, TypeOK
  <2>2. QED
    BY <1>2, <2>1 DEF LoginStep, Callback, FindIdentity, CheckEmail, FindPlan, SeedPlan,
                      CreateAccount, KeepRest
<1>3. ASSUME NEW c \in Clients, ClientStep(c)
      PROVE  /\ \A k \in Keys : key[k].state = "revoked" => key'[k].state = "revoked"
             /\ \A n \in Sessions : session[n].state = "revoked" => session'[n].state = "revoked"
  <2>1. ASSUME NEW k \in Keys, InsertKey(c, k)
        PROVE  /\ session' = session
               /\ \A i \in Keys : key[i].state = "revoked" => key'[i] = key[i]
    BY <2>1 DEF InsertKey, TypeOK
  <2>2. CASE Revoke(c)
    BY <2>2 DEF Revoke, TypeOK, KeyRow
  <2>3. CASE Logout(c)
    BY <2>3 DEF Logout, TypeOK, SessionRow
  <2>4. CASE ~Revoke(c) /\ ~Logout(c) /\ ~\E k \in Keys : InsertKey(c, k)
    BY <1>3, <2>4 DEF ClientStep, Authenticate, ReadForRevoke, FindKey, CountKeys, UseKey
  <2>5. QED
    BY <2>1, <2>2, <2>3, <2>4
<1>4. ASSUME NEW n \in Sessions, SessionExpires(n)
      PROVE  /\ key' = key
             /\ \A m \in Sessions : session[m].state = "revoked" => session'[m] = session[m]
  BY <1>4 DEF SessionExpires, TypeOK
<1>5. QED
  BY <1>1, <1>2, <1>3, <1>4 DEF Next, SetActive, Die

\* A revoked key and a revoked session stay revoked in every behaviour: a request that
\* read the row before writes other columns of it, or writes the same again.
THEOREM RevocationFinal == Spec => RevocationIsFinal
<1>1. IInv /\ [Next]_vars =>
        [/\ \A k \in Keys : key[k].state = "revoked" => key'[k].state = "revoked"
         /\ \A n \in Sessions : session[n].state = "revoked" => session'[n].state = "revoked"]_vars
  BY StaysRevoked DEF IInv
<1>2. QED
  BY Invariance, <1>1, PTL DEF Spec, RevocationIsFinal

=============================================================================
