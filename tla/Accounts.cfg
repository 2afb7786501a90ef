SPECIFICATION Spec
CONSTANTS
    e1 = e1
    e2 = e2
    s1 = s1
    s2 = s2
    l1 = l1
    l2 = l2
    c1 = c1
    c2 = c2
    NoAccount = NoAccount
    NoSubject = NoSubject
    NoOne = NoOne
    Emails <- TwoEmails
    Subjects <- TwoSubjects
    Logins <- TwoLogins
    Clients <- TwoClients
    MaxApiKeys = 1
    MaxKeys = 3
    MaxSessions = 1
    MaxFaults = 1
SYMMETRY Symmetry
INVARIANTS
    KeysWithinPlan
    SignInReachesOwnAccount
    AccountsAreComplete
PROPERTIES
    RevocationIsFinal
