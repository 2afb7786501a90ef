SPECIFICATION Spec
CONSTANTS
    u1 = u1
    u2 = u2
    w1 = w1
    w2 = w2
    r1 = r1
    d1 = d1
    NoOne = NoOne
    NoUser = NoUser
    Users <- OneUser
    Workers <- TwoWorkers
    Requests <- OneRequest
    Deleters <- OneDeleter
    MaxJobs = 2
    MaxAttempts = 2
    MaxConcurrent = 1
    MonthlyRequests = 2
    CandidateLimit = 2
    MaxFaults = 1
    LostAcks = TRUE
    Suspendable <- OneUser
    CreatedAt <- Reversed
SYMMETRY Symmetry
INVARIANTS
    TypeOK
    FailuresAreRefunded
    RunningWithinPlan
