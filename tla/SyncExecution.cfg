SPECIFICATION SyncSpec
CONSTANTS
    u1 = u1
    u2 = u2
    w1 = w1
    k1 = k1
    k2 = k2
    d1 = d1
    NoOne = NoOne
    NoUser = NoUser
    Users <- TwoUsers
    Workers <- OneWorker
    Callers <- TwoCallers
    Requests <- Nobody
    Deleters <- OneDeleter
    MaxJobs = 1
    MaxAttempts = 2
    MaxConcurrent = 2
    MonthlyRequests = 1
    CandidateLimit = 2
    MaxFaults = 1
    LostAcks = TRUE
    Suspendable <- Nobody
    CreatedAt <- InOrder
SYMMETRY Symmetry
INVARIANTS
    LimiterIsExact
    SyncOutcomesBalance
