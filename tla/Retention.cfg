SPECIFICATION RetentionSpec
CONSTANTS
    u1 = u1
    w1 = w1
    w2 = w2
    r1 = r1
    k1 = k1
    k2 = k2
    NoOne = NoOne
    NoUser = NoUser
    Users <- OneUser
    Workers <- TwoWorkers
    Requests <- OneRequest
    Deleters <- Nobody
    Cleaners <- TwoCleaners
    BatchSize = 1
    MaxJobs = 2
    MaxAttempts = 1
    MaxConcurrent = 2
    MonthlyRequests = 2
    CandidateLimit = 2
    MaxFaults = 1
    LostAcks = TRUE
    Suspendable <- Nobody
    CreatedAt <- InOrder
SYMMETRY Symmetry
INVARIANTS
    OnlySettledJobsSwept
    SweptFailuresWereRefunded
    DeletionsAreReported
