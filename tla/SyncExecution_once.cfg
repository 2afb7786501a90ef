SPECIFICATION SyncSpec
CONSTANTS
    u1 = u1
    u2 = u2
    w1 = w1
    k1 = k1
    k2 = k2
    d1 = d1
    NoOne = NoOne
    NoUser = NoUser
    Users <- OneUser
    Workers <- OneWorker
    Callers <- OneCaller
    Requests <- Nobody
    Deleters <- Nobody
    MaxJobs = 1
    MaxAttempts = 2
    MaxConcurrent = 1
    MonthlyRequests = 2
    CandidateLimit = 2
    MaxFaults = 0
    LostAcks = FALSE
    Suspendable <- Nobody
    CreatedAt <- InOrder
INVARIANTS
    OneEngineAtATime
