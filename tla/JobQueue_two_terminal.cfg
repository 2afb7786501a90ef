SPECIFICATION FairSpec
CONSTANTS
    u1 = u1
    u2 = u2
    w1 = w1
    w2 = w2
    r1 = r1
    d1 = d1
    NoOne = NoOne
    NoUser = NoUser
    Users <- OneUser
    Workers <- TwoWorkers
    Requests <- OneRequest
    Deleters <- Nobody
    MaxJobs = 2
    MaxAttempts = 2
    MaxConcurrent = 2
    MonthlyRequests = 2
    CandidateLimit = 2
    MaxFaults = 0
    LostAcks = FALSE
    Suspendable <- Nobody
    CreatedAt <- InOrder
PROPERTIES
    TerminalIsFinal
