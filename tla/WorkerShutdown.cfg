SPECIFICATION BacklogSpec
CONSTANTS
    u1 = u1
    u2 = u2
    w1 = w1
    w2 = w2
    NoOne = NoOne
    NoUser = NoUser
    Users <- TwoUsers
    Workers <- TwoWorkers
    Hosted <- FirstWorker
    Requests <- Nobody
    Deleters <- Nobody
    MaxJobs = 2
    MaxAttempts = 2
    MaxConcurrent = 1
    MonthlyRequests = 1
    CandidateLimit = 1
    MaxFaults = 0
    LostAcks = FALSE
    Suspendable <- SecondUser
    CreatedAt <- InOrder
INVARIANTS
    EndsWithNothingLeft
PROPERTIES
    JobsSettle
