SPECIFICATION TelemetrySpec
CONSTANTS
    u1 = u1
    w1 = w1
    r1 = r1
    NoOne = NoOne
    NoUser = NoUser
    Users <- OneUser
    Workers <- OneWorker
    Requests <- OneRequest
    Deleters <- Nobody
    MaxJobs = 3
    MaxAttempts = 2
    MaxConcurrent = 1
    MonthlyRequests = 3
    CandidateLimit = 3
    MaxFaults = 2
    LostAcks = FALSE
    Suspendable <- Nobody
    CreatedAt <- FirstTwoSwapped
INVARIANTS
    RefundMatchesOutcome
    QuotaAccounted
    AttemptsCountRuns
    TelemetryIsHonest
PROPERTIES
    ClaimsOnlyEligible
    OldestFirst
    FollowsLifecycle
