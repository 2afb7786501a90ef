SPECIFICATION Scenes
CONSTANTS
    u1 = u1
    u2 = u2
    q1 = q1
    q2 = q2
    g1 = g1
    g2 = g2
    j1 = j1
    p1 = p1
    p2 = p2
    w1 = w1
    w2 = w2
    r1 = r1
    NoId = NoId
    Nobody = Nobody
    Users <- TwoUsers
    Limit = 2
    WindowSeconds = 2
    TicksPerSecond = 2
    SweepEvery = 3
    MaxTime = 6
    MaxBack = 2
    Requests <- TwoArrivals
    Readers <- TwoReaders
    Jobs <- OneJob
    TTL = 2
    DepthLimit = 3
    AgeLimit = 1
    MaxClock = 5
    UserRows <- TwoOwners
    JobRows <- TwoJobs
    Owner <- OwnerOf
    Workers <- TwoWorkers
    Handlers <- OneHandler
    MaxBegins = 1
    Ids <- ThreeIds
    PageSize = 1
    Wanted <- OnlyRunning
    MaxMoment = 2
SYMMETRY Symmetry
INVARIANTS
    WindowNeverExceeded
    RetryAfterIsEnough
    LockoutIsBounded
    SummaryIsConsistent
    HandledAnswersAreCounted
    AnswersNameTheirRequest
    AnswersAreRecent
    NoLiveJobIsMissed
    BacklogRaisesAlarm
    EachChangeHidesOneJob
    OnlyArrivalsRepeat
    OnlyScansDeadlock
    NoLockIsLeftBehind
