SPECIFICATION FairSpec
CONSTANTS
    u1 = u1
    u2 = u2
    c1 = c1
    c2 = c2
    c3 = c3
    NoOne = NoOne
    Users <- OneUser
    Clients <- TwoClients
    Sizes = {1, 2, 4}
    MonthlyRequests = 2
    MonthlyInteractions = 3
    MaxInteractionsPerRequest = 2
    MaxMonths = 1
    MaxRequests = 2
    MaxSettlers = 2
    MaxCrashes = 1
INVARIANTS
    TypeOK
    WithinMonthlyPlan
    CountersAreExact
    TrailIsHonest
PROPERTIES
    ReservationsAreSettled
    ImplementsAccount
