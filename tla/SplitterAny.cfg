SPECIFICATION FairSpec
CONSTANTS
    a = a
    b = b
    Children = {a, b}
    Requests <- AllCallers
    InitialLimit <- Share
    Limits <- SomeLimits
    DeviceLimit <- SourceLimit
    get_delay <- NoDelay
    Staleness = 2
    MaxTime = 4
    MaxCalls = 3
INVARIANTS BooksInOrder PlanIsLastWish SourceServes
PROPERTIES ComesToRest
CHECK_DEADLOCK FALSE
