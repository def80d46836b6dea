SPECIFICATION Spec
CONSTANTS
    n1 = n1
    n2 = n2
    c1 = c1
    c2 = c2
    Nodes = {n1, n2}
    Clients = {c1, c2}
    Link <- Chain
    Target <- Ends
    Staleness <- Lazy
    Misnamed = {c2}
    MayHang = {c2}
    MaxClock = 3
    MaxCalls = 2
    MaxFaults = 1
INVARIANTS AnswersTrue FreshEnough
PROPERTIES CallsReturn
CHECK_DEADLOCK FALSE
