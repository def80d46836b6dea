SPECIFICATION FairSpec
CONSTANTS
    own = own
    child = child
    Own = own
    Kind = "partition"
    Mode = "ACTIVE"
    Requests <- OwnWindows
    Limits <- TightLimit
    Names = {own}
    Modes = {}
    Stalenesses = {3}
    Discipline = {"ahead", "touching", "settled"}
    MaxTime = 6
    MaxCalls = 3
INVARIANTS TypeOK CountedOnce DeviceFollows PlanIsLastWish
PROPERTIES KeepsPromise EveryRequestEnds
