SPECIFICATION Spec
CONSTANTS
    own = own
    child = child
    Own = own
    Kind = "manager"
    Mode = "ACTIVE"
    Requests <- AnyWindows
    Limits <- WideLimit
    Names = {own, child}
    Modes = {"LAZY", "ACTIVE"}
    Stalenesses = {2, 3}
    Discipline = {}
    MaxTime = 4
    MaxCalls = 3
INVARIANTS
    SetMatchesMap
    RefreshKeepsComing
CHECK_DEADLOCK FALSE
