SPECIFICATION FairSpec
CONSTANTS
    a1 = a1
    a2 = a2
    c1 = c1
    c2 = c2
    Modes = {"Fifo", "Network"}
    Clients = {a1, c1, c2}
    Target <- Aim
    Creations <- Jointly
    ManagerNames <- PManagers
    BatteryCmds = {"Get_Status", "Set_Status", "Schedule_Set_Current"}
    Discipline = {"stay", "alone", "fresh", "last"}
    MaxSends = 8
    MaxStarts = 1
INVARIANTS StaysUp
PROPERTIES EveryCommandAnswered ShutdownStops
CHECK_DEADLOCK FALSE
