SPECIFICATION Spec
CONSTANTS
    a1 = a1
    a2 = a2
    c1 = c1
    c2 = c2
    Modes = {"Fifo", "Network"}
    Clients = {a1, a2, c1}
    Target <- AimSame
    Creations <- AllKinds
    ManagerNames <- PManagers
    BatteryCmds = {"Get_Status", "Set_Status"}
    Discipline = {"fresh"}
    MaxSends = 4
    MaxStarts = 2
INVARIANTS Listening AnswersOwed
CHECK_DEADLOCK FALSE
