SPECIFICATION Spec
CONSTANTS
    pManager1 = pManager1
    pManager2 = pManager2
    Names = {a, b, c, d}
    ManagerNames <- TwoManagers
    MaxParents = 2
    MaxParts = 2
    MaxMade = 7
    Careful = {"distinct parents", "new names", "no manager names", "none after the end"}
SYMMETRY AnyUserName
INVARIANTS TopologyAgrees FamiliesWhole
PROPERTIES RemovesAllBelow
CHECK_DEADLOCK FALSE
