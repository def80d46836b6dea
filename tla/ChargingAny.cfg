SPECIFICATION FairSpec
CONSTANTS
    MaxCapacity = 5
    Initial = 2
    Currents <- BothWays
    Limits <- Shrinking
    MaxCalls = 4
INVARIANTS ThreadHeld StopsSoon CapacityKept
PROPERTIES JoinsReturn
CHECK_DEADLOCK FALSE
