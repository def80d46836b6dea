SPECIFICATION Spec
CONSTANTS
    Parents <- TwoDevices
    Children = {"bat2", "bat3"}
    Proportion <- Halves
    Statuses <- Levels
    Currents <- ChargeAndDischarge
    MaxChanges = 1
    MaxRequests = 2
INVARIANT SourceOperatesOnSum
CHECK_DEADLOCK FALSE
