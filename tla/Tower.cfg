SPECIFICATION Spec
CONSTANTS
    Parts = 10
    DeviceStatuses <- TwoDevices
    Scales <- SixFour
    Targets <- SomeTargets
    Staleness = 1
    MaxHours = 1
    MaxChanges = 1
    MaxCalls = 2
INVARIANTS WithinBounds FairlyShared SharesFit
PROPERTIES RefusedForAReason
