SPECIFICATION DeviceSpec
CONSTANTS
    Faults <- FaithfulBolt
    MaxQueue = 2
    AnyToken <- EveryToken
    Attempts = 4
INVARIANTS
    SetReturnsTarget
    ExtrasAreBestEffort
