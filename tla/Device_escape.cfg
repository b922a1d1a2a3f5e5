SPECIFICATION DeviceSpec
CONSTANTS
    Faults <- OnlyGarbled
    MaxQueue = 1
    AnyToken <- OneToken
    Attempts = 4
INVARIANTS
    AlwaysWyzeLockError
