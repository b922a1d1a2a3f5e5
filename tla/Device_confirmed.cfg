SPECIFICATION DeviceSpec
CONSTANTS
    Faults <- OnlyForeign
    MaxQueue = 2
    AnyToken <- OneToken
    Attempts = 4
INVARIANTS
    ConfirmedNewState
