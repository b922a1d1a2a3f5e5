SPECIFICATION FairDevice
CONSTANTS
    Faults <- AllFaults
    MaxQueue = 1
    AnyToken <- EveryToken
    Attempts = 4
INVARIANTS
    DeviceTypeOK
    LinkReleased
    OneOrderPerAttempt
PROPERTIES
    PromiseKept
    CallEnds
