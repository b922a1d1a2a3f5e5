SPECIFICATION FairHandshake
CONSTANTS
    Faults <- AllFaults
    MaxQueue = 2
    AnyToken <- EveryToken
INVARIANTS
    HandshakeTypeOK
    WireOrder
    ReturnNeedsOrder
    ReturnWasSeen
PROPERTIES
    HandshakeEnds
