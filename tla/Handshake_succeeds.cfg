SPECIFICATION LiveHandshake
CONSTANTS
    Faults <- DupFaults
    MaxQueue = 3
    AnyToken <- OneToken
PROPERTIES
    HandshakeSucceeds
CHECK_DEADLOCK FALSE
