SPECIFICATION ReassemblySpec
CONSTANTS
    Kinds <- FrameKinds
    BodyLength <- Lengths
    Mtu = 20
    Lookalikes <- AbChallenge
    BogusLength = 30
    MaxFrames = 5
    MaxLosses = 2
INVARIANTS
    ReassemblyTypeOK
    NothingIgnored
    ResyncsSoon
PROPERTIES
    ChannelKept
CHECK_DEADLOCK FALSE
