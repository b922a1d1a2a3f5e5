SPECIFICATION ToolsSpec
CONSTANTS
    Traffic <- Exchange
    AclSize = 27
    SnapLens <- Snaps
    MaxPdus = 2
    Meaning <- FrameMeaning
    HandleDumps <- Handles
    Uuids <- ValueHandles
    Table <- Characteristics
    Says <- Sayings
    Reads <- Readings
    NUS = "nus"
    PartLen = 20
    MaxSays = 3
    Parsed <- ParseL1
    EntryOf <- Entry
    Nonce <- NonceOf
    Trees <- Documents
    Locks <- TwoLocks
    Infos <- Details2
    Suspicious <- SuspiciousNames
    Credentials <- CredentialNames
    Sessions <- SessionValues
    Blobs <- BlobValues
INVARIANTS
    MessagesAsSent
    DescribedAsSent
    CrcIsRemainder
    ProbeReleases
    DumpIsComplete
    EarlyIsRight
    FramesAsSaid
    DumpIsRedacted
    TokensUsable
PROPERTIES
    ProbeEnds
    ListedIsDumped
CHECK_DEADLOCK FALSE
