SPECIFICATION FairFromLocked
CONSTANTS
    Commands <- OneCommand
    NoSample = NoSample
    NoData = NoData
    Attempts = 2
    MaxMoves = 2
    Others = TRUE
    Levels = {"0"}
    Doors = {1, 2}
INVARIANTS
    CoordinatorTypeOK
    ExtrasFromLastPoll
PROPERTIES
    NeverOlder
    CatchesUp
