CONSTANTS
    SeqLimit = 2
    Batch = 1
    InCap = 1
    OutCap = 1
    MaxWal = 2
    MaxSessions = 2
SPECIFICATION MCFairSpec
INVARIANTS
    TypeOK
    InStep
PROPERTIES
    EventsInOrder
    SessionEnds
    GameCatchesUp
