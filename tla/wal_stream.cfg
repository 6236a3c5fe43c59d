CONSTANTS
    s1 = s1
    s2 = s2
    e1 = e1
    e2 = e2
    Stream = {s1, s2}
    Entry = {e1, e2}
    OutCap = 1
    MaxLen = 2
SPECIFICATION FairSpec
INVARIANTS
    TypeOK
    SentInOrder
PROPERTIES
    EveryEntrySent
    StreamEnds
CHECK_DEADLOCK FALSE
