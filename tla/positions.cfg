CONSTANTS
    p1 = p1
    p2 = p2
    p3 = p3
    p4 = p4
    NoPlayer = NoPlayer
    NoPos = NoPos
    Player = {p1, p2, p3, p4}
    Pos = {"here"}
    IdLimit = 4
    TTL = 3
    MaxPlayers = 3
SPECIFICATION FairSpec
INVARIANTS
    TypeOK
    UniqueLocalIds
PROPERTIES
    Handover
    Forgotten
