CONSTANTS
    c1 = c1
    c2 = c2
    k1 = k1
    k2 = k2
    x1 = x1
    x2 = x2
    NoConn = NoConn
    NoKey = NoKey
    Client = {c1, c2}
    Key = {k1}
    Conn = {x1, x2}
    GameKeys <- MCAllKeys
    OutCap = 1
    InCap = 1
    NetCap = 1
    MaxSubmits = 2
    MaxFaults = 1
    AddMayFail = FALSE
SPECIFICATION MCSpec
SYMMETRY MCSymmetry
INVARIANTS
    NoLostEntry
PROPERTIES
    ImplementsSharedLog
