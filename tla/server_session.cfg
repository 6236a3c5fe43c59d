CONSTANTS
    x1 = x1
    x2 = x2
    g1 = g1
    g2 = g2
    p1 = p1
    p2 = p2
    NoHandle = NoHandle
    NoHello = NoHello
    Conn = {x1, x2}
    SessionID = {"s"}
    Secret = {p1, p2}
    Handle = {g1, g2}
    InCap = 1
    OutCap = 1
SPECIFICATION MCFairSpec
INVARIANTS
    TypeOK
    OneLogPerSession
    LogOpenInUse
    HelloFirst
    Exact
PROPERTIES
    PlayerLeaves
    ServerStops
