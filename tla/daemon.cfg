CONSTANTS
    c1 = c1
    c2 = c2
    d1 = d1
    d2 = d2
    t1 = t1
    None = None
    Stale = Stale
    Client = {c1, c2}
    Process = {d1, d2}
    Tracker = {t1}
    MaxKills = 1
SPECIFICATION FairSpec
INVARIANTS
    TypeOK
    SafeChannels
PROPERTIES
    TrackersReleased
    DaemonsEnd
