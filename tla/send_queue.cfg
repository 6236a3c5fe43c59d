CONSTANTS
    i1 = i1
    i2 = i2
    i3 = i3
    Id = {i1, i2, i3}
    NoId = NoId
    FailKinds = {"write", "sync", "truncate"}
    CrashKinds = {"power", "process"}
    MaxRecords = 3
    MaxFaults = 3
SPECIFICATION Spec
SYMMETRY MCSymmetry
INVARIANTS
    TypeOK
    OwedDurable
    OwedKept
    OnlyCutsRefused
