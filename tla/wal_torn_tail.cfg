CONSTANTS
    e1 = e1
    e2 = e2
    e3 = e3
    Entry = {e1, e2, e3}
    NoEntry = NoEntry
    CrashKinds = {"power"}
    MaxFaults = 3
SPECIFICATION Spec
SYMMETRY MCSymmetry
INVARIANTS
    ReadableAfterOpen
