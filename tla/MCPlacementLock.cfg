CONSTANTS
    r1 = r1
    r2 = r2
    r3 = r3
    Requests = {r1, r2, r3}
    PutTimeout = 2
    DeleteTimeout = 1
    QueryTimeout = 1
    WriteTimeout = 1
    Skew = 1
    Lease = 7
    MaxClock = 12
SPECIFICATION LockSpec
SYMMETRY RequestSymmetry
INVARIANTS MutualExclusion
CHECK_DEADLOCK FALSE
