CONSTANTS
    r1 = r1
    r2 = r2
    a = a
    b = b
    ghost = ghost
    Requests = {r1, r2}
    PutTimeout = 0
    DeleteTimeout = 0
    QueryTimeout = 0
    WriteTimeout = 0
    Skew = 0
    Lease = 0
    MaxClock = 2
    Members = {a, b}
    Services = {"mon", "mgr"}
    Before <- MCBefore
    Policies <- MCPolicies
    NoPolicy = NoPolicy
    NoRequest = NoRequest
    MaxDeaths = 1
    MaxOrphans = 1
    MaxManual = 1
    MaxLost = 1
    MaxTroubles = 1
SPECIFICATION Spec
INVARIANTS KeepOne GapIsExplained
PROPERTIES RgwAddBeforeRemove IntentImplemented
SYMMETRY RequestSymmetry
CHECK_DEADLOCK FALSE
