SPECIFICATION Spec
CONSTANTS
    Members = {m1, m2, m3}
    Zones = {"z"}
    Auto <- MCAuto
    Wanted = 2
    MinMon = 2
    Starts <- MCStarts
    MaxCalls = 2
    MaxRuns = 2
    MaxTroubles = 1
SYMMETRY MCSymmetry
INVARIANTS
    ZonesAreUniform
    TeardownReachesMon
    RemovedIsForgotten
PROPERTIES
    EnoughRemain
CHECK_DEADLOCK FALSE
