SPECIFICATION RepSpec
CONSTANTS
    RbSlots = {a1, a2}
    RbImages = {i1}
    RbRemotes <- MCRemotes
    LocalTries = 4
    RemoteTries = 10
    MaxRbRuns = 2
    MaxRbTroubles = 1
    CfSlots = {a1, a2}
    CfPaths = {p1, p2}
    CfRemotes = {east, west}
    Namesakes = {west}
    Volume = Volume
    MaxCfRuns = 4
    MaxCfTroubles = 1
    RmHosts = {p1, p2, h3}
    RmSlots = {a1, a2}
    RmNames = {"east"}
    MaxRmRuns = 3
    MaxRmTroubles = 2
SYMMETRY MCSymmetry
INVARIANTS
    RetriesOutlastPings OkIsDone
     RepeatedEnableSucceeds
    
PROPERTIES KeyGoesLast
CHECK_DEADLOCK FALSE
