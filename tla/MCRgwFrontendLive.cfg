SPECIFICATION FairSpec
CONSTANTS
    p1 = p1
    p2 = p2
    Ports = {port1}
    Pairs = {p1}
    Legacy = Legacy
    LegacyPair = p1
    Reuse = Reuse
    None = None
    Ops = {"enable"}
    MaxMonitors = 2
    MaxFaults = 2
    MaxCrashes = 1
    MaxTroubles = 2
PROPERTIES
    MonHostIsKept
    RetrySucceeds
