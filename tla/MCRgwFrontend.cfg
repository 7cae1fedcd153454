SPECIFICATION Spec
CONSTANTS
    p1 = p1
    p2 = p2
    Ports = {port1}
    Pairs = {p1, p2}
    Legacy = Legacy
    LegacyPair = p1
    Reuse = Reuse
    None = None
    Ops = {"enable", "certs", "deferred", "disable"}
    MaxMonitors = 1
    MaxFaults = 2
    MaxCrashes = 1
    MaxTroubles = 2
INVARIANTS
    LastGoodIsKept
    SettledIsServed
