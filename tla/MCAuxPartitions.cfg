SPECIFICATION FairSpec
CONSTANTS
    Osds <- MCOsds
    Carriers <- MCCarriers
    Slots <- MCSlots
    Size <- MCSize
    Requests <- MCRequests
    Starts <- MCStarts
    MaxTroubles = 2
INVARIANTS
    NothingIsForgotten
PROPERTIES
    OthersAreKept
    RepeatedRemovalEnds
