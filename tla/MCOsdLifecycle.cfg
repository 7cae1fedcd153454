SPECIFICATION FairSpec
CONSTANTS
    sda = sda
    Disks = {sda}
    MaxOsds = 2
    PurgeRetries = 2
    MaxTroubles = 1
INVARIANTS
    RowIsLast
PROPERTIES
    PurgedIsStopped
    RemovalCompletes
CHECK_DEADLOCK FALSE
