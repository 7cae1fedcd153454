SPECIFICATION FairSpec
CONSTANTS
    a = a
    b = b
    Members <- MCBoth
    Flags = {TRUE, FALSE}
    MaxTries = 2
INVARIANTS
    OneClusterRuns
PROPERTIES
    ConfConverges
    ResultIsRecorded
