SPECIFICATION OpsSpec
CONSTANTS
    Hosts = {h1, h2}
    Clusters = {"A", "B"}
    Versions = {"v0", "v1"}
    MaxNfsRuns = 3
    MaxNfsTroubles = 1
    CcHosts = {a1, a2}
    CcKeys = {"size"}
    CcValues = {small, large}
    MaxCcRuns = 3
    MaxCcTroubles = 1
    Nodes = {n1, n2, n3}
    Tolerated = 1
    MaxMtRuns = 2
    MaxMtTroubles = 1
    MaxRecursionDepth = 2
    Disks <- MCDisks
    MinOSDSize = 1
    Tokens <- MCTokens
    MaxTokens = 5
    Alphabet <- Chars
    MaxText = 4
    Operands <- MCOperands
    Operators <- KnownFunctions
SYMMETRY MCSymmetry
INVARIANTS
    RecordedIsComplete 
    RowsMeanWhatWasAsked EndedIsRendered
    ParseInvertsWriting LexerAdvances SelectionIsLogical
PROPERTIES CheckedStopIsSafe 
CHECK_DEADLOCK FALSE
