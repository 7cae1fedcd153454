SPECIFICATION Spec
CONSTANTS
    a = a
    b = b
    c = c
    z1 = z1
    z2 = z2
    z3 = z3
    Members <- MCMembers
    Zones <- MCZones
    Zonings <- MCZonings
    Flags <- MCFlags
    Batches <- MCBatches
    Capacity <- MCCapacity
    Deniable <- MCDeniable
    MaxCalls = 2
    MaxTroubles = 1
CONSTRAINT MCBound
SYMMETRY MCSymmetry
INVARIANTS
    DomainIsSatisfiable
    
