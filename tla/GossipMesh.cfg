SPECIFICATION FairSpec
CONSTANTS
    a = a
    b = b
    c = c
    Nodes <- MCNodes
    Links <- MCLinks
    Dist <- MCDist
    MaxAge = 3
    MaxCost = 4
    MaxDisturbances = 4
INVARIANTS
    CostsNeverTooLow
PROPERTIES
    CapabilitiesSpread
    CutOffNodeForgets
CHECK_DEADLOCK FALSE
