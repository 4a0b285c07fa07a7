SPECIFICATION Spec
CONSTANTS
    a = a
    b = b
    c = c
    Nodes <- MCNodes
    Links <- MCLinks
    Dist <- MCDist
    MaxAge = 3
    MaxCost = 4
    MaxDisturbances = 3
INVARIANTS
    DirectPeersRouteDirectly
CHECK_DEADLOCK FALSE
