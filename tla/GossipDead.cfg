SPECIFICATION FairSpec
CONSTANTS
    a = a
    b = b
    c = c
    Nodes <- MCNodes
    Links <- MCLinks
    Dist <- MCDist
    MaxAge = 3
    MaxCost = 4
    MaxDisturbances = 3
PROPERTIES
    DeadNodeForgotten
CHECK_DEADLOCK FALSE
