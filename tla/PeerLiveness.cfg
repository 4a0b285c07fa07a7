SPECIFICATION FairSpec
CONSTANTS
    a = a
    b = b
    c1 = c1
    c2 = c2
    l1 = l1
    l2 = l2
    None = None
    NodeIDs <- MCReachable
    Conns <- MCConns
    Loops <- MCLoops
    Targets <- MCNodeIDs
    MaxAttempts = 2
    MaxRound = 2
    HasTimeout = FALSE
PROPERTIES
    BrokenPeerIsReported
    DeadPeerLeavesTable
    ReconnectLoopEnds
CHECK_DEADLOCK FALSE
