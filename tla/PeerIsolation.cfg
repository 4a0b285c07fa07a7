SPECIFICATION Spec
CONSTANTS
    a = a
    b = b
    c1 = c1
    c2 = c2
    l1 = l1
    l2 = l2
    None = None
    NodeIDs <- MCNodeIDs
    Conns <- MCConns
    Loops <- MCLoops
    Targets <- MCTargets
    MaxAttempts = 0
    MaxRound = 1
    HasTimeout = FALSE
INVARIANTS
    IsolatedNodeReconnects
CHECK_DEADLOCK FALSE
