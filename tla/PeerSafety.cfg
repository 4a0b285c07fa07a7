SPECIFICATION Spec
CONSTANTS
    a = a
    b = b
    c1 = c1
    c2 = c2
    l1 = l1
    l2 = l2
    None = None
    NodeIDs <- MCNodeIDs
    Conns <- MCConns
    Loops <- MCLoops
    Targets <- MCTargets
    MaxAttempts = 2
    MaxRound = 2
    HasTimeout = TRUE
INVARIANTS
    NoDeadPeerRegistered
    NoMissedIsolation
    AtMostOneLoop
SYMMETRY Symmetry
CHECK_DEADLOCK FALSE
