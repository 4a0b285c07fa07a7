SPECIFICATION CallsSpec
CONSTANTS
    Focuses = {"relay"}
    z = z
    a = a
    b = b
    c = c
    d = d
    q1 = q1
    q2 = q2
    x = x
    NoCall = NoCall
    SonarNodes <- SonarGraph
    SonarLinks <- TriangleLinks
    Queries = {q1}
    Callers = {a, c}
    Capabilities = {x}
    Holders <- MCHolders
    ReturnHop <- TriangleHop
    MaxHops = 2
    BufferSize = 2
    MaxDrops = 1
    None = None
    Nodes <- CrossNodes
    Links <- CrossLinks
    NextHop <- CrossNextHop
    Calls = {q1, q2}
    Caller <- CrossCaller
    Target <- CrossTarget
    MaxCircuits = 4
    MaxFaults = 0
PROPERTIES
    ControlLoopReturns
CHECK_DEADLOCK FALSE
