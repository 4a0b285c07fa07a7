SPECIFICATION CallsSpec
CONSTANTS
    Focuses = {"sonar", "relay"}
    z = z
    a = a
    b = b
    c = c
    d = d
    q1 = q1
    q2 = q2
    x = x
    NoCall = NoCall
    SonarNodes <- SonarGraph
    SonarLinks <- TriangleLinks
    Queries = {q1}
    Callers = {a, c}
    Capabilities = {x}
    Holders <- MCHolders
    ReturnHop <- TriangleHop
    MaxHops = 2
    BufferSize = 2
    MaxDrops = 1
    None = None
    Nodes <- MCNodes
    Links <- MCLinks
    NextHop <- MCNextHop
    Calls = {q1, q2}
    Caller <- MCCaller
    Target <- MCTarget
    MaxCircuits = 3
    MaxFaults = 1
INVARIANTS
    AnswersAreTrue
    NoDuplicateAnswers
    NoUnknownCircuit
    BytesReachTheirTarget
PROPERTIES
    FloodEnds
    QueryFindsHolders
    CallsGetThrough
    AbandonedStreamsClose
CHECK_DEADLOCK FALSE
