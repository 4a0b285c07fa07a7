SPECIFICATION ServicesSpec
CONSTANTS
    Focuses = {"writer", "requests", "deploy", "threads", "mounts"}
    Senders = {"s1", "s2"}
    NumChunks = 3
    QueueSize = 2
    MaxFrames = 2
    MCPCalls = {"r1"}
    ToolNodes = {"n1", "n2"}
    ToolNames = {"t", "l"}
    Holders <- MCHolders
    Params <- MCParams
    Inputs <- MCInputs
    PatternNodes <- MCPatternNodes
    BadPatterns = {"[bad"}
    CacheTTL = 1
    MaxClock = 1
    MaxUpsets = 2
    Scenarios = {"operator", "gateway", "both"}
    OwnVersion = 2
    UploadChunks = 1
    MaxCrashes <- MCMaxCrashes
    MaxUploads <- MCMaxUploads
    MaxUploadFaults <- MCMaxUploadFaults
    MaxCommands <- MCMaxCommands
    Threads <- MCThreads
    Workers = {"w1", "w2"}
    ChanCap = 1
    MaxExamples = 1
    Mounts <- MCMounts
    MaxThreadExits = 1
INVARIANTS
    NoSendOnClosedChannel
    BootstrapInOrder
    InstallsAreSound
    ScansAreComplete
PROPERTIES
    BootstrapDelivered
    EveryBootstrapEnds
    WriterStops
    CallsAreAnswered
    InstallTakesEffect
    ThreadScanReturns
CHECK_DEADLOCK FALSE
