SPECIFICATION ToolsSpec
CONSTANTS
    Focuses = {"requests", "ranges", "nodesets", "streams", "overview", "catalogue",
               "counters", "processes", "oom", "dumps", "storage", "audit", "shm", "clock",
               "pressure", "bond", "pci", "temperatures", "ports", "conntrack", "cpus", "disks", "holders"}
    MCPCalls = {"r1", "r2"}
    ToolNodes = {"n1", "n2"}
    ToolNames = {"t", "l"}
    Holders <- MCHolders
    Params <- MCParams
    Inputs <- MCInputs
    PatternNodes <- MCPatternNodes
    BadPatterns = {"[bad"}
    CacheTTL = 1
    MaxClock = 1
    MaxUpsets = 1
    MaxInt = 5
    Exprs <- MCExprs
    Hosts <- MCHosts
    Groups <- MCGroups
    MaxExpand = 7
    Keys = {"a", "b", "c"}
    Values = {1, 2, 3}
    TopKSize = 2
    StreamCap = 2
    ThrA = 3
    ThrB = 2
    MaxPush = 5
    OverviewNodes = {1, 2, 3}
    LinkImpedances = {1, 2}
    RolesOf <- MCRolesOf
    MaxLinkChanges = 1
    Plugins <- MCPlugins
    MeshOnly <- MCMeshOnly
    Categories <- MCCategories
    CatNodes = {"n1"}
    Features = {"client", "oss"}
    MaxGossips = 3
    Devices = {"lo", "e"}
    VirtualDevices = {"lo"}
    CounterSpan = 4
    LinkSpeed = 2
    MaxDelay = 1
    MaxDeviceEvents = 3
    PIDs = {1, 2, 3}
    TickSpan = 8
    ListLimits = {0, 1}
    MaxProcEvents = 3
    VictimPIDs = {1, 2}
    RingLines = 3
    SelRecords = 4
    MaxItemised = 1
    LastNs <- MCLastNs
    DefaultN = 2
    MaxN = 3
    UsecPerSec = 10
    UsecFrom = 100
    ClockStart = 20
    MaxLogEvents = 4
    RaidDevs = {"a", "b", "c"}
    Paths = {"p", "q"}
    Disks = {"d"}
    MaxBroken = 2
    MaxStorageEvents = 4
    AuditPIDs = {1, 2, 3}
    Cgroups = {"root", "slurm", "job"}
    CgParent <- MCCgParent
    Managers <- MCManagers
    Limits = {0, 1, 2}
    DStateWarn = 1
    MaxListed = 1
    MaxAuditEvents = 4
    Segments = {1, 2}
    ShmUsers = {"u", "v"}
    SegSizes = {1, 2}
    TopEntries = 1
    Slaves <- MCSlaves
    OffsetsMs <- MCOffsetsMs
    OffsetWarn = 2
    MicroPerMs = 10
    NanoPerMs = 100
    PSILevels = {0, 2}
    CpuSome = 1
    MemFull = 0
    IoFull = 0
    PciDevices <- MCPciDevices
    PciCap = 1
    TempSensors <- MCTempSensors
    SensorCap = 1
    RawTemps = {0, 4, 5, 9}
    RawPerTenth = 3
    IBPorts = {1, 2}
    TrackRows = 2
    TrackMax = 3
    TrackWarn = 80
    MaxHostEvents = 3
    CpuInfo <- MCCpuInfo
    BlockDisks = {"sda", "sdaa"}
    BlockParts = {"sda1", "sdaa1"}
    DmDevices = {"dm0", "dm1"}
    DiskOf <- MCDiskOf
    NamePrefix <- MCNamePrefix
    DevNumbers = {1, 2}
    MaxTopoEvents = 4
    HolderPIDs = {1, 2}
    HolderFDs = {3, 4}
    Sockets = {"s1", "s2"}
    SockTable <- MCSockTable
    TableSets <- MCTableSets
    SockPort <- MCSockPort
    HeldFiles = {"f", "g"}
    UnderPath = {"f"}
    FileLimits = {0, 5}
    DefaultLimit = 1
    MaxLimit = 2
    ListedMax = 1
    LockTypes = {"POSIX", "OFDLCK"}
    MaxHolderEvents = 3
INVARIANTS
    RequestsAreSound
    AnswersMatchReferences
    ReportsAreTrue
    TroubleShows
CHECK_DEADLOCK FALSE
