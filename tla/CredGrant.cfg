SPECIFICATION FairComponentsSpec
CONSTANTS
    Focuses = {"credentials"}
    n1 = n1
    n2 = n2
    tool_a = tool_a
    tool_b = tool_b
    role_a = role_a
    huge = huge
    tool = tool
    role = role
    self = self
    peer_a = peer_a
    peer_b = peer_b
    None = None
    Nodes = {n1, n2}
    Caps = {tool_a, tool_b, role_a, huge}
    Namespaces = {tool, role}
    NamespaceOf <- MCNamespaceOf
    Oversize = {huge}
    MaxCapabilitiesPerNode = 2
    CapLists <- MCCapLists
    Impedances = {1, 2}
    MaxAge = 3
    Nil = Nil
    TableNodes = {self, peer_a, peer_b}
    Self = self
    Neighbors = {peer_a, peer_b}
    Rank <- MCRank
    Costs = {1}
    GossipImpedances = {1, 2}
    Budgets = {167, 208}
    Snapshots = {{peer_b}, {self, peer_a, peer_b}}
    RouteMaxAge = 1
    MaxFrameSize = 3
    FrameBudget = 2
    FrameSizes = {0, 1, 2, 3, 4, 5}
    MaxFrames = 3
    DialCert <- MCDialCert
    MaxLifetime = 1
    PairTimeout = 1
    MaxPairTime = 3
    MeshStreams = {"s1", "s2", "s3"}
    ListenerCap = 1
    Writers = {"w1", "w2"}
    Calls = {"c1", "c2"}
    HostOf <- MCHostOf
    Peers = {"p"}
    VaultPatterns <- MCPatterns
    Creds = {"x", "y"}
    Offsets <- MCOffsets
    SkewWindow = 1
    GrantTTL = 1
    MaxTime = 0
    MaxStores = 1
    MaxDrops = 1
    DNSHosts = {"h1", "h2"}
    Addresses = {"x1", "x2"}
    MaxEdits = 2
    ChunkSize = 1
    StreamOps = {"w1", "w2"}
    MaxStreams = 2
    Loads <- MCLoads
    FleetHosts = {"h1", "h2"}
    RouteOf <- MCRouteOf
    BaseInterval = 1
    MaxInterval = 2
    IndirectBase = 1
    IndirectMax = 2
    MaxRoundTime = 9
    MaxChanges = 2
    MaxCAs = 4
    MaxInvocations = 4
    GatewayConfigs <- MCConfigs
    ExaFiles <- MCExaFiles
    FleetMembers = {"h1", "h2"}
    DefaultPort = 4443
    MaxInstalls = 3
    Starts <- MCStarts
    StartGroups <- MCStartGroups
    TargetOf <- MCTargetOf
    StartHosts = {"h1", "h2"}
    MaxFailures = 1
    MaxStops = 1
PROPERTIES
    GrantedCallReturns
CHECK_DEADLOCK FALSE
