------------------------------- MODULE MCTools ------------------------------
(* How a gateway serves a tool call (Requests, with the catalogue of tools,   *)
(* the node patterns and the overview of the mesh) and what the diagnostic    *)
(* tools of a node answer while the host they look at changes, for TLC. They  *)
(* share no state: a behaviour is about one of them, or about one subject of  *)
(* a module that has several, which focus names.                             *)
EXTENDS Requests, NodeSet, Streams, MeshOverview, Catalogue, CounterSamples,
        ProcessTools, LogTools, StorageHealth, ProcessAudit, HostHealth, MachineTopology,
        FileHolders, TLC

CONSTANT Focuses
VARIABLE focus

(* Requests: a bad pattern, a missing, an undeclared and a mistyped argument, *)
(* a tool of the gateway itself, a node without the tool.                     *)
Pm(n, t, r) == [name |-> n, type |-> t, required |-> r]
MCParams == {Pm("k", "string", TRUE), Pm("n", "number", FALSE)}
A1 == "k" :> "string"
A2 == "k" :> "string" @@ "n" :> "number"
In(t, to, args) == [tool |-> t, to |-> to, args |-> args]
MCInputs ==
    "r1" :> {In("t", "", A1), In("t", "*", A1), In("t", "n1", A1), In("t", "[bad", A1), In("l", "n2", A1),
             In("t", "n1", << >>), In("t", "n1", A1 @@ "zz" :> "string"), In("t", "n1", "k" :> "number"),
             In("l", "", A1)}
    @@ "r2" :> {In("t", "n1", A2)}
MCHolders == "t" :> {"n1", "n2"} @@ "l" :> {"gateway", "n1"}
MCPatternNodes == "*" :> {"n1", "n2"}

(* NodeSet: a padded range with a stride, a merged range, a range that is     *)
(* empty, two dimensions, a known and an unknown group.                      *)
Num(v, w) == [v |-> v, w |-> w]
It(lo, hi, st) == [lo |-> lo, hi |-> hi, step |-> st]
Term(lit, items) == [group |-> "", dims |-> <<[lit |-> lit, items |-> items]>>, tail |-> ""]
GroupTerm(g) == [group |-> g, dims |-> << >>, tail |-> ""]
Plain == [group |-> "", dims |-> << >>, tail |-> "n"]
Host(v, w) == [dims |-> <<[lit |-> "n", num |-> Num(v, w)]>>, tail |-> ""]
T1 == Term("n", <<It(Num(1, 1), Num(3, 1), 1)>>)
T2 == Term("n", <<It(Num(8, 2), Num(10, 2), 2)>>)
T3 == Term("n", <<It(Num(1, 1), Num(2, 1), 1), It(Num(9, 1), Num(9, 1), 1)>>)
T5 == Term("n", <<It(Num(3, 1), Num(1, 1), 1)>>)
Rack(lo, hi, n1, n2) ==
    [group |-> "", tail |-> "",
     dims |-> <<[lit |-> "r", items |-> <<It(Num(lo, 1), Num(hi, 1), 1)>>],
                [lit |-> "n", items |-> <<It(Num(n1, 1), Num(n2, 1), 1)>>]>>]
Single(t) == [terms |-> <<t>>, ops |-> << >>]
Two(t, op, u) == [terms |-> <<t, u>>, ops |-> <<op>>]
MCExprs == {Single(t) : t \in {T1, T2, T3, T5, GroupTerm("g"), GroupTerm("x"), Plain, Rack(1, 2, 2, 4)}}
           \cup {Two(T1, op, T3) : op \in {",", "!", "&", "^"}}
           \cup {Two(T3, ",", Plain), Two(Rack(1, 2, 2, 4), "!", Rack(2, 2, 3, 3))}
MCHosts == {Host(1, 1), Host(1, 2), Host(9, 1), [dims |-> << >>, tail |-> "n"]}
MCGroups == "g" :> {Host(2, 1), Host(10, 2)}

(* MeshOverview: a gateway among servers. *)
MCRolesOf == [n \in OverviewNodes |-> IF n = 1 THEN {"generic"} ELSE {"oss"}]

(* Catalogue: a tool for Lustre clients only, a hidden one, and the tools     *)
(* every node has.                                                           *)
Pl(category, hidden, needs) == [category |-> category, hidden |-> hidden, needs |-> needs]
MCPlugins == "df" :> Pl("storage", FALSE, {}) @@ "lfs" :> Pl("storage", FALSE, {"client"})
          @@ "ip" :> Pl("network", FALSE, {}) @@ "node_stop" :> Pl("lifecycle", TRUE, {})
MCMeshOnly == "get_mesh_topology" :> [category |-> "mesh", hidden |-> FALSE]
           @@ "node_deploy" :> [category |-> "lifecycle", hidden |-> TRUE]
MCCategories == <<"network", "storage", "lifecycle">>

(* LogTools: the least, one and more than allowed. *)
MCLastNs == {0 - 1, 1, 5}

(* ProcessAudit: a job in the cgroup of a workload manager. *)
MCCgParent == "root" :> "root" @@ "slurm" :> "root" @@ "job" :> "slurm"
MCManagers == <<"slurm">>

(* HostHealth: offsets within, at and over the threshold. *)
MCSlaves == <<"e0", "e1">>
MCOffsetsMs == {0 - 3, 0, 2, 3}
MCPciDevices == <<"d1", "d2">>
MCTempSensors == <<"t1", "t2">>

(* MachineTopology: sibling threads, two L3 domains in a NUMA node and core   *)
(* numbers used again; a disk whose name begins with that of another.        *)
Cp(n, s, c, l) == [node |-> n, socket |-> s, core |-> c, l3 |-> l]
MCCpuInfo == 0 :> Cp(0, 0, 0, "x") @@ 1 :> Cp(0, 0, 0, "x") @@ 2 :> Cp(0, 0, 1, "x")
          @@ 3 :> Cp(0, 1, 0, "y") @@ 4 :> Cp(0, 1, 0, "y") @@ 5 :> Cp(1, 2, 0, "z")
MCDiskOf == "sda1" :> "sda" @@ "sdaa1" :> "sdaa"
MCNamePrefix == "sda" :> {"sda1", "sdaa1"} @@ "sdaa" :> {"sdaa1"}

(* FileHolders: a TCP and a UDP socket, a file under the path and another. *)
MCSockTable == "s1" :> "tcp" @@ "s2" :> "udp"
MCTableSets == {{}, {"tcp", "udp"}}
MCSockPort == "s1" :> 9 @@ "s2" :> 5

-----------------------------------------------------------------------------
(* What the behaviour is not about starts in one state only. *)
ToolsInit ==
    /\ focus \in Focuses
    /\ focus # "overview" => wires = << >>
    /\ focus # "catalogue" => features = [n \in AllNodes |-> {}] /\ localOnly = FALSE
    /\ focus # "counters" => counters = << >>
    /\ focus # "processes" => scanTool = [tool |-> "list", limit |-> 0, target |-> 0]
    /\ focus # "oom" => klog = "none"
    /\ focus # "dumps" => selInfo = FALSE /\ dumpSource = "none"
    /\ focus # "storage" => broken = {}
    /\ focus # "shm" => shmFiles = TRUE
    /\ focus # "clock" => /\ kernelClock = [available |-> TRUE, synced |-> TRUE, raw |-> 0, nano |-> TRUE]
                          /\ ntp = [kind |-> "", works |-> FALSE, synced |-> TRUE, offset |-> 0]
    /\ focus # "pci" => pci = [d \in Range(PciDevices) |-> [link |-> TRUE, speed |-> 2, top |-> 2,
                                   corrected |-> 0, serious |-> 0, wanted |-> TRUE]]
    /\ focus # "ports" => ib = [listed |-> TRUE, ports |-> [p \in IBPorts |-> [up |-> TRUE, linked |-> TRUE, errors |-> 0]]]
    /\ focus # "conntrack" => track = [count |-> 0, maxRead |-> TRUE, stat |-> TRUE, drops |-> [c \in TrackCPUs |-> 0]]
    /\ focus # "cpus" => hasL3 = TRUE
    /\ focus # "holders" => held = [tool |-> "locks", tables |-> {}, path |-> TRUE, limit |-> 0]
    /\ RequestsInit /\ RangeInit /\ NodeInit /\ StreamInit /\ OverviewInit /\ CatalogueInit
    /\ CounterInit /\ ProcInit /\ LogInit /\ StorageInit /\ AuditInit /\ HostInit /\ TopologyInit
    /\ HoldersInit /\ (focus # "holders" => Holding = {} /\ hproc[2] = Gone)

toolsVars == <<focus, requestVars, rangeVars, nodeVars, streamVars, overviewVars, catalogueVars,
               counterVars, procVars, logVars, storageVars, auditVars, hostVars, topoVars, holderVars>>

LogNext ==
    \/ focus = "oom" /\ KernelNext
    \/ focus = "dumps" /\ DumpNext
HostNext ==
    \/ focus = "shm" /\ ShmNext
    \/ focus = "clock" /\ ClockNext
    \/ focus = "pressure" /\ PressureNext
    \/ focus = "bond" /\ LinkNext
    \/ focus = "pci" /\ PciNext
    \/ focus = "temperatures" /\ TempNext
    \/ focus = "ports" /\ PortNext
    \/ focus = "conntrack" /\ TrackNext
TopologyNext ==
    \/ focus = "cpus" /\ CpuNext
    \/ focus = "disks" /\ BlockNext
HostFocuses == {"shm", "clock", "pressure", "bond", "pci", "temperatures", "ports", "conntrack"}

ToolsNext ==
    /\ focus' = focus
    /\ IF focus = "requests" THEN RequestsNext ELSE UNCHANGED requestVars
    /\ IF focus = "ranges" THEN RangeNext ELSE UNCHANGED rangeVars
    /\ IF focus = "nodesets" THEN NodeNext ELSE UNCHANGED nodeVars
    /\ IF focus = "streams" THEN StreamNext ELSE UNCHANGED streamVars
    /\ IF focus = "overview" THEN OverviewNext ELSE UNCHANGED overviewVars
    /\ IF focus = "catalogue" THEN CatalogueNext ELSE UNCHANGED catalogueVars
    /\ IF focus = "counters" THEN CounterNext ELSE UNCHANGED counterVars
    /\ IF focus = "processes" THEN ProcNext ELSE UNCHANGED procVars
    /\ IF focus \in {"oom", "dumps"} THEN LogNext ELSE UNCHANGED logVars
    /\ IF focus = "storage" THEN StorageNext ELSE UNCHANGED storageVars
    /\ IF focus = "audit" THEN AuditNext ELSE UNCHANGED auditVars
    /\ IF focus \in HostFocuses THEN HostNext ELSE UNCHANGED hostVars
    /\ IF focus \in {"cpus", "disks"} THEN TopologyNext ELSE UNCHANGED topoVars
    /\ IF focus = "holders" THEN HoldersNext ELSE UNCHANGED holderVars

ToolsSpec == ToolsInit /\ [][ToolsNext]_toolsVars

-----------------------------------------------------------------------------
(* What the tools of a node and the gateway's catalogue and overview report,  *)
(* read step by step from files and messages that change meanwhile: of        *)
(* everything that stood still what is so, of what is broken or in trouble    *)
(* that it is, each OOM kill once, and nothing invented (networkrates.go,     *)
(* diskio.go, sys/process, zombies, cgrouplimits.go, sys/hardware, block.go,  *)
(* raidhealth.go, multipath, smart, zfs, oomevents.go, sharedmemory.go,       *)
(* timesync.go, pressurestall.go, bondstatus.go, pcilinkstatus.go,            *)
(* sensorreadings.go, infinibandstatus.go, conntracksummary.go, list_tools,   *)
(* get_mesh_topology).                                                        *)
ReportsAreTrue ==
    /\ focus = "counters" => RatesAreReal
    /\ focus = "processes" => ProcessViewsAreSound
    /\ focus = "audit" => SteadyFactsAreTold
    /\ focus \in {"cpus", "disks"} => SteadyPartsAreTold
    /\ focus = "storage" => TroubleIsReported
    /\ focus = "oom" => OomKillsCountedOnce
    /\ focus \in HostFocuses => HostTroubleIsReported
    /\ focus = "catalogue" => CatalogueIsCallable
    /\ focus = "overview" => OverviewIsConsistent

(* Node patterns and stream reductions against their reference definitions   *)
(* (rangeset.go, nodeset.go, stream).                                        *)
AnswersMatchReferences ==
    /\ focus = "ranges" => RangesDenoteSets
    /\ focus = "nodesets" => NodesAsWritten /\ FoldRoundTrips /\ MatchIsSound
    /\ focus = "streams" => StreamsMatchReference

(* What a report cuts off is not what matters: the newest entries of a list,  *)
(* and who holds a file, a port and a lock (oomevents.go, ipmisel.go,         *)
(* coredumps.go, querydmesg.go, listeningservices.go, openfiles.go,           *)
(* filelocks.go).                                                             *)
TroubleShows ==
    /\ focus \in {"oom", "dumps"} => CutListsAreNewest
    /\ focus = "holders" => HoldersAreFound /\ LocksAreTold
=============================================================================
