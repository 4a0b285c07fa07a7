-------------------------- MODULE MachineTopology ---------------------------
(***************************************************************************)
(* get_cpu_topology and get_block_topology build a picture of the machine  *)
(* from many small files of sysfs and procfs, one after the other, while   *)
(* processors go on and off line and devices come and go.                  *)
(***************************************************************************)
EXTENDS Integers, Sequences, FiniteSets, FiniteSetsExt

CONSTANTS
    CpuInfo,      \* cpu -> [node, socket, core, l3]: the hardware; l3 names the cache it shares
    BlockDisks, BlockParts, DmDevices, \* names in /sys/class/block
    DiskOf,       \* [BlockParts -> BlockDisks]
    NamePrefix,   \* [BlockDisks -> SUBSET BlockParts]: the names that begin with the disk's
    DevNumbers,   \* numbers (major:minor) of dm devices, used again
    MaxTopoEvents \* bound: hot plugging, mounts

ASSUME MachineTopologyAssumption ==
    /\ DOMAIN CpuInfo \subseteq Nat /\ MaxTopoEvents \in Nat
    /\ 0 \in DOMAIN CpuInfo
    /\ \A c, d \in DOMAIN CpuInfo :   \* threads of a core, and the cores of a cache, are near
         /\ CpuInfo[c].socket = CpuInfo[d].socket /\ CpuInfo[c].core = CpuInfo[d].core
              => CpuInfo[c].l3 = CpuInfo[d].l3
         /\ CpuInfo[c].l3 = CpuInfo[d].l3
              => CpuInfo[c].node = CpuInfo[d].node /\ CpuInfo[c].socket = CpuInfo[d].socket
    /\ DiskOf \in [BlockParts -> BlockDisks]
    /\ \A p \in BlockParts : p \in NamePrefix[DiskOf[p]]

VARIABLES
    online,     \* cpus that are on line
    hasL3,      \* whether sysfs shows the L3 cache (a guest often sees none)
    disks,      \* disks present
    dm,         \* dm device -> its number
    mounted,    \* number -> mount point
    topoTouched,\* what changed since the tool began
    topoStep,   \* "idle", "cpus", "cpusDone", "mounts", "disks", "block"
    cpuLists,   \* node -> cpus to read still
    coreMap,    \* <<node, l3 id, core id>> -> the core as first seen
    mountMap,   \* mounts as read
    partTree,   \* disk -> partitions listed under it
    dmTree,     \* dm device -> mount point told, "" for none
    topoEvents

topoVars == <<online, hasL3, disks, dm, mounted, topoTouched, topoStep, cpuLists, coreMap, mountMap,
              partTree, dmTree, topoEvents>>
topoTool == <<topoStep, cpuLists, coreMap, mountMap, partTree, dmTree>>

Cpus == DOMAIN CpuInfo
NumaNodes == {CpuInfo[c].node : c \in Cpus}

TopologyInit ==
    /\ online = Cpus /\ hasL3 \in BOOLEAN
    /\ disks = BlockDisks /\ dm = << >> /\ mounted = << >>
    /\ topoTouched = {} /\ topoStep = "idle"
    /\ cpuLists = << >> /\ coreMap = << >> /\ mountMap = << >> /\ partTree = << >> /\ dmTree = << >>
    /\ topoEvents = 0

-----------------------------------------------------------------------------
\* The kernel.
TopoEvent(what) ==
    /\ topoEvents < MaxTopoEvents /\ topoEvents' = topoEvents + 1
    /\ topoTouched' = IF topoStep = "idle" THEN {} ELSE topoTouched \cup {what}
    /\ UNCHANGED <<hasL3, topoTool>>

Hotplug(c) ==
    /\ c # 0 /\ online' = IF c \in online THEN online \ {c} ELSE online \cup {c}
    /\ TopoEvent(<<"cpu", c>>) /\ UNCHANGED <<disks, dm, mounted>>
DiskPlug(d) ==
    /\ disks' = IF d \in disks THEN disks \ {d} ELSE disks \cup {d}
    /\ TopoEvent(<<"disk", d>>) /\ UNCHANGED <<online, dm, mounted>>
DmCreate(d, n) ==
    /\ d \notin DOMAIN dm /\ \A e \in DOMAIN dm : dm[e] # n
    /\ dm' = [e \in DOMAIN dm \cup {d} |-> IF e = d THEN n ELSE dm[e]]
    /\ TopoEvent(<<"dm", d>>) /\ UNCHANGED <<online, disks, mounted>>
DmRemove(d) ==
    /\ d \in DOMAIN dm /\ dm[d] \notin DOMAIN mounted
    /\ dm' = [e \in DOMAIN dm \ {d} |-> dm[e]]
    /\ TopoEvent(<<"dm", d>>) /\ UNCHANGED <<online, disks, mounted>>
MountOf(d) == <<"mount", d>>
MountChanges(d) ==
    /\ d \in DOMAIN dm
    /\ mounted' = IF dm[d] \in DOMAIN mounted THEN [n \in DOMAIN mounted \ {dm[d]} |-> mounted[n]]
                  ELSE [n \in DOMAIN mounted \cup {dm[d]} |-> IF n = dm[d] THEN MountOf(d) ELSE mounted[n]]
    /\ TopoEvent(<<"dm", d>>) /\ UNCHANGED <<online, disks, dm>>

-----------------------------------------------------------------------------
\* GetTopology: the processors of every node, then the files of one processor
\* after the other. A file that is missing gives zero, for the cache the
\* node's first domain.
ReadNodes ==
    /\ topoStep = "idle" /\ topoStep' = "cpus"
    /\ cpuLists' = [n \in NumaNodes |-> {c \in online : CpuInfo[c].node = n}]
    /\ coreMap' = << >>
    /\ UNCHANGED <<online, hasL3, disks, dm, mounted, topoTouched, mountMap, partTree, dmTree, topoEvents>>

siblings(c) == IF c \in online
               THEN {d \in online : CpuInfo[d].socket = CpuInfo[c].socket /\ CpuInfo[d].core = CpuInfo[c].core}
               ELSE {c}
coreID(c) == IF c \in online THEN CpuInfo[c].core ELSE 0
l3ID(c) == IF c \in online /\ hasL3 THEN Min({d \in online : CpuInfo[d].l3 = CpuInfo[c].l3}) ELSE 0
AddCore(n, c) ==
    LET key == <<n, l3ID(c), coreID(c)>>
    IN IF key \in DOMAIN coreMap THEN coreMap
       ELSE [k \in DOMAIN coreMap \cup {key} |-> IF k = key THEN siblings(c) ELSE coreMap[k]]
ReadCpu(n) ==
    /\ topoStep = "cpus" /\ cpuLists[n] # {}
    /\ coreMap' = AddCore(n, Min(cpuLists[n]))
    /\ cpuLists' = [cpuLists EXCEPT ![n] = @ \ {Min(@)}]
    /\ UNCHANGED <<online, hasL3, disks, dm, mounted, topoTouched, topoStep, mountMap, partTree, dmTree, topoEvents>>
GetTopology ==
    /\ topoStep = "cpus" /\ topoStep' = "cpusDone" /\ \A n \in NumaNodes : cpuLists[n] = {}
    /\ UNCHANGED <<online, hasL3, disks, dm, mounted, topoTouched, cpuLists, coreMap, mountMap, partTree,
                   dmTree, topoEvents>>

\* GetBlockTopology: the mounts, then the disks with the partitions whose names
\* begin with theirs, then the dm devices, whose mounts are found by number.
parseMountInfo ==
    /\ topoStep = "idle" /\ topoStep' = "mounts" /\ mountMap' = mounted
    /\ UNCHANGED <<online, hasL3, disks, dm, mounted, topoTouched, cpuLists, coreMap, partTree, dmTree, topoEvents>>
discoverPartitions(d) == {p \in NamePrefix[d] : DiskOf[p] \in disks}
discoverPhysicalDevices ==
    /\ topoStep = "mounts" /\ topoStep' = "disks"
    /\ partTree' = [d \in disks |-> discoverPartitions(d)]
    /\ UNCHANGED <<online, hasL3, disks, dm, mounted, topoTouched, cpuLists, coreMap, mountMap, dmTree, topoEvents>>
discoverDeviceMapper ==
    /\ topoStep = "disks" /\ topoStep' = "block"
    /\ dmTree' = [d \in DOMAIN dm |-> IF dm[d] \in DOMAIN mountMap THEN mountMap[dm[d]] ELSE <<"", "">>]
    /\ UNCHANGED <<online, hasL3, disks, dm, mounted, topoTouched, cpuLists, coreMap, mountMap, partTree, topoEvents>>

CpuNext == (\E c \in Cpus : Hotplug(c)) \/ ReadNodes \/ (\E n \in NumaNodes : ReadCpu(n)) \/ GetTopology
BlockNext ==
    \/ \E d \in BlockDisks : DiskPlug(d)
    \/ \E d \in DmDevices, n \in DevNumbers : DmCreate(d, n)
    \/ \E d \in DmDevices : DmRemove(d) \/ MountChanges(d)
    \/ parseMountInfo \/ discoverPhysicalDevices \/ discoverDeviceMapper

-----------------------------------------------------------------------------
\* What stood still while the tool read is told. With the caches visible a
\* processor that stayed on line is a thread of some core (but for a core 0 that
\* the boot processor is not of: a processor that is off line when it is read
\* takes its place), and of one core only if all of its node stayed: a core is
\* kept under the first processor on line that shares its cache. A disk that
\* stayed has all its partitions; a dm device that stayed, with its mount, has
\* that mount (topology.go 187-262, block.go 82-190, 457-499).
StillCpu(c) == <<"cpu", c>> \notin topoTouched
NodeStill(n) == \A c \in Cpus : CpuInfo[c].node = n => StillCpu(c)
CoresOf(c) == {k \in DOMAIN coreMap : c \in coreMap[k]}
SteadyPartsAreTold ==
    /\ topoStep = "cpusDone" /\ hasL3 =>
         \A c \in online : StillCpu(c) =>
            /\ CpuInfo[c].core # 0 \/ CpuInfo[0].core = 0 => CoresOf(c) # {}
            /\ NodeStill(CpuInfo[c].node) => Cardinality(CoresOf(c)) = 1
    /\ topoStep = "block" =>
         /\ \A d \in disks : <<"disk", d>> \notin topoTouched =>
              d \in DOMAIN partTree /\ {p \in BlockParts : DiskOf[p] = d} \subseteq partTree[d]
         /\ \A d \in DOMAIN dm : <<"dm", d>> \notin topoTouched =>
              d \in DOMAIN dmTree /\
              dmTree[d] = IF dm[d] \in DOMAIN mounted THEN mounted[dm[d]] ELSE <<"", "">>
=============================================================================
