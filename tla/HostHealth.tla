----------------------------- MODULE HostHealth -----------------------------
(***************************************************************************)
(* Health tools of a host: get_shared_memory, get_time_sync,               *)
(* get_pressure_stall, get_bond_status, get_pci_link_status,               *)
(* get_sensor_readings, get_infiniband_status and get_conntrack_summary.   *)
(* The state is what the kernel shows, which processes, daemons, links and *)
(* devices change; the answer of a tool is an operator on the state.       *)
(***************************************************************************)
EXTENDS Integers, Sequences, FiniteSets, SequencesExt, FiniteSetsExt

CONSTANTS
    Segments,     \* ids of SysV segments
    ShmUsers,     \* processes that attach segments
    SegSizes,     \* sizes of segments
    TopEntries,   \* topEntries
    Slaves,       \* sequence of the slaves of the bond
    OffsetsMs,    \* clock offsets, in milliseconds
    OffsetWarn,   \* offsetWarnMs
    MicroPerMs, NanoPerMs, \* units of the kernel's offset
    PSILevels, CpuSome, MemFull, IoFull, \* pressure values and the thresholds
    PciDevices,   \* sequence of PCI devices, by address
    PciCap,       \* maxDevices of get_pci_link_status
    TempSensors,  \* sequence of the temperature sensors of a chip, by index
    SensorCap,    \* maxSensorsPerList
    RawTemps,     \* raw temperatures and thresholds; 0: the file cannot be read
    RawPerTenth,  \* raw units per tenth of a degree
    IBPorts,      \* InfiniBand ports
    TrackRows,    \* rows of /proc/net/stat/nf_conntrack, one for each CPU
    TrackMax,     \* nf_conntrack_max
    TrackWarn,    \* usageWarnThresholdPct
    MaxHostEvents \* bound: changes

ASSUME HostHealthAssumption ==
    /\ Segments \subseteq Nat /\ SegSizes \subseteq Nat /\ TopEntries \in Nat
    /\ Slaves \in Seq(Range(Slaves)) /\ PciDevices \in Seq(Range(PciDevices))
    /\ TempSensors \in Seq(Range(TempSensors))
    /\ OffsetsMs \subseteq Int /\ OffsetWarn \in Nat
    /\ PSILevels \subseteq Nat /\ {CpuSome, MemFull, IoFull} \subseteq Nat
    /\ PciCap \in Nat /\ SensorCap \in Nat /\ RawTemps \subseteq Nat /\ RawPerTenth \in Nat \ {0}
    /\ TrackRows \in Nat /\ TrackMax \in Nat \ {0} /\ TrackWarn \in 0..99
    /\ MicroPerMs \in Nat \ {0} /\ NanoPerMs \in Nat \ {0} /\ MaxHostEvents \in Nat

VARIABLES
    shm,       \* segment id -> [size, attached: SUBSET ShmUsers]
    shmFiles,  \* whether /dev/shm can be listed
    kernelClock, \* [available, synced, raw, nano]: what adjtimex says
    ntp,       \* [kind: "chrony", "timedatectl" or "", works, synced, offset in ms]
    psi,       \* resource -> [some, full, file: "ok", "missing" or "malformed"]
    bond,      \* [up, slaves: [name -> [up, failures]]]
    pci,       \* device -> [link: it has link files, speed, top, corrected, serious, wanted]
    temps,     \* sensor -> [raw, max, crit]
    ib,        \* [listed: the ports can be listed, ports: [port -> [up, linked, errors]]]
    track,     \* [count, maxRead, stat: the counters can be read, drops: [cpu -> Nat]]
    hostEvents

hardwareVars == <<pci, temps, ib, track>>
hostVars == <<shm, shmFiles, kernelClock, ntp, psi, bond, hardwareVars, hostEvents>>

Abs(n) == IF n < 0 THEN 0 - n ELSE n
TrackCPUs == 1..TrackRows

\* A list that is cut: the first n of some positions.
FirstIn(K, n) == {k \in K : Cardinality({j \in K : j < k}) < n}

-----------------------------------------------------------------------------
\* get_shared_memory: totals and orphans over all segments, then the largest.
\* An unreadable /dev/shm is a note.
LargerSegment(a, b) == shm[a].size > shm[b].size \/ (shm[a].size = shm[b].size /\ a < b)
buildSysv ==
    [segments |-> {s \in DOMAIN shm : Cardinality({t \in DOMAIN shm : LargerSegment(t, s)}) < TopEntries},
     count |-> Cardinality(DOMAIN shm), orphaned |-> {s \in DOMAIN shm : shm[s].attached = {}}]
listPosixShm == shmFiles
SharedMemory == IF buildSysv.orphaned # {} THEN "warning" ELSE IF ~listPosixShm THEN "degraded" ELSE "ok"

\* get_time_sync: the kernel's word, or without it the daemon's; chronyc before
\* timedatectl. The kernel's offset is in nanoseconds or microseconds.
collectKernel == kernelClock.raw \div (IF kernelClock.nano THEN NanoPerMs ELSE MicroPerMs)
collectDaemon == IF ntp.kind = "" \/ ~ntp.works THEN "" ELSE IF ntp.synced THEN "yes" ELSE "no"
Synchronized == IF kernelClock.available THEN kernelClock.synced ELSE collectDaemon = "yes"
ClockOffset == IF kernelClock.available THEN collectKernel
               ELSE IF ntp.kind = "chrony" /\ ntp.works THEN ntp.offset ELSE 0
TimeSync == IF ~Synchronized \/ Abs(ClockOffset) > OffsetWarn THEN "warning" ELSE "ok"

\* get_pressure_stall: a missing file is left out, a malformed one is a note.
Readable == {r \in DOMAIN psi : psi[r].file = "ok"}
evaluateWarnings ==
    \/ "cpu" \in Readable /\ psi["cpu"].some > CpuSome
    \/ "memory" \in Readable /\ psi["memory"].full > MemFull
    \/ "io" \in Readable /\ psi["io"].full > IoFull
PressureStall == IF Readable = {} THEN "error" ELSE IF evaluateWarnings THEN "warning" ELSE "ok"

\* get_bond_status: the lines of /proc/net/bonding are the bond's until the
\* first slave is named, then that slave's.
BondLine(k, v) == [key |-> k, value |-> v]
BondFile ==
    [k \in 1..(1 + 3 * Len(Slaves)) |->
        LET s == Slaves[(k + 1) \div 3]
        IN IF k = 1 THEN BondLine("mii_status", bond.up)
           ELSE IF k % 3 = 2 THEN BondLine("slave_interface", s)
           ELSE IF k % 3 = 0 THEN BondLine("mii_status", bond.slaves[s].up)
           ELSE BondLine("link_failure_count", bond.slaves[s].failures)]
ParseBondLine(b, l) ==
    LET n == Len(b.slaves)
    IN CASE l.key = "slave_interface" ->
              [b EXCEPT !.slaves = Append(@, [name |-> l.value, up |-> FALSE, failures |-> 0])]
         [] l.key = "mii_status" /\ n = 0 -> [b EXCEPT !.up = l.value]
         [] l.key = "mii_status" /\ n > 0 -> [b EXCEPT !.slaves[n].up = l.value]
         [] l.key = "link_failure_count" /\ n > 0 -> [b EXCEPT !.slaves[n].failures = l.value]
         [] OTHER -> b
BondScan[k \in 0..Len(BondFile)] ==
    IF k = 0 THEN [up |-> FALSE, slaves |-> << >>] ELSE ParseBondLine(BondScan[k - 1], BondFile[k])
parseBondFile == BondScan[Len(BondFile)]
BondWarns(b) == ~b.up \/ \E i \in DOMAIN b.slaves : ~b.slaves[i].up \/ b.slaves[i].failures > 0
BondStatus == IF BondWarns(parseBondFile) THEN "warning" ELSE "ok"

\* get_pci_link_status: a link is downtrained when both of its speeds (or
\* widths) are known and differ. Downtrained links are counted over all devices,
\* serious errors over the devices that are listed.
Downtrained(p) == p.speed > 0 /\ p.top > 0 /\ p.speed < p.top
collectDevice(d) == [ok |-> pci[d].link, downtrained |-> Downtrained(pci[d]),
                     aer |-> pci[d].corrected + pci[d].serious, serious |-> pci[d].serious > 0]
PciListed == {k \in DOMAIN PciDevices :
                  LET dev == collectDevice(PciDevices[k])
                  IN dev.ok /\ (pci[PciDevices[k]].wanted \/ dev.downtrained \/ dev.aer > 0)}
PciShown == FirstIn(PciListed, PciCap)
PciLinkStatus ==
    IF \/ \E d \in Range(PciDevices) : collectDevice(d).ok /\ collectDevice(d).downtrained
       \/ \E k \in PciShown : collectDevice(PciDevices[k]).serious
    THEN "warning" ELSE "ok"

\* get_sensor_readings: readings and thresholds are rounded to a tenth of a
\* degree and compared; a sensor that cannot be read is skipped and does not
\* count towards the cap of the list.
round1(raw) == (raw + RawPerTenth \div 2) \div RawPerTenth
sensorStatus(t) ==
    IF t.crit > 0 /\ round1(t.raw) >= round1(t.crit) THEN "critical"
    ELSE IF t.max > 0 /\ round1(t.raw) >= round1(t.max) THEN "warning" ELSE "ok"
collectChip == {TempSensors[k] : k \in FirstIn({j \in DOMAIN TempSensors : temps[TempSensors[j]].raw > 0}, SensorCap)}
SensorReadings ==
    LET told == {sensorStatus(temps[x]) : x \in collectChip}
    IN IF "critical" \in told THEN "error" ELSE IF "warning" \in told THEN "warning" ELSE "ok"

\* get_infiniband_status: an HCA whose ports cannot be listed is skipped.
collectPort(p) == ~p.up \/ ~p.linked \/ p.errors > 0
InfinibandStatus == IF ib.listed /\ \E p \in IBPorts : collectPort(ib.ports[p]) THEN "warning" ELSE "ok"

\* get_conntrack_summary: the counters are summed over the rows of the CPUs;
\* the usage is rounded to hundredths of a percent, and 0 without a maximum.
DropSum[r \in 0..TrackRows] == IF r = 0 THEN 0 ELSE DropSum[r - 1] + track.drops[r]
parseConntrackStat == IF track.stat THEN DropSum[TrackRows] ELSE 0
computeUsagePct == IF track.maxRead THEN (20000 * track.count + TrackMax) \div (2 * TrackMax) ELSE 0
TrackWarns == computeUsagePct > 100 * TrackWarn \/ parseConntrackStat > 0
ConntrackSummary == IF TrackWarns THEN "warning" ELSE "ok"

-----------------------------------------------------------------------------
HostInit ==
    /\ shm = << >> /\ shmFiles \in BOOLEAN
    /\ kernelClock \in [available : BOOLEAN, synced : {TRUE}, raw : {0}, nano : BOOLEAN]
    /\ ntp \in [kind : {"chrony", "timedatectl", ""}, works : BOOLEAN, synced : {TRUE}, offset : {0}]
    /\ psi = [r \in {"cpu", "memory", "io", "irq"} |-> [some |-> 0, full |-> 0, file |-> "ok"]]
    /\ bond = [up |-> TRUE, slaves |-> [s \in Range(Slaves) |-> [up |-> TRUE, failures |-> 0]]]
    /\ pci \in [Range(PciDevices) -> [link : BOOLEAN, speed : {2}, top : {0, 2}, corrected : {0}, serious : {0}, wanted : BOOLEAN]]
    /\ temps = [x \in Range(TempSensors) |-> [raw |-> 0, max |-> 0, crit |-> 0]]
    /\ ib \in [listed : BOOLEAN, ports : {[p \in IBPorts |-> [up |-> TRUE, linked |-> TRUE, errors |-> 0]]}]
    /\ track \in [count : {0}, maxRead : BOOLEAN, stat : BOOLEAN, drops : {[c \in TrackCPUs |-> 0]}]
    /\ hostEvents = 0

HostEvent == hostEvents < MaxHostEvents /\ hostEvents' = hostEvents + 1

ShmCreate(id, size, u) ==
    /\ HostEvent /\ id \notin DOMAIN shm
    /\ shm' = [s \in DOMAIN shm \cup {id} |-> IF s = id THEN [size |-> size, attached |-> {u}] ELSE shm[s]]
    /\ UNCHANGED <<shmFiles, kernelClock, ntp, psi, bond, hardwareVars>>
ShmAttach(id, u) ==
    /\ HostEvent /\ shm' = [shm EXCEPT ![id].attached = @ \cup {u}]
    /\ UNCHANGED <<shmFiles, kernelClock, ntp, psi, bond, hardwareVars>>
ProcessEnds(u) ==
    /\ HostEvent /\ shm' = [s \in DOMAIN shm |-> [shm[s] EXCEPT !.attached = @ \ {u}]]
    /\ UNCHANGED <<shmFiles, kernelClock, ntp, psi, bond, hardwareVars>>
ClockDrifts(o, s) ==   \* the daemon and the kernel follow the same clock
    /\ HostEvent
    /\ kernelClock' = [kernelClock EXCEPT !.synced = s,
                         !.raw = o * (IF kernelClock.nano THEN NanoPerMs ELSE MicroPerMs)]
    /\ ntp' = [ntp EXCEPT !.offset = o, !.synced = s]
    /\ UNCHANGED <<shm, shmFiles, psi, bond, hardwareVars>>
PressureChanges(r, some, full, file) ==
    /\ HostEvent /\ full <= some /\ psi' = [psi EXCEPT ![r] = [some |-> some, full |-> full, file |-> file]]
    /\ UNCHANGED <<shm, shmFiles, kernelClock, ntp, bond, hardwareVars>>
LinkChanges(s) ==   \* a bond is up while one of its slaves is
    /\ HostEvent
    /\ LET sl == [bond.slaves EXCEPT ![s] = [up |-> ~bond.slaves[s].up,
                                             failures |-> @.failures + IF bond.slaves[s].up THEN 1 ELSE 0]]
       IN bond' = [up |-> \E t \in DOMAIN sl : sl[t].up, slaves |-> sl]
    /\ UNCHANGED <<shm, shmFiles, kernelClock, ntp, psi, hardwareVars>>

softVars == <<shm, shmFiles, kernelClock, ntp, psi, bond>>
PciChanges(d, speed, corrected, serious) ==
    /\ HostEvent /\ pci' = [pci EXCEPT ![d].speed = speed, ![d].corrected = @ + corrected, ![d].serious = @ + serious]
    /\ UNCHANGED <<softVars, temps, ib, track>>
TempChanges(x, raw, mx, crit) ==
    /\ HostEvent /\ temps' = [temps EXCEPT ![x] = [raw |-> raw, max |-> mx, crit |-> crit]]
    /\ UNCHANGED <<softVars, pci, ib, track>>
PortChanges(p, up, linked, err) ==
    /\ HostEvent
    /\ ib' = [ib EXCEPT !.ports[p] = [up |-> up, linked |-> linked, errors |-> @.errors + err]]
    /\ UNCHANGED <<softVars, pci, temps, track>>
TrackGrows(n) ==
    /\ HostEvent /\ track.count + n <= TrackMax /\ track' = [track EXCEPT !.count = @ + n]
    /\ UNCHANGED <<softVars, pci, temps, ib>>
TrackDrops(c) ==   \* a full table refuses a connection
    /\ HostEvent /\ track.count = TrackMax /\ track' = [track EXCEPT !.drops[c] = @ + 1]
    /\ UNCHANGED <<softVars, pci, temps, ib>>
TrackExpires(n) ==
    /\ HostEvent /\ track.count >= n /\ track' = [track EXCEPT !.count = @ - n]
    /\ UNCHANGED <<softVars, pci, temps, ib>>

ShmNext ==
    \/ \E id \in Segments, z \in SegSizes, u \in ShmUsers : ShmCreate(id, z, u)
    \/ \E id \in DOMAIN shm, u \in ShmUsers : ShmAttach(id, u)
    \/ \E u \in ShmUsers : ProcessEnds(u)
ClockNext == \E o \in OffsetsMs, s \in BOOLEAN : ClockDrifts(o, s)
PressureNext ==
    \E r \in DOMAIN psi, a, b \in PSILevels, f \in {"ok", "missing", "malformed"} : PressureChanges(r, a, b, f)
LinkNext == \E s \in Range(Slaves) : LinkChanges(s)
PciNext == \E d \in Range(PciDevices), s \in 0..2, c, e \in 0..1 : PciChanges(d, s, c, e)
TempNext == \E x \in Range(TempSensors), r, m, c \in RawTemps : TempChanges(x, r, m, c)
PortNext == \E p \in IBPorts, u, l \in BOOLEAN, e \in 0..1 : PortChanges(p, u, l, e)
TrackNext ==
    \/ \E n \in 1..TrackMax : TrackGrows(n) \/ TrackExpires(n)
    \/ \E c \in TrackCPUs : TrackDrops(c)

-----------------------------------------------------------------------------
\* A host in trouble is not reported ok as long as what tells of the trouble
\* can be read: a leaked segment, however small (sharedmemory.go 403-441), a
\* clock that is not synchronised or off by more than the threshold, whichever
\* unit the kernel counts in and whoever was asked (timesync.go 199-212), a
\* resource under pressure (pressurestall.go 284-296), a link of a bond that is
\* down or was (bondstatus.go 184-247), a PCI link below its speed, and serious
\* PCI errors unless the list is cut (pcilinkstatus.go 396-408), a sensor at its
\* threshold whatever the rounding does (sensorreadings.go 213-220), a port that
\* is not up (infinibandstatus.go 194-229), connections dropped on any CPU or a
\* table that is full (conntracksummary.go 240-267).
HostTroubleIsReported ==
    /\ (\E s \in DOMAIN shm : shm[s].attached = {}) => SharedMemory = "warning"
    /\ SharedMemory = "ok" => shmFiles
    /\ LET told == kernelClock.available \/ (ntp.works /\ ntp.kind # "")
           offsetTold == kernelClock.available \/ (ntp.works /\ ntp.kind = "chrony")
       IN /\ TimeSync = "ok" => told /\ kernelClock.synced
          /\ offsetTold /\ kernelClock.synced => (TimeSync = "warning" <=> Abs(ntp.offset) > OffsetWarn)
    /\ PressureStall = "ok" =>
         /\ psi["cpu"].file = "ok" => psi["cpu"].some <= CpuSome
         /\ psi["memory"].file = "ok" => psi["memory"].full <= MemFull
         /\ psi["io"].file = "ok" => psi["io"].full <= IoFull
    /\ BondStatus = "ok" <=> \A s \in DOMAIN bond.slaves : bond.slaves[s] = [up |-> TRUE, failures |-> 0]
    /\ parseBondFile = [up |-> bond.up, slaves |-> [i \in DOMAIN Slaves |->
          [name |-> Slaves[i], up |-> bond.slaves[Slaves[i]].up, failures |-> bond.slaves[Slaves[i]].failures]]]
    /\ \A d \in Range(PciDevices) : PciLinkStatus = "ok" /\ pci[d].link =>
         /\ ~(pci[d].speed > 0 /\ pci[d].speed < pci[d].top)
         /\ pci[d].serious > 0 => Cardinality(PciListed) > PciCap
    /\ \A x \in collectChip :
         /\ temps[x].crit > 0 /\ temps[x].raw >= temps[x].crit => SensorReadings = "error"
         /\ temps[x].max > 0 /\ temps[x].raw >= temps[x].max => SensorReadings # "ok"
    /\ SensorReadings = "error" => \E x \in collectChip : temps[x].crit > 0 /\ temps[x].raw + RawPerTenth > temps[x].crit
    /\ InfinibandStatus = "ok" /\ ib.listed => \A p \in IBPorts : ib.ports[p] = [up |-> TRUE, linked |-> TRUE, errors |-> 0]
    /\ ConntrackSummary = "ok" =>
         /\ track.stat => \A c \in TrackCPUs : track.drops[c] = 0
         /\ track.maxRead => track.count < TrackMax
=============================================================================
