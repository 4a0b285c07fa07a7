----------------------------- MODULE ToolProofs -----------------------------
(***************************************************************************)
(* The components of ReportProofs in the composition that the runs check.  *)
(* A step of the composition is a step of the component in focus and       *)
(* leaves the others alone.                                                *)
(***************************************************************************)
EXTENDS MCTools, ReportProofs

ToolsInv ==
    /\ CounterInv /\ ProcInv /\ AuditInv /\ TopologyInv
    /\ StorageInv /\ CatalogueInv /\ OverviewInv /\ LogInv /\ HostInv
    /\ DumpInv /\ HoldersInv

LEMMA ToolsInitInv == ToolsInit => ToolsInv
  BY CounterInitInv, ProcInitInv, AuditInitInv, TopologyInitInv, StorageInitInv,
     CatalogueInitInv, OverviewInitInv, LogInitInv, HostInitInv,
     DumpInitInv, HoldersInitInv, LogToolsAssumption DEF ToolsInit, ToolsInv

LEMMA ToolsStep == ToolsInv /\ [ToolsNext]_toolsVars => ToolsInv'
<1> SUFFICES ASSUME ToolsInv, [ToolsNext]_toolsVars PROVE ToolsInv'
  OBVIOUS
<1>1. /\ [CounterNext]_counterVars /\ [ProcNext]_procVars
      /\ AuditNext \/ UNCHANGED auditVars
      /\ CpuNext \/ BlockNext \/ UNCHANGED topoVars
      /\ StorageNext \/ UNCHANGED storageVars
      /\ CatalogueNext \/ UNCHANGED catalogueVars
      /\ OverviewNext \/ UNCHANGED overviewVars
      /\ KernelNext \/ DumpNext \/ UNCHANGED logVars
      /\ HostParts \/ UNCHANGED hostVars
      /\ HoldersNext \/ UNCHANGED holderVars
  BY DEF ToolsNext, toolsVars, TopologyNext, LogNext, HostNext, HostParts
<1>2. CounterInv' /\ ProcInv'
  BY <1>1, CounterStep, ProcStep DEF ToolsInv
<1>3. AuditInv' /\ TopologyInv'
  BY <1>1, AuditStep, TopologyStep DEF ToolsInv
<1>4. StorageInv' /\ CatalogueInv' /\ OverviewInv'
  BY <1>1, StorageStep, CatalogueStep, OverviewStep DEF ToolsInv
<1>5. LogInv' /\ HostInv'
  BY <1>1, KernelStep, DumpStep, HostStep, LogToolsAssumption DEF ToolsInv
<1>6. DumpInv' /\ HoldersInv'
  BY <1>1, DumpInvStep, HoldersStep, LogToolsAssumption DEF ToolsInv
<1> QED
  BY <1>2, <1>3, <1>4, <1>5, <1>6 DEF ToolsInv

(* What the tools report is so, in every behaviour of the composition and for *)
(* every value of the constants (networkrates.go, diskio.go, sys/process,     *)
(* zombies, cgrouplimits.go, sys/hardware, block.go, raidhealth.go,           *)
(* multipath, smart, zfs, oomevents.go, sharedmemory.go, timesync.go,         *)
(* pressurestall.go, bondstatus.go, pcilinkstatus.go, sensorreadings.go,      *)
(* infinibandstatus.go, conntracksummary.go, list_tools, get_mesh_topology).  *)
THEOREM ToolsReportTruly == ToolsSpec => []ReportsAreTrue
<1>1. ToolsInv => ReportsAreTrue
  <2>1. CounterInv => RatesAreReal
    BY DEF CounterInv
  <2> QED
    BY <2>1, ViewsFollow, SteadyFactsFollow, SteadyPartsFollow, TroubleFollows,
       CatalogueFollows, OverviewFollows, EveryKillIsTold, HostTroubleFollows DEF ToolsInv, ReportsAreTrue
<1> QED
  BY ToolsInitInv, ToolsStep, <1>1, PTL DEF ToolsSpec

(* What a report of the composition leaves out is not what matters: the       *)
(* newest entries are in, and so is who holds a file, a port or a lock, of    *)
(* what stood still during the call (oomevents.go, ipmisel.go, coredumps.go,  *)
(* querydmesg.go, listeningservices.go, openfiles.go, filelocks.go).          *)
THEOREM TroubleIsNotCutOff == ToolsSpec => []TroubleShows
<1>1. ToolsInv => TroubleShows
  BY CutsFollow, InvListenersAreFound, InvOpenersAreFound, InvLocksAreTold, LogToolsAssumption
     DEF ToolsInv, TroubleShows, HoldersAreFound
<1> QED
  BY ToolsInitInv, ToolsStep, <1>1, PTL DEF ToolsSpec
=============================================================================
