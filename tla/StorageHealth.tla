---------------------------- MODULE StorageHealth ----------------------------
(***************************************************************************)
(* The storage health tools: get_raid_health, get_zfs_status,              *)
(* get_multipath_status, get_smart_health, get_nvme_smart_log and          *)
(* get_filesystem_errors. The state is the machine's storage, which fails  *)
(* and is repaired, and what of the commands the tools use does not work;  *)
(* the answer of a tool is an operator on the state.                       *)
(***************************************************************************)
EXTENDS Integers, FiniteSets

CONSTANTS
    RaidDevs,     \* the members of the md array
    Paths,        \* the paths of the multipath map
    Disks,        \* the SATA drives, and as many NVMe controllers
    MaxBroken,    \* bound: commands and files that do not work
    MaxStorageEvents \* bound: failures and repairs

ASSUME StorageHealthAssumption ==
    /\ IsFiniteSet(RaidDevs) /\ IsFiniteSet(Paths) /\ IsFiniteSet(Disks)
    /\ MaxBroken \in Nat /\ MaxStorageEvents \in Nat

VARIABLES
    members,   \* [RaidDevs -> {"in_sync", "faulty", "spare", "removed"}]
    mismatch,  \* mismatch_cnt is not zero
    pool,      \* [online, errors, capacity]: health, errors of its device, percent used
    pathState, \* [Paths -> {"running", "offline", ""}]: device/state, "" if unreadable
    ext4,      \* [errors, ro]: errors_count, mounted read-only
    btrfsErrs, \* error counters of the btrfs device
    sata,      \* [Disks -> [passed, sectors, hot]]
    nvme,      \* [Disks -> [critical, media]]
    broken,    \* what does not work, a subset of Breakable
    storageEvents

storageVars == <<members, mismatch, pool, pathState, ext4, btrfsErrs, sata, nvme, broken, storageEvents>>

Breakable == {"zpool binary", "zpool list", "zpool status", "btrfs binary", "btrfs stats",
              "errors_count", "smartctl", "nvme binary", "smartctl binary", "nvme", "privilege"}
Works(what) == what \notin broken

-----------------------------------------------------------------------------
\* What md shows: degraded counts the slots without an in-sync member, a spare
\* is rebuilt at once.
MdDegraded == Cardinality({m \in RaidDevs : members[m] # "in_sync"})
MdSync == IF \E m \in RaidDevs : members[m] = "spare" THEN "recover" ELSE "idle"

\* get_raid_health. The degraded attribute is compared with "1".
readMembers == {m \in RaidDevs : members[m] # "removed"}
collectArray ==
    [degraded |-> MdDegraded = 1, failed |-> {m \in readMembers : members[m] = "faulty"},
     rebuilding |-> MdSync = "recover", mismatch |-> mismatch]
RaidHealth ==
    LET a == collectArray
    IN IF a.degraded \/ a.failed # {} \/ a.rebuilding \/ a.mismatch THEN "warning" ELSE "ok"

\* get_zfs_status: without the pool list the result is degraded; without the
\* status of a pool its errors read zero.
parseZpoolStatus == IF Works("zpool status") THEN pool.errors ELSE 0
applyPoolWarnings == ~pool.online \/ parseZpoolStatus > 0 \/ pool.capacity > 90
ZfsStatus == IF ~(Works("zpool binary") /\ Works("zpool list")) THEN "degraded"
             ELSE IF applyPoolWarnings THEN "warning" ELSE "ok"

\* get_multipath_status: a path that is not running has failed.
collectMap == [failed |-> {p \in Paths : pathState[p] # "running"},
               active |-> {p \in Paths : pathState[p] = "running"}]
MultipathStatus == IF collectMap.active = {} /\ Paths # {} THEN "error"
                   ELSE IF collectMap.failed # {} THEN "warning" ELSE "ok"

\* get_smart_health: a permission error of one drive is the result; any other
\* unreadable report drops the drive.
applyHealthRules(d) == ~sata[d].passed \/ sata[d].sectors > 0 \/ sata[d].hot
runSmartctl == IF ~Works("privilege") THEN "denied" ELSE IF Works("smartctl") THEN "json" ELSE "garbage"
Audited == IF runSmartctl = "json" THEN Disks ELSE {}
SmartHealth ==
    IF runSmartctl = "denied" /\ Disks # {} THEN "denied"
    ELSE IF \E d \in Audited : ~sata[d].passed THEN "error"
    ELSE IF \E d \in Audited : applyHealthRules(d) THEN "warning" ELSE "ok"

\* get_nvme_smart_log: nvme, then smartctl, unless nvme was not permitted; a
\* drive neither reads is dropped. The status is ok whatever the drives say:
\* the counters of the summary tell.
NvmeCall(binary, command) ==
    IF ~Works(binary) THEN "absent" ELSE IF ~Works("privilege") THEN "denied"
    ELSE IF Works(command) THEN "json" ELSE "garbage"
NvmeReads == <<NvmeCall("nvme binary", "nvme"), NvmeCall("smartctl binary", "smartctl")>>
ParseNVMeOutput(d) == nvme[d]
NvmeSmartLog ==
    LET answer == IF NvmeReads[1] \in {"json", "denied"} \/ NvmeReads[2] = "absent"
                  THEN NvmeReads[1] ELSE NvmeReads[2]
        seen == IF answer = "json" THEN Disks ELSE {}
    IN [status |-> IF NvmeReads = <<"absent", "absent">> \/ (answer = "denied" /\ Disks # {})
                   THEN "error" ELSE "ok",
        drives |-> seen,
        critical |-> Cardinality({d \in seen : ParseNVMeOutput(d).critical > 0}),
        media |-> \E d \in seen : ParseNVMeOutput(d).media > 0]

\* get_filesystem_errors: an unreadable counter drops the device, a missing
\* btrfs command is a note, a failing one drops the filesystem.
collectExt4 == IF Works("errors_count") THEN ext4.errors ELSE 0
findReadonlyMounts == ext4.ro
collectBtrfs == IF Works("btrfs binary") /\ Works("btrfs stats") THEN btrfsErrs ELSE 0
FilesystemErrors ==
    [status |-> IF collectExt4 > 0 \/ findReadonlyMounts \/ collectBtrfs > 0 THEN "warning" ELSE "ok",
     note |-> ~Works("btrfs binary"),
     count |-> (IF collectExt4 > 0 THEN 1 ELSE 0) + (IF collectBtrfs > 0 THEN 1 ELSE 0)]

-----------------------------------------------------------------------------
StorageInit ==
    /\ members = [m \in RaidDevs |-> "in_sync"] /\ mismatch = FALSE
    /\ pool = [online |-> TRUE, errors |-> 0, capacity |-> 80]
    /\ pathState = [p \in Paths |-> "running"]
    /\ ext4 = [errors |-> 0, ro |-> FALSE] /\ btrfsErrs = 0
    /\ sata = [d \in Disks |-> [passed |-> TRUE, sectors |-> 0, hot |-> FALSE]]
    /\ nvme = [d \in Disks |-> [critical |-> 0, media |-> 0]]
    /\ broken \in {b \in SUBSET Breakable : Cardinality(b) <= MaxBroken}
    /\ storageEvents = 0

StorageEvent == storageEvents < MaxStorageEvents /\ storageEvents' = storageEvents + 1 /\ UNCHANGED broken

MemberChanges(m, from, to) ==
    /\ StorageEvent /\ members[m] = from /\ members' = [members EXCEPT ![m] = to]
    /\ UNCHANGED <<mismatch, pool, pathState, ext4, btrfsErrs, sata, nvme>>
ScrubFinds ==
    /\ StorageEvent /\ mismatch' = TRUE
    /\ UNCHANGED <<members, pool, pathState, ext4, btrfsErrs, sata, nvme>>
PoolChanges ==
    /\ StorageEvent
    /\ pool' \in {[pool EXCEPT !.errors = @ + 1], [pool EXCEPT !.online = ~@], [pool EXCEPT !.capacity = 91]}
    /\ UNCHANGED <<members, mismatch, pathState, ext4, btrfsErrs, sata, nvme>>
PathChanges(p, s) ==
    /\ StorageEvent /\ pathState' = [pathState EXCEPT ![p] = s]
    /\ UNCHANGED <<members, mismatch, pool, ext4, btrfsErrs, sata, nvme>>
FilesystemFails ==
    /\ StorageEvent
    /\ \/ ext4' = [ext4 EXCEPT !.errors = @ + 1] /\ UNCHANGED btrfsErrs
       \/ ext4' = [errors |-> ext4.errors + 1, ro |-> TRUE] /\ UNCHANGED btrfsErrs
       \/ btrfsErrs' = btrfsErrs + 1 /\ UNCHANGED ext4
    /\ UNCHANGED <<members, mismatch, pool, pathState, sata, nvme>>
DriveAges(d) ==
    /\ StorageEvent
    /\ \/ \E s \in {[sata[d] EXCEPT !.passed = FALSE], [sata[d] EXCEPT !.sectors = @ + 1], [sata[d] EXCEPT !.hot = ~@]} :
             sata' = [sata EXCEPT ![d] = s] /\ UNCHANGED nvme
       \/ \E n \in {[nvme[d] EXCEPT !.critical = @ + 1], [nvme[d] EXCEPT !.media = @ + 1]} :
             nvme' = [nvme EXCEPT ![d] = n] /\ UNCHANGED sata
    /\ UNCHANGED <<members, mismatch, pool, pathState, ext4, btrfsErrs>>

StorageNext ==
    \/ \E m \in RaidDevs, c \in {<<"in_sync", "faulty">>, <<"faulty", "removed">>,
                                  <<"removed", "spare">>, <<"spare", "in_sync">>, <<"spare", "faulty">>} :
          MemberChanges(m, c[1], c[2])
    \/ ScrubFinds \/ PoolChanges \/ FilesystemFails
    \/ \E p \in Paths, s \in {"running", "offline", ""} : PathChanges(p, s)
    \/ \E d \in Disks : DriveAges(d)

-----------------------------------------------------------------------------

\* An array that lost two or more members, which are gone from the host, and
\* shows nothing else: raidhealth.go:192 compares degraded with "1" only.
SilentLoss ==
    /\ \A m \in RaidDevs : members[m] \in {"in_sync", "removed"}
    /\ Cardinality({m \in RaidDevs : members[m] = "removed"}) >= 2 /\ ~mismatch

\* What the status of each storage tool says of the data it could read, with
\* the exceptions of the code: an array is ok exactly if nothing is wrong with
\* it or if two members are gone (the help of raidhealth.go:90 promises to
\* flag it); a command that fails leaves its errors out of the status; the
\* status of get_nvme_smart_log says only that drives could be asked, what
\* ails them is in the counters and the drives of its answer; a map, a pool, a
\* drive or a file system with trouble in what was read is not ok
\* (raidhealth.go 185-223, zfsstatus.go 142-208, multipathstatus.go 131-248,
\* smarthealth.go 168-236, nvmesmartlog.go 82-206, filesystemerrors.go 182-238).
TroubleIsReported ==
    /\ RaidHealth = "ok" <=> SilentLoss \/ (~mismatch /\ \A m \in RaidDevs : members[m] = "in_sync")
    /\ ZfsStatus = "ok" => pool.online /\ pool.capacity <= 90 /\ (pool.errors = 0 \/ ~Works("zpool status"))
    /\ MultipathStatus = "ok" <=> \A p \in Paths : pathState[p] = "running"
    /\ MultipathStatus = "error" <=> Paths # {} /\ \A p \in Paths : pathState[p] # "running"
    /\ SmartHealth = "ok" => \/ \A d \in Disks : ~applyHealthRules(d)
                             \/ Audited = {}
    /\ (\E d \in Disks : ~sata[d].passed) /\ Audited = Disks => SmartHealth = "error"
    /\ LET n == NvmeSmartLog
           answered == "json" \in {NvmeReads[1], NvmeReads[2]}
       IN /\ n.status = "ok" /\ n.drives # Disks => ~answered
          /\ answered /\ n.status = "ok" =>
               /\ n.critical = Cardinality({d \in Disks : nvme[d].critical > 0})
               /\ n.media <=> \E d \in Disks : nvme[d].media > 0
    /\ FilesystemErrors.status = "ok" =>
         /\ ~ext4.ro /\ (ext4.errors = 0 \/ ~Works("errors_count"))
         /\ btrfsErrs = 0 \/ ~Works("btrfs binary") \/ ~Works("btrfs stats")
=============================================================================
