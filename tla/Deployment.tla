----------------------------- MODULE Deployment -----------------------------
(***************************************************************************)
(* Installing, upgrading and removing the program on one host.             *)
(*                                                                         *)
(* Three parties touch the host: the operator's CLI (install, uninstall,   *)
(* start and stop over SSH or the mesh), a gateway that upgrades outdated  *)
(* nodes by itself, and the host's own service manager. What they do on    *)
(* the host is a list of lifecycle operations that is executed one by one  *)
(* and abandoned at the first failure; the host may crash between any two, *)
(* and between the two halves of a file write. The lists of different      *)
(* parties interleave and share the ".tmp" file and the update file.       *)
(*                                                                         *)
(* A file with a binary is 0 (no file), its version, or one of four kinds  *)
(* of damage, each named for its cause. /opt/cortex-mcp holds the binary,  *)
(* its ".tmp" sibling and the identity; systemd keeps the unit file, what  *)
(* it has loaded of it, and whether it is enabled. Nothing is synced: a    *)
(* crash may take what the kernel has not written back. systemd, SSH, SFTP *)
(* and the file system are external.                                       *)
(***************************************************************************)
EXTENDS Integers, Sequences, FiniteSets

CONSTANTS
    Scenarios,       \* who is active: a subset of {"operator", "gateway", "both"}
    OwnVersion,      \* the version of the CLI and of the gateway
    UploadChunks,    \* the pieces of a binary on a mesh stream
    \* Bounds, per scenario, for model checking:
    MaxCrashes,      \* crashes of the host
    MaxUploads,      \* uploads over the mesh
    MaxUploadFaults, \* faults while a binary is uploaded
    MaxCommands      \* commands the operator gives

ASSUME DeploymentAssumption ==
    /\ Scenarios \subseteq {"operator", "gateway", "both"} /\ Scenarios # {}
    /\ OwnVersion \in Nat \ {0} /\ UploadChunks \in Nat \ {0}
    /\ {MaxCrashes, MaxUploads, MaxUploadFaults, MaxCommands} \subseteq [Scenarios -> Nat]

VARIABLES
    scenario,   \* who is active in this behaviour
    bin,        \* /opt/cortex-mcp/bin/cortex-mcp
    tmp,        \* the same path with ".tmp"
    update,     \* /tmp/cortex-mcp.update
    ident,      \* /opt/cortex-mcp/etc/identity.json: "none", "torn" or "ok"
    unit,       \* the unit file exists
    loaded,     \* systemd has loaded the unit
    enabled,    \* the unit starts at boot
    starting,   \* a queued (re)start
    proc,       \* the version that runs, 0 if none
    cached,     \* of "bin", "ident" and "unit", what was written since the boot
    jobs,       \* per kind of job, the operations that are left
    copied,     \* per kind of job, what its copy has read into memory
    file,       \* per kind of job, where the file it writes to is by now
    hole,       \* another job has truncated the file of the SFTP upload
    cli,        \* the operator's last install
    overlap,    \* a command was given while a scheduled one was under way
    upload,     \* the gateway's upload: its step, chunks sent and received
    spoiled,    \* an upload was cut off, or began before the last was copied
    commands, crashes, uploads, uploadFaults

hostVars == <<bin, tmp, update, ident, unit, loaded, enabled, starting, proc, cached>>
jobVars == <<jobs, copied, file, hole>>
cliVars == <<cli, overlap, commands>>
uploadVars == <<upload, spoiled, uploads, uploadFaults>>
deployVars == <<scenario, hostVars, jobVars, cliVars, uploadVars, crashes>>

Cut == 0 - 1     \* one job is writing it, or was when it was interrupted
Short == 0 - 2   \* what an upload over the mesh had brought when it was read
Mixed == 0 - 3   \* two jobs have opened it and not both written it
Lost == 0 - 4    \* what a crash left of a file that was never synced

\* A gateway that connects again may have two upgrades scheduled on a node.
Upgrades == {"upgrade", "upgrade_again"}
Kinds == {"install", "ssh_upgrade", "uninstall", "service"} \union Upgrades
NoUpload == [step |-> "idle", sent |-> 0, got |-> 0, open |-> FALSE, eof |-> FALSE]

-----------------------------------------------------------------------------
\* The lists of operations. A copy reads its source, truncates the ".tmp" file,
\* writes it in one call and renames it. Reading the update file has a
\* beginning and an end, as the next upload may truncate it in between.
CopyOps_EarlyRename(src) == <<src, "tmp_begin", "rename", "tmp_end">>
CopyOps(src) == <<src, "tmp_begin", "tmp_end", "rename">>
SelfInstallOps_NoRestart == CopyOps("read_own") \o
                            <<"write_unit", "daemon-reload", "enable">>
SelfInstallOps == CopyOps("read_own") \o
                  <<"write_unit", "daemon-reload", "enable", "restart">>
nodeUpgradeOps == <<"read_update">> \o CopyOps("read_end") \o
                  <<"daemon-reload", "restart">>
DetachedUninstallOps ==
    <<"stop", "disable", "remove_unit", "daemon-reload", "kill", "remove_opt">>
\* What a deployed process does in install mode, and the SSH upgrade: upload
\* to ".tmp", move it over the binary, run "local-op install" with it.
InstallModeOps ==
    <<"ident_begin", "ident_end", "save_config">> \o SelfInstallOps \o <<"ack">>
upgradeRemoteNode ==
    <<"sftp_begin", "sftp_end", "mv">> \o SelfInstallOps \o <<"reconnect">>

DeployInit ==
    /\ scenario \in Scenarios
    /\ update = 0 /\ tmp = 0 /\ starting = FALSE
    /\ \/ /\ scenario = "operator" /\ bin = 0 /\ proc = 0 /\ ident = "none"
          /\ unit = FALSE /\ loaded = FALSE /\ enabled = FALSE
       \/ \* the previous version is installed and runs
          /\ bin = OwnVersion - 1 /\ proc = bin /\ bin # 0 /\ ident = "ok"
          /\ unit = TRUE /\ loaded = TRUE /\ enabled = TRUE
    /\ jobs = [k \in Kinds |-> <<>>] /\ copied = [k \in Kinds |-> 0]
    /\ file = [k \in Kinds |-> "none"] /\ hole = FALSE /\ cached = {}
    /\ cli = "idle" /\ overlap = FALSE /\ upload = NoUpload /\ spoiled = FALSE
    /\ commands = 0 /\ crashes = 0 /\ uploads = 0 /\ uploadFaults = 0

Busy(k) == jobs[k] # <<>>
At(k, ops) == Busy(k) /\ Head(jobs[k]) \in ops

-----------------------------------------------------------------------------
\* One operation of a job: whether it succeeds, and what it changes.
Succeeds(k, op) ==
    /\ op \in {"stop", "restart"} => loaded
    /\ op \in {"disable", "remove_unit", "enable"} => unit
    /\ op = "read_update" => update # 0
    /\ op = "read_own" /\ k = "ssh_upgrade" => bin > 0
    /\ op \in {"rename", "mv"} => tmp # 0
    /\ op = "reconnect" => proc # 0

\* What copy_binary reads is the running executable: the uploaded file of the
\* deployer, or for an SSH upgrade the binary that was just moved in place.
ReadBy(k, op) == IF op = "read_update" THEN update
                 ELSE IF k = "ssh_upgrade" THEN bin ELSE OwnVersion
InMemory(k, op) == IF op \in {"read_update", "read_own"} THEN ReadBy(k, op)
                   ELSE IF op \in {"read_end", "tmp_begin"} THEN copied[k] ELSE 0

\* A job between truncating the ".tmp" file and renaming it.
Replaces(k) == At(k, {"tmp_end", "rename", "sftp_end", "mv"})

\* Truncating it while another job is at that leaves a file that belongs to
\* both until one of them has written all of it.
Truncated(k) == IF \E j \in Kinds \ {k} : Replaces(j) THEN Mixed ELSE Cut

\* What a file holds after a job's write. A copy writes from the start, over
\* what another job has put there; SFTP goes on where it was.
Written(k, op, old) ==
    IF op = "tmp_end" THEN IF old = OwnVersion THEN old ELSE copied[k]
    ELSE IF hole /\ old # OwnVersion THEN Mixed ELSE OwnVersion

\* A job writes to the file it has opened, which others may rename or replace.
WritesTo(k, op, f) == op \in {"tmp_end", "sftp_end"} /\ file[k] = f
Moved == [none |-> "none", tmp |-> "bin", bin |-> "gone", gone |-> "gone"]
FileAfter(k, op, j) ==
    IF j = k THEN IF op \in {"tmp_begin", "sftp_begin"} THEN "tmp" ELSE "none"
    ELSE IF op \in {"rename", "mv"} THEN Moved[file[j]]
    ELSE IF op = "remove_opt" /\ file[j] # "none" THEN "gone" ELSE file[j]

\* With the daemon end its goroutines and an upload that it receives, whose
\* sender takes the end of the stream for success if it has sent everything.
DaemonEnds(op) == op \in {"stop", "kill"}
Dies(op, j) == DaemonEnds(op) /\ j \in Upgrades
UploadCut == [upload EXCEPT !.open = FALSE,
                            !.step = IF upload.open /\ @ = "sending" THEN "gave_up" ELSE @]

Effect(k, op) ==
    /\ bin' = IF op \in {"rename", "mv"} THEN tmp ELSE IF op = "remove_opt" THEN 0
              ELSE IF WritesTo(k, op, "bin") THEN Written(k, op, bin) ELSE bin
    /\ tmp' = IF op \in {"tmp_begin", "sftp_begin"} THEN Truncated(k)
              ELSE IF WritesTo(k, op, "tmp") THEN Written(k, op, tmp)
              ELSE IF op \in {"rename", "mv", "remove_opt"} THEN 0 ELSE tmp
    /\ copied' = [j \in Kinds |-> IF Dies(op, j) THEN 0 ELSE IF j = k THEN InMemory(k, op)
                                  ELSE copied[j]]
    /\ hole' = IF op \in {"sftp_begin", "sftp_end"} THEN FALSE
               ELSE (hole \/ (/\ op = "tmp_begin" /\ k # "ssh_upgrade"
                              /\ At("ssh_upgrade", {"sftp_end"}) /\ file["ssh_upgrade"] = "tmp"))
    /\ ident' = IF op = "ident_begin" THEN "torn" ELSE IF op = "ident_end" THEN "ok"
                ELSE IF op = "remove_opt" THEN "none" ELSE ident
    /\ unit' = (op = "write_unit" \/ (unit /\ op # "remove_unit"))
    /\ loaded' = IF op = "daemon-reload" THEN unit ELSE loaded
    /\ enabled' = (op = "enable" \/ (enabled /\ op # "disable"))
    /\ proc' = IF DaemonEnds(op) THEN 0 ELSE proc
    /\ starting' = (op \in {"restart", "start"} \/ (starting /\ op # "stop"))
    /\ cached' = IF op \in {"rename", "mv"} \/ WritesTo(k, op, "bin") THEN cached \union {"bin"}
                 ELSE IF op = "ident_end" THEN cached \union {"ident"}
                 ELSE IF op = "write_unit" THEN cached \union {"unit"}
                 ELSE IF op = "remove_unit" THEN cached \ {"unit"}
                 ELSE IF op = "remove_opt" THEN cached \ {"bin", "ident"} ELSE cached
    /\ cli' = IF op \in {"ack", "reconnect"} THEN "acked" ELSE cli
    /\ upload' = IF DaemonEnds(op) THEN UploadCut ELSE upload
    /\ spoiled' = (spoiled \/ (DaemonEnds(op) /\ upload.open))
    /\ UNCHANGED update

\* The next operation of a job; a failure ends the job, and with it the CLI's
\* command. The job of node_upgrade is a goroutine of the running daemon.
ExecuteOp(k) ==
    /\ Busy(k)
    /\ LET op == Head(jobs[k])
       IN \/ /\ Succeeds(k, op)
             /\ Effect(k, op)
             /\ jobs' = [j \in Kinds |->
                    IF Dies(op, j) THEN <<>>
                    ELSE IF j = k THEN Tail(jobs[k]) ELSE jobs[j]]
             /\ file' = [j \in Kinds |->
                    IF Dies(op, j) THEN "none" ELSE FileAfter(k, op, j)]
          \/ /\ ~Succeeds(k, op)
             /\ jobs' = [jobs EXCEPT ![k] = <<>>]
             /\ file' = [file EXCEPT ![k] = "none"] /\ copied' = [copied EXCEPT ![k] = 0]
             /\ cli' = IF k \in {"install", "ssh_upgrade"} THEN "failed" ELSE cli
             /\ UNCHANGED <<hostVars, hole, upload, spoiled>>
    /\ UNCHANGED <<scenario, overlap, commands, crashes, uploads, uploadFaults>>

\* systemd executes the queued (re)start: the old process ends, and the new
\* one comes up if the binary is whole and its identity loads.
Runs == IF bin > 0 /\ ident = "ok" THEN bin ELSE 0

ServiceStarts ==
    /\ starting
    /\ starting' = FALSE
    /\ proc' = Runs
    /\ jobs' = [k \in Kinds |-> IF k \in Upgrades THEN <<>> ELSE jobs[k]]
    /\ file' = [k \in Kinds |-> IF k \in Upgrades THEN "none" ELSE file[k]]
    /\ copied' = [k \in Kinds |-> IF k \in Upgrades THEN 0 ELSE copied[k]]
    /\ upload' = UploadCut /\ spoiled' = (spoiled \/ upload.open)
    /\ UNCHANGED <<scenario, bin, tmp, update, ident, unit, loaded, enabled, cached,
                   hole, cliVars, crashes, uploads, uploadFaults>>

\* The host goes down and boots: every job dies where it is, and files that
\* the kernel has not written back, any of those written since the last boot,
\* come up empty. The ".tmp" and the update file are always truncated again
\* before they are used.
Crash ==
    /\ crashes < MaxCrashes[scenario]
    /\ crashes' = crashes + 1
    /\ \E lost \in SUBSET cached :
         /\ bin' = IF "bin" \in lost THEN Lost ELSE bin
         /\ ident' = IF "ident" \in lost THEN "torn" ELSE ident
         /\ unit' = (unit /\ "unit" \notin lost)
         /\ cli' = IF Busy("install") \/ Busy("ssh_upgrade") THEN "failed"
                   ELSE IF cli = "acked" /\ lost # {} THEN "lost" ELSE cli
    /\ cached' = {}
    /\ jobs' = [k \in Kinds |-> <<>>] /\ copied' = [k \in Kinds |-> 0]
    /\ file' = [k \in Kinds |-> "none"] /\ hole' = FALSE
    /\ loaded' = unit' /\ proc' = 0
    /\ starting' = (unit' /\ enabled)
    /\ upload' = NoUpload
    /\ UNCHANGED <<scenario, tmp, update, enabled, overlap, commands, spoiled,
                   uploads, uploadFaults>>

-----------------------------------------------------------------------------
\* The operator's commands. One command runs at a time; the uninstall over the
\* mesh returns as soon as the node has scheduled it.
Operator ==
    /\ scenario \in {"operator", "both"}
    /\ commands < MaxCommands[scenario]
    /\ commands' = commands + 1
    /\ ~Busy("install") /\ ~Busy("ssh_upgrade")
    /\ overlap' = (overlap \/ Busy("uninstall") \/ Busy("service"))
    /\ UNCHANGED <<scenario, hostVars, copied, file, hole, uploadVars, crashes>>

\* The paths of deployAndConnect: refuse a host that answers or has a working
\* binary, unless forced; replace its binary and keep its keys; or deploy.
deployAndConnect(force, regenerateKeys) ==
    /\ Operator
    /\ LET reachable == proc # 0
           deploy == IF reachable THEN force /\ regenerateKeys ELSE force \/ bin <= 0
           upgradeIt == reachable /\ force /\ ~regenerateKeys
       IN /\ jobs' = IF deploy THEN [jobs EXCEPT !["install"] = InstallModeOps]
                     ELSE IF upgradeIt THEN [jobs EXCEPT !["ssh_upgrade"] = upgradeRemoteNode]
                     ELSE jobs
          /\ cli' = IF deploy \/ upgradeIt THEN "running" ELSE "failed"

\* Over the mesh if the node answers, else over SSH; in both cases a process
\* of its own executes the operations.
uninstallFleet ==
    /\ Operator
    /\ ~Busy("uninstall")
    /\ jobs' = [jobs EXCEPT !["uninstall"] = DetachedUninstallOps]
    /\ cli' = "idle"

\* node_stop, node_restart and "start" over SSH.
Service(op) ==
    /\ Operator
    /\ ~Busy("service")
    /\ op = "start" \/ proc # 0
    /\ jobs' = [jobs EXCEPT !["service"] = <<op>>]
    /\ cli' = "idle"

-----------------------------------------------------------------------------
\* The gateway: compare versions, upload the own binary to the update file,
\* call node_upgrade.
GatewayStep ==
    /\ scenario \in {"gateway", "both"}
    /\ UNCHANGED <<scenario, bin, tmp, ident, unit, loaded, enabled, starting,
                   proc, cached, file, hole, cliVars, crashes>>

\* The receiver opens the update file and truncates it, also when an upgrade
\* that was scheduled before has not read all of it.
checkAndUpgradePeer ==
    /\ GatewayStep
    /\ upload.step = "idle" /\ proc # 0
    /\ OwnVersion > proc
    /\ uploads < MaxUploads[scenario] /\ uploads' = uploads + 1
    /\ update' = Short
    /\ upload' = [NoUpload EXCEPT !.step = "sending", !.open = TRUE]
    /\ copied' = [k \in Kinds |-> IF At(k, {"read_end"}) THEN Short ELSE copied[k]]
    /\ spoiled' = (spoiled \/ \E k \in Upgrades : At(k, {"read_update", "read_end"}))
    /\ UNCHANGED <<jobs, uploadFaults>>

SendChunk ==
    /\ GatewayStep
    /\ upload.step = "sending"
    /\ upload' = IF upload.sent < UploadChunks
                 THEN [upload EXCEPT !.sent = @ + 1]
                 ELSE [upload EXCEPT !.step = "waiting", !.eof = TRUE]
    /\ UNCHANGED <<update, copied, spoiled, jobs, uploads, uploadFaults>>

\* handleBinaryTransfer: a chunk goes to the file; at the end of the stream
\* the status byte is sent and the stream closed.
ReceiveChunk ==
    /\ GatewayStep
    /\ upload.open /\ upload.got < upload.sent
    /\ upload' = [upload EXCEPT !.got = @ + 1]
    /\ update' = IF upload.got + 1 = UploadChunks THEN OwnVersion ELSE Short
    /\ UNCHANGED <<jobs, copied, spoiled, uploads, uploadFaults>>

ReceiveEnd ==
    /\ GatewayStep
    /\ upload.open /\ upload.eof /\ upload.got = upload.sent
    /\ upload' = [upload EXCEPT !.open = FALSE]
    /\ UNCHANGED <<update, copied, spoiled, jobs, uploads, uploadFaults>>

\* DialUploadBinary returns: the status byte, or the end of the stream, which
\* it takes for success; or the read times out.
UploadReturns ==
    /\ GatewayStep
    /\ upload.step = "waiting"
    /\ \/ ~upload.open /\ upload' = [upload EXCEPT !.step = "uploaded"]
       \/ /\ upload.open /\ uploadFaults < MaxUploadFaults[scenario]
          /\ upload' = [upload EXCEPT !.step = "gave_up"]
    /\ spoiled' = (spoiled \/ upload.open)
    /\ uploadFaults' = IF upload.open THEN uploadFaults + 1 ELSE uploadFaults
    /\ UNCHANGED <<update, copied, jobs, uploads>>

\* The receiver cannot write (no space), or the stream is cut: it closes the
\* file and the stream without a status byte. A sender that is still writing
\* gets an error.
UploadBreaks ==
    /\ GatewayStep
    /\ upload.open /\ uploadFaults < MaxUploadFaults[scenario]
    /\ uploadFaults' = uploadFaults + 1
    /\ upload' = UploadCut /\ spoiled' = TRUE
    /\ UNCHANGED <<update, copied, jobs, uploads>>

\* node_upgrade: the operations are scheduled, the answer comes at once.
InvokeUpgrade ==
    /\ GatewayStep
    /\ upload.step = "uploaded" /\ proc # 0
    /\ \E k \in Upgrades : /\ ~Busy(k) /\ (k # "upgrade" => Busy("upgrade"))
                           /\ jobs' = [jobs EXCEPT ![k] = nodeUpgradeOps]
    /\ upload' = [NoUpload EXCEPT !.step = "done"]
    /\ UNCHANGED <<update, copied, spoiled, uploads, uploadFaults>>

\* The gateway's connection ends, because the node restarts or for a reason of
\* its own, and is made again: the next check begins, whatever is scheduled.
Reconnected ==
    /\ GatewayStep
    /\ upload.step \in {"done", "gave_up"} /\ ~upload.open /\ proc # 0
    /\ upload' = NoUpload
    /\ UNCHANGED <<update, copied, spoiled, jobs, uploads, uploadFaults>>

DeployNext ==
    \/ \E k \in Kinds : ExecuteOp(k)
    \/ ServiceStarts
    \/ Crash
    \/ \E force, regenerateKeys \in BOOLEAN : deployAndConnect(force, regenerateKeys)
    \/ uninstallFleet
    \/ \E op \in {"stop", "restart", "start"} : Service(op)
    \/ checkAndUpgradePeer
    \/ SendChunk \/ ReceiveChunk \/ ReceiveEnd
    \/ UploadReturns \/ UploadBreaks \/ InvokeUpgrade
    \/ Reconnected

\* The processes on the host are scheduled and systemd executes its jobs;
\* nobody promises that an operator gives a command.
DeployFairness ==
    /\ \A k \in Kinds : WF_deployVars(ExecuteOp(k))
    /\ WF_deployVars(ServiceStarts)

DeploySpec == DeployInit /\ [][DeployNext]_deployVars /\ DeployFairness

-----------------------------------------------------------------------------
\* Whatever is interrupted where, the installed binary is no file that one job
\* had begun to write: copies and SFTP uploads go to the ".tmp" file and are
\* renamed (ops.go 136-176, upgrade.go 101-111). What damages it is named. A
\* binary cut short takes an upload that ended early, which DialUploadBinary
\* takes for success (transfer.go 131-134), or one that began before the last
\* was copied; a mixed one takes a gateway and another writer of the ".tmp"
\* file at the same time; and nothing is synced, so that a crash may lose it.
InstalledBinaryIsWhole ==
    /\ bin # Cut
    /\ bin = Short => spoiled
    /\ bin = Mixed => scenario # "operator"
    /\ bin = Lost => crashes > 0

\* Once the installed node has acknowledged (cli.go 471) the host has the
\* CLI's binary, an enabled and loaded unit and an identity, and stays so,
\* unless the operator does something else or gave a command while the node
\* was still executing one that it had already reported as done, a crash takes
\* what was not synced, or an automatic upgrade that was under way installs
\* what it shares with another job or had read too early.
AckMeansInstalled ==
    cli = "acked" /\ ~overlap =>
        /\ bin = OwnVersion \/ (scenario # "operator" /\ bin \in {Short, Mixed})
        /\ ident = "ok" /\ unit /\ loaded /\ enabled

\* No crash, interrupted write or overlap leaves a partial binary where the
\* service would start it, but for the named causes, and an acknowledged
\* install is complete (ops.go, cli.go).
InstallsAreSound == InstalledBinaryIsWhole /\ AckMeansInstalled

\* An acknowledged install comes up: the CLI's version runs in the end,
\* although the acknowledgement is sent before the service has restarted and
\* the host may crash in between, unless the crash takes a file of it or an
\* automatic upgrade under way replaces the binary with a damaged one.
InstallTakesEffect ==
    (cli = "acked" /\ ~overlap) ~> (proc = OwnVersion \/ cli # "acked" \/ bin \in {Short, Mixed})
=============================================================================
