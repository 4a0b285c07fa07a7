---------------------------- MODULE Configuration ----------------------------
(***************************************************************************)
(* mesh.toml and what a node makes of it: internal/config, the import of   *)
(* an Exascaler file (internal/mesh/import_exa.go), the search for a       *)
(* configuration and the name of the node (initEnv in cli.go), and the     *)
(* copy without credentials that an installation leaves on the host. An    *)
(* installation may be repeated and hosts restart. A host's name is also   *)
(* its key in mesh.toml, and $CORTEX_NODE_ID is not set.                   *)
(***************************************************************************)
EXTENDS Integers, Sequences, FiniteSets, Functions

CONSTANTS
    GatewayConfigs, \* files of the gateway: [id, port, hosts, groups, creds]; hosts maps a name
                    \* to [port, addrs], addrs a sequence of [ip, port], port 0 if it has none;
                    \* creds is a sequence of [pattern, kind, readable]
    ExaFiles,       \* [mgt, fs, hosts]: fs maps a name to [mdt, ost], hosts to [sfa, ips]
    FleetMembers,   \* hosts that are installed
    DefaultPort,    \* 4443
    MaxInstalls     \* bound

\* What Load decodes: the file is one record, its credentials a list.
IsFile(f) ==
    /\ f = [id |-> f.id, port |-> f.port, hosts |-> f.hosts, groups |-> f.groups, creds |-> f.creds]
    /\ Len(f.creds) \in Nat /\ DOMAIN f.creds = 1..Len(f.creds)

ASSUME ConfigurationAssumption ==
    /\ MaxInstalls \in Nat /\ DefaultPort \in Nat \ {0}
    /\ \A f \in GatewayConfigs : IsFile(f)

VARIABLES
    gatewayFile,  \* mesh.toml of the gateway
    vaultEntries, \* patterns in its vault
    nodeFile,     \* host -> the mesh.toml that was left on it
    identity,     \* host -> [name, cert] of identity.json
    daemon,       \* host -> [mesh, label]: the name it has in the mesh and on its results
    installs

configVars == <<gatewayFile, vaultEntries, nodeFile, identity, daemon, installs>>

NoCreds == << >>
NoFile == [id |-> "", port |-> DefaultPort, hosts |-> << >>, groups |-> << >>, creds |-> NoCreds]
WithKey(f, k, v) == [x \in DOMAIN f \cup {k} |-> IF x = k THEN v ELSE f[x]]

-----------------------------------------------------------------------------
\* Load starts from Default, so a port left out of the file is the default one.
Load(file) == [file EXCEPT !.port = IF @ = 0 THEN DefaultPort ELSE @]

GetMeshPort(host, default) == IF host.port > 0 THEN host.port ELSE default

\* An address without a port gets the host's, or the node's.
KnownHosts(cfg) ==
    [h \in DOMAIN cfg.hosts |->
        [n \in DOMAIN cfg.hosts[h].addrs |->
            LET a == cfg.hosts[h].addrs[n]
            IN [a EXCEPT !.port = IF @ = 0 THEN GetMeshPort(cfg.hosts[h], cfg.port) ELSE @]]]

\* entryToCredential fails on an unknown kind and on a file it cannot read;
\* LoadCredentials stops at the first entry that fails, initVault goes on.
entryToCredential(e) == e.kind = "ssh_password" \/ (e.kind \in {"ssh_key", "tls_cert"} /\ e.readable)
LoadCredentials(cfg) ==
    {cfg.creds[n].pattern : n \in {k \in DOMAIN cfg.creds :
        \A j \in 1..k : entryToCredential(cfg.creds[j])}}

Stripped(cfg) == [cfg EXCEPT !.creds = NoCreds]

\* convertExascalerToml: the hosts that have an address, a group for each role
\* of each file system, for each role and for each SFA.
ExaGroups(exa) ==
    LET fsGroup(r) == {[name |-> <<f, r>>, of |-> exa.fs[f][r]] : f \in DOMAIN exa.fs}
        all(r) == [name |-> <<r>>, of |-> UNION {exa.fs[f][r] : f \in DOMAIN exa.fs}]
        sfa(s) == [name |-> <<"sfa", s>>, of |-> {h \in DOMAIN exa.hosts : exa.hosts[h].sfa = s}]
        groups == {[name |-> <<"mgt">>, of |-> exa.mgt]} \cup fsGroup("mdt") \cup fsGroup("ost")
                  \cup {all("mdt"), all("ost")}
                  \cup {sfa(exa.hosts[h].sfa) : h \in {x \in DOMAIN exa.hosts : exa.hosts[x].sfa # ""}}
    IN {g \in groups : g.of # {}}
convertExascalerToml(exa) ==
    [id |-> "", port |-> 0, creds |-> NoCreds,
     hosts |-> [h \in {x \in DOMAIN exa.hosts : exa.hosts[x].ips # << >>} |->
                  [port |-> 0, addrs |-> exa.hosts[h].ips]],
     groups |-> [n \in {g.name : g \in ExaGroups(exa)} |->
                   (CHOOSE g \in ExaGroups(exa) : g.name = n).of]]

\* loadConfig finds the file an installation left; initEnv takes the node's
\* name from it, else the host name.
loadConfig(h) == IF h \in DOMAIN nodeFile THEN Load(nodeFile[h]) ELSE NoFile
initEnv(h) == IF loadConfig(h).id # "" THEN loadConfig(h).id ELSE h

-----------------------------------------------------------------------------
ConfigInit ==
    /\ gatewayFile \in GatewayConfigs
    /\ vaultEntries = {} /\ nodeFile = << >> /\ identity = << >> /\ daemon = << >>
    /\ installs = 0

ImportExa(exa) ==
    /\ installs = 0 /\ gatewayFile' = convertExascalerToml(exa)
    /\ UNCHANGED <<vaultEntries, nodeFile, identity, daemon, installs>>

initVault ==
    /\ vaultEntries' = LoadCredentials(gatewayFile)
    /\ UNCHANGED <<gatewayFile, nodeFile, identity, daemon, installs>>

\* The gateway sends the stripped configuration and a certificate in the host's
\* name; the process on the host saves them under the name initEnv gave it.
Install(h) ==
    /\ installs < MaxInstalls /\ installs' = installs + 1
    /\ h \in DOMAIN gatewayFile.hosts
    /\ nodeFile' = WithKey(nodeFile, h, Stripped(Load(gatewayFile)))
    /\ identity' = WithKey(identity, h, [name |-> initEnv(h), cert |-> h])
    /\ daemon' = Restrict(daemon, DOMAIN daemon \ {h})
    /\ UNCHANGED <<gatewayFile, vaultEntries>>

\* The service starts: the plugin registry has the name of initEnv, the mesh
\* node the one of the identity file.
Boot(h) ==
    /\ h \in DOMAIN identity
    /\ daemon' = WithKey(daemon, h, [mesh |-> identity[h].name, label |-> initEnv(h)])
    /\ UNCHANGED <<gatewayFile, vaultEntries, nodeFile, identity, installs>>

ConfigNext ==
    \/ \E exa \in ExaFiles : ImportExa(exa)
    \/ initVault
    \/ \E h \in FleetMembers : Install(h) \/ Boot(h)

-----------------------------------------------------------------------------
\* A node is left with the addresses, groups and ports the gateway dials with
\* itself and with no credential, whether the gateway's file was written by
\* hand or imported; the vault holds a prefix of the credentials and, if none
\* is bad, all of them; every host an imported role group names can be dialled
\* if the Exascaler file has an address for it (config.go 103-253,
\* import_exa.go 51-142).
NodesGetTheConfiguration ==
    /\ \A h \in DOMAIN nodeFile :
         /\ KnownHosts(Load(nodeFile[h])) = KnownHosts(Load(gatewayFile))
         /\ nodeFile[h].groups = gatewayFile.groups
         /\ nodeFile[h].creds = NoCreds
    /\ (\A n \in DOMAIN gatewayFile.creds : entryToCredential(gatewayFile.creds[n]))
         /\ vaultEntries # {} /\ gatewayFile.creds # NoCreds
         => vaultEntries = {gatewayFile.creds[n].pattern : n \in DOMAIN gatewayFile.creds}
    /\ \A exa \in ExaFiles :
         LET cfg == convertExascalerToml(exa)
         IN \A n \in DOMAIN cfg.groups : \A h \in cfg.groups[n] :
              h \in DOMAIN exa.hosts => (h \in DOMAIN cfg.hosts <=> exa.hosts[h].ips # << >>)

-----------------------------------------------------------------------------
(***************************************************************************)
(* The site's certificate authority: a file that every command of the CLI  *)
(* loads or, failing that, creates, and the identities it has signed.      *)
(*                                                                         *)
(* A file is 0 (absent), Torn (a write was interrupted) or the number of   *)
(* the authority in it. Commands run one after the other on the operator's *)
(* machine; each may be killed between any two steps, also while it        *)
(* writes. A file may fail to be read or written, and the command goes on  *)
(* regardless. The cryptography is external: a certificate is the number   *)
(* of the authority that signed it.                                        *)
(***************************************************************************)

CONSTANTS MaxCAs,        \* bound: authorities generated
          MaxInvocations \* bound: commands given

ASSUME MeshCAAssumption == MaxCAs \in Nat \ {0} /\ MaxInvocations \in Nat

VARIABLES
    caFile,      \* mesh_ca.json
    legacyFile,  \* gateway_ca.json of earlier releases
    command,     \* the command that runs: "none", "gateway", "generate",
                 \* "force", "issue" or "show"
    step,        \* where it is in loadOrGeneratePKI
    memory,      \* the authority it holds, 0 if none yet
    isNew,       \* it has generated that authority itself
    signed,      \* the authorities that signed the identities of the fleet
    lastCA,      \* the last authority generated
    lostCAs,     \* authorities that could not be saved, or be read again
    forced,      \* the operator has replaced the authority on purpose
    invocations

caVars == <<caFile, legacyFile, command, step, memory, isNew, signed, lastCA,
            lostCAs, forced, invocations>>

Torn == 0 - 1
Commands == {"gateway", "generate", "force", "issue", "show"}

\* A first start, or a site whose authority was made by an earlier release.
CAInit ==
    /\ caFile = 0
    /\ \/ legacyFile = 0 /\ signed = {} /\ lastCA = 0
       \/ legacyFile = 1 /\ signed = {1} /\ lastCA = 1
    /\ command = "none" /\ step = "idle" /\ memory = 0 /\ isNew = FALSE
    /\ lostCAs = {} /\ forced = FALSE /\ invocations = 0

\* "pki generate" refuses while a file is there, readable or not; with --force
\* it removes both files first.
Invoke(c) ==
    /\ command = "none" /\ invocations < MaxInvocations
    /\ invocations' = invocations + 1
    /\ IF c = "generate" /\ (caFile # 0 \/ legacyFile # 0)
       THEN UNCHANGED <<caFile, legacyFile, command, step, forced>>
       ELSE /\ command' = c /\ step' = "load"
            /\ IF c = "force"
               THEN caFile' = 0 /\ legacyFile' = 0 /\ forced' = TRUE
               ELSE UNCHANGED <<caFile, legacyFile, forced>>
    /\ memory' = 0 /\ isNew' = FALSE
    /\ UNCHANGED <<signed, lastCA, lostCAs>>

\* What there is to read: the file, or the legacy file if the first is absent.
Read == IF caFile # 0 THEN caFile ELSE legacyFile

\* The first file may fail to be read, and then the legacy file: whatever the
\* error is, it is taken as if the file was absent.
loadOrGeneratePKI ==
    /\ step = "load"
    /\ \E got \in {Read, legacyFile, 0} :
       /\ lostCAs' = IF got = Read THEN lostCAs ELSE lostCAs \cup {caFile, legacyFile}
       /\ IF got > 0
          THEN /\ memory' = got /\ step' = "ready" /\ UNCHANGED <<isNew, lastCA>>
          ELSE /\ lastCA < MaxCAs
               /\ lastCA' = lastCA + 1
               /\ memory' = lastCA' /\ isNew' = TRUE /\ step' = "write"
    /\ UNCHANGED <<caFile, legacyFile, command, signed, forced, invocations>>

\* The new authority is saved: the file is truncated, then written. If either
\* fails, the command has the authority only in memory and does not tell.
SaveBegin ==
    /\ step = "write"
    /\ \/ caFile' = Torn /\ step' = "writing" /\ UNCHANGED lostCAs
       \/ step' = "ready" /\ lostCAs' = lostCAs \cup {memory} /\ UNCHANGED caFile
    /\ UNCHANGED <<legacyFile, command, memory, isNew, signed, lastCA, forced, invocations>>

SaveEnd ==
    /\ step = "writing"
    /\ step' = "ready"
    /\ \/ caFile' = memory /\ UNCHANGED lostCAs
       \/ lostCAs' = lostCAs \cup {memory} /\ UNCHANGED caFile
    /\ UNCHANGED <<legacyFile, command, memory, isNew, signed, lastCA, forced, invocations>>

\* A gateway deploys nodes with identities of the authority it holds; "pki
\* issue" writes one, but not with an authority it has just created.
generateNodeBundle ==
    /\ step = "ready"
    /\ command = "gateway" \/ (command = "issue" /\ ~isNew)
    /\ signed' = signed \cup {memory}
    /\ UNCHANGED <<caFile, legacyFile, command, step, memory, isNew, lastCA, lostCAs, forced, invocations>>

\* The command ends, or is killed wherever it is.
Finish ==
    /\ command # "none"
    /\ command' = "none" /\ step' = "idle" /\ memory' = 0 /\ isNew' = FALSE
    /\ UNCHANGED <<caFile, legacyFile, signed, lastCA, lostCAs, forced, invocations>>

CANext ==
    \/ \E c \in Commands : Invoke(c)
    \/ loadOrGeneratePKI \/ SaveBegin \/ SaveEnd \/ generateNodeBundle \/ Finish

-----------------------------------------------------------------------------
\* The identities of the fleet stay valid: the authority a command works with
\* is the one that signed every identity in use, although a damaged file makes
\* loadOrGeneratePKI create another authority without asking
\* (pki_persistence.go 44-103). Excepted are the identities of an authority that
\* could not be saved or read again: the code ignores those errors, signs with
\* the authority it has in memory, and the next command makes another; and
\* everything after the operator forced a new authority.
IdentitiesStayValid ==
    step = "ready" /\ ~forced => signed \ lostCAs \subseteq {memory}
=============================================================================
