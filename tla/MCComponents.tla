---------------------------- MODULE MCComponents ----------------------------
(* The tables, connections, credentials and start of a node, for TLC. They    *)
(* share no state here (GossipMesh, Sonar and RelayCircuit compose the ones   *)
(* that meet on the network): a behaviour is about one of them, which focus   *)
(* names, so that the state spaces add up instead of multiplying.             *)
EXTENDS CapabilityIndex, GradientTable, Connections, CredentialDelegation,
        Nucleus, NodeStart, TLC

CONSTANTS Focuses, n1, n2, tool_a, tool_b, role_a, huge, tool, role, self, peer_a, peer_b
VARIABLE focus

(* CapabilityIndex: two namespaces, one capability over the length limit. *)
MCNamespaceOf == tool_a :> tool @@ tool_b :> tool @@ role_a :> role @@ huge :> role
MCCapLists == {<<huge>>, <<tool_a>>, <<tool_a, tool_b>>, <<tool_a, role_a, tool_b>>,
               <<huge, role_a>>, <<tool_a, tool_a>>}

(* GradientTable: two neighbours that are also targets; a budget for one     *)
(* route and one for two.                                                    *)
MCRank == self :> 1 @@ peer_a :> 2 @@ peer_b :> 3

(* Membrane: a peer that reconnects, certificates that live too long, without *)
(* a name or without the server's usage.                                     *)
Cert(cn, l, u) == [cn |-> cn, lifetime |-> l, chain |-> TRUE, usage |-> u]
MCDialCert == 1 :> Cert("p", 1, {"client", "server"}) @@ 2 :> Cert("p", 1, {"client", "server"})
           @@ 3 :> Cert("q", 1, {"client"}) @@ 4 :> Cert("q", 2, {"client"}) @@ 5 :> Cert("", 1, {"client"})

(* CredentialDelegation: an exact pattern, a wildcard and one that does not   *)
(* parse.                                                                    *)
Pt(n, h, l, w, bad) == [name |-> n, hosts |-> h, length |-> l, wildcards |-> w, bracket |-> bad, bad |-> bad]
MCPatterns == {Pt("h1", {"h1"}, 2, 0, FALSE), Pt("*", {"h1", "h2"}, 1, 1, FALSE), Pt("h[2", {"h2"}, 3, 0, TRUE)}
MCHostOf == "c1" :> "h1" @@ "c2" :> "h2"
MCOffsets == {0 - 2, 0, 1, 3}

(* Nucleus: loads the collectors can report, bad ones included. *)
MCLoads == {0 - 5, 0, 50, 100, 250}

(* Reconciler: a host behind a proxy and one with two addresses. *)
MCRouteOf == "h1" :> [addresses |-> 1, proxies |-> 1, gossiped |-> 0, credential |-> TRUE]
          @@ "h2" :> [addresses |-> 2, proxies |-> 0, gossiped |-> 0, credential |-> FALSE]

(* Configuration: ports on the address, the host and the node; credentials    *)
(* that fail to load in the middle of the list; an Exascaler file.           *)
Ad(ip, port) == [ip |-> ip, port |-> port]
Cr(pattern, kind, readable) == [pattern |-> pattern, kind |-> kind, readable |-> readable]
MCConfigHosts == "h1" :> [port |-> 0, addrs |-> <<Ad("a", 0), Ad("b", 7)>>]
              @@ "h2" :> [port |-> 9, addrs |-> <<Ad("c", 0)>>]
MCConfigs ==
    [id : {"", "gw"}, port : {0, 5}, hosts : {MCConfigHosts}, groups : {"g" :> {"h1"}},
     creds : {<<Cr("h1", "ssh_key", r), Cr("*", "ssh_password", FALSE)>> : r \in BOOLEAN}
             \cup {<<Cr("h1", "telnet", TRUE)>>}]
MCExaFiles ==
    {[mgt |-> {"h1"},
      fs |-> "x" :> [mdt |-> {"h1"}, ost |-> {"h2", "h3"}] @@ "y" :> [mdt |-> {"h2"}, ost |-> {}],
      hosts |-> "h1" :> [sfa |-> "s", ips |-> <<Ad("a", 0)>>] @@ "h2" :> [sfa |-> "s", ips |-> <<Ad("c", 0)>>]
             @@ "h3" :> [sfa |-> "", ips |-> << >>]]}

(* NodeStart: daemons and a stdio node that take the host over from each      *)
(* other, a bridge beside a gateway, and the commands of a gateway.          *)
MCStarts == 1 :> "daemon" @@ 2 :> "stdio" @@ 3 :> "daemon" @@ 4 :> "bridge" @@ 5 :> "gateway"
         @@ 6 :> "gateway-install" @@ 7 :> "gateway-stop" @@ 8 :> "gateway-local" @@ 9 :> "gateway-client"
MCStartGroups == {{1, 2, 3}, {4, 5}, {6, 7}, {8, 9}}
MCTargetOf == [p \in 1..9 |-> "h1"]

-----------------------------------------------------------------------------
(* A component that the behaviour is not about starts in one state only.     *)
ComponentsInit ==
    /\ focus \in Focuses
    /\ focus # "configuration" => gatewayFile = NoFile
    /\ focus # "start" => startState = [p \in Processes |-> "absent"]
    /\ focus # "ca" => legacyFile = 0
    /\ focus # "credentials" => offset = [p \in Peers |-> 0]
    /\ Init /\ GradientInit /\ FrameInit /\ MembraneInit /\ ConnInit /\ CredInit
    /\ NucleusInit /\ ReconcilerInit /\ CAInit
    /\ IF focus = "configuration" THEN ConfigInit
       ELSE vaultEntries = {} /\ nodeFile = << >> /\ identity = << >> /\ daemon = << >> /\ installs = 0
    /\ IF focus = "start" THEN StartInit
       ELSE /\ todo = << >> /\ lockedBy = 0 /\ victim = << >> /\ hasTools = {} /\ reachable = {}
            /\ firstView = << >> /\ installedOn = {} /\ stoppedOn = {} /\ tooSoon = FALSE
            /\ failures = 0 /\ stops = 0

componentsVars ==
    <<focus, vars, gradientVars, frameVars, membraneVars, connVars, credVars, nucleusVars,
      reconcilerVars, caVars, configVars, startVars>>

(* Membrane and Nucleus have parts that do not meet. *)
MembraneNext ==
    \/ focus = "pairing" /\ PairNext
    \/ focus = "listener" /\ ListenerNext
    \/ focus = "zstd" /\ ZstdNext
KnowledgeNext ==
    \/ focus = "resolver" /\ ResolverNext
    \/ focus = "impedance" /\ ImpedanceNext

ComponentsNext ==
    /\ focus' = focus
    /\ IF focus = "capability" THEN Next ELSE UNCHANGED vars
    /\ IF focus = "gradient" THEN GradientNext ELSE UNCHANGED gradientVars
    /\ IF focus = "frames" THEN FrameNext ELSE UNCHANGED frameVars
    /\ IF focus \in {"pairing", "listener", "zstd"} THEN MembraneNext ELSE UNCHANGED membraneVars
    /\ IF focus = "connections" THEN ConnNext ELSE UNCHANGED connVars
    /\ IF focus = "credentials" THEN CredNext ELSE UNCHANGED credVars
    /\ IF focus \in {"resolver", "impedance"} THEN KnowledgeNext ELSE UNCHANGED nucleusVars
    /\ IF focus = "reconciler" THEN ReconcilerNext ELSE UNCHANGED reconcilerVars
    /\ IF focus = "ca" THEN CANext ELSE UNCHANGED caVars
    /\ IF focus = "configuration" THEN ConfigNext ELSE UNCHANGED configVars
    /\ IF focus = "start" THEN StartNext ELSE UNCHANGED startVars

ComponentsSpec == ComponentsInit /\ [][ComponentsNext]_componentsVars

(* While no credential is asked for, nothing CredFairness names is enabled.  *)
FairComponentsSpec == ComponentsSpec /\ CredFairness

=============================================================================
