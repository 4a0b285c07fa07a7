------------------------------ MODULE Catalogue ------------------------------
(***************************************************************************)
(* Which tools exist, and who can run them: the plugin registry of every   *)
(* node (internal/registry), the mesh registry its supported tools are     *)
(* bridged to (pkg/mesh/tools), what the gateway lists and explains of     *)
(* them (internal/mcp/server.go, gateway/metatools.go), and the storage    *)
(* roles a node finds on itself (detect.go). All nodes are built from the  *)
(* same set of plugins; what a node supports depends on the node, and what *)
(* the gateway sees of it on gossip.                                       *)
(***************************************************************************)
EXTENDS Integers, Sequences, FiniteSets, SequencesExt

CONSTANTS
    Plugins,      \* name -> [category, hidden, needs]; needs is what a node must have
    MeshOnly,     \* tools every node registers by itself: name -> [category, hidden]
    Categories,   \* AllCategories, in order
    CatNodes,     \* nodes other than the gateway
    Features,     \* what a node may have
    MaxGossips    \* bound

ASSUME CatalogueAssumption ==
    /\ \A t \in DOMAIN Plugins : Plugins[t].category \in Range(Categories)
    /\ \A t \in DOMAIN Plugins : "generic" \notin Plugins[t].needs   \* no tool asks for its lack of roles
    /\ DOMAIN Plugins \cap DOMAIN MeshOnly = {}
    /\ Categories \in Seq(Range(Categories)) /\ "" \notin Range(Categories)
    /\ MaxGossips \in Nat

VARIABLES
    features,    \* node -> what it has
    registered,  \* node -> names in its mesh registry
    advertised,  \* node -> names the gateway knows of it through the topology
    localOnly,   \* the server has no topology and asks the gateway's own registry
    gossips

catalogueVars == <<features, registered, advertised, localOnly, gossips>>

Gateway == "gateway"
AllNodes == CatNodes \cup {Gateway}
KnownTools == [t \in DOMAIN Plugins \cup DOMAIN MeshOnly |->
             IF t \in DOMAIN Plugins THEN Plugins[t] ELSE MeshOnly[t]]

-----------------------------------------------------------------------------
\* DetectNodeRoles: a role for each kind of target the node has.
Roles(n) == LET found == features[n] \cap {"sfa", "mgs", "mds", "oss", "client"}
            IN IF found = {} THEN {"generic"} ELSE found

\* NewPluginRegistryFrom asks every plugin whether the node supports it; allMap
\* keeps all, supportedMap those that say yes.
Supported(n) == {t \in DOMAIN Plugins : Plugins[t].needs \subseteq features[n] \cup Roles(n)}
GetAnyTool(t) == t \in DOMAIN Plugins

\* BridgeToMesh and registerNodeTools.
BridgeToMesh(n) == Supported(n) \cup DOMAIN MeshOnly

\* ParseCategory ignores the case of its argument; a category is written here
\* as [name, lower].
ParseCategory(c) == SelectInSeq(Categories, LAMBDA x : x = c.name)

\* handleListTools: the tools some node of the topology advertises that this
\* binary knows and that are not hidden.
handleListTools(filter) ==
    {t \in UNION {advertised[n] : n \in AllNodes} :
        /\ GetAnyTool(t) /\ ~Plugins[t].hidden
        /\ filter = "" \/ Plugins[t].category = filter}

\* The relay to the gateway's registry: ListLocal and ListLocalByCategory.
ListLocal == {t \in registered[Gateway] : ~KnownTools[t].hidden}
HandleListTools(filter) == {t \in ListLocal : filter = "" \/ KnownTools[t].category = filter}

\* The category is checked first; what is listed depends on the topology.
ListTools(c) ==
    IF c.name # "" /\ ParseCategory(c) = 0 THEN [error |-> TRUE, tools |-> {}]
    ELSE LET filter == IF c.name = "" THEN "" ELSE Categories[ParseCategory(c)]
         IN [error |-> FALSE,
             tools |-> IF localOnly THEN HandleListTools(filter) ELSE handleListTools(filter)]

\* handleToolHelp knows every plugin of the binary; the gateway's registry only
\* what it has registered itself.
handleToolHelp(t) == IF localOnly THEN t \in registered[Gateway] ELSE GetAnyTool(t)

-----------------------------------------------------------------------------
CatalogueInit ==
    /\ features \in [AllNodes -> SUBSET Features]
    /\ registered = [n \in AllNodes |-> {}]
    /\ advertised = [n \in AllNodes |-> {}]
    /\ localOnly \in BOOLEAN /\ gossips = 0

\* A node starts and registers its tools, each as a capability.
NodeRegisters(n) ==
    /\ registered[n] = {}
    /\ registered' = [registered EXCEPT ![n] = BridgeToMesh(n)]
    /\ UNCHANGED <<features, advertised, localOnly, gossips>>

\* The gateway learns a node's capabilities, or drops a node it has lost.
GossipArrives(n) ==
    /\ gossips < MaxGossips /\ gossips' = gossips + 1
    /\ advertised' = [advertised EXCEPT ![n] = registered[n]]
    /\ UNCHANGED <<features, registered, localOnly>>
NodeLost(n) ==
    /\ n # Gateway /\ advertised[n] # {}
    /\ gossips < MaxGossips /\ gossips' = gossips + 1
    /\ advertised' = [advertised EXCEPT ![n] = {}]
    /\ UNCHANGED <<features, registered, localOnly>>

CatalogueNext == \E n \in AllNodes : NodeRegisters(n) \/ GossipArrives(n) \/ NodeLost(n)

-----------------------------------------------------------------------------
\* What is listed can be called and explained: some node that has registered it
\* supports it, it is not hidden, and help finds it. The lists of the
\* categories, in any spelling, are a partition of the whole list up to the
\* tools every node registers by itself, which no category filter reaches
\* (server.go 113-231, metatools.go 95-152, category.go 59-67).
CatalogueIsCallable ==
    LET all == ListTools([name |-> "", lower |-> TRUE]).tools
        part(i, l) == ListTools([name |-> Categories[i], lower |-> l])
    IN /\ \A t \in all :
            /\ ~KnownTools[t].hidden /\ handleToolHelp(t)
            /\ \E n \in AllNodes : t \in registered[n]
                 /\ (t \in DOMAIN Plugins => Plugins[t].needs \subseteq features[n])
       /\ \A i \in DOMAIN Categories : \A l \in BOOLEAN :
            /\ ~part(i, l).error
            /\ part(i, l).tools = {t \in all : KnownTools[t].category = Categories[i]}
       /\ \A n \in AllNodes : \A t \in advertised[n] \cap DOMAIN Plugins :
            ~localOnly /\ ~Plugins[t].hidden => t \in all
=============================================================================
