---------------------------- MODULE MeshOverview ----------------------------
(***************************************************************************)
(* get_mesh_overview: the gateway merges its own view of the mesh with the *)
(* answers to two fan-outs, get_system_info and get_mesh_topology. Nodes   *)
(* may fail to answer either, links may change between the two, and the    *)
(* answers are merged in the order of a Go map, that is in any order.      *)
(*                                                                         *)
(* A node is a number, the gateway is node 1; a view is the set of direct  *)
(* links a node reports, each with the impedance measured at its end.      *)
(***************************************************************************)
EXTENDS Integers, FiniteSets, Functions

CONSTANTS OverviewNodes, LinkImpedances, RolesOf, MaxLinkChanges

ASSUME OverviewAssumption == 1 \in OverviewNodes /\ OverviewNodes \subseteq Nat

VARIABLES
    wires,       \* the links that are up: <<end, other end>> -> impedance
    phase,       \* "start", "sysinfo", "topology", "merge", "done"
    gwView,      \* the gateway's own direct links
    nodeMap,     \* nodes that answered get_system_info: -> peer count
    reports,     \* answers to get_mesh_topology not merged yet
    edgeSet,     \* merged edges: <<smaller, larger>> -> impedance
    roleCounts,  \* per role, how many of the nodes have it
    seenWires,   \* every link reported by anybody in this call
    linkChanges

overviewVars == <<wires, phase, gwView, nodeMap, reports, edgeSet, roleCounts,
                  seenWires, linkChanges>>

OverviewGateway == 1
Pairs == {p \in OverviewNodes \X OverviewNodes : p[1] # p[2]}
View(n) == {<<p[2], wires[p]>> : p \in {q \in DOMAIN wires : q[1] = n}}
AllRoles == UNION {RolesOf[n] : n \in OverviewNodes}

\* The first report of a link decides its impedance.
edgeKey(a, b) == IF a > b THEN <<b, a>> ELSE <<a, b>>
addEdge(es, new) == [k \in DOMAIN es \cup DOMAIN new |-> IF k \in DOMAIN es THEN es[k] ELSE new[k]]

\* All direct links of one report; a report names each neighbour once.
Reported(n, view) == {edgeKey(n, l[1]) : l \in view}
parseTopoEdges(es, reporter, view) ==
    addEdge(es, [k \in Reported(reporter, view) |-> (CHOOSE l \in view : edgeKey(reporter, l[1]) = k)[2]])

OverviewInit ==
    /\ \E up \in SUBSET {p \in Pairs : p[1] < p[2]} :
         \E imps \in [{p \in Pairs : p \in up \/ <<p[2], p[1]>> \in up} -> LinkImpedances] :
             wires = imps
    /\ phase = "start" /\ gwView = {} /\ nodeMap = << >> /\ reports = << >>
    /\ edgeSet = << >> /\ roleCounts = [r \in AllRoles |-> 0]
    /\ seenWires = {} /\ linkChanges = 0

\* The gateway's own topology is read first.
ReadTopology ==
    /\ phase = "start"
    /\ gwView' = View(OverviewGateway) /\ phase' = "sysinfo"
    /\ seenWires' = Reported(OverviewGateway, View(OverviewGateway))
    /\ UNCHANGED <<wires, nodeMap, reports, edgeSet, roleCounts, linkChanges>>

\* The nodes that answer make up the node list; the others are left out.
SysInfoAnswers(S) ==
    /\ phase = "sysinfo"
    /\ nodeMap' = [n \in S |-> 0]
    /\ roleCounts' = [r \in AllRoles |-> Cardinality({n \in S : r \in RolesOf[n]})]
    /\ phase' = "topology"
    /\ UNCHANGED <<wires, gwView, reports, edgeSet, seenWires, linkChanges>>

\* The gateway's own links come first.
TopologyAnswers(S) ==
    /\ phase = "topology"
    /\ reports' = [n \in S |-> View(n)]
    /\ edgeSet' = parseTopoEdges(<< >>, OverviewGateway, gwView)
    /\ seenWires' = seenWires \cup UNION {Reported(n, View(n)) : n \in S}
    /\ phase' = "merge"
    /\ UNCHANGED <<wires, gwView, nodeMap, roleCounts, linkChanges>>

MergeReport(n) ==
    /\ phase = "merge" /\ n \in DOMAIN reports
    /\ edgeSet' = parseTopoEdges(edgeSet, n, reports[n])
    /\ nodeMap' = IF n \in DOMAIN nodeMap
                  THEN [nodeMap EXCEPT ![n] = Cardinality(reports[n])] ELSE nodeMap
    /\ reports' = Restrict(reports, DOMAIN reports \ {n})
    /\ UNCHANGED <<wires, phase, gwView, roleCounts, seenWires, linkChanges>>

Present ==
    /\ phase = "merge" /\ reports = << >>
    /\ phase' = "done"
    /\ UNCHANGED <<wires, gwView, nodeMap, reports, edgeSet, roleCounts, seenWires, linkChanges>>

\* A link goes down at both ends while the call runs.
LinkLost(p) ==
    /\ phase \in {"sysinfo", "topology"} /\ linkChanges < MaxLinkChanges
    /\ linkChanges' = linkChanges + 1
    /\ wires' = Restrict(wires, DOMAIN wires \ {p, <<p[2], p[1]>>})
    /\ UNCHANGED <<phase, gwView, nodeMap, reports, edgeSet, roleCounts, seenWires>>

OverviewNext ==
    \/ ReadTopology
    \/ \E S \in SUBSET OverviewNodes : SysInfoAnswers(S) \/ TopologyAnswers(S)
    \/ \E n \in OverviewNodes : MergeReport(n)
    \/ \E p \in DOMAIN wires : LinkLost(p)
    \/ Present

\* The finished overview shows every link somebody reported exactly once, with
\* the gateway's own measurement where it has one, whatever the order of the
\* merge, and the role counts add up over the nodes that answered
\* (mesh_overview.go 95-172).
OverviewIsConsistent ==
    phase = "done" =>
        /\ DOMAIN edgeSet = seenWires
        /\ \A l \in gwView : edgeSet[edgeKey(OverviewGateway, l[1])] = l[2]
        /\ \A r \in AllRoles : roleCounts[r] = Cardinality({n \in DOMAIN nodeMap : r \in RolesOf[n]})
=============================================================================
