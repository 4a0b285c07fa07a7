----------------------------- MODULE GossipMesh -----------------------------
(***************************************************************************)
(* Nodes of a mesh exchanging gossip (pkg/mesh/api/control.go): each node  *)
(* has a gradient table and a capability index, and once per interval      *)
(* sendGossipToAll purges both and sends their contents to every peer,     *)
(* where handleGossipFrame merges them.                                    *)
(*                                                                         *)
(* The gossip cache is left out: GradientTable shows that an emitted       *)
(* vector is always current. The default horizon (816 routes) exceeds the  *)
(* meshes modelled, so vectors carry the whole table. An age counts the    *)
(* interval boundaries since an entry was refreshed. A frame is processed  *)
(* by its receiver before the sender's next one is sent, but perhaps after *)
(* the connection it came over is gone: the control loop has read it and   *)
(* takes the locks of table and index later (held).                        *)
(***************************************************************************)
EXTENDS RouteTable

CONSTANTS
    Nodes,
    Links,            \* pairs of nodes that may be connected; symmetric
    Dist,             \* a lower bound of the hops between two nodes
    MaxAge,           \* both TTLs, in gossip intervals: 3 in the code
    MaxCost,          \* bound: costs saturate here
    MaxDisturbances   \* bound on connects, failures, restarts, drops and late frames

Impedance == 1        \* of an idle node: nucleus.MinImpedance

ASSUME MeshAssumption ==
    /\ Links \subseteq Nodes \X Nodes
    /\ \A n, m \in Nodes : <<n, m>> \in Links => n # m /\ <<m, n>> \in Links
    /\ MaxAge \in Nat \ {0} /\ MaxCost \in Nat \ {0} /\ MaxDisturbances \in Nat
    /\ Dist \in [Nodes -> [Nodes -> 0..MaxCost]]
    /\ \A n, h \in Nodes : <<n, h>> \in Links =>
        Dist[n][h] <= 1 /\ \A t \in Nodes : Dist[n][t] <= Dist[h][t] + 1

VARIABLES
    alive,         \* running nodes
    up,            \* connected pairs, both directions
    cost,          \* node -> gradient table
    age,           \* node -> <<target, nextHop>> -> age of the path entry
    known,         \* node -> capability index: node -> age
    held,          \* <<receiver, sender>> -> a gossip frame read, not yet merged
    ticked,        \* nodes that have gossiped in this interval
    disturbances

vars == <<alive, up, cost, age, known, held, ticked, disturbances>>

Peers(n) == {m \in Nodes : <<n, m>> \in up}

EmptyMap == [x \in {} |-> 0]

Init ==
    /\ alive = Nodes
    /\ up = {}
    /\ cost = [n \in Nodes |-> EmptyMap]
    /\ age = [n \in Nodes |-> EmptyMap]
    /\ known = [n \in Nodes |-> EmptyMap]
    /\ held = EmptyMap
    /\ ticked = {}
    /\ disturbances = 0

-----------------------------------------------------------------------------
Disturb == disturbances < MaxDisturbances /\ disturbances' = disturbances + 1

(* AddPeer on both ends: AddDirectNeighbor(peer, 1.0). *)
Connect(n, m) ==
    /\ <<n, m>> \in Links \ up /\ n \in alive /\ m \in alive
    /\ Disturb
    /\ up' = up \cup {<<n, m>>, <<m, n>>}
    /\ cost' = [cost EXCEPT ![n] = PutPath(@, <<m, m>>, 1), ![m] = PutPath(@, <<n, n>>, 1)]
    /\ age' = [age EXCEPT ![n] = PutPath(@, <<m, m>>, 0), ![m] = PutPath(@, <<n, n>>, 0)]
    /\ UNCHANGED <<alive, known, held, ticked>>

(* The paths of x whose next hop is in H. *)
Through(x, H) == {p \in DOMAIN cost[x] : p[2] \in H}

(* handlePeerDeath at every node x that lost the peers in Lost(x):         *)
(* RemoveNeighbor. The capability index is not touched.                    *)
LosePeers(Lost(_)) ==
    /\ up' = {l \in up : l[2] \notin Lost(l[1])}
    /\ cost' = [x \in Nodes |-> DeletePaths(cost[x], Through(x, Lost(x)))]
    /\ age' = [x \in Nodes |-> DeletePaths(age[x], Through(x, Lost(x)))]

(* A connection fails. *)
Disconnect(n, m) ==
    /\ <<n, m>> \in up
    /\ Disturb
    /\ LosePeers(LAMBDA x : CASE x = n -> {m} [] x = m -> {n} [] OTHER -> {})
    /\ UNCHANGED <<alive, known, held, ticked>>

(* A node's process ends: its peers lose it, its own state is gone. *)
Crash(n) ==
    /\ n \in alive
    /\ Disturb
    /\ alive' = alive \ {n}
    /\ LosePeers(LAMBDA x : IF x = n THEN Nodes ELSE {n})
    /\ known' = [known EXCEPT ![n] = EmptyMap]
    /\ held' = DeletePaths(held, {l \in DOMAIN held : l[1] = n})
    /\ ticked' = ticked \ {n}

(* It is started again, with NewNode's empty tables. *)
Restart(n) ==
    /\ n \in Nodes \ alive
    /\ Disturb
    /\ alive' = alive \cup {n}
    /\ UNCHANGED <<up, cost, age, known, held, ticked>>

-----------------------------------------------------------------------------
PurgeStale_Never(ages) == {}

(* gradient.PurgeStale and capIndex.PurgeStale: the keys that are too old. *)
PurgeStale(ages) == {k \in DOMAIN ages : ages[k] >= MaxAge}

ProcessGossip_NoImpedance(c) == c

(* ProcessGossip: route.Cost + gossip.FromImpedance. *)
ProcessGossip(c) == IF c + Impedance < MaxCost THEN c + Impedance ELSE MaxCost

(* The keys r learns from a vector of sender n advertising targets T. *)
Learned(n, r, T) == {<<t, n>> : t \in T \ {r}}

GossipCaps_OwnOnly(n, idx) == {n}

(* FromCapabilities and NodeCapabilities of n's vector: n and all it knows. *)
GossipCaps(n, idx) == {n} \cup DOMAIN idx

(* m[k] = v(k) for every k in K. *)
PutAll(m, K, v(_)) == [k \in DOMAIN m \cup K |-> IF k \in K THEN v(k) ELSE m[k]]

(* What n holds, and sends, after its two purges. *)
Table(n) == DeletePaths(cost[n], PurgeStale(age[n]))
Capabilities(n) == DeletePaths(known[n], PurgeStale(known[n]))

(* The frame of n: its best costs, and the nodes whose capabilities it     *)
(* tells.                                                                  *)
FrameOf(n) == [costs |-> BestCosts(Table(n)), caps |-> GossipCaps(n, Capabilities(n))]

(* handleGossipFrame at r, for frame f of n: what r then holds. Nothing is *)
(* asked about the peer it came from.                                      *)
MergedCost(r, n, f) ==
    PutAll(cost[r], Learned(n, r, DOMAIN f.costs), LAMBDA p : ProcessGossip(f.costs[p[1]]))
MergedAge(r, n, f) == PutAll(age[r], Learned(n, r, DOMAIN f.costs), LAMBDA p : 0)
MergedKnown(r, f) == PutAll(known[r], f.caps \ {r}, LAMBDA m : 0)

(* sendGossipToAll of node n, whose frame is merged at the peers in R.     *)
Deliver(n, R) ==
    /\ n \in alive \ ticked /\ \A l \in DOMAIN held : l[2] # n
    /\ \E f \in {FrameOf(n)} :
        /\ cost' = [r \in Nodes |-> CASE r = n -> Table(n)
                                    [] r \in R -> MergedCost(r, n, f)
                                    [] OTHER -> cost[r]]
        /\ age' = [r \in Nodes |-> CASE r = n -> DeletePaths(age[n], PurgeStale(age[n]))
                                   [] r \in R -> MergedAge(r, n, f)
                                   [] OTHER -> age[r]]
        /\ known' = [r \in Nodes |-> CASE r = n -> Capabilities(n)
                                     [] r \in R -> MergedKnown(r, f)
                                     [] OTHER -> known[r]]
    /\ ticked' = ticked \cup {n}

Gossip(n) ==
    /\ Deliver(n, Peers(n))
    /\ UNCHANGED <<alive, up, held, disturbances>>

(* The queue of one peer is full: sendControlRaw drops the frame.          *)
GossipDropped(n, m) ==
    /\ m \in Peers(n)
    /\ Disturb
    /\ Deliver(n, Peers(n) \ {m})
    /\ UNCHANGED <<alive, up, held>>

(* The control loop of m for n has read the frame and is not yet in        *)
(* handleGossipFrame.                                                      *)
GossipRead(n, m) ==
    /\ m \in Peers(n)
    /\ Disturb
    /\ Deliver(n, Peers(n) \ {m})
    /\ held' = PutPath(held, <<m, n>>, FrameOf(n))
    /\ UNCHANGED <<alive, up>>

(* Now it is, whether n is still a peer or not.                            *)
HandleGossipFrame(l) ==
    /\ l \in DOMAIN held
    /\ LET r == l[1]
           n == l[2]
       IN /\ cost' = [cost EXCEPT ![r] = MergedCost(r, n, held[l])]
          /\ age' = [age EXCEPT ![r] = MergedAge(r, n, held[l])]
          /\ known' = [known EXCEPT ![r] = MergedKnown(r, held[l])]
    /\ held' = DeletePaths(held, {l})
    /\ UNCHANGED <<alive, up, ticked, disturbances>>

Older(ages) == [k \in DOMAIN ages |-> IF ages[k] < MaxAge THEN ages[k] + 1 ELSE MaxAge]

(* Everybody's ticker has fired once: the next gossip interval. *)
Interval ==
    /\ alive # {} /\ ticked = alive
    /\ ticked' = {}
    /\ age' = [n \in Nodes |-> Older(age[n])]
    /\ known' = [n \in Nodes |-> Older(known[n])]
    /\ UNCHANGED <<alive, up, cost, held, disturbances>>

Next ==
    \/ \E n, m \in Nodes : \/ Connect(n, m) \/ Disconnect(n, m)
                           \/ GossipDropped(n, m) \/ GossipRead(n, m)
    \/ \E l \in Links : HandleGossipFrame(l)
    \/ \E n \in Nodes : Crash(n) \/ Restart(n) \/ Gossip(n)
    \/ Interval

Spec == Init /\ [][Next]_vars

(* StartGossipTicker fires at every node, for ever, and a control loop     *)
(* handles the frame it has read.                                          *)
FairSpec ==
    /\ Spec
    /\ \A n \in Nodes : WF_vars(Gossip(n))
    /\ WF_vars(\E l \in Links : HandleGossipFrame(l))
    /\ WF_vars(Interval)

-----------------------------------------------------------------------------
(***************************************************************************)
(* Properties                                                              *)
(***************************************************************************)
(* Nodes that may be connected to n. *)
Neighbours(n) == {m \in Nodes : <<n, m>> \in Links}

(* Type correctness: no node has a path or an index entry for itself, and  *)
(* every next hop is a neighbour; not always a connected peer, as a late   *)
(* frame re-creates the paths of a peer that is gone.                      *)
TypeOK ==
    /\ alive \subseteq Nodes /\ ticked \subseteq alive
    /\ up \subseteq Links
    /\ disturbances \in 0..MaxDisturbances
    /\ DOMAIN held \subseteq Links
    /\ \A l \in DOMAIN held : /\ held[l].costs \in [DOMAIN held[l].costs -> 1..MaxCost]
                             /\ DOMAIN held[l].costs \subseteq Nodes /\ held[l].caps \subseteq Nodes
    /\ \A n \in Nodes :
        /\ DOMAIN cost[n] \subseteq (Nodes \ {n}) \X Neighbours(n)
        /\ cost[n] \in [DOMAIN cost[n] -> 1..MaxCost]
        /\ age[n] \in [DOMAIN cost[n] -> 0..MaxAge]
        /\ DOMAIN known[n] \subseteq Nodes \ {n}
        /\ known[n] \in [DOMAIN known[n] -> 0..MaxAge]

(* However gossip is echoed, lost or delayed by failures, no table ever    *)
(* promises a path cheaper than the network can offer: a dead or distant   *)
(* node can only look too far away, never too close.                       *)
CostsNeverTooLow ==
    \A n \in Nodes : \A p \in DOMAIN cost[n] : cost[n][p] >= Dist[n][p[1]]

(* Two nodes connected through live connections. *)
Reachable[S \in SUBSET Nodes] ==
    LET T == S \cup UNION {Peers(n) : n \in S}
    IN  IF T = S THEN S ELSE Reachable[T]

(* Once the network is quiet, all nodes connected to each other, over any  *)
(* number of hops, know each other's capabilities and never forget them:   *)
(* expiry by age never races ahead of the refresh through other nodes.     *)
CapabilitiesSpread ==
    <>[](\A n \in alive : \A m \in Reachable[{n}] \ {n} : m \in DOMAIN known[n])

(* A node left alone does not keep its old view of the mesh for ever: what *)
(* nobody refreshes expires.                                               *)
CutOffNodeForgets ==
    \A n \in Nodes :
        Peers(n) = {} ~> Peers(n) # {} \/ (cost[n] = EmptyMap /\ known[n] = EmptyMap)

-----------------------------------------------------------------------------
(***************************************************************************)
(* Statements of the documentation that the code does not meet.            *)
(***************************************************************************)

(* neuron.go on NodeSummary.NextHop: "For direct peers, NextHop equals     *)
(* NodeID." No gossip frame refreshes a direct route (a sender never lists *)
(* itself), so it expires after three intervals and an echo replaces it.   *)
DirectPeersRouteDirectly ==
    \A n, m \in Nodes :
        <<n, m>> \in up /\ m \in Targets(cost[n]) => BestHops(cost[n], m) = {m}

(* neuron.go on CapabilityStaleTTL: "entries age out by freshness rather   *)
(* than accumulating forever". Two live nodes refresh each other's entry   *)
(* of a dead one.                                                          *)
DeadNodeForgotten ==
    \A n, m \in Nodes :
        n \notin alive ~> n \in alive \/ n \notin DOMAIN known[m]
=============================================================================
