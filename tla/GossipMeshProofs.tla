-------------------------- MODULE GossipMeshProofs --------------------------
(***************************************************************************)
(* For every set of nodes, every network and every sequence of failures,   *)
(* restarts and lost frames: the tables of a gossiping mesh are well       *)
(* formed, and no cost in them is below the distance of the target.        *)
(***************************************************************************)
EXTENDS GossipMesh, WellFoundedInduction, TLAPS

(* A routing table that node n may hold. *)
Sound(n, f) ==
    /\ DOMAIN f \subseteq (Nodes \ {n}) \X Neighbours(n)
    /\ \A p \in DOMAIN f : f[p] \in 1..MaxCost /\ f[p] >= Dist[n][p[1]]
    /\ f = [p \in DOMAIN f |-> f[p]]

Ages(K, g) == g \in [K -> 0..MaxAge]

Index(n, g) == DOMAIN g \subseteq Nodes \ {n} /\ g \in [DOMAIN g -> 0..MaxAge]

NodeOK(n, f, g, k) == Sound(n, f) /\ Ages(DOMAIN f, g) /\ Index(n, k)

(* A frame that node n may have sent: it promises no cost below n's       *)
(* distance, whenever it is handled.                                      *)
FrameOK(n, f) ==
    /\ DOMAIN f.costs \subseteq Nodes
    /\ \A t \in DOMAIN f.costs : f.costs[t] \in 1..MaxCost /\ f.costs[t] >= Dist[n][t]
    /\ f.costs = [t \in DOMAIN f.costs |-> f.costs[t]]
    /\ f.caps \subseteq Nodes

HeldOK(h) == DOMAIN h \subseteq Links /\ \A l \in DOMAIN h : FrameOK(l[2], h[l])

(* The inductive invariant. Connections are symmetric, so whoever receives *)
(* a frame has the sender as a neighbour.                                  *)
MeshInv ==
    /\ alive \subseteq Nodes /\ ticked \subseteq alive
    /\ up \subseteq Links
    /\ disturbances \in 0..MaxDisturbances
    /\ cost = [n \in Nodes |-> cost[n]]
    /\ age = [n \in Nodes |-> age[n]]
    /\ known = [n \in Nodes |-> known[n]]
    /\ HeldOK(held)
    /\ \A n \in Nodes : NodeOK(n, cost[n], age[n], known[n])

-----------------------------------------------------------------------------
LEMMA MinInSet ==
    ASSUME NEW S, S \subseteq Nat, S # {}
    PROVE  Min(S) \in S /\ \A y \in S : Min(S) <= y
<1> DEFINE less == OpToRel(<, Nat)
<1>1. \A x, y \in Nat : y < x => <<y, x>> \in less
  BY DEF OpToRel
<1>2. IsWellFoundedOn(less, Nat)
  BY NatLessThanWellFounded
<1> HIDE DEF less
<1>3. PICK x \in S : \A y \in S : ~(<<y, x>> \in less)
  BY <1>2, WFMin
<1>4. ASSUME NEW y \in S PROVE x <= y
  <2>1. x \in Nat /\ y \in Nat
    OBVIOUS
  <2>2. ~(y < x)
    BY <1>1, <1>3, <2>1
  <2>3. QED
    BY <2>1, <2>2
<1>5. QED
  BY <1>4 DEF Min

LEMMA BestIsSound ==
    ASSUME NEW n \in Nodes, NEW f, Sound(n, f), NEW t \in Targets(f)
    PROVE  /\ BestCost(f, t) \in 1..MaxCost
           /\ BestCost(f, t) >= Dist[n][t]
<1> DEFINE S == {f[p] : p \in PathsTo(f, t)}
<1>1. PICK p \in DOMAIN f : p[1] = t
  BY DEF Targets
<1>2. S # {}
  BY <1>1 DEF PathsTo
<1>3. \A c \in S : c \in 1..MaxCost /\ c >= Dist[n][t]
  BY DEF PathsTo, Sound
<1>4. S \subseteq Nat
  BY <1>3, MeshAssumption
<1>5. Min(S) \in S
  BY <1>2, <1>4, MinInSet
<1>6. QED
  BY <1>3, <1>5 DEF BestCost

LEMMA DeleteSound ==
    ASSUME NEW n \in Nodes, NEW f, NEW g, NEW D, Sound(n, f), Ages(DOMAIN f, g)
    PROVE  /\ Sound(n, DeletePaths(f, D))
           /\ Ages(DOMAIN DeletePaths(f, D), DeletePaths(g, D))
<1>1. DOMAIN DeletePaths(f, D) = DOMAIN f \ D
  BY DEF DeletePaths
<1>2. \A p \in DOMAIN f \ D : DeletePaths(f, D)[p] = f[p]
  BY DEF DeletePaths
<1>3. Sound(n, DeletePaths(f, D))
  BY <1>1, <1>2 DEF Sound, DeletePaths
<1>4. Ages(DOMAIN f \ D, DeletePaths(g, D))
  BY DEF Ages, DeletePaths
<1>5. QED
  BY <1>1, <1>3, <1>4

LEMMA IndexDelete ==
    ASSUME NEW n, NEW g, NEW D, Index(n, g)
    PROVE  Index(n, DeletePaths(g, D))
BY DEF Index, DeletePaths

LEMMA HeldDelete ==
    ASSUME NEW h, NEW D, HeldOK(h)
    PROVE  HeldOK(DeletePaths(h, D))
BY DEF HeldOK, DeletePaths

(* AddDirectNeighbor. *)
LEMMA PutSound ==
    ASSUME NEW n \in Nodes, NEW m \in Nodes, <<n, m>> \in Links,
           NEW f, NEW g, Sound(n, f), Ages(DOMAIN f, g)
    PROVE  /\ Sound(n, PutPath(f, <<m, m>>, 1))
           /\ Ages(DOMAIN PutPath(f, <<m, m>>, 1), PutPath(g, <<m, m>>, 0))
<1> DEFINE k == <<m, m>>
<1>1. m # n /\ Dist[n][m] <= 1 /\ 1 \in 1..MaxCost /\ 0 \in 0..MaxAge
  BY MeshAssumption
<1>2. k \in (Nodes \ {n}) \X Neighbours(n) /\ k[1] = m
  BY <1>1 DEF Neighbours
<1> HIDE DEF k
<1>3. /\ DOMAIN PutPath(f, k, 1) = DOMAIN f \cup {k}
      /\ PutPath(f, k, 1)[k] = 1
      /\ \A p \in DOMAIN f : p # k => PutPath(f, k, 1)[p] = f[p]
  BY DEF PutPath
<1>4. DOMAIN PutPath(f, k, 1) \subseteq (Nodes \ {n}) \X Neighbours(n)
  BY <1>2, <1>3 DEF Sound
<1>5. ASSUME NEW p \in DOMAIN PutPath(f, k, 1)
      PROVE  PutPath(f, k, 1)[p] \in 1..MaxCost /\ PutPath(f, k, 1)[p] >= Dist[n][p[1]]
  <2>1. CASE p = k
    <3>1. Dist[n][m] \in Nat
      BY MeshAssumption
    <3>2. QED
      BY <1>1, <1>2, <1>3, <2>1, <3>1
  <2>2. CASE p # k
    BY <1>3, <1>5, <2>2 DEF Sound
  <2>3. QED
    BY <2>1, <2>2
<1>6. PutPath(f, k, 1) = [p \in DOMAIN PutPath(f, k, 1) |-> PutPath(f, k, 1)[p]]
  BY DEF PutPath
<1>7. Ages(DOMAIN f \cup {k}, PutPath(g, k, 0))
  BY <1>1 DEF Ages, PutPath
<1>8. Sound(n, PutPath(f, k, 1))
  BY <1>4, <1>5, <1>6 DEF Sound
<1>9. QED
  BY <1>3, <1>7, <1>8 DEF k

(* The vector a node builds from a sound table. *)
LEMMA FrameIsSound ==
    ASSUME NEW n \in Nodes, Sound(n, Table(n)), Index(n, Capabilities(n))
    PROVE  FrameOK(n, FrameOf(n))
<1> DEFINE T == Table(n)
<1>1. /\ FrameOf(n).costs = [t \in Targets(T) |-> BestCost(T, t)]
      /\ FrameOf(n).caps = GossipCaps(n, Capabilities(n))
  BY DEF FrameOf, BestCosts
<1>2. Targets(T) \subseteq Nodes
  BY DEF Targets, Sound
<1>3. \A t \in Targets(T) : BestCost(T, t) \in 1..MaxCost /\ BestCost(T, t) >= Dist[n][t]
  BY BestIsSound
<1>4. GossipCaps(n, Capabilities(n)) \subseteq Nodes
  BY DEF GossipCaps, Index
<1> QED
  BY <1>1, <1>2, <1>3, <1>4 DEF FrameOK

(* handleGossipFrame at r, for a frame that n may have sent at any time. *)
LEMMA MergeSound ==
    ASSUME MeshInv, NEW n \in Nodes, NEW r \in Nodes, <<r, n>> \in Links,
           NEW f, FrameOK(n, f)
    PROVE  NodeOK(r, MergedCost(r, n, f), MergedAge(r, n, f), MergedKnown(r, f))
<1> DEFINE K == Learned(n, r, DOMAIN f.costs)
           h == cost[r]
           M == MergedCost(r, n, f)
<1>0. Sound(r, h) /\ Ages(DOMAIN h, age[r]) /\ Index(r, known[r])
  BY DEF MeshInv, NodeOK
<1>1. /\ DOMAIN M = DOMAIN h \cup K
      /\ \A p \in K : M[p] = ProcessGossip(f.costs[p[1]])
      /\ \A p \in DOMAIN h \ K : M[p] = h[p]
      /\ M = [p \in DOMAIN M |-> M[p]]
  BY DEF MergedCost, PutAll
<1>2. K \subseteq (Nodes \ {r}) \X Neighbours(r)
  BY DEF Learned, Neighbours, FrameOK
<1>3. ASSUME NEW p \in K PROVE M[p] \in 1..MaxCost /\ M[p] >= Dist[r][p[1]]
  <2>1. PICK t \in DOMAIN f.costs \ {r} : p = <<t, n>>
    BY <1>3 DEF Learned
  <2>2. M[p] = ProcessGossip(f.costs[t])
    BY <1>1, <2>1
  <2>3. f.costs[t] \in 1..MaxCost /\ f.costs[t] >= Dist[n][t] /\ t \in Nodes
    BY DEF FrameOK
  <2>4. /\ Dist[r][t] \in 0..MaxCost /\ Dist[n][t] \in 0..MaxCost
        /\ Dist[r][t] <= Dist[n][t] + 1 /\ MaxCost \in Nat
    BY <2>3, MeshAssumption
  <2>5. QED
    BY <2>1, <2>2, <2>3, <2>4 DEF ProcessGossip, Impedance
<1>4. ASSUME NEW p \in DOMAIN M
      PROVE  M[p] \in 1..MaxCost /\ M[p] >= Dist[r][p[1]]
  BY <1>0, <1>1, <1>3, <1>4 DEF Sound
<1>5. DOMAIN M \subseteq (Nodes \ {r}) \X Neighbours(r)
  BY <1>0, <1>1, <1>2 DEF Sound
<1>6. Sound(r, M)
  BY <1>1, <1>4, <1>5 DEF Sound
<1>7. 0 \in 0..MaxAge
  BY MeshAssumption
<1>8. Ages(DOMAIN M, MergedAge(r, n, f))
  BY <1>0, <1>1, <1>7 DEF Ages, MergedAge, PutAll
<1>9. Index(r, MergedKnown(r, f))
  BY <1>0, <1>7 DEF Index, MergedKnown, PutAll, FrameOK
<1> HIDE DEF M
<1>10. QED
  BY <1>6, <1>8, <1>9 DEF NodeOK, M

-----------------------------------------------------------------------------
LEMMA InitInv == Init => MeshInv
<1> SUFFICES ASSUME Init PROVE MeshInv
  OBVIOUS
<1>1. ASSUME NEW n \in Nodes PROVE NodeOK(n, cost[n], age[n], known[n])
  BY DEF Init, NodeOK, Sound, Ages, Index, EmptyMap
<1>2. disturbances \in 0..MaxDisturbances /\ HeldOK(held)
  BY MeshAssumption DEF Init, HeldOK, EmptyMap
<1>3. QED
  BY <1>1, <1>2 DEF Init, MeshInv

LEMMA DisturbType ==
    MeshInv /\ Disturb => disturbances' \in 0..MaxDisturbances
BY MeshAssumption DEF MeshInv, Disturb

LEMMA ConnectStep ==
    ASSUME MeshInv, NEW n \in Nodes, NEW m \in Nodes, Connect(n, m)
    PROVE  MeshInv'
<1>1. <<n, m>> \in Links /\ <<m, n>> \in Links /\ n # m
  BY MeshAssumption DEF Connect
<1>2. up' \subseteq Links
  BY <1>1 DEF Connect, MeshInv
<1>3. /\ cost'[n] = PutPath(cost[n], <<m, m>>, 1) /\ cost'[m] = PutPath(cost[m], <<n, n>>, 1)
      /\ \A x \in Nodes \ {n, m} : cost'[x] = cost[x]
      /\ cost' = [x \in Nodes |-> cost'[x]]
  BY <1>1 DEF Connect, MeshInv
<1>4. /\ age'[n] = PutPath(age[n], <<m, m>>, 0) /\ age'[m] = PutPath(age[m], <<n, n>>, 0)
      /\ \A x \in Nodes \ {n, m} : age'[x] = age[x]
      /\ age' = [x \in Nodes |-> age'[x]]
  BY <1>1 DEF Connect, MeshInv
<1>5. known' = known /\ alive' = alive /\ ticked' = ticked /\ held' = held
  BY DEF Connect
<1>6. ASSUME NEW x \in Nodes, x \notin {n, m} PROVE NodeOK(x, cost'[x], age'[x], known'[x])
  BY <1>3, <1>4, <1>5, <1>6 DEF MeshInv
<1>7. ASSUME NEW x \in Nodes, NEW y \in Nodes, <<x, y>> \in Links,
             cost'[x] = PutPath(cost[x], <<y, y>>, 1), age'[x] = PutPath(age[x], <<y, y>>, 0)
      PROVE  NodeOK(x, cost'[x], age'[x], known'[x])
  <2>1. Sound(x, cost[x]) /\ Ages(DOMAIN cost[x], age[x]) /\ Index(x, known[x])
    BY DEF MeshInv, NodeOK
  <2>2. /\ Sound(x, PutPath(cost[x], <<y, y>>, 1))
        /\ Ages(DOMAIN PutPath(cost[x], <<y, y>>, 1), PutPath(age[x], <<y, y>>, 0))
    BY <1>7, <2>1, PutSound
  <2>3. QED
    BY <1>5, <1>7, <2>1, <2>2 DEF NodeOK
<1>8. ASSUME NEW x \in Nodes PROVE NodeOK(x, cost'[x], age'[x], known'[x])
  BY <1>1, <1>3, <1>4, <1>6, <1>7
<1>9. disturbances' \in 0..MaxDisturbances
  BY DisturbType DEF Connect
<1>10. QED
  BY <1>2, <1>3, <1>4, <1>5, <1>8, <1>9 DEF MeshInv

(* handlePeerDeath at all nodes, for Disconnect and Crash. *)
LEMMA LoseStep ==
    ASSUME MeshInv, NEW lost, lost = [x \in Nodes |-> lost[x]],
           up' = {l \in up : l[2] \notin lost[l[1]]},
           cost' = [x \in Nodes |-> DeletePaths(cost[x], Through(x, lost[x]))],
           age' = [x \in Nodes |-> DeletePaths(age[x], Through(x, lost[x]))],
           known' = [x \in Nodes |-> known'[x]],
           \A x \in Nodes : Index(x, known'[x]),
           HeldOK(held'),
           alive' \subseteq Nodes, ticked' \subseteq alive',
           disturbances' \in 0..MaxDisturbances
    PROVE  MeshInv'
<1>1. up' \subseteq Links
  BY DEF MeshInv
<1>2. ASSUME NEW x \in Nodes
      PROVE  NodeOK(x, cost'[x], age'[x], known'[x])
  <2>1. Sound(x, cost[x]) /\ Ages(DOMAIN cost[x], age[x])
    BY DEF MeshInv, NodeOK
  <2>2. /\ Sound(x, DeletePaths(cost[x], Through(x, lost[x])))
        /\ Ages(DOMAIN DeletePaths(cost[x], Through(x, lost[x])),
                DeletePaths(age[x], Through(x, lost[x])))
    BY <2>1, DeleteSound
  <2>3. QED
    BY <2>2 DEF NodeOK
<1>3. QED
  BY <1>1, <1>2 DEF MeshInv

LEMMA DisconnectStep ==
    ASSUME MeshInv, NEW n \in Nodes, NEW m \in Nodes, Disconnect(n, m)
    PROVE  MeshInv'
<1> DEFINE L(x) == CASE x = n -> {m} [] x = m -> {n} [] OTHER -> {}
           lost == [x \in Nodes |-> L(x)]
<1>1. \A l \in up : l[1] \in Nodes
  BY MeshAssumption, ZenonT(30) DEF Disconnect, MeshInv
<1>2. /\ up' = {l \in up : l[2] \notin lost[l[1]]}
      /\ cost' = [x \in Nodes |-> DeletePaths(cost[x], Through(x, lost[x]))]
      /\ age' = [x \in Nodes |-> DeletePaths(age[x], Through(x, lost[x]))]
  BY <1>1 DEF Disconnect, LosePeers
<1>4. lost = [x \in Nodes |-> lost[x]]
  OBVIOUS
<1> HIDE DEF lost, L
<1>5. disturbances' \in 0..MaxDisturbances
  BY DisturbType DEF Disconnect
<1>6. /\ known' = known /\ alive' = alive /\ ticked' = ticked /\ held' = held
  BY DEF Disconnect
<1>7. \A x \in Nodes : Index(x, known'[x])
  BY <1>6 DEF MeshInv, NodeOK
<1>8. /\ known' = [x \in Nodes |-> known'[x]] /\ alive' \subseteq Nodes /\ ticked' \subseteq alive'
      /\ HeldOK(held')
  BY <1>6 DEF MeshInv
<1>9. QED
  BY <1>2, <1>4, <1>5, <1>7, <1>8, LoseStep

LEMMA CrashStep ==
    ASSUME MeshInv, NEW n \in Nodes, Crash(n)
    PROVE  MeshInv'
<1> DEFINE L(x) == IF x = n THEN Nodes ELSE {n}
           lost == [x \in Nodes |-> L(x)]
<1>1. \A l \in up : l[1] \in Nodes
  BY MeshAssumption DEF MeshInv
<1>2. /\ up' = {l \in up : l[2] \notin lost[l[1]]}
      /\ cost' = [x \in Nodes |-> DeletePaths(cost[x], Through(x, lost[x]))]
      /\ age' = [x \in Nodes |-> DeletePaths(age[x], Through(x, lost[x]))]
  BY <1>1 DEF Crash, LosePeers
<1>4. lost = [x \in Nodes |-> lost[x]]
  OBVIOUS
<1> HIDE DEF lost, L
<1>5. disturbances' \in 0..MaxDisturbances
  BY DisturbType DEF Crash
<1>6. known' = [known EXCEPT ![n] = EmptyMap]
  BY DEF Crash
<1>7. Index(n, EmptyMap)
  BY DEF Index, EmptyMap
<1>8. \A x \in Nodes : Index(x, known'[x])
  BY <1>6, <1>7 DEF MeshInv, NodeOK
<1>9. known' = [x \in Nodes |-> known'[x]]
  BY <1>6 DEF MeshInv
<1>10. alive' \subseteq Nodes /\ ticked' \subseteq alive'
  BY DEF Crash, MeshInv
<1>11. HeldOK(held')
  BY HeldDelete DEF Crash, MeshInv
<1>12. QED
  BY <1>2, <1>4, <1>5, <1>8, <1>9, <1>10, <1>11, LoseStep

-----------------------------------------------------------------------------
(* What a node keeps and sends after its two purges. *)
LEMMA SenderIsSound ==
    ASSUME MeshInv, NEW n \in Nodes
    PROVE  /\ NodeOK(n, Table(n), DeletePaths(age[n], PurgeStale(age[n])), Capabilities(n))
           /\ FrameOK(n, FrameOf(n))
<1>1. Sound(n, cost[n]) /\ Ages(DOMAIN cost[n], age[n]) /\ Index(n, known[n])
  BY DEF MeshInv, NodeOK
<1>2. Sound(n, Table(n)) /\ Ages(DOMAIN Table(n), DeletePaths(age[n], PurgeStale(age[n])))
  BY <1>1, DeleteSound DEF Table
<1>3. Index(n, Capabilities(n))
  BY <1>1, IndexDelete DEF Capabilities
<1> QED
  BY <1>2, <1>3, FrameIsSound DEF NodeOK

(* sendGossipToAll, with frames merged at any subset of the peers. *)
LEMMA DeliverStep ==
    ASSUME MeshInv, NEW n \in Nodes, NEW R, R \subseteq Peers(n),
           Deliver(n, R), up' = up, alive' = alive, HeldOK(held'),
           disturbances' \in 0..MaxDisturbances
    PROVE  MeshInv'
<1>1. n \notin R /\ R \subseteq Nodes /\ \A r \in R : <<r, n>> \in Links
  BY MeshAssumption DEF Peers, MeshInv
<1>2. /\ cost'[n] = Table(n)
      /\ age'[n] = DeletePaths(age[n], PurgeStale(age[n]))
      /\ known'[n] = Capabilities(n)
  BY <1>1 DEF Deliver
<1>3. ASSUME NEW r \in R
      PROVE  /\ cost'[r] = MergedCost(r, n, FrameOf(n))
             /\ age'[r] = MergedAge(r, n, FrameOf(n))
             /\ known'[r] = MergedKnown(r, FrameOf(n))
  BY <1>1 DEF Deliver
<1>4. ASSUME NEW x \in Nodes, x # n, x \notin R
      PROVE  cost'[x] = cost[x] /\ age'[x] = age[x] /\ known'[x] = known[x]
  BY <1>4 DEF Deliver
<1>5. NodeOK(n, cost'[n], age'[n], known'[n])
  BY <1>2, SenderIsSound
<1>6. ASSUME NEW r \in R PROVE NodeOK(r, cost'[r], age'[r], known'[r])
  BY <1>1, <1>3, SenderIsSound, MergeSound
<1>7. ASSUME NEW x \in Nodes, x # n, x \notin R
      PROVE  NodeOK(x, cost'[x], age'[x], known'[x])
  BY <1>4, <1>7 DEF MeshInv
<1>8. ASSUME NEW x \in Nodes PROVE NodeOK(x, cost'[x], age'[x], known'[x])
  BY <1>5, <1>6, <1>7
<1>9. cost' = [x \in Nodes |-> cost'[x]]
  BY DEF Deliver
<1>10. age' = [x \in Nodes |-> age'[x]]
  BY DEF Deliver
<1>11. known' = [x \in Nodes |-> known'[x]]
  BY DEF Deliver
<1>12. ticked' = ticked \cup {n} /\ n \in alive
  BY DEF Deliver
<1>13. QED
  BY <1>8, <1>9, <1>10, <1>11, <1>12 DEF MeshInv

(* A frame handled late, over a connection that may be gone. *)
LEMMA LateFrameStep ==
    ASSUME MeshInv, NEW l \in Links, HandleGossipFrame(l)
    PROVE  MeshInv'
<1> DEFINE r == l[1]
           n == l[2]
           f == held[l]
<1>1. r \in Nodes /\ n \in Nodes /\ <<r, n>> \in Links /\ FrameOK(n, f)
  <2>1. l \in DOMAIN held /\ l \in Nodes \X Nodes
    BY MeshAssumption DEF HandleGossipFrame
  <2>2. l = <<l[1], l[2]>> /\ l[1] \in Nodes /\ l[2] \in Nodes
    BY <2>1
  <2> QED
    BY <2>1, <2>2 DEF MeshInv, HeldOK
<1>2. /\ cost' = [cost EXCEPT ![r] = MergedCost(r, n, f)]
      /\ age' = [age EXCEPT ![r] = MergedAge(r, n, f)]
      /\ known' = [known EXCEPT ![r] = MergedKnown(r, f)]
      /\ held' = DeletePaths(held, {l})
      /\ UNCHANGED <<alive, up, ticked, disturbances>>
  BY DEF HandleGossipFrame
<1> HIDE DEF r, n, f
<1>3. NodeOK(r, MergedCost(r, n, f), MergedAge(r, n, f), MergedKnown(r, f))
  BY <1>1, MergeSound
<1>4. HeldOK(held')
  BY <1>2, HeldDelete DEF MeshInv
<1>5. /\ cost'[r] = MergedCost(r, n, f) /\ age'[r] = MergedAge(r, n, f) /\ known'[r] = MergedKnown(r, f)
      /\ \A x \in Nodes \ {r} : cost'[x] = cost[x] /\ age'[x] = age[x] /\ known'[x] = known[x]
      /\ cost' = [x \in Nodes |-> cost'[x]] /\ age' = [x \in Nodes |-> age'[x]]
      /\ known' = [x \in Nodes |-> known'[x]]
  BY <1>1, <1>2 DEF MeshInv
<1>6. ASSUME NEW x \in Nodes PROVE NodeOK(x, cost'[x], age'[x], known'[x])
  BY <1>3, <1>5 DEF MeshInv
<1> QED
  BY <1>2, <1>4, <1>5, <1>6 DEF MeshInv

LEMMA IntervalStep ==
    ASSUME MeshInv, Interval
    PROVE  MeshInv'
<1>1. \A x \in Nodes : /\ cost'[x] = cost[x]
                       /\ age'[x] = Older(age[x]) /\ known'[x] = Older(known[x])
  BY DEF Interval
<1>2. ASSUME NEW K, NEW g, Ages(K, g) PROVE Ages(K, Older(g))
  BY <1>2, MeshAssumption DEF Ages, Older
<1>3. ASSUME NEW x, NEW g, Index(x, g) PROVE Index(x, Older(g))
  BY <1>3, MeshAssumption DEF Index, Older
<1>4. ASSUME NEW x \in Nodes
      PROVE  NodeOK(x, cost'[x], age'[x], known'[x])
  BY <1>1, <1>2, <1>3 DEF MeshInv, NodeOK
<1>5. QED
  BY <1>4 DEF MeshInv, Interval

LEMMA MeshInvNext == MeshInv /\ [Next]_vars => MeshInv'
<1> SUFFICES ASSUME MeshInv, [Next]_vars PROVE MeshInv'
  OBVIOUS
<1>1. ASSUME NEW n \in Nodes, Gossip(n) PROVE MeshInv'
  <2>1. /\ Deliver(n, Peers(n)) /\ up' = up /\ alive' = alive /\ HeldOK(held')
        /\ disturbances' \in 0..MaxDisturbances
    BY <1>1 DEF Gossip, MeshInv
  <2>2. QED
    BY <2>1, DeliverStep
<1>2. ASSUME NEW n \in Nodes, NEW m \in Nodes, GossipDropped(n, m) \/ GossipRead(n, m) PROVE MeshInv'
  <2>1. disturbances' \in 0..MaxDisturbances
    BY <1>2, DisturbType DEF GossipDropped, GossipRead
  <2>2. /\ m \in Peers(n) /\ Deliver(n, Peers(n) \ {m}) /\ up' = up /\ alive' = alive
        /\ held' = held \/ held' = PutPath(held, <<m, n>>, FrameOf(n))
    BY <1>2 DEF GossipDropped, GossipRead
  <2>3. <<m, n>> \in Links /\ FrameOK(n, FrameOf(n)) /\ <<m, n>>[2] = n
    BY <2>2, SenderIsSound, MeshAssumption DEF Peers, MeshInv
  <2>4. HeldOK(PutPath(held, <<m, n>>, FrameOf(n)))
    BY <2>3 DEF HeldOK, PutPath, MeshInv
  <2>5. HeldOK(held')
    BY <2>2, <2>4 DEF MeshInv
  <2>6. Peers(n) \ {m} \subseteq Peers(n)
    OBVIOUS
  <2>7. QED
    BY <2>1, <2>2, <2>5, <2>6, DeliverStep
<1>3. ASSUME NEW n \in Nodes, Restart(n) PROVE MeshInv'
  <2>1. disturbances' \in 0..MaxDisturbances
    BY <1>3, DisturbType DEF Restart
  <2>2. QED
    BY <1>3, <2>1 DEF Restart, MeshInv
<1>4. CASE UNCHANGED vars
  BY <1>4 DEF vars, MeshInv
<1>5. QED
  BY <1>1, <1>2, <1>3, <1>4, ConnectStep, DisconnectStep, CrashStep, LateFrameStep, IntervalStep
     DEF Next

(* The tables of all nodes stay well formed in every network: no node has  *)
(* a path or an entry for itself, and paths, also those that a late frame  *)
(* re-creates for a peer that is gone, go through neighbours.              *)
THEOREM MeshTypeCorrect == Spec => []TypeOK
<1>1. MeshInv => TypeOK
  <2> SUFFICES ASSUME MeshInv PROVE TypeOK
    OBVIOUS
  <2>1. ASSUME NEW n \in Nodes
        PROVE  /\ DOMAIN cost[n] \subseteq (Nodes \ {n}) \X Neighbours(n)
               /\ cost[n] \in [DOMAIN cost[n] -> 1..MaxCost]
               /\ age[n] \in [DOMAIN cost[n] -> 0..MaxAge]
               /\ DOMAIN known[n] \subseteq Nodes \ {n}
               /\ known[n] \in [DOMAIN known[n] -> 0..MaxAge]
    BY DEF MeshInv, NodeOK, Sound, Ages, Index
  <2>2. /\ DOMAIN held \subseteq Links
        /\ \A l \in DOMAIN held : /\ held[l].costs \in [DOMAIN held[l].costs -> 1..MaxCost]
                                 /\ DOMAIN held[l].costs \subseteq Nodes /\ held[l].caps \subseteq Nodes
    BY DEF MeshInv, HeldOK, FrameOK
  <2> QED
    BY <2>1, <2>2 DEF TypeOK, MeshInv
<1>2. QED
  BY InitInv, MeshInvNext, <1>1, PTL DEF Spec

(* No echo, loss, late frame, crash or restart ever makes a node look      *)
(* closer than it is: costs only err on the far side.                      *)
THEOREM CostsAreBounds == Spec => []CostsNeverTooLow
<1>1. MeshInv => CostsNeverTooLow
  BY DEF MeshInv, NodeOK, Sound, CostsNeverTooLow
<1>2. QED
  BY InitInv, MeshInvNext, <1>1, PTL DEF Spec
=============================================================================
