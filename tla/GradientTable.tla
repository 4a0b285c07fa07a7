---------------------------- MODULE GradientTable ---------------------------
(***************************************************************************)
(* routing.GradientTable: the routing table of one node and the cache that *)
(* GenerateGossip keeps of its own output. Every method locks gt.mu, so    *)
(* one method is one action; ProcessGossip takes the lock once per route   *)
(* and therefore appears as one action per route.                          *)
(***************************************************************************)
EXTENDS RouteTable

CONSTANTS
    TableNodes, \* all node IDs
    Self,       \* gt.selfID
    Neighbors,  \* nodes that are connected to us at some time
    Rank,       \* the lexicographic order of the node IDs
    Costs,      \* route costs found in received gossip
    GossipImpedances, \* impedances of the senders and our own
    Budgets,    \* frame budgets passed to GenerateGossipBudgeted
    Snapshots,  \* sets of nodes with known capabilities
    RouteMaxAge, \* PurgeStale's maxAge, in ticks
    Nil

ASSUME GradientAssumption ==
    /\ Self \in TableNodes /\ Neighbors \subseteq TableNodes \ {Self}
    /\ IsFiniteSet(TableNodes)
    /\ Rank \in [TableNodes -> Nat]
    /\ \A m, n \in TableNodes : Rank[m] = Rank[n] => m = n
    /\ Costs \subseteq Nat /\ GossipImpedances \subseteq Nat /\ Budgets \subseteq Nat
    /\ Snapshots \subseteq SUBSET TableNodes
    /\ RouteMaxAge \in Nat \ {0}
    /\ \A S \in SUBSET TableNodes : Nil \notin [S -> Nat]   \* nil is not a list of routes

VARIABLES
    cost,         \* gt.routes: <<target, nextHop>> -> totalCost
    routeAge,     \* gt.routes: <<target, nextHop>> -> ticks since lastSeen
    gossipCache,  \* target -> cost, or Nil (nil)
    cacheKey,     \* <<gossipImpedance, gossipBudget>>
    dirty,
    sent          \* the last vector GenerateGossipBudgeted returned

gradientVars == <<cost, routeAge, gossipCache, cacheKey, dirty, sent>>

(* NewGradientTable *)
GradientInit ==
    /\ cost = [p \in {} |-> 0]
    /\ routeAge = [p \in {} |-> 0]
    /\ gossipCache = Nil
    /\ cacheKey = <<0, 0>>
    /\ dirty = FALSE
    /\ sent = Nil

-----------------------------------------------------------------------------
UpdateRoute_ForgetsDirty(t, h, c) ==
    /\ routeAge' = PutPath(routeAge, <<t, h>>, 0)
    /\ cost' = PutPath(cost, <<t, h>>, c)
    /\ dirty' = (dirty \/ <<t, h>> \notin DOMAIN cost)
    /\ UNCHANGED <<gossipCache, cacheKey, sent>>

(* UpdateRoute: a path that exists with the same cost is only refreshed;   *)
(* a new path or a new cost invalidates the cache.                         *)
UpdateRoute(t, h, c) ==
    /\ routeAge' = PutPath(routeAge, <<t, h>>, 0)
    /\ IF <<t, h>> \in DOMAIN cost /\ cost[<<t, h>>] = c
       THEN UNCHANGED <<cost, dirty>>
       ELSE cost' = PutPath(cost, <<t, h>>, c) /\ dirty' = TRUE
    /\ UNCHANGED <<gossipCache, cacheKey, sent>>

(* ProcessGossip, one route of the vector: routes to ourselves are ignored. *)
ProcessGossip(from, z, t, c) == t # Self /\ UpdateRoute(t, from, c + z)

(* AddDirectNeighbor, with initPeerControlPlane's default impedance. *)
AddDirectNeighbor(h) == UpdateRoute(h, h, 1)

(* The filtering loop of RemoveNeighbor and PurgeStale. *)
RemovePaths(P) ==
    /\ cost' = DeletePaths(cost, P)
    /\ routeAge' = DeletePaths(routeAge, P)
    /\ dirty' = (dirty \/ P # {})
    /\ UNCHANGED <<gossipCache, cacheKey, sent>>

RemoveNeighbor(h) == RemovePaths({p \in DOMAIN cost : p[2] = h})

(* PurgeStale: an entry survives only if lastSeen is strictly after now - maxAge. *)
PurgeStaleRoutes == RemovePaths({p \in DOMAIN routeAge : routeAge[p] >= RouteMaxAge})

(* A tick passes; ages saturate at RouteMaxAge. *)
RouteTick ==
    /\ \E p \in DOMAIN routeAge : routeAge[p] < RouteMaxAge
    /\ routeAge' = [p \in DOMAIN routeAge |-> IF routeAge[p] < RouteMaxAge THEN routeAge[p] + 1 ELSE RouteMaxAge]
    /\ UNCHANGED <<cost, gossipCache, cacheKey, dirty, sent>>

-----------------------------------------------------------------------------
(* The returned GossipVector; known are the nodes of the caller's          *)
(* capability snapshot.                                                    *)
Vector(z, budget, known, adv) ==
    [impedance |-> z, budget |-> budget, known |-> known, routes |-> adv,
     caps |-> capHorizonRanked(known, Self, DOMAIN adv, RouteBudget(budget), Rank)]

CacheHit_IgnoresBudget(z, budget) ==
    ~dirty /\ gossipCache # Nil /\ cacheKey[1] = z

CacheHit(z, budget) ==
    ~dirty /\ gossipCache # Nil /\ cacheKey = <<z, budget>>

GenerateGossipHit(z, budget, known) ==
    /\ CacheHit(z, budget)
    /\ sent' = Vector(z, budget, known, gossipCache)
    /\ UNCHANGED <<cost, routeAge, gossipCache, cacheKey, dirty>>

GenerateGossipMiss_Uncached(z, budget, known) ==
    \E adv \in Horizons(cost, RouteBudget(budget)) :
        /\ sent' = Vector(z, budget, known, adv)
        /\ dirty' = FALSE
        /\ UNCHANGED <<cost, routeAge, gossipCache, cacheKey>>

(* Recompute the best routes, cap them, store them, clear the dirty flag. *)
GenerateGossipMiss(z, budget, known) ==
    /\ ~CacheHit(z, budget)
    /\ cacheKey' = <<z, budget>>
    /\ dirty' = FALSE
    /\ UNCHANGED <<cost, routeAge>>
    /\ \E adv \in Horizons(cost, RouteBudget(budget)) :
        /\ gossipCache' = adv
        /\ sent' = Vector(z, budget, known, adv)

GenerateGossip(z, budget, known) ==
    GenerateGossipHit(z, budget, known) \/ GenerateGossipMiss(z, budget, known)

GradientNext ==
    \/ \E h \in Neighbors :
        \/ \E z \in GossipImpedances, t \in TableNodes, c \in Costs : ProcessGossip(h, z, t, c)
        \/ AddDirectNeighbor(h)
        \/ RemoveNeighbor(h)
    \/ PurgeStaleRoutes
    \/ RouteTick
    \/ \E z \in GossipImpedances, b \in Budgets, known \in Snapshots :
        GenerateGossip(z, b, known)

GradientSpec == GradientInit /\ [][GradientNext]_gradientVars

-----------------------------------------------------------------------------
(***************************************************************************)
(* Properties                                                              *)
(***************************************************************************)

(* Type correctness: no path leads to the node itself or through it, costs *)
(* and ages are kept for the same paths.                                   *)
GradientTypeOK ==
    /\ DOMAIN cost \subseteq (TableNodes \ {Self}) \X Neighbors
    /\ cost \in [DOMAIN cost -> Nat]
    /\ routeAge \in [DOMAIN cost -> 0..RouteMaxAge]
    /\ dirty \in BOOLEAN

(* A cache that GenerateGossip would still use is a correct answer for the *)
(* table as it is now, with the horizon of the budget it was built for: no *)
(* mutation of the table escapes the dirty flag.                           *)
CacheIsCurrent ==
    (~dirty /\ gossipCache # Nil) =>
        IsHorizon(gossipCache, cost, RouteBudget(cacheKey[2]))

(* Whatever GenerateGossip returns, from the cache or not, it advertises   *)
(* the best costs of the present table and never more routes than the      *)
(* frame budget of this very call allows (the defect "P0-1" of the code's  *)
(* comments: a cache hit that returned the uncapped table).                *)
EmissionsAreCurrent ==
    [][\A z \in GossipImpedances, b \in Budgets, known \in Snapshots :
        GenerateGossip(z, b, known) =>
            IsHorizon(sent'.routes, cost, RouteBudget(b))]_gradientVars

(* Two calls in a row with the same arguments and no mutation in between   *)
(* select the same routes and the same capability subset, although sorting *)
(* is unstable and map order random (defect "P0-2"), and the subset fits   *)
(* the budget.                                                             *)
EmissionsAreStable ==
    [][(/\ sent # Nil /\ ~dirty
        /\ GenerateGossip(sent.impedance, sent.budget, sent.known))
        => sent' = sent /\ Cardinality(sent.caps) <= RouteBudget(sent.budget)]_gradientVars
=============================================================================
