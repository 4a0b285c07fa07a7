----------------------------- MODULE RouteTable -----------------------------
(***************************************************************************)
(* The pure part of routing.GradientTable (pkg/mesh/routing/gradient.go).  *)
(*                                                                         *)
(* A table maps <<target, nextHop>> to the cost of that path; its DOMAIN   *)
(* is the set of path entries. The order of the entries of one target only *)
(* decides which of several cheapest next hops BestRoute picks, so it is   *)
(* left out and BestHops is the set of the candidates.                     *)
(***************************************************************************)
EXTENDS Naturals, FiniteSets, FiniteSetsExt

(* m[k] = v and delete(m, k) for every k in K. *)
PutPath(m, k, v) == [j \in DOMAIN m \cup {k} |-> IF j = k THEN v ELSE m[j]]
DeletePaths(m, K) == [j \in DOMAIN m \ K |-> m[j]]

Targets(cost) == {p[1] : p \in DOMAIN cost}

PathsTo(cost, t) == {p \in DOMAIN cost : p[1] = t}

(* The cost that BestRoute, AllRoutes and GenerateGossip pick for t. *)
BestCost(cost, t) == Min({cost[p] : p \in PathsTo(cost, t)})

BestHops(cost, t) == {p[2] : p \in {q \in PathsTo(cost, t) : cost[q] = BestCost(cost, t)}}

(* All best costs: what a gossip vector would carry without a horizon. *)
BestCosts(cost) == [t \in Targets(cost) |-> BestCost(cost, t)]

(***************************************************************************)
(* The route lists that GenerateGossipBudgeted may build for a horizon: if *)
(* there are too many targets, the cheapest ones survive. Which of several *)
(* equally expensive ones do is up to Go's map order and unstable sort.    *)
(***************************************************************************)
IsHorizon(adv, cost, horizon) ==
    /\ DOMAIN adv \subseteq Targets(cost)
    /\ \A t \in DOMAIN adv : adv[t] = BestCost(cost, t)
    /\ Cardinality(DOMAIN adv) = Min({horizon, Cardinality(Targets(cost))})
    /\ \A t \in DOMAIN adv, u \in Targets(cost) \ DOMAIN adv :
            adv[t] <= BestCost(cost, u)

Horizons(cost, horizon) ==
    {adv \in {[t \in S |-> BestCost(cost, t)] : S \in SUBSET Targets(cost)} :
        IsHorizon(adv, cost, horizon)}

avgRouteOnWire == 40
gossipOverheadEstimate == 128

(* How many routes fit in a frame of the given size; at least one. *)
RouteBudget(frameBudgetBytes) ==
    IF frameBudgetBytes < gossipOverheadEstimate + avgRouteOnWire THEN 1
    ELSE (frameBudgetBytes - gossipOverheadEstimate) \div avgRouteOnWire

(***************************************************************************)
(* capHorizonRanked: the nodes whose capabilities travel in a frame. The   *)
(* advertised routes come first (they never exceed the budget); slack is   *)
(* filled in the order of the node IDs, given by Rank.                     *)
(***************************************************************************)
Smallest(S, k, Rank) == {n \in S : Cardinality({m \in S : Rank[m] < Rank[n]}) < k}

capHorizonRanked(known, self, ranked, budget, Rank) ==
    LET first == (ranked \cap known) \ {self}
    IN  first \cup Smallest((known \ first) \ {self}, budget - Cardinality(first), Rank)
=============================================================================
