------------------------------- MODULE MCCalls ------------------------------
(* How a call finds its node and reaches it, for TLC: a discovery flood     *)
(* (Sonar) on a triangle b, c, d with a tail a - b, where a flood of a can  *)
(* circle without passing a and one of c comes back to its origin; and      *)
(* relayed calls (RelayCircuit) on the line z - a - b - c - d. A behaviour   *)
(* is about one of the two: focus is chosen initially.                      *)
EXTENDS Sonar, RelayCircuit, Integers, TLC

CONSTANTS Focuses, z, a, b, c, d, q1, q2, x

SonarGraph == {a, b, c, d}
TriangleLinks == {l \in SonarGraph \X SonarGraph : l[1] # l[2] /\ {l[1], l[2]} \notin {{a, d}, {a, c}}}
TriangleHop == [n \in SonarGraph |-> [o \in SonarGraph |->
                   CASE n = o -> {}
                     [] {n, o} \in {{a, d}, {a, c}} -> {b}
                     [] OTHER -> {o}]]
MCHolders == x :> {a, c, d}

Position == z :> 0 @@ a :> 1 @@ b :> 2 @@ c :> 3 @@ d :> 4
LineLinks(S) == {l \in S \X S : Position[l[1]] - Position[l[2]] \in {-1, 1}}

(* The neighbour in the target's direction. *)
LineHop(S) == [n \in S |-> [t \in S |->
    {h \in S : /\ <<n, h>> \in LineLinks(S)
               /\ IF Position[t] > Position[n] THEN Position[h] > Position[n]
                  ELSE Position[t] < Position[n] /\ Position[h] < Position[n]}]]

(* Two calls in one direction that share their first hop. *)
MCNodes == {a, b, c, d}
MCLinks == LineLinks(MCNodes)
MCNextHop == LineHop(MCNodes)
MCCaller == q1 :> a @@ q2 :> a
MCTarget == q1 :> d @@ q2 :> c

(* Two calls that cross. *)
CrossNodes == {z, a, b, c, d}
CrossLinks == LineLinks(CrossNodes)
CrossNextHop == LineHop(CrossNodes)
CrossCaller == q1 :> a @@ q2 :> c
CrossTarget == q1 :> d @@ q2 :> z

VARIABLE focus

CallsInit == focus \in Focuses /\ SonarInit /\ Init
CallsNext ==
    \/ focus = "sonar" /\ SonarNext /\ UNCHANGED <<focus, vars>>
    \/ focus = "relay" /\ Next /\ UNCHANGED <<focus, sonarVars>>

(* Before its first call nothing of a component is enabled that its fairness *)
(* asks for, so the component that a behaviour is not about may stay idle.   *)
CallsSpec ==
    /\ CallsInit /\ [][CallsNext]_<<focus, sonarVars, vars>>
    /\ SonarFairness /\ RelayFairness
=============================================================================
