-------------------------- MODULE CapabilityTable ---------------------------
(***************************************************************************)
(* What routing.CapabilityIndex promises its callers: one impedance per    *)
(* (capability, node) pair on offer, all offers of a node priced alike and *)
(* published, repriced or withdrawn together. CapabilityIndex.tla, with    *)
(* its three redundant maps, implements this.                              *)
(***************************************************************************)
CONSTANTS Nodes, Caps, Impedances, None

VARIABLE offer   \* [Caps -> [Nodes -> Impedances \cup {None}]]

Init == offer = [c \in Caps |-> [n \in Nodes |-> None]]

(* Node n offers exactly the capabilities in S, at impedance z. *)
Publish(n, S, z) ==
    offer' = [c \in Caps |->
                [offer[c] EXCEPT ![n] = IF c \in S THEN z ELSE None]]

(* Whatever n offers is repriced. *)
Reprice(n, z) ==
    offer' = [c \in Caps |->
                [offer[c] EXCEPT ![n] = IF @ = None THEN None ELSE z]]

(* The offers of all nodes in N are withdrawn. *)
Withdraw(N) ==
    offer' = [c \in Caps |->
                [n \in Nodes |-> IF n \in N THEN None ELSE offer[c][n]]]

Next ==
    \/ \E n \in Nodes, z \in Impedances :
        \/ \E S \in SUBSET Caps : Publish(n, S, z)
        \/ Reprice(n, z)
    \/ \E N \in SUBSET Nodes : Withdraw(N)

Spec == Init /\ [][Next]_offer
=============================================================================
