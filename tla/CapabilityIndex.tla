-------------------------- MODULE CapabilityIndex ---------------------------
(***************************************************************************)
(* routing.CapabilityIndex (pkg/mesh/routing/capability_index.go): which   *)
(* node offers which capability at which impedance. The same facts are     *)
(* kept in a forward map (byCap), a namespace-bucketed forward map (byNs)  *)
(* and an inverse map (byNode), each maintained by hand in five methods.   *)
(* Every method holds ci.mu, so one method is one action.                  *)
(*                                                                         *)
(* A Go map is a function whose DOMAIN is the set of its keys; only the    *)
(* innermost node -> impedance maps are total, None being an absent key.   *)
(***************************************************************************)
EXTENDS Naturals, Sequences

CONSTANTS
    Nodes,                   \* node identities
    Caps,                    \* capability strings
    Namespaces,              \* what precedes the ':' of a capability
    NamespaceOf,             \* capNamespace, as a function
    Oversize,                \* capabilities longer than MaxCapabilityLength
    MaxCapabilitiesPerNode,  \* the per-peer ingest limit
    CapLists,                \* capability lists a gossip frame may carry
    Impedances,
    MaxAge,                  \* PurgeStale's maxAge, in ticks
    None

ASSUME CapabilityAssumption ==
    /\ NamespaceOf \in [Caps -> Namespaces]
    /\ Oversize \subseteq Caps
    /\ MaxCapabilitiesPerNode \in Nat \ {0}
    /\ CapLists \subseteq Seq(Caps)
    /\ MaxAge \in Nat \ {0}
    /\ None \notin Impedances

VARIABLES
    byCap,       \* capability -> node -> impedance
    byNs,        \* namespace -> capability -> node -> impedance
    byNode,      \* node -> list of capabilities
    impedances,  \* node -> impedance
    age          \* node -> ticks since lastSeen, saturating at MaxAge

vars == <<byCap, byNs, byNode, impedances, age>>

NoNodes == [n \in Nodes |-> None]
EmptyIndex == [c \in {} |-> NoNodes]

Elems(s) == {s[i] : i \in DOMAIN s}
InNs(S, ns) == {c \in S : NamespaceOf[c] = ns}

(* m[k] = v and delete(m, k) for every k in K. *)
Put(m, k, v) == [j \in DOMAIN m \cup {k} |-> IF j = k THEN v ELSE m[j]]
Delete(m, K) == [j \in DOMAIN m \ K |-> m[j]]

(* NewCapabilityIndex *)
Init ==
    /\ byCap = EmptyIndex
    /\ byNs = [ns \in {} |-> EmptyIndex]
    /\ byNode = [n \in {} |-> <<>>]
    /\ impedances = [n \in {} |-> None]
    /\ age = [n \in {} |-> 0]

-----------------------------------------------------------------------------
(***************************************************************************)
(* The loops over a node's capability list, as operators on one index.     *)
(***************************************************************************)

(* if nodes, ok := idx[c]; ok { nodes[n] = z }, for every c in S. *)
SetEntries(idx, n, S, z) ==
    [c \in DOMAIN idx |-> IF c \in S THEN [idx[c] EXCEPT ![n] = z] ELSE idx[c]]

(* The same, creating the inner map when it is missing. *)
AddEntries(idx, n, S, z) ==
    [c \in DOMAIN idx \cup S |->
        IF c \in S
        THEN [(IF c \in DOMAIN idx THEN idx[c] ELSE NoNodes) EXCEPT ![n] = z]
        ELSE idx[c]]

Known(n) == n \in DOMAIN byNode
CapsOf(n) == IF Known(n) THEN Elems(byNode[n]) ELSE {}
CapsOfAll(N) == UNION {CapsOf(n) : n \in N}

(* The inner map of c after delete(nodes, n) for every n of N listing c. *)
Cleared(idx, N, c) ==
    [m \in Nodes |-> IF m \in N /\ c \in CapsOf(m) THEN None ELSE idx[c][m]]

(* purgeNodeLocked on one index: the nodes of N leave the inner maps of    *)
(* the capabilities in S, and an inner map that becomes empty is deleted.  *)
DropEntries(idx, N, S) ==
    [c \in {d \in DOMAIN idx :
                d \in S => \E m \in Nodes : Cleared(idx, N, d)[m] # None} |->
        IF c \in S THEN Cleared(idx, N, c) ELSE idx[c]]

SetNsEntries_Skip(ix, n, S, z) == ix

(* The same three on the buckets of byNs. *)
SetNsEntries(ix, n, S, z) ==
    [ns \in DOMAIN ix |-> SetEntries(ix[ns], n, InNs(S, ns), z)]

AddNsEntries(ix, n, S, z) ==
    [ns \in DOMAIN ix \cup {NamespaceOf[c] : c \in S} |->
        AddEntries(IF ns \in DOMAIN ix THEN ix[ns] ELSE EmptyIndex,
                   n, InNs(S, ns), z)]

DropNsEntries(ix, N, S) ==
    [ns \in {b \in DOMAIN ix :
                InNs(S, b) # {} => DOMAIN DropEntries(ix[b], N, InNs(S, b)) # {}}
        |-> DropEntries(ix[ns], N, InNs(S, ns))]

(* The entries of a list that pass the ingest limits, in order. *)
ValidCaps(caps) ==
    LET fits(c) == c \notin Oversize
        kept == SelectSeq(caps, fits)
    IN  SubSeq(kept, 1, IF Len(kept) < MaxCapabilitiesPerNode
                        THEN Len(kept) ELSE MaxCapabilitiesPerNode)

-----------------------------------------------------------------------------
(***************************************************************************)
(* Update, fast path: the list is the stored one; reprice and refresh.     *)
(* Update, slow path: purgeNodeLocked, then insert under every index.      *)
(***************************************************************************)
UpdateIdentical(n, z, caps) ==
    /\ Known(n) /\ byNode[n] = ValidCaps(caps)
    /\ impedances' = Put(impedances, n, z)
    /\ age' = Put(age, n, 0)
    /\ byCap' = SetEntries(byCap, n, CapsOf(n), z)
    /\ byNs' = SetNsEntries(byNs, n, CapsOf(n), z)
    /\ UNCHANGED byNode

UpdateChanged_NoPurge(n, z, caps) ==
    LET new == ValidCaps(caps) IN
    /\ ~(Known(n) /\ byNode[n] = new)
    /\ impedances' = Put(impedances, n, z)
    /\ age' = Put(age, n, 0)
    /\ byNode' = Put(byNode, n, new)
    /\ byCap' = AddEntries(byCap, n, Elems(new), z)
    /\ byNs' = AddNsEntries(byNs, n, Elems(new), z)

UpdateChanged(n, z, caps) ==
    LET new == ValidCaps(caps) IN
    /\ ~(Known(n) /\ byNode[n] = new)
    /\ impedances' = Put(impedances, n, z)
    /\ age' = Put(age, n, 0)
    /\ byNode' = Put(byNode, n, new)
    /\ byCap' = AddEntries(DropEntries(byCap, {n}, CapsOf(n)), n, Elems(new), z)
    /\ byNs' = AddNsEntries(DropNsEntries(byNs, {n}, CapsOf(n)), n, Elems(new), z)

(* Refresh: impedance and lastSeen of a known node, not its capabilities. *)
Refresh(n, z) ==
    /\ Known(n)
    /\ impedances' = Put(impedances, n, z)
    /\ age' = Put(age, n, 0)
    /\ byCap' = SetEntries(byCap, n, CapsOf(n), z)
    /\ byNs' = SetNsEntries(byNs, n, CapsOf(n), z)
    /\ UNCHANGED byNode

(* UpdateImpedance: as Refresh, but lastSeen stays. *)
UpdateImpedance(n, z) ==
    /\ Known(n)
    /\ impedances' = Put(impedances, n, z)
    /\ byCap' = SetEntries(byCap, n, CapsOf(n), z)
    /\ byNs' = SetNsEntries(byNs, n, CapsOf(n), z)
    /\ UNCHANGED <<byNode, age>>

(* purgeNodeLocked for every node of N, under one lock. *)
Purge(N) ==
    /\ byCap' = DropEntries(byCap, N, CapsOfAll(N))
    /\ byNs' = DropNsEntries(byNs, N, CapsOfAll(N))
    /\ byNode' = Delete(byNode, N)
    /\ impedances' = Delete(impedances, N)
    /\ age' = Delete(age, N)

PurgeNode(n) == Known(n) /\ Purge({n})

Stale == {n \in DOMAIN age : age[n] >= MaxAge}

(* PurgeStale: collect the stale nodes, then purge them. *)
PurgeStale == Stale # {} /\ Purge(Stale)

(* A tick passes. *)
Tick ==
    /\ \E n \in DOMAIN age : age[n] < MaxAge
    /\ age' = [n \in DOMAIN age |-> IF age[n] < MaxAge THEN age[n] + 1 ELSE MaxAge]
    /\ UNCHANGED <<byCap, byNs, byNode, impedances>>

Next ==
    \/ \E n \in Nodes, z \in Impedances :
        \/ \E caps \in CapLists : \/ UpdateIdentical(n, z, caps)
                                  \/ UpdateChanged(n, z, caps)
        \/ Refresh(n, z)
        \/ UpdateImpedance(n, z)
    \/ \E n \in Nodes : PurgeNode(n)
    \/ PurgeStale
    \/ Tick

Spec == Init /\ [][Next]_vars

-----------------------------------------------------------------------------
(***************************************************************************)
(* Lookups                                                                 *)
(***************************************************************************)

(* Lookup(c), as the node -> impedance map that it then sorts. *)
Lookup(c) == IF c \in DOMAIN byCap THEN byCap[c] ELSE NoNodes

(* The offers of node n among the capabilities of idx that match. *)
Offers(idx, n, matching) ==
    {idx[c][n] : c \in DOMAIN idx \cap matching} \ {None}

(* LookupWildcard for a prefix that contains ':': only bucket ns is read.  *)
LookupNamespace(ns, n, matching) ==
    IF ns \in DOMAIN byNs THEN Offers(byNs[ns], n, matching) ELSE {}

-----------------------------------------------------------------------------
(***************************************************************************)
(* Properties                                                              *)
(***************************************************************************)
NodeMap == [Nodes -> Impedances \cup {None}]

(* Type correctness: maps only hold keys and values of their domains, and  *)
(* the lists they store obey the ingest limits.                            *)
TypeOK ==
    /\ DOMAIN byCap \subseteq Caps
    /\ byCap \in [DOMAIN byCap -> NodeMap]
    /\ DOMAIN byNs \subseteq Namespaces
    /\ \A ns \in DOMAIN byNs : /\ DOMAIN byNs[ns] \subseteq Caps
                               /\ byNs[ns] \in [DOMAIN byNs[ns] -> NodeMap]
    /\ DOMAIN byNode \subseteq Nodes
    /\ \A n \in DOMAIN byNode : /\ byNode[n] \in Seq(Caps \ Oversize)
                                /\ Len(byNode[n]) <= MaxCapabilitiesPerNode
    /\ impedances \in [DOMAIN byNode -> Impedances]
    /\ age \in [DOMAIN byNode -> 0..MaxAge]

(* The forward map agrees with the inverse map: Lookup finds node n under  *)
(* capability c exactly when n's list holds c, at n's current impedance.   *)
(* Update, Refresh, UpdateImpedance and the purges keep the maps in step   *)
(* through separate loops; the fast path of Update skips the rebuild.      *)
ForwardMatchesInverse ==
    \A c \in Caps, n \in Nodes :
        Lookup(c)[n] = IF c \in CapsOf(n) THEN impedances[n] ELSE None

(* The namespace fast path of LookupWildcard loses nothing: for every set  *)
(* of capabilities of one namespace (those a prefix selects), reading only *)
(* that bucket gives what scanning all of byCap would give.                *)
NamespaceLookupIsComplete ==
    \A ns \in Namespaces, n \in Nodes :
        \A matching \in SUBSET InNs(Caps, ns) :
            LookupNamespace(ns, n, matching) = Offers(byCap, n, matching)

(* Nothing is left behind: an inner map, or a bucket, without any node is  *)
(* never kept, so purging bounds the index by the nodes it knows.          *)
NoEmptyBuckets ==
    /\ \A c \in DOMAIN byCap : \E n \in Nodes : byCap[c][n] # None
    /\ \A ns \in DOMAIN byNs :
        /\ DOMAIN byNs[ns] # {}
        /\ \A c \in DOMAIN byNs[ns] : \E n \in Nodes : byNs[ns][c][n] # None

(* The three maps say the same, whatever sequence of updates, refreshes,   *)
(* repricings and purges came before (capability_index.go).                *)
IndexIsExact == ForwardMatchesInverse /\ NamespaceLookupIsComplete /\ NoEmptyBuckets

(* A node is published, repriced and withdrawn as a whole: the index       *)
(* implements the plain table of offers.                                   *)
Table == INSTANCE CapabilityTable WITH offer <- [c \in Caps |-> Lookup(c)]
TableSpec == Table!Spec
=============================================================================
