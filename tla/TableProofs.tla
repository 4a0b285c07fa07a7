---------------------------- MODULE TableProofs ----------------------------
(***************************************************************************)
(* Proofs about the two tables of a node, for every set of nodes,          *)
(* capabilities, namespaces, gossiped lists, costs, budgets and ages.      *)
(*                                                                         *)
(* CapabilityIndex. The inductive invariant says what the two forward maps *)
(* are as functions of byNode and impedances; each helper loop is a lemma  *)
(* about one index, used for byCap and for every bucket.                   *)
(***************************************************************************)
EXTENDS CapabilityIndex, GradientTable, FiniteSetTheorems, WellFoundedInduction, TLAPS

AllCaps(cs) == UNION {cs[n] : n \in Nodes}

(* The inner map of capability c: who offers it, at what impedance. *)
Row(cs, im, c) == [n \in Nodes |-> IF c \in cs[n] THEN im[n] ELSE None]

(* The forward index over the capabilities in R. *)
Forward(cs, im, R) == [c \in AllCaps(cs) \cap R |-> Row(cs, im, c)]

(* The bucketed index. *)
Bucketed(cs, im) ==
    [ns \in {NamespaceOf[c] : c \in AllCaps(cs)} |->
        Forward(cs, im, InNs(AllCaps(cs), ns))]

(* What n lists and costs, for known and unknown nodes alike. *)
Lists == [n \in Nodes |-> CapsOf(n)]
OfferCosts == [n \in Nodes |-> IF Known(n) THEN impedances[n] ELSE None]

Shape ==
    /\ DOMAIN byNode \subseteq Nodes
    /\ DOMAIN impedances = DOMAIN byNode
    /\ DOMAIN age = DOMAIN byNode
    /\ \A n \in DOMAIN byNode : impedances[n] \in Impedances

IndexInv ==
    /\ Shape
    /\ byCap = Forward(Lists, OfferCosts, AllCaps(Lists))
    /\ byNs = Bucketed(Lists, OfferCosts)

(* Abbreviations that keep the lemmas below free of function literals. *)
OnNodes(f) == f = [m \in Nodes |-> f[m]]
With(f, n, v) == [f EXCEPT ![n] = v]
Without(cs, N) == [n \in Nodes |-> IF n \in N THEN {} ELSE cs[n]]
SameIn(S, T, R) == S \cap R = T \cap R

-----------------------------------------------------------------------------
LEMMA WithFacts ==
    ASSUME NEW f, OnNodes(f), NEW n \in Nodes, NEW v
    PROVE  /\ OnNodes(With(f, n, v))
           /\ With(f, n, v)[n] = v
           /\ \A m \in Nodes : m # n => With(f, n, v)[m] = f[m]
BY DEF OnNodes, With

(* An index is determined by its keys and its rows. *)
LEMMA ForwardFacts ==
    ASSUME NEW cs, NEW im, NEW R
    PROVE  /\ DOMAIN Forward(cs, im, R) = AllCaps(cs) \cap R
           /\ \A c : c \in AllCaps(cs) /\ c \in R
                        => Forward(cs, im, R)[c] = Row(cs, im, c)
BY DEF Forward

LEMMA SameRange ==
    ASSUME NEW cs, NEW im, NEW R, NEW Q, SameIn(R, Q, AllCaps(cs))
    PROVE  Forward(cs, im, R) = Forward(cs, im, Q)
<1>1. AllCaps(cs) \cap R = AllCaps(cs) \cap Q
  BY DEF SameIn
<1>2. QED
  BY <1>1 DEF Forward

(* Repricing node n's entries yields the index for the new costs. *)
LEMMA SetLemma ==
    ASSUME NEW cs, NEW im, OnNodes(im), NEW n \in Nodes, NEW z, NEW R, NEW S,
           SameIn(S, cs[n], R)
    PROVE  SetEntries(Forward(cs, im, R), n, S, z)
             = Forward(cs, With(im, n, z), R)
<1> DEFINE F == Forward(cs, im, R)
           jm == With(im, n, z)
           G == Forward(cs, jm, R)
<1> HIDE DEF jm
<1>1. ASSUME NEW c, c \in AllCaps(cs), c \in R
      PROVE  (IF c \in S THEN [F[c] EXCEPT ![n] = z] ELSE F[c]) = G[c]
  <2>1. F[c] = Row(cs, im, c) /\ G[c] = Row(cs, jm, c)
    BY <1>1, ForwardFacts
  <2>2. c \in S <=> c \in cs[n]
    BY <1>1 DEF SameIn
  <2>3. jm[n] = z /\ \A m \in Nodes : m # n => jm[m] = im[m]
    BY WithFacts DEF jm
  <2>4. c \in S => [Row(cs, im, c) EXCEPT ![n] = z] = Row(cs, jm, c)
    BY <2>2, <2>3 DEF Row
  <2>5. c \notin S => Row(cs, im, c) = Row(cs, jm, c)
    BY <2>2, <2>3 DEF Row
  <2>6. QED
    BY <2>1, <2>4, <2>5
<1>2. DOMAIN F = AllCaps(cs) \cap R /\ G = [c \in DOMAIN F |-> G[c]]
  BY ForwardFacts DEF Forward
<1>3. SetEntries(F, n, S, z) = [c \in DOMAIN F |-> G[c]]
  BY <1>1, <1>2 DEF SetEntries
<1>4. QED
  BY <1>2, <1>3 DEF jm

(* Inserting the entries of a node that had none. *)
LEMMA AddLemma ==
    ASSUME NEW cs, OnNodes(cs), NEW im, OnNodes(im), NEW n \in Nodes, NEW z,
           NEW R, NEW S, NEW L, cs[n] = {}, S = L \cap R
    PROVE  AddEntries(Forward(cs, im, R), n, S, z)
             = Forward(With(cs, n, L), With(im, n, z), R)
<1> DEFINE F == Forward(cs, im, R)
           ds == With(cs, n, L)
           jm == With(im, n, z)
           G == Forward(ds, jm, R)
<1> HIDE DEF ds, jm
<1>1. ds[n] = L /\ \A m \in Nodes : m # n => ds[m] = cs[m]
  BY WithFacts DEF ds
<1>2. jm[n] = z /\ \A m \in Nodes : m # n => jm[m] = im[m]
  BY WithFacts DEF jm
<1>3. AllCaps(ds) = AllCaps(cs) \cup L
  BY <1>1 DEF AllCaps
<1>4. DOMAIN F = AllCaps(cs) \cap R
  BY ForwardFacts
<1>5. ASSUME NEW c, c \in DOMAIN F \cup S
      PROVE  (IF c \in S
              THEN [(IF c \in DOMAIN F THEN F[c] ELSE NoNodes) EXCEPT ![n] = z]
              ELSE F[c]) = G[c]
  <2>1. G[c] = Row(ds, jm, c)
    BY <1>3, <1>4, <1>5, ForwardFacts
  <2>2. c \in DOMAIN F => F[c] = Row(cs, im, c)
    BY <1>4, ForwardFacts
  <2>3. c \in S /\ c \notin DOMAIN F => NoNodes = Row(cs, im, c)
    BY <1>4 DEF NoNodes, Row, AllCaps
  <2>4. CASE c \in S
    <3>1. (IF c \in DOMAIN F THEN F[c] ELSE NoNodes) = Row(cs, im, c)
      BY <2>2, <2>3, <2>4
    <3>2. [Row(cs, im, c) EXCEPT ![n] = z] = Row(ds, jm, c)
      BY <1>1, <1>2, <2>4 DEF Row
    <3>3. QED
      BY <2>1, <2>4, <3>1, <3>2
  <2>5. CASE c \notin S
    <3>1. Row(cs, im, c) = Row(ds, jm, c)
      BY <1>1, <1>2, <1>4, <1>5, <2>5 DEF Row
    <3>2. QED
      BY <1>5, <2>1, <2>2, <2>5, <3>1
  <2>6. QED
    BY <2>4, <2>5
<1>6. G = [c \in DOMAIN F \cup S |-> G[c]]
  <2>1. AllCaps(ds) \cap R = DOMAIN F \cup S
    BY <1>3, <1>4
  <2>2. QED
    BY <2>1 DEF Forward
<1>7. AddEntries(F, n, S, z) = [c \in DOMAIN F \cup S |-> G[c]]
  BY <1>5 DEF AddEntries
<1>8. QED
  BY <1>6, <1>7 DEF ds, jm

(* Purging the nodes of N from an index that is in step with byNode. *)
LEMMA DropLemma ==
    ASSUME NEW N \in SUBSET Nodes, NEW R, NEW S, SameIn(S, CapsOfAll(N), R),
           Shape
    PROVE  DropEntries(Forward(Lists, OfferCosts, R), N, S)
             = Forward(Without(Lists, N), OfferCosts, R)
<1> DEFINE F == Forward(Lists, OfferCosts, R)
           ds == Without(Lists, N)
           G == Forward(ds, OfferCosts, R)
<1> HIDE DEF ds
<1>0. \A m \in Nodes : ds[m] = IF m \in N THEN {} ELSE Lists[m]
  BY DEF ds, Without
<1>1. ASSUME NEW c, c \in AllCaps(Lists), c \in R
      PROVE  /\ Cleared(F, N, c) = Row(ds, OfferCosts, c)
             /\ c \notin S => F[c] = Row(ds, OfferCosts, c)
             /\ (c \in S => \E m \in Nodes : Cleared(F, N, c)[m] # None)
                  <=> c \in AllCaps(ds)
  <2>1. F[c] = Row(Lists, OfferCosts, c)
    BY <1>1, ForwardFacts
  <2>2. Cleared(F, N, c) = Row(ds, OfferCosts, c)
    BY <1>0, <2>1 DEF Cleared, Row, Lists
  <2>3. c \in S <=> \E m \in N : c \in Lists[m]
    BY <1>1 DEF SameIn, CapsOfAll, Lists
  <2>4. c \notin S => F[c] = Row(ds, OfferCosts, c)
    BY <1>0, <2>1, <2>3 DEF Row
  <2>5. \A m \in Nodes : Row(ds, OfferCosts, c)[m] # None <=> c \in ds[m]
    BY <1>0, CapabilityAssumption DEF Row, Lists, OfferCosts, CapsOf, Known, Shape
  <2>6. c \in AllCaps(ds) <=> \E m \in Nodes : c \in ds[m]
    BY DEF AllCaps
  <2>7. c \notin S => c \in AllCaps(ds)
    <3>1. PICK m \in Nodes : c \in Lists[m]
      BY <1>1 DEF AllCaps
    <3>2. QED
      BY <1>0, <2>3, <2>6, <3>1
  <2>8. QED
    BY <2>2, <2>4, <2>5, <2>6, <2>7
<1>2. DOMAIN F = AllCaps(Lists) \cap R
  BY ForwardFacts
<1>3. AllCaps(ds) \subseteq AllCaps(Lists)
  BY <1>0 DEF AllCaps
<1>4. {d \in DOMAIN F : d \in S => \E m \in Nodes : Cleared(F, N, d)[m] # None}
        = AllCaps(ds) \cap R
  <2> HIDE DEF F
  <2>1. QED
    BY <1>1, <1>2, <1>3
<1>5. ASSUME NEW c, c \in AllCaps(ds) \cap R
      PROVE  (IF c \in S THEN Cleared(F, N, c) ELSE F[c]) = Row(ds, OfferCosts, c)
  BY <1>1, <1>3, <1>5
<1>6. DropEntries(F, N, S) = [c \in AllCaps(ds) \cap R |-> Row(ds, OfferCosts, c)]
  <2> HIDE DEF F
  <2>1. QED
    BY <1>4, <1>5 DEF DropEntries
<1>7. QED
  BY <1>6 DEF Forward, ds

-----------------------------------------------------------------------------
(* The same three facts for the buckets of byNs. *)
LEMMA SetNsLemma ==
    ASSUME NEW cs, NEW im, OnNodes(im), NEW n \in Nodes, NEW z
    PROVE  SetNsEntries(Bucketed(cs, im), n, cs[n], z)
             = Bucketed(cs, With(im, n, z))
<1> DEFINE B == Bucketed(cs, im)
           jm == With(im, n, z)
           NS == {NamespaceOf[c] : c \in AllCaps(cs)}
<1> HIDE DEF jm
<1>1. ASSUME NEW ns \in NS
      PROVE  SetEntries(B[ns], n, InNs(cs[n], ns), z)
               = Forward(cs, jm, InNs(AllCaps(cs), ns))
  <2> DEFINE R == InNs(AllCaps(cs), ns)
             S == InNs(cs[n], ns)
  <2>1. B[ns] = Forward(cs, im, R)
    BY <1>1 DEF Bucketed
  <2>2. SameIn(S, cs[n], R)
    BY DEF InNs, SameIn
  <2> HIDE DEF R, S
  <2>3. SetEntries(Forward(cs, im, R), n, S, z) = Forward(cs, jm, R)
    BY <2>2, SetLemma DEF jm
  <2>4. QED
    BY <2>1, <2>3 DEF R, S
<1>2. SetNsEntries(B, n, cs[n], z)
        = [ns \in NS |-> Forward(cs, jm, InNs(AllCaps(cs), ns))]
  <2>1. DOMAIN B = NS
    BY DEF Bucketed
  <2> HIDE DEF B, NS
  <2>2. QED
    BY <1>1, <2>1 DEF SetNsEntries
<1>3. QED
  BY <1>2 DEF Bucketed, jm

LEMMA AddNsLemma ==
    ASSUME NEW cs, OnNodes(cs), NEW im, OnNodes(im), NEW n \in Nodes, NEW z,
           NEW L, cs[n] = {}
    PROVE  AddNsEntries(Bucketed(cs, im), n, L, z)
             = Bucketed(With(cs, n, L), With(im, n, z))
<1> DEFINE B == Bucketed(cs, im)
           ds == With(cs, n, L)
           jm == With(im, n, z)
           NS == {NamespaceOf[c] : c \in AllCaps(ds)}
<1> HIDE DEF ds, jm
<1>1. AllCaps(ds) = AllCaps(cs) \cup L
  <2>1. ds[n] = L /\ \A m \in Nodes : m # n => ds[m] = cs[m]
    BY WithFacts DEF ds
  <2>2. QED
    BY <2>1 DEF AllCaps
<1>2. DOMAIN B = {NamespaceOf[c] : c \in AllCaps(cs)}
  BY DEF Bucketed
<1>3. DOMAIN B \cup {NamespaceOf[c] : c \in L} = NS
  <2> HIDE DEF B
  <2>1. QED
    BY <1>1, <1>2
<1>4. ASSUME NEW ns \in NS
      PROVE  AddEntries(IF ns \in DOMAIN B THEN B[ns] ELSE EmptyIndex,
                        n, InNs(L, ns), z)
               = Forward(ds, jm, InNs(AllCaps(ds), ns))
  <2> DEFINE R == InNs(AllCaps(ds), ns)
             S == InNs(L, ns)
  <2>1. ASSUME ns \in DOMAIN B PROVE B[ns] = Forward(cs, im, R)
    <3>1. B[ns] = Forward(cs, im, InNs(AllCaps(cs), ns))
      BY <2>1 DEF Bucketed
    <3>2. SameIn(InNs(AllCaps(cs), ns), R, AllCaps(cs))
      BY <1>1 DEF InNs, SameIn
    <3>3. Forward(cs, im, InNs(AllCaps(cs), ns)) = Forward(cs, im, R)
      <4> HIDE DEF R
      <4>1. QED
        BY <3>2, SameRange
    <3>4. QED
      BY <3>1, <3>3
  <2>2. ASSUME ns \notin DOMAIN B PROVE EmptyIndex = Forward(cs, im, R)
    <3>1. AllCaps(cs) \cap R = {}
      BY <1>2, <2>2 DEF InNs
    <3>2. QED
      BY <3>1 DEF Forward, EmptyIndex
  <2>3. S = L \cap R
    BY <1>1 DEF InNs
  <2> HIDE DEF R, S
  <2>4. AddEntries(Forward(cs, im, R), n, S, z) = Forward(ds, jm, R)
    BY <2>3, AddLemma DEF ds, jm
  <2>5. QED
    BY <2>1, <2>2, <2>4 DEF R, S
<1>5. AddNsEntries(B, n, L, z)
        = [ns \in NS |-> Forward(ds, jm, InNs(AllCaps(ds), ns))]
  <2> HIDE DEF B, NS
  <2>1. QED
    BY <1>3, <1>4 DEF AddNsEntries
<1>6. QED
  BY <1>5 DEF Bucketed, ds, jm

LEMMA DropNsLemma ==
    ASSUME NEW N \in SUBSET Nodes, Shape
    PROVE  DropNsEntries(Bucketed(Lists, OfferCosts), N, CapsOfAll(N))
             = Bucketed(Without(Lists, N), OfferCosts)
<1> DEFINE B == Bucketed(Lists, OfferCosts)
           S == CapsOfAll(N)
           ds == Without(Lists, N)
           NS == {NamespaceOf[c] : c \in AllCaps(ds)}
<1> HIDE DEF ds
<1>1. DOMAIN B = {NamespaceOf[c] : c \in AllCaps(Lists)}
  BY DEF Bucketed
<1>2. AllCaps(ds) \subseteq AllCaps(Lists)
  BY DEF AllCaps, ds, Without
<1>3. ASSUME NEW ns \in DOMAIN B
      PROVE  DropEntries(B[ns], N, InNs(S, ns))
               = Forward(ds, OfferCosts, InNs(AllCaps(ds), ns))
  <2> DEFINE R == InNs(AllCaps(Lists), ns)
             Q == InNs(AllCaps(ds), ns)
             P == InNs(S, ns)
  <2>1. B[ns] = Forward(Lists, OfferCosts, R)
    BY <1>3 DEF Bucketed
  <2>2. SameIn(P, CapsOfAll(N), R)
    BY DEF InNs, SameIn
  <2>3. SameIn(R, Q, AllCaps(ds))
    BY <1>2 DEF InNs, SameIn
  <2> HIDE DEF R, Q, P
  <2>4. DropEntries(Forward(Lists, OfferCosts, R), N, P) = Forward(ds, OfferCosts, R)
    BY <2>2, DropLemma DEF ds
  <2>5. Forward(ds, OfferCosts, R) = Forward(ds, OfferCosts, Q)
    BY <2>3, SameRange
  <2>6. QED
    BY <2>1, <2>4, <2>5 DEF P, Q
<1>4. ASSUME NEW ns \in DOMAIN B
      PROVE  DOMAIN DropEntries(B[ns], N, InNs(S, ns)) = InNs(AllCaps(ds), ns)
  <2>1. DOMAIN Forward(ds, OfferCosts, InNs(AllCaps(ds), ns)) = InNs(AllCaps(ds), ns)
    BY DEF Forward, InNs
  <2>2. QED
    BY <1>3, <2>1
<1>5. ASSUME NEW ns \in DOMAIN B, InNs(S, ns) = {}
      PROVE  InNs(AllCaps(ds), ns) # {}
  <2>1. PICK c \in AllCaps(Lists) : NamespaceOf[c] = ns
    BY <1>1, <1>5
  <2>2. PICK m \in Nodes : c \in Lists[m]
    BY DEF AllCaps
  <2>3. m \notin N
    BY <1>5, <2>1, <2>2 DEF CapsOfAll, Lists, InNs
  <2>4. c \in AllCaps(ds)
    BY <2>2, <2>3 DEF AllCaps, ds, Without
  <2>5. QED
    BY <2>1, <2>4 DEF InNs
<1>6. {b \in DOMAIN B : InNs(S, b) # {} =>
                          DOMAIN DropEntries(B[b], N, InNs(S, b)) # {}} = NS
  <2> HIDE DEF B, S
  <2>1. \A b \in DOMAIN B :
          (InNs(S, b) # {} => DOMAIN DropEntries(B[b], N, InNs(S, b)) # {})
            <=> InNs(AllCaps(ds), b) # {}
    BY <1>4, <1>5
  <2>2. QED
    BY <1>1, <1>2, <2>1 DEF InNs
<1>7. NS \subseteq DOMAIN B
  <2> HIDE DEF B
  <2>1. QED
    BY <1>1, <1>2
<1>8. DropNsEntries(B, N, S)
        = [ns \in NS |-> Forward(ds, OfferCosts, InNs(AllCaps(ds), ns))]
  <2> HIDE DEF B, S, NS
  <2>1. QED
    BY <1>3, <1>6, <1>7 DEF DropNsEntries
<1>9. QED
  BY <1>8 DEF Bucketed, ds

-----------------------------------------------------------------------------
LEMMA TablesOnNodes == OnNodes(Lists) /\ OnNodes(OfferCosts)
BY DEF OnNodes, Lists, OfferCosts

(* byCap ranges over all listed capabilities, so any larger R will do. *)
LEMMA WholeRange ==
    ASSUME NEW cs, NEW im, NEW R, AllCaps(cs) \subseteq R
    PROVE  Forward(cs, im, AllCaps(cs)) = Forward(cs, im, R)
<1>1. SameIn(AllCaps(cs), R, AllCaps(cs))
  BY DEF SameIn
<1>2. QED
  BY <1>1, SameRange

LEMMA IndexInvInit == Init => IndexInv
<1> SUFFICES ASSUME Init PROVE IndexInv
  OBVIOUS
<1>1. Shape
  BY DEF Init, Shape
<1>2. AllCaps(Lists) = {}
  BY DEF Init, AllCaps, Lists, CapsOf, Known
<1>3. byCap = Forward(Lists, OfferCosts, AllCaps(Lists))
  BY <1>2 DEF Init, Forward, EmptyIndex
<1>4. byNs = Bucketed(Lists, OfferCosts)
  BY <1>2 DEF Init, Bucketed
<1>5. QED
  BY <1>1, <1>3, <1>4 DEF IndexInv

(* Update's fast path, Refresh and UpdateImpedance. *)
LEMMA RepriceStep ==
    ASSUME IndexInv, NEW n \in Nodes, NEW z \in Impedances, Known(n),
           impedances' = Put(impedances, n, z),
           byNode' = byNode, DOMAIN age' = DOMAIN age,
           byCap' = SetEntries(byCap, n, CapsOf(n), z),
           byNs' = SetNsEntries(byNs, n, CapsOf(n), z)
    PROVE  IndexInv'
<1>1. Shape'
  BY DEF IndexInv, Shape, Put, Known
<1>2. Lists' = Lists
  BY DEF Lists, CapsOf, Known
<1>3. OfferCosts' = With(OfferCosts, n, z)
  BY DEF OfferCosts, With, Put, Known, IndexInv, Shape
<1>4. CapsOf(n) = Lists[n]
  BY DEF Lists
<1>5. byCap' = Forward(Lists, With(OfferCosts, n, z), AllCaps(Lists))
  <2>1. SameIn(Lists[n], Lists[n], AllCaps(Lists))
    BY DEF SameIn
  <2>2. SetEntries(Forward(Lists, OfferCosts, AllCaps(Lists)), n, Lists[n], z)
          = Forward(Lists, With(OfferCosts, n, z), AllCaps(Lists))
    BY <2>1, SetLemma, TablesOnNodes
  <2>3. QED
    BY <1>4, <2>2 DEF IndexInv
<1>6. byNs' = Bucketed(Lists, With(OfferCosts, n, z))
  <2>1. SetNsEntries(Bucketed(Lists, OfferCosts), n, Lists[n], z)
          = Bucketed(Lists, With(OfferCosts, n, z))
    BY SetNsLemma, TablesOnNodes
  <2>2. QED
    BY <1>4, <2>1 DEF IndexInv
<1>7. (byCap = Forward(Lists, OfferCosts, AllCaps(Lists)))'
  BY <1>2, <1>3, <1>5 DEF Forward, AllCaps, Row
<1>8. (byNs = Bucketed(Lists, OfferCosts))'
  BY <1>2, <1>3, <1>6 DEF Bucketed, Forward, AllCaps, Row
<1>9. QED
  BY <1>1, <1>7, <1>8 DEF IndexInv

(* The cost of a node that lists nothing is irrelevant. *)
LEMMA SameCosts ==
    ASSUME NEW cs, NEW im, NEW jm, NEW R,
           \A n \in Nodes : cs[n] # {} => im[n] = jm[n]
    PROVE  /\ Forward(cs, im, R) = Forward(cs, jm, R)
           /\ Bucketed(cs, im) = Bucketed(cs, jm)
<1>1. \A c : Row(cs, im, c) = Row(cs, jm, c)
  BY DEF Row
<1>2. \A Q : Forward(cs, im, Q) = Forward(cs, jm, Q)
  BY <1>1 DEF Forward
<1>3. QED
  BY <1>2 DEF Bucketed

(* PurgeNode and PurgeStale. *)
LEMMA PurgeStep ==
    ASSUME IndexInv, NEW N \in SUBSET Nodes, Purge(N)
    PROVE  IndexInv'
<1> DEFINE ds == Without(Lists, N)
<1>1. Shape'
  BY DEF IndexInv, Shape, Purge, Delete
<1>2. Lists' = ds
  BY DEF Lists, CapsOf, Known, Purge, Delete, Without
<1> HIDE DEF ds
<1>3. \A n \in Nodes : ds[n] # {} => OfferCosts[n] = OfferCosts'[n]
  BY DEF ds, Without, OfferCosts, Known, Purge, Delete, IndexInv, Shape
<1>4. byCap' = Forward(ds, OfferCosts, AllCaps(Lists))
  <2>1. SameIn(CapsOfAll(N), CapsOfAll(N), AllCaps(Lists))
    BY DEF SameIn
  <2>2. DropEntries(Forward(Lists, OfferCosts, AllCaps(Lists)), N, CapsOfAll(N))
          = Forward(ds, OfferCosts, AllCaps(Lists))
    BY <2>1, DropLemma DEF IndexInv, ds
  <2>3. QED
    BY <2>2 DEF IndexInv, Purge
<1>5. byCap' = Forward(ds, OfferCosts', AllCaps(ds))
  <2>1. AllCaps(ds) \subseteq AllCaps(Lists)
    BY DEF AllCaps, ds, Without
  <2>2. Forward(ds, OfferCosts, AllCaps(Lists)) = Forward(ds, OfferCosts, AllCaps(ds))
    BY <2>1, WholeRange
  <2>3. Forward(ds, OfferCosts, AllCaps(ds)) = Forward(ds, OfferCosts', AllCaps(ds))
    BY <1>3, SameCosts
  <2>4. QED
    BY <1>4, <2>2, <2>3
<1>6. byNs' = Bucketed(ds, OfferCosts')
  <2>1. DropNsEntries(Bucketed(Lists, OfferCosts), N, CapsOfAll(N))
          = Bucketed(ds, OfferCosts)
    BY DropNsLemma DEF IndexInv, ds
  <2>2. Bucketed(ds, OfferCosts) = Bucketed(ds, OfferCosts')
    BY <1>3, SameCosts
  <2>3. QED
    BY <2>1, <2>2 DEF IndexInv, Purge
<1>7. (byCap = Forward(Lists, OfferCosts, AllCaps(Lists)))'
  BY <1>2, <1>5 DEF Forward, AllCaps, Row
<1>8. (byNs = Bucketed(Lists, OfferCosts))'
  BY <1>2, <1>6 DEF Bucketed, Forward, AllCaps, Row
<1>9. QED
  BY <1>1, <1>7, <1>8 DEF IndexInv

(* Update's slow path. *)
LEMMA ChangeStep ==
    ASSUME IndexInv, NEW n \in Nodes, NEW z \in Impedances, NEW caps,
           UpdateChanged(n, z, caps)
    PROVE  IndexInv'
<1> DEFINE new == ValidCaps(caps)
           L == Elems(new)
           cs == Without(Lists, {n})
           ds == With(cs, n, L)
           jm == With(OfferCosts, n, z)
           R == AllCaps(Lists) \cup L
<1> HIDE DEF new
<1>1. /\ impedances' = Put(impedances, n, z)
      /\ age' = Put(age, n, 0)
      /\ byNode' = Put(byNode, n, new)
      /\ byCap' = AddEntries(DropEntries(byCap, {n}, CapsOf(n)), n, L, z)
      /\ byNs' = AddNsEntries(DropNsEntries(byNs, {n}, CapsOf(n)), n, L, z)
  BY DEF UpdateChanged, new
<1>2. Shape'
  BY <1>1 DEF IndexInv, Shape, Put
<1>3. Lists' = ds
  BY <1>1 DEF Lists, CapsOf, Known, Put, With, Without
<1>4. OfferCosts' = jm
  BY <1>1 DEF OfferCosts, Known, Put, With, IndexInv, Shape
<1>5. OnNodes(cs) /\ cs[n] = {} /\ CapsOfAll({n}) = CapsOf(n)
  BY DEF OnNodes, Without, CapsOfAll
<1> HIDE DEF L, cs, ds, jm, R
<1>6. byCap' = Forward(ds, jm, R)
  <2>1. byCap = Forward(Lists, OfferCosts, R)
    <3>1. AllCaps(Lists) \subseteq R
      BY DEF R
    <3>2. QED
      BY <3>1, WholeRange DEF IndexInv
  <2>2. SameIn(CapsOf(n), CapsOfAll({n}), R)
    BY <1>5 DEF SameIn
  <2>3. DropEntries(byCap, {n}, CapsOf(n)) = Forward(cs, OfferCosts, R)
    BY <2>1, <2>2, DropLemma, {n} \in SUBSET Nodes DEF IndexInv, cs
  <2>4. L = L \cap R
    BY DEF R
  <2>5. AddEntries(Forward(cs, OfferCosts, R), n, L, z) = Forward(ds, jm, R)
    BY <1>5, <2>4, AddLemma, TablesOnNodes DEF ds, jm
  <2>6. QED
    BY <1>1, <2>3, <2>5
<1>7. byNs' = Bucketed(ds, jm)
  <2>1. DropNsEntries(byNs, {n}, CapsOf(n)) = Bucketed(cs, OfferCosts)
    BY <1>5, DropNsLemma, {n} \in SUBSET Nodes DEF IndexInv, cs
  <2>2. AddNsEntries(Bucketed(cs, OfferCosts), n, L, z) = Bucketed(ds, jm)
    BY <1>5, AddNsLemma, TablesOnNodes DEF ds, jm
  <2>3. QED
    BY <1>1, <2>1, <2>2
<1>8. Forward(ds, jm, R) = Forward(ds, jm, AllCaps(ds))
  <2>1. ds[n] = L /\ \A m \in Nodes : m # n => ds[m] = cs[m]
    BY <1>5, WithFacts DEF ds
  <2>2. \A m \in Nodes : cs[m] \subseteq Lists[m]
    BY DEF cs, Without
  <2>3. AllCaps(ds) \subseteq R
    BY <2>1, <2>2 DEF AllCaps, R
  <2>4. QED
    BY <2>3, WholeRange
<1>9. (byCap = Forward(Lists, OfferCosts, AllCaps(Lists)))'
  BY <1>3, <1>4, <1>6, <1>8 DEF Forward, AllCaps, Row
<1>10. (byNs = Bucketed(Lists, OfferCosts))'
  BY <1>3, <1>4, <1>7 DEF Bucketed, Forward, AllCaps, Row
<1>11. QED
  BY <1>2, <1>9, <1>10 DEF IndexInv

LEMMA IndexInvNext == IndexInv /\ [Next]_vars => IndexInv'
<1> SUFFICES ASSUME IndexInv, [Next]_vars PROVE IndexInv'
  OBVIOUS
<1>1. ASSUME NEW n \in Nodes, NEW z \in Impedances, NEW caps \in CapLists,
             UpdateIdentical(n, z, caps)
      PROVE  IndexInv'
  <2>1. DOMAIN age' = DOMAIN age
    BY <1>1 DEF UpdateIdentical, Put, IndexInv, Shape, Known
  <2>2. QED
    BY <1>1, <2>1, RepriceStep DEF UpdateIdentical
<1>2. ASSUME NEW n \in Nodes, NEW z \in Impedances, NEW caps \in CapLists,
             UpdateChanged(n, z, caps)
      PROVE  IndexInv'
  BY <1>2, ChangeStep
<1>3. ASSUME NEW n \in Nodes, NEW z \in Impedances, Refresh(n, z)
      PROVE  IndexInv'
  <2>1. DOMAIN age' = DOMAIN age
    BY <1>3 DEF Refresh, Put, IndexInv, Shape, Known
  <2>2. QED
    BY <1>3, <2>1, RepriceStep DEF Refresh
<1>4. ASSUME NEW n \in Nodes, NEW z \in Impedances, UpdateImpedance(n, z)
      PROVE  IndexInv'
  BY <1>4, RepriceStep DEF UpdateImpedance
<1>5. ASSUME NEW n \in Nodes, PurgeNode(n) PROVE IndexInv'
  BY <1>5, PurgeStep, {n} \in SUBSET Nodes DEF PurgeNode
<1>6. CASE PurgeStale
  <2>1. Stale \in SUBSET Nodes
    BY DEF Stale, IndexInv, Shape
  <2>2. QED
    BY <1>6, <2>1, PurgeStep DEF PurgeStale
<1>7. ASSUME byCap' = byCap, byNs' = byNs, byNode' = byNode,
             impedances' = impedances, DOMAIN age' = DOMAIN age
      PROVE  IndexInv'
  <2>1. Lists' = Lists /\ OfferCosts' = OfferCosts
    BY <1>7 DEF Lists, OfferCosts, CapsOf, Known
  <2>2. Shape'
    BY <1>7 DEF IndexInv, Shape
  <2>3. (byCap = Forward(Lists, OfferCosts, AllCaps(Lists)))'
    BY <1>7, <2>1 DEF IndexInv
  <2>4. (byNs = Bucketed(Lists, OfferCosts))'
    BY <1>7, <2>1 DEF IndexInv
  <2>5. QED
    BY <2>2, <2>3, <2>4 DEF IndexInv
<1>8. CASE Tick
  BY <1>7, <1>8 DEF Tick
<1>9. CASE UNCHANGED vars
  BY <1>7, <1>9 DEF vars
<1>10. QED
  BY <1>1, <1>2, <1>3, <1>4, <1>5, <1>6, <1>8, <1>9 DEF Next

-----------------------------------------------------------------------------
(* What a caller of Lookup sees, from the invariant. *)
LEMMA LookupRow ==
    ASSUME IndexInv, NEW c
    PROVE  Lookup(c) = Row(Lists, OfferCosts, c)
<1>1. CASE c \in AllCaps(Lists)
  BY <1>1 DEF IndexInv, Lookup, Forward
<1>2. CASE c \notin AllCaps(Lists)
  <2>1. c \notin DOMAIN byCap
    BY <1>2 DEF IndexInv, Forward
  <2>2. NoNodes = Row(Lists, OfferCosts, c)
    BY <1>2 DEF NoNodes, Row, AllCaps
  <2>3. QED
    BY <2>1, <2>2 DEF Lookup
<1>3. QED
  BY <1>1, <1>2

(* Lookup and the nodes' own lists never disagree, whatever sequence of    *)
(* updates, refreshes, repricings and purges came before, for every set of *)
(* capabilities and every gossiped list.                                   *)
LEMMA ForwardIndexCorrect == Spec => []ForwardMatchesInverse
<1>1. IndexInv => ForwardMatchesInverse
  BY LookupRow DEF ForwardMatchesInverse, Row, Lists, OfferCosts, CapsOf
<1>2. QED
  BY IndexInvInit, IndexInvNext, <1>1, PTL DEF Spec

(* LookupWildcard's shortcut through one namespace bucket returns what a   *)
(* scan of the whole index would.                                          *)
LEMMA NamespaceIndexCorrect == Spec => []NamespaceLookupIsComplete
<1>1. IndexInv => NamespaceLookupIsComplete
  <2> SUFFICES ASSUME IndexInv, NEW ns \in Namespaces, NEW n \in Nodes,
                      NEW matching \in SUBSET InNs(Caps, ns)
               PROVE  LookupNamespace(ns, n, matching)
                        = Offers(byCap, n, matching)
    BY DEF NamespaceLookupIsComplete
  <2>1. DOMAIN byCap = AllCaps(Lists)
    BY DEF IndexInv, Forward
  <2>2. DOMAIN byNs = {NamespaceOf[c] : c \in AllCaps(Lists)}
    BY DEF IndexInv, Bucketed
  <2>3. \A c \in matching : NamespaceOf[c] = ns
    BY DEF InNs
  <2>4. CASE ns \in DOMAIN byNs
    <3>1. byNs[ns] = Forward(Lists, OfferCosts, InNs(AllCaps(Lists), ns))
      BY <2>4 DEF IndexInv, Bucketed
    <3>2. DOMAIN byNs[ns] \cap matching = DOMAIN byCap \cap matching
      BY <2>1, <2>3, <3>1 DEF Forward, InNs
    <3>3. \A c \in DOMAIN byCap \cap matching : byNs[ns][c] = Row(Lists, OfferCosts, c)
      BY <2>1, <2>3, <3>1 DEF Forward, InNs
    <3>4. \A c \in DOMAIN byCap : byCap[c] = Row(Lists, OfferCosts, c)
      BY DEF Forward, IndexInv
    <3>5. QED
      BY <2>4, <3>2, <3>3, <3>4 DEF LookupNamespace, Offers
  <2>5. CASE ns \notin DOMAIN byNs
    <3>1. DOMAIN byCap \cap matching = {}
      BY <2>1, <2>2, <2>3, <2>5
    <3>2. QED
      BY <2>5, <3>1 DEF LookupNamespace, Offers
  <2>6. QED
    BY <2>4, <2>5
<1>2. QED
  BY IndexInvInit, IndexInvNext, <1>1, PTL DEF Spec

(* Purging leaves no empty inner map and no empty bucket behind. *)
LEMMA IndexIsGarbageFree == Spec => []NoEmptyBuckets
<1>1. IndexInv => NoEmptyBuckets
  <2> SUFFICES ASSUME IndexInv PROVE NoEmptyBuckets
    OBVIOUS
  <2>1. ASSUME NEW c, c \in AllCaps(Lists)
        PROVE  \E n \in Nodes : Row(Lists, OfferCosts, c)[n] # None
    <3>1. PICK n \in Nodes : c \in Lists[n]
      BY <2>1 DEF AllCaps
    <3>2. Row(Lists, OfferCosts, c)[n] # None
      BY <3>1, CapabilityAssumption
         DEF Row, Lists, OfferCosts, CapsOf, Known, IndexInv, Shape
    <3>3. QED
      BY <3>2
  <2>2. \A c \in DOMAIN byCap : \E n \in Nodes : byCap[c][n] # None
    <3>1. \A c \in DOMAIN byCap : byCap[c] = Row(Lists, OfferCosts, c)
      BY DEF Forward, IndexInv
    <3>2. DOMAIN byCap = AllCaps(Lists)
      BY DEF Forward, IndexInv
    <3>3. QED
      BY <2>1, <3>1, <3>2
  <2>3. ASSUME NEW ns \in DOMAIN byNs
        PROVE  /\ DOMAIN byNs[ns] # {}
               /\ \A c \in DOMAIN byNs[ns] : \E n \in Nodes : byNs[ns][c][n] # None
    <3>1. byNs[ns] = Forward(Lists, OfferCosts, InNs(AllCaps(Lists), ns))
      BY <2>3 DEF IndexInv, Bucketed
    <3>2. DOMAIN byNs[ns] = InNs(AllCaps(Lists), ns)
      BY <3>1 DEF Forward, InNs
    <3>3. PICK c \in AllCaps(Lists) : NamespaceOf[c] = ns
      BY <2>3 DEF IndexInv, Bucketed
    <3>4. \A d \in DOMAIN byNs[ns] : byNs[ns][d] = Row(Lists, OfferCosts, d)
      BY <3>1, <3>2 DEF Forward, InNs
    <3>5. \A d \in DOMAIN byNs[ns] : d \in AllCaps(Lists)
      BY <3>2 DEF InNs
    <3>6. QED
      BY <2>1, <3>2, <3>3, <3>4, <3>5 DEF InNs
  <2>4. QED
    BY <2>2, <2>3 DEF NoEmptyBuckets
<1>2. QED
  BY IndexInvInit, IndexInvNext, <1>1, PTL DEF Spec

(* The forward map, the buckets of the namespaces and the nodes' own lists *)
(* never disagree and keep nothing empty, for every set of nodes and       *)
(* capabilities and every gossiped list.                                   *)
THEOREM IndexStaysExact == Spec => []IndexIsExact
  BY ForwardIndexCorrect, NamespaceIndexCorrect, IndexIsGarbageFree, PTL DEF IndexIsExact

-----------------------------------------------------------------------------
(* The table of offers that the index stands for. *)
Offered == [c \in Caps |-> Lookup(c)]

LEMMA OfferedIs == IndexInv => Offered = [c \in Caps |-> Row(Lists, OfferCosts, c)]
BY LookupRow DEF Offered

(* Each step of the index is a step of the table of offers, or no step.    *)
LEMMA TableStep ==
    ASSUME IndexInv, IndexInv', [Next]_vars
    PROVE  Table!Next \/ Offered' = Offered
<1>1. Offered = [c \in Caps |-> Row(Lists, OfferCosts, c)]
  BY OfferedIs
<1>2. IndexInv' => (Offered = [c \in Caps |-> Row(Lists, OfferCosts, c)])'
  BY OfferedIs, PTL
<1>3. Offered' = [c \in Caps |-> Row(Lists', OfferCosts', c)]
  BY <1>2 DEF Row
<1>4. ASSUME NEW n \in Nodes, NEW z \in Impedances, Known(n),
             impedances' = Put(impedances, n, z), byNode' = byNode
      PROVE  Table!Next
  <2>1. Lists' = Lists
    BY <1>4 DEF Lists, CapsOf, Known
  <2>2. OfferCosts' = With(OfferCosts, n, z)
    BY <1>4 DEF OfferCosts, With, Put, Known, IndexInv, Shape
  <2>3. \A m \in Nodes : Lists[m] # {} => OfferCosts[m] # None
    BY CapabilityAssumption DEF Lists, OfferCosts, CapsOf, IndexInv, Shape, Known
  <2>4. ASSUME NEW c \in Caps
        PROVE  Row(Lists', OfferCosts', c)
                 = [Row(Lists, OfferCosts, c) EXCEPT ![n] = IF @ = None THEN None ELSE z]
    <3>1. OfferCosts'[n] = z /\ \A m \in Nodes : m # n => OfferCosts'[m] = OfferCosts[m]
      BY <2>2, WithFacts, TablesOnNodes
    <3>2. c \in Lists[n] => Row(Lists, OfferCosts, c)[n] # None
      BY <2>3 DEF Row
    <3>3. c \notin Lists[n] => Row(Lists, OfferCosts, c)[n] = None
      BY DEF Row
    <3>4. QED
      BY <2>1, <3>1, <3>2, <3>3 DEF Row
  <2>5. Table!Reprice(n, z)
    BY <1>1, <1>3, <2>4 DEF Table!Reprice, Offered
  <2>6. QED
    BY <2>5 DEF Table!Next
<1>5. ASSUME NEW n \in Nodes, NEW z \in Impedances, NEW caps \in CapLists,
             UpdateChanged(n, z, caps)
      PROVE  Table!Next
  <2> DEFINE L == Elems(ValidCaps(caps))
             S == L \cap Caps
  <2>1. byNode' = Put(byNode, n, ValidCaps(caps))
    BY <1>5 DEF UpdateChanged
  <2>2. impedances' = Put(impedances, n, z)
    BY <1>5 DEF UpdateChanged
  <2>3. Lists' = With(Lists, n, L)
    BY <2>1 DEF Lists, CapsOf, Known, Put, With
  <2>4. OfferCosts' = With(OfferCosts, n, z)
    BY <2>1, <2>2 DEF OfferCosts, Known, Put, With, IndexInv, Shape
  <2> HIDE DEF L
  <2>5. /\ Lists'[n] = L /\ \A m \in Nodes : m # n => Lists'[m] = Lists[m]
        /\ OfferCosts'[n] = z /\ \A m \in Nodes : m # n => OfferCosts'[m] = OfferCosts[m]
    BY <2>3, <2>4, WithFacts, TablesOnNodes
  <2>6. ASSUME NEW c \in Caps
        PROVE  Row(Lists', OfferCosts', c)
                 = [Row(Lists, OfferCosts, c) EXCEPT ![n] = IF c \in S THEN z ELSE None]
    BY <2>5 DEF Row
  <2>7. Table!Publish(n, S, z)
    BY <1>1, <1>3, <2>6 DEF Table!Publish, Offered
  <2>8. S \in SUBSET Caps
    OBVIOUS
  <2>9. QED
    BY <2>7, <2>8 DEF Table!Next
<1>6. ASSUME NEW N \in SUBSET Nodes, Purge(N) PROVE Table!Next
  <2>1. Lists' = Without(Lists, N)
    BY <1>6 DEF Lists, CapsOf, Known, Purge, Delete, Without
  <2>2. \A n \in Nodes \ N : OfferCosts'[n] = OfferCosts[n]
    BY <1>6 DEF OfferCosts, Known, Purge, Delete, IndexInv, Shape
  <2>3. ASSUME NEW c \in Caps
        PROVE  Row(Lists', OfferCosts', c)
                 = [n \in Nodes |-> IF n \in N THEN None ELSE Row(Lists, OfferCosts, c)[n]]
    BY <2>1, <2>2 DEF Row, Without
  <2>4. Table!Withdraw(N)
    BY <1>1, <1>3, <2>3 DEF Table!Withdraw, Offered
  <2>5. QED
    BY <2>4 DEF Table!Next
<1>7. ASSUME byNode' = byNode, impedances' = impedances PROVE Offered' = Offered
  <2>1. Lists' = Lists /\ OfferCosts' = OfferCosts
    BY <1>7 DEF Lists, OfferCosts, CapsOf, Known
  <2>2. QED
    BY <1>1, <1>3, <2>1
<1>8. ASSUME NEW n \in Nodes, NEW z \in Impedances, NEW caps \in CapLists,
             UpdateIdentical(n, z, caps)
      PROVE  Table!Next
  BY <1>4, <1>8 DEF UpdateIdentical
<1>9. ASSUME NEW n \in Nodes, NEW z \in Impedances,
             Refresh(n, z) \/ UpdateImpedance(n, z)
      PROVE  Table!Next
  BY <1>4, <1>9 DEF Refresh, UpdateImpedance
<1>10. ASSUME NEW n \in Nodes, PurgeNode(n) PROVE Table!Next
  BY <1>6, <1>10, {n} \in SUBSET Nodes DEF PurgeNode
<1>11. CASE PurgeStale
  <2>1. Stale \in SUBSET Nodes
    BY DEF Stale, IndexInv, Shape
  <2>2. QED
    BY <1>6, <1>11, <2>1 DEF PurgeStale
<1>12. CASE Tick
  BY <1>7, <1>12 DEF Tick
<1>13. CASE UNCHANGED vars
  BY <1>7, <1>13 DEF vars
<1>14. QED
  BY <1>5, <1>8, <1>9, <1>10, <1>11, <1>12, <1>13 DEF Next

(* The index with its three redundant maps implements the plain table of   *)
(* offers: readers can never see a node half published or half purged.     *)
THEOREM IndexImplementsTable == Spec => TableSpec
<1>1. Init => Table!Init
  <2>1. ASSUME Init, NEW c \in Caps PROVE Lookup(c) = [n \in Nodes |-> None]
    BY <2>1 DEF Init, Lookup, EmptyIndex, NoNodes
  <2>2. QED
    BY <2>1 DEF Table!Init
<1>2. IndexInv /\ IndexInv' /\ [Next]_vars => [Table!Next]_([c \in Caps |-> Lookup(c)])
  BY TableStep DEF Offered
<1>3. QED
  BY IndexInvInit, IndexInvNext, <1>1, <1>2, PTL DEF Spec, TableSpec, Table!Spec

-----------------------------------------------------------------------------
(***************************************************************************)
(* GradientTable. The gossip cache never outlives the table it was         *)
(* computed from.                                                          *)
(***************************************************************************)
(* What a method may do to the table behind a clean cache: nothing. *)
Coherent == cost' = cost /\ gossipCache' = gossipCache /\ cacheKey' = cacheKey

LEMMA PutType ==
    ASSUME NEW f, NEW K, NEW k \in K, NEW V, NEW v \in V, DOMAIN f \subseteq K,
           f \in [DOMAIN f -> V]
    PROVE  /\ DOMAIN PutPath(f, k, v) = DOMAIN f \cup {k}
           /\ DOMAIN PutPath(f, k, v) \subseteq K
           /\ PutPath(f, k, v) \in [DOMAIN PutPath(f, k, v) -> V]
<1>1. DOMAIN PutPath(f, k, v) = DOMAIN f \cup {k}
  BY DEF PutPath
<1>2. PutPath(f, k, v) \in [DOMAIN f \cup {k} -> V]
  BY DEF PutPath
<1>3. QED
  BY <1>1, <1>2

LEMMA DeleteType ==
    ASSUME NEW f, NEW V, NEW P, f \in [DOMAIN f -> V]
    PROVE  /\ DOMAIN DeletePaths(f, P) = DOMAIN f \ P
           /\ DeletePaths(f, P) \in [DOMAIN f \ P -> V]
BY DEF DeletePaths

LEMMA UpdateType ==
    ASSUME GradientTypeOK, NEW t \in TableNodes \ {Self}, NEW h \in Neighbors, NEW c \in Nat,
           UpdateRoute(t, h, c)
    PROVE  GradientTypeOK'
<1> DEFINE K == (TableNodes \ {Self}) \X Neighbors
           k == <<t, h>>
<1>1. /\ DOMAIN cost \subseteq K /\ cost \in [DOMAIN cost -> Nat]
      /\ routeAge \in [DOMAIN cost -> 0..RouteMaxAge] /\ DOMAIN routeAge = DOMAIN cost
      /\ 0 \in 0..RouteMaxAge /\ k \in K
  BY GradientAssumption DEF GradientTypeOK
<1> HIDE DEF K, k
<1>2. routeAge' = PutPath(routeAge, k, 0)
  BY DEF UpdateRoute, k
<1>3. DOMAIN routeAge' = DOMAIN cost \cup {k} /\ routeAge' \in [DOMAIN routeAge' -> 0..RouteMaxAge]
  <2>1. DOMAIN routeAge \subseteq K /\ routeAge \in [DOMAIN routeAge -> 0..RouteMaxAge]
    BY <1>1
  <2>2. /\ DOMAIN PutPath(routeAge, k, 0) = DOMAIN routeAge \cup {k}
        /\ PutPath(routeAge, k, 0) \in [DOMAIN PutPath(routeAge, k, 0) -> 0..RouteMaxAge]
    BY <1>1, <2>1, PutType
  <2>3. QED
    BY <1>1, <1>2, <2>2
<1>4. CASE k \in DOMAIN cost /\ cost[k] = c
  <2>1. cost' = cost /\ dirty' = dirty
    BY <1>4 DEF UpdateRoute, k
  <2>2. DOMAIN routeAge' = DOMAIN cost
    BY <1>3, <1>4
  <2>3. QED
    BY <1>1, <1>3, <2>1, <2>2 DEF GradientTypeOK, K
<1>5. CASE ~(k \in DOMAIN cost /\ cost[k] = c)
  <2>1. cost' = PutPath(cost, k, c) /\ dirty' = TRUE
    BY <1>5 DEF UpdateRoute, k
  <2>2. /\ DOMAIN cost' = DOMAIN cost \cup {k} /\ DOMAIN cost' \subseteq K
        /\ cost' \in [DOMAIN cost' -> Nat]
    BY <1>1, <2>1, PutType
  <2>3. QED
    BY <1>3, <2>1, <2>2 DEF GradientTypeOK, K
<1>6. QED
  BY <1>4, <1>5

LEMMA RemoveType ==
    ASSUME GradientTypeOK, NEW P, RemovePaths(P)
    PROVE  GradientTypeOK'
<1>1. /\ DOMAIN cost' = DOMAIN cost \ P /\ cost' \in [DOMAIN cost \ P -> Nat]
      /\ DOMAIN routeAge' = DOMAIN cost \ P /\ routeAge' \in [DOMAIN cost \ P -> 0..RouteMaxAge]
  BY DeleteType DEF GradientTypeOK, RemovePaths
<1>2. DOMAIN cost' \subseteq (TableNodes \ {Self}) \X Neighbors
  BY <1>1 DEF GradientTypeOK
<1>3. dirty' \in BOOLEAN
  BY DEF RemovePaths, GradientTypeOK
<1>4. QED
  BY <1>1, <1>2, <1>3 DEF GradientTypeOK

LEMMA TypeNext == GradientTypeOK /\ [GradientNext]_gradientVars => GradientTypeOK'
<1> SUFFICES ASSUME GradientTypeOK, [GradientNext]_gradientVars PROVE GradientTypeOK'
  OBVIOUS
<1>1. ASSUME NEW h \in Neighbors, NEW z \in GossipImpedances, NEW t \in TableNodes,
             NEW c \in Costs, ProcessGossip(h, z, t, c)
      PROVE  GradientTypeOK'
  <2>1. c + z \in Nat
    BY GradientAssumption
  <2>2. t \in TableNodes \ {Self} /\ UpdateRoute(t, h, c + z)
    BY <1>1 DEF ProcessGossip
  <2>3. QED
    BY <2>1, <2>2, UpdateType
<1>2. ASSUME NEW h \in Neighbors, AddDirectNeighbor(h) PROVE GradientTypeOK'
  <2>1. h \in TableNodes \ {Self} /\ UpdateRoute(h, h, 1)
    BY <1>2, GradientAssumption DEF AddDirectNeighbor
  <2>2. QED
    BY <2>1, UpdateType
<1>3. ASSUME NEW h \in Neighbors, RemoveNeighbor(h) PROVE GradientTypeOK'
  BY <1>3, RemoveType DEF RemoveNeighbor
<1>4. CASE PurgeStaleRoutes
  BY <1>4, RemoveType DEF PurgeStaleRoutes
<1>5. CASE RouteTick
  <2>1. DOMAIN routeAge = DOMAIN cost
    BY DEF GradientTypeOK
  <2>2. routeAge' \in [DOMAIN cost -> 0..RouteMaxAge]
    BY <1>5, <2>1, GradientAssumption DEF RouteTick, GradientTypeOK
  <2>3. QED
    BY <1>5, <2>2 DEF RouteTick, GradientTypeOK
<1>6. ASSUME NEW z \in GossipImpedances, NEW b \in Budgets, NEW known \in Snapshots,
             GenerateGossip(z, b, known)
      PROVE  GradientTypeOK'
  BY <1>6 DEF GenerateGossip, GenerateGossipHit, GenerateGossipMiss, GradientTypeOK
<1>7. CASE UNCHANGED gradientVars
  BY <1>7 DEF gradientVars, GradientTypeOK
<1>8. QED
  BY <1>1, <1>2, <1>3, <1>4, <1>5, <1>6, <1>7 DEF GradientNext

(* No path to the node itself is ever stored, and every path has exactly   *)
(* one cost and one routeAge.                                                   *)
THEOREM GradientTypeCorrect == GradientSpec => []GradientTypeOK
<1>1. GradientInit => GradientTypeOK
  BY DEF GradientInit, GradientTypeOK
<1>2. QED
  BY <1>1, TypeNext, PTL DEF GradientSpec

-----------------------------------------------------------------------------
(* Every method that changes a cost or removes a path sets the dirty flag. *)
LEMMA MutationsAreMarked ==
    ASSUME GradientTypeOK, [GradientNext]_gradientVars
    PROVE  \/ dirty' = TRUE
           \/ Coherent /\ dirty' = dirty
           \/ \E b \in Budgets : /\ cost' = cost /\ cacheKey'[2] = b
                                 /\ gossipCache' \in Horizons(cost, RouteBudget(b))
<1>1. ASSUME NEW t, NEW h, NEW c, UpdateRoute(t, h, c)
      PROVE  dirty' = TRUE \/ (Coherent /\ dirty' = dirty)
  BY <1>1 DEF UpdateRoute, Coherent
<1>2. ASSUME NEW P, P \subseteq DOMAIN cost, RemovePaths(P)
      PROVE  dirty' = TRUE \/ (Coherent /\ dirty' = dirty)
  <2>1. CASE P = {}
    <3>1. DeletePaths(cost, P) = cost
      BY <2>1 DEF DeletePaths, GradientTypeOK
    <3>2. dirty' = dirty
      BY <1>2, <2>1 DEF RemovePaths, GradientTypeOK
    <3>3. QED
      BY <1>2, <3>1, <3>2 DEF RemovePaths, Coherent
  <2>2. CASE P # {}
    BY <1>2, <2>2 DEF RemovePaths
  <2>3. QED
    BY <2>1, <2>2
<1>3. ASSUME NEW z \in GossipImpedances, NEW b \in Budgets, NEW known \in Snapshots,
             GenerateGossipMiss(z, b, known)
      PROVE  /\ cost' = cost /\ cacheKey'[2] = b
             /\ gossipCache' \in Horizons(cost, RouteBudget(b))
  BY <1>3 DEF GenerateGossipMiss
<1>4. ASSUME NEW z \in GossipImpedances, NEW b \in Budgets, NEW known \in Snapshots,
             GenerateGossipHit(z, b, known)
      PROVE  Coherent /\ dirty' = dirty
  BY <1>4 DEF GenerateGossipHit, Coherent
<1>5. CASE RouteTick \/ UNCHANGED gradientVars
  BY <1>5 DEF RouteTick, gradientVars, Coherent
<1>6. CASE \E h \in Neighbors : RemoveNeighbor(h)
  BY <1>2, <1>6 DEF RemoveNeighbor
<1>7. CASE PurgeStaleRoutes
  <2>1. {p \in DOMAIN routeAge : routeAge[p] >= RouteMaxAge} \subseteq DOMAIN cost
    BY DEF GradientTypeOK
  <2>2. QED
    BY <1>2, <1>7, <2>1 DEF PurgeStaleRoutes
<1>8. CASE \E h \in Neighbors : AddDirectNeighbor(h)
  BY <1>1, <1>8 DEF AddDirectNeighbor
<1>9. CASE \E h \in Neighbors, z \in GossipImpedances, t \in TableNodes, c \in Costs :
              ProcessGossip(h, z, t, c)
  BY <1>1, <1>9 DEF ProcessGossip
<1>10. QED
  BY <1>3, <1>4, <1>5, <1>6, <1>7, <1>8, <1>9 DEF GradientNext, GenerateGossip

LEMMA CacheNext == GradientTypeOK /\ CacheIsCurrent /\ [GradientNext]_gradientVars => CacheIsCurrent'
<1> SUFFICES ASSUME GradientTypeOK, CacheIsCurrent, [GradientNext]_gradientVars,
                    ~dirty', gossipCache' # Nil
             PROVE  IsHorizon(gossipCache', cost', RouteBudget(cacheKey'[2]))
  BY DEF CacheIsCurrent, IsHorizon, RouteBudget
<1>1. CASE Coherent /\ dirty' = dirty
  BY <1>1 DEF Coherent, CacheIsCurrent
<1>2. ASSUME NEW b \in Budgets, cost' = cost, cacheKey'[2] = b,
             gossipCache' \in Horizons(cost, RouteBudget(b))
      PROVE  IsHorizon(gossipCache', cost', RouteBudget(cacheKey'[2]))
  BY <1>2 DEF Horizons
<1>3. QED
  BY <1>1, <1>2, MutationsAreMarked

(* The cache is invalidated by every change it depends on. *)
THEOREM CacheNeverStale == GradientSpec => []CacheIsCurrent
<1>1. GradientInit => GradientTypeOK /\ CacheIsCurrent
  BY DEF GradientInit, GradientTypeOK, CacheIsCurrent
<1>2. QED
  BY <1>1, TypeNext, CacheNext, PTL DEF GradientSpec

(* Every gossip vector a node emits is an answer for its present table and *)
(* its present budget, whether it comes from the cache or not.             *)
THEOREM GossipIsCurrent == GradientSpec => EmissionsAreCurrent
<1>1. ASSUME CacheIsCurrent, NEW z \in GossipImpedances, NEW b \in Budgets,
             NEW known \in Snapshots, GenerateGossip(z, b, known)
      PROVE  IsHorizon(sent'.routes, cost, RouteBudget(b))
  <2>1. CASE GenerateGossipHit(z, b, known)
    <3>1. sent'.routes = gossipCache /\ cacheKey[2] = b
      BY <2>1 DEF GenerateGossipHit, CacheHit, Vector
    <3>2. QED
      BY <1>1, <2>1, <3>1 DEF GenerateGossipHit, CacheHit, CacheIsCurrent
  <2>2. CASE GenerateGossipMiss(z, b, known)
    <3>1. PICK adv \in Horizons(cost, RouteBudget(b)) :
            sent' = Vector(z, b, known, adv)
      BY <2>2 DEF GenerateGossipMiss
    <3>2. sent'.routes = adv
      BY <3>1 DEF Vector
    <3>3. QED
      BY <3>1, <3>2 DEF Horizons
  <2>3. QED
    BY <1>1, <2>1, <2>2 DEF GenerateGossip
<1>2. CacheIsCurrent /\ [GradientNext]_gradientVars =>
        [\A z \in GossipImpedances, b \in Budgets, known \in Snapshots :
            GenerateGossip(z, b, known) =>
                IsHorizon(sent'.routes, cost, RouteBudget(b))]_gradientVars
  BY <1>1
<1>3. GradientInit => GradientTypeOK /\ CacheIsCurrent
  BY DEF GradientInit, GradientTypeOK, CacheIsCurrent
<1>4. QED
  BY <1>2, <1>3, TypeNext, CacheNext, PTL DEF GradientSpec, EmissionsAreCurrent

-----------------------------------------------------------------------------
(***************************************************************************)
(* What is sent again is the same.                                         *)
(***************************************************************************)
LEMMA LeastCost ==
    ASSUME NEW S, S \subseteq Nat, S # {}
    PROVE  Min(S) \in S /\ \A y \in S : Min(S) <= y
<1> DEFINE less == OpToRel(<, Nat)
<1>1. \A x, y \in Nat : y < x => <<y, x>> \in less
  BY DEF OpToRel
<1>2. IsWellFoundedOn(less, Nat)
  BY NatLessThanWellFounded
<1> HIDE DEF less
<1>3. PICK x \in S : \A y \in S : ~(<<y, x>> \in less)
  BY <1>2, WFMin
<1>4. ASSUME NEW y \in S PROVE x <= y
  <2>1. x \in Nat /\ y \in Nat /\ ~(y < x)
    BY <1>1, <1>3
  <2>2. QED
    BY <2>1
<1>5. QED
  BY <1>4 DEF Min

(* The k nodes of lowest rank are k at most: a node has less below it than *)
(* any node above it.                                                      *)
LEMMA SmallestFits ==
    ASSUME NEW S, S \subseteq TableNodes, NEW k \in Nat
    PROVE  /\ IsFiniteSet(Smallest(S, k, Rank))
           /\ Cardinality(Smallest(S, k, Rank)) <= k
<1> DEFINE T == Smallest(S, k, Rank)
           below(n) == {m \in S : Rank[m] < Rank[n]}
           f == [n \in T |-> Cardinality(below(n))]
<1>1. /\ Rank \in [TableNodes -> Nat] /\ IsFiniteSet(S)
      /\ \A m, n \in TableNodes : Rank[m] = Rank[n] => m = n
  BY GradientAssumption, FS_Subset
<1>2. T \subseteq S /\ \A n \in T : Cardinality(below(n)) < k
  BY DEF Smallest
<1>3. \A n \in S : IsFiniteSet(below(n)) /\ Cardinality(below(n)) \in Nat
  BY <1>1, FS_Subset, FS_CardinalityType
<1>4. ASSUME NEW m \in S, NEW n \in S, Rank[m] < Rank[n]
      PROVE  Cardinality(below(m)) < Cardinality(below(n))
  <2>1. m \in below(n) /\ m \notin below(m)
    BY <1>1, <1>4
  <2>2. below(m) \cup {m} \subseteq below(n)
    BY <1>1, <1>4
  <2>3. Cardinality(below(m) \cup {m}) = Cardinality(below(m)) + 1 /\ IsFiniteSet(below(m) \cup {m})
    BY <1>3, <2>1, FS_AddElement
  <2>4. Cardinality(below(m) \cup {m}) <= Cardinality(below(n))
    BY <1>3, <2>2, FS_Subset
  <2> HIDE DEF below
  <2>5. QED
    BY <1>3, <2>3, <2>4
<1>5. f \in [T -> 0..(k - 1)]
  <2> SUFFICES ASSUME NEW n \in T PROVE Cardinality(below(n)) \in 0..(k - 1)
    OBVIOUS
  <2>1. Cardinality(below(n)) \in Nat /\ Cardinality(below(n)) < k
    BY <1>2, <1>3
  <2> HIDE DEF below
  <2>2. QED
    BY <2>1
<1>6. ASSUME NEW m \in T, NEW n \in T, f[m] = f[n] PROVE m = n
  <2>1. m \in S /\ n \in S /\ Cardinality(below(m)) = Cardinality(below(n))
    BY <1>2, <1>6
  <2>2. Cardinality(below(m)) \in Nat
    BY <1>3, <2>1
  <2>3. ~(Rank[m] < Rank[n]) /\ ~(Rank[n] < Rank[m])
    BY <1>4, <2>1, <2>2
  <2>4. Rank[m] \in Nat /\ Rank[n] \in Nat
    BY <1>1, <2>1
  <2>5. Rank[m] = Rank[n]
    BY <2>3, <2>4
  <2>6. QED
    BY <1>1, <2>1, <2>5
<1> HIDE DEF f
<1>7. f \in Injection(T, 0..(k - 1))
  BY <1>5, <1>6 DEF Injection, IsInjective
<1>8. IsFiniteSet(0..(k - 1)) /\ Cardinality(0..(k - 1)) = k
  BY FS_Interval
<1>9. QED
  BY <1>7, <1>8, FS_Injection

LEMMA BudgetFits == \A b \in Nat : RouteBudget(b) \in Nat \ {0}
  BY DEF RouteBudget, gossipOverheadEstimate, avgRouteOnWire

(* The capabilities in a frame are within the budget of its routes.        *)
LEMMA CapsFit ==
    ASSUME GradientTypeOK, NEW known \in Snapshots, NEW budget \in Nat, NEW adv,
           IsHorizon(adv, cost, budget)
    PROVE  Cardinality(capHorizonRanked(known, Self, DOMAIN adv, budget, Rank)) <= budget
<1> DEFINE first == (DOMAIN adv \cap known) \ {Self}
           rest == (known \ first) \ {Self}
           slack == budget - Cardinality(first)
<1>1. DOMAIN adv \subseteq TableNodes /\ Targets(cost) \subseteq TableNodes
  BY DEF IsHorizon, Targets, GradientTypeOK
<1>2. IsFiniteSet(DOMAIN adv) /\ IsFiniteSet(Targets(cost)) /\ IsFiniteSet(first)
      /\ Cardinality(first) <= Cardinality(DOMAIN adv)
  BY <1>1, GradientAssumption, FS_Subset
<1>3. /\ Cardinality(DOMAIN adv) \in Nat /\ Cardinality(Targets(cost)) \in Nat
      /\ Cardinality(first) \in Nat
  BY <1>2, FS_CardinalityType
<1>4. Cardinality(DOMAIN adv) <= budget
  <2>1. Cardinality(DOMAIN adv) = Min({budget, Cardinality(Targets(cost))})
    BY DEF IsHorizon
  <2>2. QED
    BY <1>3, <2>1, LeastCost
<1>5. slack \in Nat
  BY <1>2, <1>3, <1>4
<1>6. rest \subseteq TableNodes
  BY GradientAssumption
<1>7. /\ IsFiniteSet(Smallest(rest, slack, Rank))
      /\ Cardinality(Smallest(rest, slack, Rank)) <= slack
  BY <1>5, <1>6, SmallestFits
<1>8. Cardinality(first \cup Smallest(rest, slack, Rank))
        = Cardinality(first) + Cardinality(Smallest(rest, slack, Rank))
          - Cardinality(first \cap Smallest(rest, slack, Rank))
      /\ Cardinality(first \cap Smallest(rest, slack, Rank)) \in Nat
      /\ Cardinality(Smallest(rest, slack, Rank)) \in Nat
  BY <1>2, <1>7, FS_Union, FS_Intersection, FS_CardinalityType
<1>9. capHorizonRanked(known, Self, DOMAIN adv, budget, Rank) = first \cup Smallest(rest, slack, Rank)
  BY DEF capHorizonRanked
<1> DEFINE a == Cardinality(first)
           c == Cardinality(Smallest(rest, slack, Rank))
           d == Cardinality(first \cap Smallest(rest, slack, Rank))
<1>10. a \in Nat /\ c \in Nat /\ d \in Nat /\ c <= budget - a
  BY <1>3, <1>7, <1>8
<1> HIDE DEF a, c, d
<1>11. a + (c - d) <= budget
  BY <1>10
<1>12. QED
  BY <1>8, <1>9, <1>11 DEF a, c, d

(* While the cache is good it holds what was sent last.                    *)
SentInv ==
    sent # Nil /\ ~dirty =>
        /\ gossipCache # Nil /\ cacheKey = <<sent.impedance, sent.budget>>
        /\ sent = Vector(sent.impedance, sent.budget, sent.known, gossipCache)
        /\ Cardinality(sent.caps) <= RouteBudget(sent.budget)

LEMMA SentByHand ==
    ASSUME NEW z, NEW b, NEW known, NEW adv, sent' = Vector(z, b, known, adv)
    PROVE  /\ sent'.impedance = z /\ sent'.budget = b /\ sent'.known = known
           /\ sent'.caps = capHorizonRanked(known, Self, DOMAIN adv, RouteBudget(b), Rank)
  BY DEF Vector

LEMMA HorizonsAreLists ==
    ASSUME GradientTypeOK, NEW h, NEW adv \in Horizons(cost, h)
    PROVE  adv # Nil /\ IsHorizon(adv, cost, h)
<1>1. PICK S \in SUBSET Targets(cost) : adv = [t \in S |-> BestCost(cost, t)]
  BY DEF Horizons
<1>2. ASSUME NEW t \in S PROVE BestCost(cost, t) \in Nat
  <2> DEFINE C == {cost[p] : p \in PathsTo(cost, t)}
  <2>1. C # {} /\ C \subseteq Nat
    BY DEF Targets, PathsTo, GradientTypeOK
  <2>2. Min(C) \in Nat
    BY <2>1, LeastCost
  <2>3. QED
    BY <2>2 DEF BestCost
<1>3. S \in SUBSET TableNodes
  BY DEF Targets, GradientTypeOK
<1>4. adv \in [S -> Nat]
  BY <1>1, <1>2
<1>5. QED
  BY <1>3, <1>4, GradientAssumption DEF Horizons

LEMMA SentNext ==
    ASSUME GradientTypeOK, CacheIsCurrent, SentInv, [GradientNext]_gradientVars
    PROVE  SentInv'
<1>1. ASSUME UNCHANGED <<gossipCache, cacheKey, sent>>, dirty' = dirty \/ dirty' = TRUE
      PROVE  SentInv'
  BY <1>1 DEF SentInv, Vector
<1>2. ASSUME NEW z \in GossipImpedances, NEW b \in Budgets, NEW known \in Snapshots,
             GenerateGossip(z, b, known)
      PROVE  SentInv'
  <2>1. PICK adv : /\ gossipCache' = adv /\ adv # Nil /\ cacheKey' = <<z, b>>
                   /\ sent' = Vector(z, b, known, adv) /\ IsHorizon(adv, cost, RouteBudget(b))
    <3>1. CASE GenerateGossipHit(z, b, known)
      BY <3>1 DEF GenerateGossipHit, CacheHit, CacheIsCurrent
    <3>2. CASE GenerateGossipMiss(z, b, known)
      BY <3>2, HorizonsAreLists DEF GenerateGossipMiss
    <3>3. QED
      BY <1>2, <3>1, <3>2 DEF GenerateGossip
  <2>2. RouteBudget(b) \in Nat
    BY BudgetFits, GradientAssumption
  <2>3. Cardinality(sent'.caps) <= RouteBudget(b)
    BY <2>1, <2>2, SentByHand, CapsFit
  <2>4. sent'.impedance = z /\ sent'.budget = b /\ sent'.known = known
    BY <2>1, SentByHand
  <2>5. QED
    BY <2>1, <2>3, <2>4 DEF SentInv, Vector, RouteBudget
<1>3. \A t, h, c : UpdateRoute(t, h, c) =>
          UNCHANGED <<gossipCache, cacheKey, sent>> /\ (dirty' = dirty \/ dirty' = TRUE)
  BY DEF UpdateRoute
<1>4. \A P : RemovePaths(P) =>
          UNCHANGED <<gossipCache, cacheKey, sent>> /\ (dirty' = dirty \/ dirty' = TRUE)
  BY DEF RemovePaths, GradientTypeOK
<1>5. CASE \E h \in Neighbors : \/ \E z \in GossipImpedances, t \in TableNodes, c \in Costs :
                                      ProcessGossip(h, z, t, c)
                                \/ AddDirectNeighbor(h)
                                \/ RemoveNeighbor(h)
  BY <1>1, <1>3, <1>4, <1>5 DEF ProcessGossip, AddDirectNeighbor, RemoveNeighbor
<1>6. CASE PurgeStaleRoutes
  BY <1>1, <1>4, <1>6 DEF PurgeStaleRoutes
<1>7. CASE RouteTick \/ UNCHANGED gradientVars
  BY <1>1, <1>7 DEF RouteTick, gradientVars
<1>8. QED
  BY <1>2, <1>5, <1>6, <1>7 DEF GradientNext

(* Two calls of GenerateGossip in a row with the same arguments and no     *)
(* mutation in between send the same vector, although the sort is unstable *)
(* and the order of a map random, and its capabilities are within the      *)
(* budget (gradient.go, GenerateGossipBudgeted and capHorizonRanked).      *)
THEOREM GossipIsStable == GradientSpec => EmissionsAreStable
<1>1. GradientInit => GradientTypeOK /\ CacheIsCurrent /\ SentInv
  BY DEF GradientInit, GradientTypeOK, CacheIsCurrent, SentInv
<1>2. SentInv => [(/\ sent # Nil /\ ~dirty
                   /\ GenerateGossip(sent.impedance, sent.budget, sent.known))
                  => sent' = sent /\ Cardinality(sent.caps) <= RouteBudget(sent.budget)]_gradientVars
  BY DEF SentInv, GenerateGossip, GenerateGossipHit, GenerateGossipMiss, CacheHit
<1>3. QED
  BY <1>1, <1>2, TypeNext, CacheNext, SentNext, PTL DEF GradientSpec, EmissionsAreStable
=============================================================================
