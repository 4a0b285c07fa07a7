----------------------------- MODULE SonarProofs -----------------------------
(***************************************************************************)
(* Proofs about Sonar on any graph of connections, for any number of       *)
(* queries, any placement of capabilities and whatever the gradient tables *)
(* answer: what a query returns is true, and returned once. Then proofs    *)
(* about the writer of the control frames queries travel in                *)
(* (ControlWriter).                                                        *)
(***************************************************************************)
EXTENDS Sonar, ControlWriter, FiniteSetTheorems, TLAPS

Asked(c) == phase[c] # "idle"
Live(c) == phase[c] \in {"created", "collecting"}

-----------------------------------------------------------------------------
(***************************************************************************)
(* Calls and their UUIDs: a UUID is given to one call, and its collector   *)
(* is registered exactly while the call is under way.                      *)
(***************************************************************************)
AskedAt(n) == {c \in Queries : Asked(c) /\ uuid[c][1] = n}

CallInv ==
    /\ \A c \in Queries :
         \/ phase[c] = "idle" /\ uuid[c] = NoUUID /\ wanted[c] = NoCall
                              /\ buffer[c] = <<>> /\ results[c] = <<>>
         \/ /\ Asked(c) /\ uuid[c] \in UUIDs /\ wanted[c] \in Capabilities
            /\ uuid[c][2] <= uuidCounter[uuid[c][1]]
    /\ \A c, d \in Queries : Asked(c) /\ Asked(d) /\ uuid[c] = uuid[d] => c = d
    /\ \A n \in SonarNodes : uuidCounter[n] <= Cardinality(AskedAt(n))
    /\ \A c \in Queries : Live(c) => collectors[uuid[c]] = c
    /\ \A u \in UUIDs : collectors[u] # NoCall =>
         Live(collectors[u]) /\ uuid[collectors[u]] = u

(***************************************************************************)
(* What is on its way is about a call: a question for what it wants, an    *)
(* answer from a node that has it and is not the one that asks.            *)
(***************************************************************************)
FrameIsTrue(f) ==
    \E c \in Queries :
        /\ Asked(c) /\ uuid[c] = f.uuid
        /\ f.type = "WhoHas" => f.capability = wanted[c]
        /\ f.type = "IHave" => f.nodeID \in Others(c)

TruthInv ==
    /\ \A l \in SonarLinks : \A i \in 1..Len(net[l]) : FrameIsTrue(net[l][i])
    /\ \A c \in Queries : Elements(buffer[c]) \subseteq Others(c)
    /\ \A c \in Queries : Elements(results[c]) \subseteq Others(c)

(***************************************************************************)
(* While a call is under way a node answers it at most once, since the     *)
(* UUID stays in the node's seen set: one IHave frame somewhere on the     *)
(* way, or one entry of the channel, or one of the results.                *)
(***************************************************************************)
NoRepeat(s) == \A i, j \in 1..Len(s) : s[i] = s[j] => i = j
LiveAnswer(f) == f.type = "IHave" /\ collectors[f.uuid] # NoCall
Gathered(c) == Elements(buffer[c]) \cup Elements(results[c])

(* Answered by a node that remembers it, and not gathered yet. *)
Pending(f) == f.uuid \in seen[f.nodeID] /\ f.nodeID \notin Gathered(collectors[f.uuid])

ResultsOnce == \A c \in Queries : NoRepeat(results[c])

GatheredOnce ==
    \A c \in Queries : Live(c) =>
        /\ NoRepeat(buffer[c]) /\ Elements(buffer[c]) \cap Elements(results[c]) = {}
        /\ \A m \in Gathered(c) : uuid[c] \in seen[m]

PendingOnce ==
    \A l \in SonarLinks : \A f \in Elements(net[l]) : LiveAnswer(f) => Pending(f)

OneFrame ==
    \A l, k \in SonarLinks : \A i \in 1..Len(net[l]), j \in 1..Len(net[k]) :
        LiveAnswer(net[l][i]) /\ net[l][i] = net[k][j] => l = k /\ i = j

OnceInv == ResultsOnce /\ GatheredOnce /\ PendingOnce /\ OneFrame

SonarInv == SonarTypeOK /\ CallInv /\ TruthInv /\ OnceInv

-----------------------------------------------------------------------------
(***************************************************************************)
(* What sendControl does to the links: the frame read from link in is gone *)
(* and the others keep their order; a frame that is sent is the last one.  *)
(***************************************************************************)
Shift(in, k) == IF k = in THEN 1 ELSE 0

Moved(in, k, i) ==
    /\ i + Shift(in, k) \in 1..Len(net[k])
    /\ net'[k][i] = net[k][i + Shift(in, k)]

Sent(in, out, k, i) ==
    /\ k \in DOMAIN out
    /\ i + Shift(in, k) = Len(net[k]) + 1
    /\ net'[k][i] = out[k]

Effect(in, out) ==
    /\ net' \in [SonarLinks -> Seq(SonarFrames)]
    /\ drops' \in 0..MaxDrops
    /\ \A k \in SonarLinks : \A i \in 1..Len(net'[k]) :
         Moved(in, k, i) \/ Sent(in, out, k, i)

LEMMA SendControl ==
    ASSUME net \in [SonarLinks -> Seq(SonarFrames)], drops \in 0..MaxDrops,
           NEW in, in \in SonarLinks => net[in] # <<>>,
           NEW out, IsFiniteSet(DOMAIN out),
           \A k \in DOMAIN out : out[k] \in SonarFrames,
           sendControl(in, out)
    PROVE  Effect(in, out)
<1> DEFINE rest(k) == IF k = in THEN Tail(net[k]) ELSE net[k]
<1>1. PICK lost \in SUBSET DOMAIN out :
        /\ drops + Cardinality(lost) <= MaxDrops
        /\ drops' = drops + Cardinality(lost)
        /\ net' = [k \in SonarLinks |->
                     IF k \in DOMAIN out \ lost THEN Append(rest(k), out[k])
                     ELSE rest(k)]
  BY DEF sendControl
<1>2. Cardinality(lost) \in Nat
  BY FS_Subset, FS_CardinalityType
<1>3. drops' \in 0..MaxDrops
  BY <1>1, <1>2, SonarAssumption
<1>4. ASSUME NEW k \in SonarLinks
      PROVE  /\ rest(k) \in Seq(SonarFrames)
             /\ Len(rest(k)) + Shift(in, k) = Len(net[k])
             /\ \A i \in 1..Len(rest(k)) : rest(k)[i] = net[k][i + Shift(in, k)]
  <2>1. net[k] \in Seq(SonarFrames)
    OBVIOUS
  <2>2. CASE k = in
    <3>1. net[k] # <<>>
      BY <2>2
    <3>2. Tail(net[k]) \in Seq(SonarFrames) /\ Len(Tail(net[k])) = Len(net[k]) - 1
      BY <2>1, <3>1
    <3>3. \A i \in 1..Len(Tail(net[k])) : Tail(net[k])[i] = net[k][i + 1]
      BY <2>1, <3>1
    <3>4. QED
      BY <2>1, <2>2, <3>2, <3>3 DEF Shift
  <2>3. CASE k # in
    BY <2>1, <2>3 DEF Shift
  <2>4. QED
    BY <2>2, <2>3
<1> HIDE DEF rest
<1>5. ASSUME NEW k \in SonarLinks
      PROVE  /\ net'[k] \in Seq(SonarFrames)
             /\ \A i \in 1..Len(net'[k]) : Moved(in, k, i) \/ Sent(in, out, k, i)
  <2>1. CASE k \in DOMAIN out \ lost
    <3>1. net'[k] = Append(rest(k), out[k]) /\ out[k] \in SonarFrames
      BY <1>1, <2>1
    <3>2. net'[k] \in Seq(SonarFrames) /\ Len(net'[k]) = Len(rest(k)) + 1
      BY <1>4, <3>1
    <3>3. ASSUME NEW i \in 1..Len(net'[k]) PROVE Moved(in, k, i) \/ Sent(in, out, k, i)
      <4>1. CASE i \in 1..Len(rest(k))
        <5>1. net'[k][i] = rest(k)[i]
          BY <1>4, <3>1, <4>1
        <5>2. QED
          BY <1>4, <4>1, <5>1 DEF Moved, Shift
      <4>2. CASE i = Len(rest(k)) + 1
        <5>1. net'[k][i] = out[k]
          BY <1>4, <3>1, <4>2
        <5>2. QED
          BY <1>4, <2>1, <4>2, <5>1 DEF Sent, Shift
      <4>3. QED
        BY <1>4, <3>2, <4>1, <4>2
    <3>4. QED
      BY <3>2, <3>3
  <2>2. CASE k \notin DOMAIN out \ lost
    <3>1. net'[k] = rest(k)
      BY <1>1, <2>2
    <3>2. QED
      BY <1>4, <3>1 DEF Moved, Shift
  <2>3. QED
    BY <2>1, <2>2
<1>6. QED
  <2>1. net' = [k \in SonarLinks |-> net'[k]]
    BY <1>1
  <2>2. QED
    BY <1>3, <1>5, <2>1 DEF Effect

-----------------------------------------------------------------------------
(* What each handler may send. *)

LEMMA BudgetType ==
    ASSUME NEW h \in 0..MaxHops
    PROVE  NextBudget(h) \in 0..MaxHops
<1>1. MaxHops \in Nat /\ MaxHops + 1 > 0 /\ h + MaxHops \in Int
  BY SonarAssumption
<1>2. (h + MaxHops) % (MaxHops + 1) \in 0..((MaxHops + 1) - 1)
  BY <1>1
<1>3. QED
  BY <1>1, <1>2 DEF NextBudget

LEMMA LinksFinite ==
    ASSUME NEW n
    PROVE  LinksOf(n) \subseteq SonarLinks /\ IsFiniteSet(LinksOf(n))
BY SonarAssumption, FS_Subset DEF LinksOf

(* The frames HandleWhoHas sends on the first copy of a question. *)
Replies(l, f) ==
    [k \in Answer(l, f) \cup ForwardTo(l, f) |->
        IF k \in Answer(l, f) THEN IHaveFrame(f.uuid, l[2])
        ELSE WhoHasFrame(f.uuid, f.capability, NextBudget(f.maxHops))]

WhoHasFrames ==
    [type : {"WhoHas"}, uuid : UUIDs, capability : Capabilities, maxHops : 0..MaxHops]
IHaveFrames == [type : {"IHave"}, uuid : UUIDs, nodeID : SonarNodes]

LEMMA RepliesAreFrames ==
    ASSUME NEW l \in SonarLinks, NEW f \in WhoHasFrames
    PROVE  /\ IsFiniteSet(DOMAIN Replies(l, f))
           /\ \A k \in DOMAIN Replies(l, f) : Replies(l, f)[k] \in SonarFrames
<1>1. l[2] \in SonarNodes
  BY SonarAssumption
<1>2. IHaveFrame(f.uuid, l[2]) \in SonarFrames
  BY <1>1 DEF IHaveFrame, SonarFrames, WhoHasFrames
<1>3. WhoHasFrame(f.uuid, f.capability, NextBudget(f.maxHops)) \in SonarFrames
  <2>1. NextBudget(f.maxHops) \in 0..MaxHops
    BY BudgetType DEF WhoHasFrames
  <2>2. QED
    BY <2>1 DEF WhoHasFrame, SonarFrames, WhoHasFrames
<1>4. DOMAIN Replies(l, f) = Answer(l, f) \cup ForwardTo(l, f)
  BY DEF Replies
<1>5. IsFiniteSet(Answer(l, f))
  BY FS_EmptySet, FS_Singleton DEF Answer
<1>6. IsFiniteSet(ForwardTo(l, f))
  <2>1. ForwardTo(l, f) \subseteq SonarLinks
    BY LinksFinite DEF ForwardTo
  <2>2. QED
    BY <2>1, SonarAssumption, FS_Subset
<1>7. IsFiniteSet(Answer(l, f) \cup ForwardTo(l, f))
  BY <1>5, <1>6, FS_Union
<1>8. QED
  BY <1>2, <1>3, <1>4, <1>7 DEF Replies

(* The two outcomes of either handler, and what they leave on the links. *)
LEMMA FrameKinds ==
    ASSUME NEW f \in SonarFrames
    PROVE  /\ f.type = "WhoHas" => f \in WhoHasFrames
           /\ f.type = "IHave" => f \in IHaveFrames
           /\ f.type \in {"WhoHas", "IHave"} /\ f.uuid \in UUIDs
BY DEF SonarFrames, WhoHasFrames, IHaveFrames

LEMMA HeadOfLink ==
    ASSUME net \in [SonarLinks -> Seq(SonarFrames)], NEW l \in SonarLinks, net[l] # <<>>
    PROVE  1 \in 1..Len(net[l]) /\ Head(net[l]) = net[l][1] /\ Head(net[l]) \in SonarFrames
<1>1. net[l] \in Seq(SonarFrames)
  OBVIOUS
<1>2. QED
  BY <1>1

LEMMA NothingSent ==
    /\ IsFiniteSet(DOMAIN Nothing)
    /\ \A k \in DOMAIN Nothing : Nothing[k] \in SonarFrames
    /\ DOMAIN Nothing = {}
<1>1. DOMAIN Nothing = {}
  BY DEF Nothing
<1>2. QED
  BY <1>1, FS_EmptySet

(* The frame of a call that is about to be broadcast. *)
Question(c) == WhoHasFrame(uuid[c], wanted[c], MaxHops)
Questions(c) == [k \in LinksOf(uuid[c][1]) |-> Question(c)]

LEMMA BroadcastEffect ==
    ASSUME SonarTypeOK, CallInv, NEW c \in Queries, BroadcastAll(c)
    PROVE  Effect(NoCall, Questions(c))
<1>1. uuid[c] \in UUIDs /\ wanted[c] \in Capabilities
  BY DEF CallInv, BroadcastAll, Asked
<1>2. Question(c) \in SonarFrames
  BY <1>1, SonarAssumption DEF Question, WhoHasFrame, SonarFrames
<1>3. DOMAIN Questions(c) = LinksOf(uuid[c][1])
  BY DEF Questions
<1>4. \A k \in DOMAIN Questions(c) : Questions(c)[k] \in SonarFrames
  BY <1>2 DEF Questions
<1>5. sendControl(NoCall, Questions(c))
  BY DEF BroadcastAll, Questions, Question
<1>6. NoCall \notin SonarLinks
  BY SonarAssumption
<1>7. net \in [SonarLinks -> Seq(SonarFrames)] /\ drops \in 0..MaxDrops
  BY DEF SonarTypeOK
<1>8. IsFiniteSet(DOMAIN Questions(c))
  BY <1>3, LinksFinite
<1>9. QED
  BY <1>4, <1>5, <1>6, <1>7, <1>8, SendControl

LEMMA WhoHasEffect ==
    ASSUME SonarTypeOK, NEW l \in SonarLinks, HandleWhoHas(l)
    PROVE  LET f == Head(net[l]) IN
           /\ 1 \in 1..Len(net[l]) /\ f = net[l][1] /\ f \in WhoHasFrames
           /\ \/ /\ FirstSeen(l[2], f) /\ Effect(l, Replies(l, f))
                 /\ seen' = [seen EXCEPT ![l[2]] = @ \cup {f.uuid}]
              \/ Effect(l, Nothing) /\ seen' = seen
<1> DEFINE f == Head(net[l])
<1>1. net \in [SonarLinks -> Seq(SonarFrames)] /\ drops \in 0..MaxDrops
  BY DEF SonarTypeOK
<1>2. net[l] # <<>> /\ f.type = "WhoHas"
  BY DEF HandleWhoHas
<1>3. 1 \in 1..Len(net[l]) /\ f = net[l][1] /\ f \in SonarFrames
  BY <1>1, <1>2, HeadOfLink
<1>4. f \in WhoHasFrames
  BY <1>2, <1>3, FrameKinds
<1>5. \/ /\ FirstSeen(l[2], f) /\ sendControl(l, Replies(l, f))
         /\ seen' = [seen EXCEPT ![l[2]] = @ \cup {f.uuid}]
      \/ sendControl(l, Nothing) /\ seen' = seen
  BY DEF HandleWhoHas, Replies
<1> HIDE DEF f
<1>6. ASSUME sendControl(l, Replies(l, f)) PROVE Effect(l, Replies(l, f))
  BY <1>1, <1>2, <1>4, <1>6, RepliesAreFrames, SendControl
<1>7. ASSUME sendControl(l, Nothing) PROVE Effect(l, Nothing)
  BY <1>1, <1>2, <1>7, NothingSent, SendControl
<1>8. QED
  BY <1>3, <1>4, <1>5, <1>6, <1>7 DEF f

(* An answer on its way to the next node. *)
Relayed(n, h, f) == [k \in {<<n, h>>} \cap SonarLinks |-> f]

LEMMA IHaveEffect ==
    ASSUME SonarTypeOK, NEW l \in SonarLinks, HandleIHave(l)
    PROVE  LET f == Head(net[l]) IN
           /\ 1 \in 1..Len(net[l]) /\ f = net[l][1] /\ f \in IHaveFrames
           /\ \/ /\ Deliverable(l[2], f) /\ Effect(l, Nothing)
                 /\ buffer' = [buffer EXCEPT ![collectors[f.uuid]] = Append(@, f.nodeID)]
              \/ Effect(l, Nothing) /\ buffer' = buffer
              \/ /\ \E h : Effect(l, Relayed(l[2], h, f))
                 /\ buffer' = buffer
<1> DEFINE f == Head(net[l])
<1>1. net \in [SonarLinks -> Seq(SonarFrames)] /\ drops \in 0..MaxDrops
  BY DEF SonarTypeOK
<1>2. net[l] # <<>> /\ f.type = "IHave"
  BY DEF HandleIHave
<1>3. 1 \in 1..Len(net[l]) /\ f = net[l][1] /\ f \in SonarFrames
  BY <1>1, <1>2, HeadOfLink
<1>4. f \in IHaveFrames
  BY <1>2, <1>3, FrameKinds
<1>5. \/ /\ Deliverable(l[2], f) /\ sendControl(l, Nothing)
         /\ buffer' = [buffer EXCEPT ![collectors[f.uuid]] = Append(@, f.nodeID)]
      \/ sendControl(l, Nothing) /\ buffer' = buffer
      \/ (\E h : sendControl(l, Relayed(l[2], h, f))) /\ buffer' = buffer
  BY DEF HandleIHave, Relayed
<1> HIDE DEF f
<1>6. ASSUME sendControl(l, Nothing) PROVE Effect(l, Nothing)
  BY <1>1, <1>2, <1>6, NothingSent, SendControl
<1>7. ASSUME NEW h, sendControl(l, Relayed(l[2], h, f)) PROVE Effect(l, Relayed(l[2], h, f))
  <2>1. DOMAIN Relayed(l[2], h, f) \subseteq SonarLinks
    BY DEF Relayed
  <2>2. IsFiniteSet(DOMAIN Relayed(l[2], h, f))
    BY <2>1, SonarAssumption, FS_Subset
  <2>3. \A k \in DOMAIN Relayed(l[2], h, f) : Relayed(l[2], h, f)[k] \in SonarFrames
    BY <1>3 DEF Relayed
  <2>4. QED
    BY <1>1, <1>2, <1>7, <2>2, <2>3, SendControl
<1>8. QED
  BY <1>3, <1>4, <1>5, <1>6, <1>7 DEF f

-----------------------------------------------------------------------------
(* The counter of a node never exceeds the calls made on it, so the UUID   *)
(* of a new call is in range and was never given before.                   *)
LEMMA StartIsFresh ==
    ASSUME SonarTypeOK, CallInv, NEW c \in Queries, NEW n \in Callers,
           NEW cap \in Capabilities, StartQuery(c, n, cap)
    PROVE  /\ n \in SonarNodes /\ generateUUID(n) \in UUIDs
           /\ uuidCounter[n] + 1 \in 0..Cardinality(Queries)
           /\ \A d \in Queries : Asked(d) => uuid[d] # generateUUID(n)
           /\ \A m \in SonarNodes : uuidCounter'[m] <= Cardinality(AskedAt(m)')
<1>1. n \in SonarNodes
  BY SonarAssumption
<1>2. IsFiniteSet(Queries) /\ Cardinality(Queries) \in Nat
  BY SonarAssumption, FS_CardinalityType
<1>3. \A m \in SonarNodes : uuidCounter[m] \in Nat /\ uuidCounter[m] <= Cardinality(AskedAt(m))
  BY <1>2 DEF SonarTypeOK, CallInv
<1>4. \A m : AskedAt(m) \subseteq Queries /\ IsFiniteSet(AskedAt(m))
             /\ Cardinality(AskedAt(m)) \in Nat
  <2>1. \A m : AskedAt(m) \subseteq Queries
    BY DEF AskedAt
  <2>2. QED
    BY <1>2, <2>1, FS_Subset, FS_CardinalityType
<1>5. c \notin AskedAt(n)
  BY DEF AskedAt, StartQuery, Asked
<1>6. IsFiniteSet(AskedAt(n) \cup {c}) /\ Cardinality(AskedAt(n) \cup {c}) = Cardinality(AskedAt(n)) + 1
  BY <1>4, <1>5, FS_AddElement
<1>7. Cardinality(AskedAt(n) \cup {c}) <= Cardinality(Queries)
  <2>1. AskedAt(n) \cup {c} \subseteq Queries
    BY <1>4
  <2>2. QED
    BY <1>2, <2>1, FS_Subset
<1>8. uuidCounter[n] + 1 \in 1..Cardinality(Queries)
  BY <1>1, <1>2, <1>3, <1>4, <1>6, <1>7
<1>9. generateUUID(n) \in UUIDs
  BY <1>1, <1>8 DEF generateUUID, UUIDs
<1>10. ASSUME NEW d \in Queries, Asked(d) PROVE uuid[d] # generateUUID(n)
  <2>1. uuid[d] \in UUIDs /\ uuid[d][2] <= uuidCounter[uuid[d][1]]
    BY <1>10 DEF CallInv, Asked
  <2>2. SUFFICES ASSUME uuid[d] = generateUUID(n) PROVE FALSE
    OBVIOUS
  <2>3. uuid[d][1] = n /\ uuid[d][2] = uuidCounter[n] + 1
    BY <2>2 DEF generateUUID
  <2>4. QED
    BY <1>1, <1>3, <2>1, <2>3
<1>11. ASSUME NEW m \in SonarNodes PROVE uuidCounter'[m] <= Cardinality(AskedAt(m)')
  <2>1. phase' = [phase EXCEPT ![c] = "created"] /\ uuid' = [uuid EXCEPT ![c] = generateUUID(n)]
        /\ uuidCounter' = [uuidCounter EXCEPT ![n] = @ + 1]
    BY DEF StartQuery
  <2>2. phase'[c] = "created" /\ uuid'[c] = generateUUID(n) /\ generateUUID(n)[1] = n
    BY <2>1 DEF SonarTypeOK, generateUUID
  <2>3. \A d \in Queries : d # c => phase'[d] = phase[d] /\ uuid'[d] = uuid[d]
    BY <2>1 DEF SonarTypeOK
  <2>4. phase[c] = "idle"
    BY DEF StartQuery
  <2>5. CASE m = n
    <3>1. AskedAt(m)' = AskedAt(n) \cup {c}
      BY <2>2, <2>3, <2>5 DEF AskedAt, Asked
    <3>2. uuidCounter'[m] = uuidCounter[n] + 1
      BY <2>1, <2>5, <1>1 DEF SonarTypeOK
    <3>3. QED
      BY <1>1, <1>3, <1>4, <1>6, <3>1, <3>2
  <2>6. CASE m # n
    <3>1. AskedAt(m)' = AskedAt(m)
      BY <2>2, <2>3, <2>4, <2>6 DEF AskedAt, Asked
    <3>2. uuidCounter'[m] = uuidCounter[m]
      BY <2>1, <2>6 DEF SonarTypeOK
    <3>3. QED
      BY <1>3, <3>1, <3>2
  <2>7. QED
    BY <2>5, <2>6
<1>12. QED
  BY <1>1, <1>2, <1>8, <1>9, <1>10, <1>11

LEMMA StepType ==
    ASSUME SonarTypeOK, CallInv, SonarNext
    PROVE  SonarTypeOK'
<1>1. ASSUME NEW c \in Queries, NEW n \in Callers, NEW cap \in Capabilities,
             StartQuery(c, n, cap)
      PROVE  SonarTypeOK'
  <2>1. /\ n \in SonarNodes /\ generateUUID(n) \in UUIDs
        /\ uuidCounter[n] + 1 \in 0..Cardinality(Queries)
    BY <1>1, StartIsFresh
  <2>2. QED
    BY <1>1, <2>1 DEF SonarTypeOK, StartQuery
<1>2. ASSUME NEW c \in Queries, BroadcastAll(c) PROVE SonarTypeOK'
  <2>1. net' \in [SonarLinks -> Seq(SonarFrames)] /\ drops' \in 0..MaxDrops
    BY <1>2, BroadcastEffect DEF Effect
  <2>2. QED
    BY <1>2, <2>1 DEF SonarTypeOK, BroadcastAll
<1>3. ASSUME NEW c \in Queries, Collect(c) PROVE SonarTypeOK'
  <2>1. buffer[c] \in Seq(SonarNodes) /\ buffer[c] # <<>> /\ results[c] \in Seq(SonarNodes)
    BY <1>3 DEF SonarTypeOK, Collect
  <2>2. Tail(buffer[c]) \in Seq(SonarNodes) /\ Append(results[c], Head(buffer[c])) \in Seq(SonarNodes)
    BY <2>1
  <2>3. QED
    BY <1>3, <2>2 DEF SonarTypeOK, Collect, callVars
<1>4. ASSUME NEW c \in Queries, StopCollection(c) PROVE SonarTypeOK'
  <2>1. <<>> \in Seq(SonarNodes)
    OBVIOUS
  <2>2. buffer' \in [Queries -> Seq(SonarNodes)]
    BY <1>4, <2>1 DEF SonarTypeOK, StopCollection
  <2>3. QED
    BY <1>4, <2>2 DEF SonarTypeOK, StopCollection
<1>5. ASSUME NEW l \in SonarLinks, HandleWhoHas(l) PROVE SonarTypeOK'
  <2>1. net' \in [SonarLinks -> Seq(SonarFrames)] /\ drops' \in 0..MaxDrops
    BY <1>5, WhoHasEffect DEF Effect
  <2>2. Head(net[l]).uuid \in UUIDs /\ l[2] \in SonarNodes
    BY <1>5, WhoHasEffect, SonarAssumption DEF WhoHasFrames
  <2>3. seen' \in [SonarNodes -> SUBSET UUIDs]
    BY <1>5, <2>2, WhoHasEffect DEF SonarTypeOK
  <2>4. QED
    BY <1>5, <2>1, <2>3 DEF SonarTypeOK, HandleWhoHas, callVars
<1>6. ASSUME NEW l \in SonarLinks, HandleIHave(l) PROVE SonarTypeOK'
  <2>1. net' \in [SonarLinks -> Seq(SonarFrames)] /\ drops' \in 0..MaxDrops
    BY <1>6, IHaveEffect DEF Effect
  <2>2. Head(net[l]).uuid \in UUIDs /\ Head(net[l]).nodeID \in SonarNodes
    BY <1>6, IHaveEffect DEF IHaveFrames
  <2>3. ASSUME NEW c \in Queries
        PROVE  Append(buffer[c], Head(net[l]).nodeID) \in Seq(SonarNodes)
    BY <2>2 DEF SonarTypeOK
  <2>4. buffer' \in [Queries -> Seq(SonarNodes)]
    <3>1. buffer \in [Queries -> Seq(SonarNodes)]
      BY DEF SonarTypeOK
    <3>2. CASE buffer' = [buffer EXCEPT ![collectors[Head(net[l]).uuid]] = Append(@, Head(net[l]).nodeID)]
      BY <2>3, <3>1, <3>2
    <3>3. QED
      BY <1>6, <3>1, <3>2, IHaveEffect
  <2>5. QED
    BY <1>6, <2>1, <2>4 DEF SonarTypeOK, HandleIHave, callVars
<1>7. ASSUME NEW n \in SonarNodes, NEW u \in UUIDs, Expire(n, u) PROVE SonarTypeOK'
  BY <1>7 DEF SonarTypeOK, Expire, callVars
<1>8. QED
  BY <1>1, <1>2, <1>3, <1>4, <1>5, <1>6, <1>7 DEF SonarNext, HandleFrame

-----------------------------------------------------------------------------
(* Whatever happens, a call that was made stays what it was. *)
LEMMA CallsAreKept ==
    ASSUME SonarTypeOK, SonarNext, NEW c \in Queries, Asked(c)
    PROVE  /\ Asked(c)' /\ uuid'[c] = uuid[c] /\ wanted'[c] = wanted[c]
           /\ Others(c)' = Others(c)
<1>1. Asked(c)' /\ uuid'[c] = uuid[c] /\ wanted'[c] = wanted[c]
  BY DEF SonarTypeOK, SonarNext, StartQuery, BroadcastAll, Collect, StopCollection,
         HandleFrame, HandleWhoHas, HandleIHave, Expire, callVars, Asked
<1>2. QED
  BY <1>1 DEF Others

LEMMA NoCallIsNoQuery == NoCall \notin Queries /\ NoUUID \notin UUIDs
<1>1. NoCall \notin Queries
  BY SonarAssumption
<1>2. ASSUME NoUUID \in UUIDs PROVE FALSE
  <2>1. NoUUID[2] \in 1..Cardinality(Queries)
    BY <1>2 DEF UUIDs
  <2>2. NoUUID[2] = 0
    BY DEF NoUUID
  <2>3. QED
    BY <2>1, <2>2
<1>3. QED
  BY <1>1, <1>2

LEMMA StartCall ==
    ASSUME SonarTypeOK, CallInv, NEW c \in Queries, NEW n \in Callers,
           NEW cap \in Capabilities, StartQuery(c, n, cap)
    PROVE  CallInv'
<1> DEFINE u == generateUUID(n)
<1>1. /\ n \in SonarNodes /\ u \in UUIDs
      /\ \A d \in Queries : Asked(d) => uuid[d] # u
      /\ \A m \in SonarNodes : uuidCounter'[m] <= Cardinality(AskedAt(m)')
  BY StartIsFresh
<1>2. u[1] = n /\ u[2] = uuidCounter[n] + 1
  BY DEF generateUUID
<1>3. /\ phase[c] = "idle" /\ phase' = [phase EXCEPT ![c] = "created"]
      /\ uuidCounter' = [uuidCounter EXCEPT ![n] = uuidCounter[n] + 1]
      /\ uuid' = [uuid EXCEPT ![c] = u] /\ wanted' = [wanted EXCEPT ![c] = cap]
      /\ collectors' = [collectors EXCEPT ![u] = c]
      /\ buffer' = buffer /\ results' = results
  BY DEF StartQuery
<1> HIDE DEF u
<1>4. \A d \in Queries : d # c => /\ phase'[d] = phase[d] /\ uuid'[d] = uuid[d]
                                  /\ wanted'[d] = wanted[d]
  BY <1>3 DEF SonarTypeOK
<1>5. phase'[c] = "created" /\ uuid'[c] = u /\ wanted'[c] = cap
  BY <1>3 DEF SonarTypeOK
<1>6. \A m \in SonarNodes : uuidCounter[m] \in Nat /\ uuidCounter'[m] \in Nat
                            /\ uuidCounter[m] <= uuidCounter'[m]
  <2>1. Cardinality(Queries) \in Nat
    BY SonarAssumption, FS_CardinalityType
  <2>2. \A m \in SonarNodes : uuidCounter[m] \in Nat
    BY <2>1 DEF SonarTypeOK
  <2>3. QED
    BY <1>3, <2>2 DEF SonarTypeOK
<1>7. ASSUME NEW d \in Queries
      PROVE  (\/ phase[d] = "idle" /\ uuid[d] = NoUUID /\ wanted[d] = NoCall
                                   /\ buffer[d] = <<>> /\ results[d] = <<>>
              \/ /\ Asked(d) /\ uuid[d] \in UUIDs /\ wanted[d] \in Capabilities
                 /\ uuid[d][2] <= uuidCounter[uuid[d][1]])'
  <2>1. CASE d = c
    <3>1. uuidCounter'[n] = u[2]
      BY <1>1, <1>2, <1>3 DEF SonarTypeOK
    <3>2. u[2] <= uuidCounter'[n]
      BY <1>1, <1>6, <3>1
    <3>3. QED
      BY <1>1, <1>2, <1>5, <2>1, <3>2 DEF Asked
  <2>2. CASE d # c
    <3>1. CASE phase[d] = "idle"
      BY <1>3, <1>4, <2>2, <3>1 DEF CallInv, Asked
    <3>2. CASE phase[d] # "idle"
      <4>1. /\ Asked(d) /\ uuid[d] \in UUIDs /\ wanted[d] \in Capabilities
            /\ uuid[d][2] <= uuidCounter[uuid[d][1]]
        BY <3>2 DEF CallInv
      <4>2. uuid[d][1] \in SonarNodes /\ uuid[d][2] \in Nat
        BY <4>1 DEF UUIDs
      <4>3. uuid[d][2] <= uuidCounter'[uuid[d][1]]
        BY <1>6, <4>1, <4>2
      <4>4. QED
        BY <1>4, <2>2, <4>1, <4>3 DEF Asked
    <3>3. QED
      BY <3>1, <3>2
  <2>3. QED
    BY <2>1, <2>2
<1>8. ASSUME NEW d \in Queries, NEW e \in Queries,
             Asked(d)', Asked(e)', uuid'[d] = uuid'[e]
      PROVE  d = e
  BY <1>1, <1>4, <1>5, <1>8 DEF CallInv, Asked
<1>9. ASSUME NEW d \in Queries, Live(d)' PROVE collectors'[uuid'[d]] = d
  <2>1. CASE d = c
    BY <1>1, <1>3, <1>5, <2>1 DEF SonarTypeOK
  <2>2. CASE d # c
    <3>1. Live(d) /\ Asked(d)
      BY <1>4, <1>9, <2>2 DEF Live, Asked
    <3>2. collectors[uuid[d]] = d /\ uuid[d] # u /\ uuid[d] \in UUIDs
      BY <1>1, <3>1 DEF CallInv, Asked
    <3>3. QED
      BY <1>3, <1>4, <2>2, <3>2 DEF SonarTypeOK
  <2>3. QED
    BY <2>1, <2>2
<1>10. ASSUME NEW v \in UUIDs, collectors'[v] # NoCall
       PROVE  (Live(collectors[v]) /\ uuid[collectors[v]] = v)'
  <2>1. CASE v = u
    BY <1>1, <1>3, <1>5, <2>1 DEF SonarTypeOK, Live
  <2>2. CASE v # u
    <3>1. collectors'[v] = collectors[v]
      BY <1>3, <2>2 DEF SonarTypeOK
    <3>2. collectors[v] \in Queries /\ Live(collectors[v]) /\ uuid[collectors[v]] = v
      BY <1>10, <3>1 DEF CallInv, SonarTypeOK
    <3>3. collectors[v] # c
      BY <1>3, <3>2 DEF Live
    <3>4. QED
      BY <1>4, <3>1, <3>2, <3>3 DEF Live
  <2>3. QED
    BY <2>1, <2>2
<1>11. QED
  BY <1>1, <1>7, <1>8, <1>9, <1>10 DEF CallInv

LEMMA StepCall ==
    ASSUME SonarTypeOK, CallInv, SonarNext
    PROVE  CallInv'
<1>1. ASSUME uuidCounter' = uuidCounter, uuid' = uuid, wanted' = wanted,
             collectors' = collectors,
             \A c \in Queries : \/ phase'[c] = phase[c]
                                \/ phase[c] = "created" /\ phase'[c] = "collecting",
             \A c \in Queries : phase[c] = "idle" => buffer'[c] = buffer[c] /\ results'[c] = results[c]
      PROVE  CallInv'
  <2>1. \A c \in Queries : (Asked(c)' <=> Asked(c)) /\ (Live(c)' <=> Live(c))
    BY <1>1 DEF Asked, Live
  <2>2. \A n \in SonarNodes : AskedAt(n)' = AskedAt(n)
    BY <1>1, <2>1 DEF AskedAt
  <2>3. \A c \in Queries : phase'[c] = "idle" <=> phase[c] = "idle"
    BY <1>1
  <2>4. \A v \in UUIDs : collectors[v] # NoCall => collectors[v] \in Queries
    BY DEF SonarTypeOK
  <2>5. \A c \in Queries :
         (\/ phase[c] = "idle" /\ uuid[c] = NoUUID /\ wanted[c] = NoCall
                              /\ buffer[c] = <<>> /\ results[c] = <<>>
          \/ /\ Asked(c) /\ uuid[c] \in UUIDs /\ wanted[c] \in Capabilities
             /\ uuid[c][2] <= uuidCounter[uuid[c][1]])'
    BY <1>1, <2>1, <2>3 DEF CallInv
  <2>6. QED
    BY <1>1, <2>1, <2>2, <2>4, <2>5 DEF CallInv
<1>2. ASSUME NEW c \in Queries, NEW n \in Callers, NEW cap \in Capabilities,
             StartQuery(c, n, cap)
      PROVE  CallInv'
  BY <1>2, StartCall
<1>3. ASSUME NEW c \in Queries, BroadcastAll(c) PROVE CallInv'
  BY <1>1, <1>3 DEF BroadcastAll, SonarTypeOK
<1>4. ASSUME NEW c \in Queries, Collect(c) PROVE CallInv'
  BY <1>1, <1>4 DEF Collect, SonarTypeOK, callVars
<1>5. ASSUME NEW c \in Queries, StopCollection(c) PROVE CallInv'
  <2>1. /\ phase[c] = "collecting" /\ phase' = [phase EXCEPT ![c] = "done"]
        /\ collectors' = [collectors EXCEPT ![uuid[c]] = NoCall]
        /\ uuidCounter' = uuidCounter /\ uuid' = uuid /\ wanted' = wanted
        /\ buffer' = [buffer EXCEPT ![c] = <<>>] /\ results' = results
    BY <1>5 DEF StopCollection
  <2>2. uuid[c] \in UUIDs /\ collectors[uuid[c]] = c
    BY <2>1 DEF CallInv, Live
  <2>3. \A d \in Queries : d # c => phase'[d] = phase[d] /\ buffer'[d] = buffer[d]
    BY <2>1 DEF SonarTypeOK
  <2>4. phase'[c] = "done"
    BY <2>1 DEF SonarTypeOK
  <2>5. \A d \in Queries : Asked(d)' <=> Asked(d)
    BY <2>1, <2>3, <2>4 DEF Asked
  <2>6. \A m \in SonarNodes : AskedAt(m)' = AskedAt(m)
    BY <2>1, <2>5 DEF AskedAt
  <2>7. \A d \in Queries :
         (\/ phase[d] = "idle" /\ uuid[d] = NoUUID /\ wanted[d] = NoCall
                              /\ buffer[d] = <<>> /\ results[d] = <<>>
          \/ /\ Asked(d) /\ uuid[d] \in UUIDs /\ wanted[d] \in Capabilities
             /\ uuid[d][2] <= uuidCounter[uuid[d][1]])'
    BY <2>1, <2>3, <2>4, <2>5 DEF CallInv, Asked
  <2>8. ASSUME NEW d \in Queries, Live(d)' PROVE collectors'[uuid'[d]] = d
    <3>1. d # c /\ Live(d)
      BY <2>3, <2>4, <2>8 DEF Live
    <3>2. collectors[uuid[d]] = d /\ uuid[d] \in UUIDs
      BY <3>1 DEF CallInv, Live, Asked
    <3>3. uuid[d] # uuid[c]
      BY <2>2, <3>1, <3>2
    <3>4. QED
      BY <2>1, <3>2, <3>3 DEF SonarTypeOK
  <2>9. ASSUME NEW v \in UUIDs, collectors'[v] # NoCall
        PROVE  (Live(collectors[v]) /\ uuid[collectors[v]] = v)'
    <3>1. v # uuid[c] /\ collectors'[v] = collectors[v]
      BY <2>1, <2>2, <2>9 DEF SonarTypeOK
    <3>2. collectors[v] \in Queries /\ Live(collectors[v]) /\ uuid[collectors[v]] = v
      BY <2>9, <3>1 DEF CallInv, SonarTypeOK
    <3>3. QED
      BY <2>1, <2>3, <3>1, <3>2 DEF Live
  <2>10. QED
    BY <2>1, <2>5, <2>6, <2>7, <2>8, <2>9 DEF CallInv
<1>6. ASSUME NEW l \in SonarLinks, HandleWhoHas(l) PROVE CallInv'
  BY <1>1, <1>6 DEF HandleWhoHas, callVars
<1>7. ASSUME NEW l \in SonarLinks, HandleIHave(l) PROVE CallInv'
  <2>1. ASSUME NEW c \in Queries, phase[c] = "idle" PROVE buffer'[c] = buffer[c]
    <3>1. Head(net[l]).uuid \in UUIDs
      BY <1>7, IHaveEffect DEF IHaveFrames
    <3>2. collectors[Head(net[l]).uuid] # c
      BY <2>1, <3>1, NoCallIsNoQuery DEF CallInv, Live
    <3>3. QED
      BY <1>7, <3>2, IHaveEffect DEF SonarTypeOK
  <2>2. QED
    BY <1>1, <1>7, <2>1 DEF HandleIHave, callVars
<1>8. ASSUME NEW n \in SonarNodes, NEW u \in UUIDs, Expire(n, u) PROVE CallInv'
  BY <1>1, <1>8 DEF Expire, callVars
<1>9. QED
  BY <1>2, <1>3, <1>4, <1>5, <1>6, <1>7, <1>8 DEF SonarNext, HandleFrame

-----------------------------------------------------------------------------
(* Truth: frames stay true, and the handlers send only true ones. *)

LEMMA TruthIsKept ==
    ASSUME SonarTypeOK, SonarNext, NEW f, FrameIsTrue(f)
    PROVE  FrameIsTrue(f)'
<1>1. PICK c \in Queries : /\ Asked(c) /\ uuid[c] = f.uuid
                           /\ f.type = "WhoHas" => f.capability = wanted[c]
                           /\ f.type = "IHave" => f.nodeID \in Others(c)
  BY DEF FrameIsTrue
<1>2. /\ Asked(c)' /\ uuid'[c] = uuid[c] /\ wanted'[c] = wanted[c]
      /\ Others(c)' = Others(c)
  BY <1>1, CallsAreKept
<1>3. QED
  BY <1>1, <1>2 DEF FrameIsTrue

NetTruth == \A l \in SonarLinks : \A i \in 1..Len(net[l]) : FrameIsTrue(net[l][i])

LEMMA NetStaysTrue ==
    ASSUME SonarTypeOK, SonarNext, NetTruth, NEW in, NEW out, Effect(in, out),
           \A k \in DOMAIN out : FrameIsTrue(out[k])
    PROVE  NetTruth'
<1>1. ASSUME NEW l \in SonarLinks, NEW i \in 1..Len(net'[l]), NEW f, f = net'[l][i]
      PROVE  FrameIsTrue(f)'
  <2>1. FrameIsTrue(f)
    <3>1. CASE Moved(in, l, i)
      BY <1>1, <3>1 DEF Moved, NetTruth
    <3>2. CASE Sent(in, out, l, i)
      BY <1>1, <3>2 DEF Sent
    <3>3. QED
      BY <3>1, <3>2 DEF Effect
  <2>2. QED
    BY <2>1, TruthIsKept
<1>2. ASSUME NEW l \in SonarLinks, NEW i \in 1..Len(net'[l])
      PROVE  FrameIsTrue(net[l][i])'
  BY <1>1 DEF FrameIsTrue
<1>3. QED
  BY <1>2 DEF NetTruth

LEMMA NetUnchangedTruth ==
    ASSUME SonarTypeOK, SonarNext, NetTruth, net' = net
    PROVE  NetTruth'
<1>1. ASSUME NEW l \in SonarLinks, NEW i \in 1..Len(net'[l]), NEW f, f = net'[l][i]
      PROVE  FrameIsTrue(f)'
  BY <1>1, TruthIsKept DEF NetTruth
<1>2. ASSUME NEW l \in SonarLinks, NEW i \in 1..Len(net'[l])
      PROVE  FrameIsTrue(net[l][i])'
  BY <1>1 DEF FrameIsTrue
<1>3. QED
  BY <1>2 DEF NetTruth

LEMMA RepliesAreTrue ==
    ASSUME SonarTypeOK, CallInv, NEW l \in SonarLinks, NEW f \in WhoHasFrames,
           FrameIsTrue(f), FirstSeen(l[2], f)
    PROVE  \A k \in DOMAIN Replies(l, f) : FrameIsTrue(Replies(l, f)[k])
<1>1. PICK c \in Queries : Asked(c) /\ uuid[c] = f.uuid /\ f.capability = wanted[c]
  BY DEF FrameIsTrue, WhoHasFrames
<1>2. wanted[c] \in Capabilities /\ wanted[c] # NoCall
  BY <1>1, SonarAssumption DEF CallInv, Asked
<1>3. FrameIsTrue(WhoHasFrame(f.uuid, f.capability, NextBudget(f.maxHops)))
  BY <1>1 DEF FrameIsTrue, WhoHasFrame
<1>4. ASSUME l[2] \in Holders[f.capability] PROVE FrameIsTrue(IHaveFrame(f.uuid, l[2]))
  <2>1. l[2] \in Others(c)
    BY <1>1, <1>2, <1>4 DEF Others, FirstSeen, Origin
  <2>2. QED
    BY <1>1, <2>1 DEF FrameIsTrue, IHaveFrame
<1>5. \A k \in Answer(l, f) : l[2] \in Holders[f.capability]
  BY DEF Answer
<1>6. QED
  BY <1>3, <1>4, <1>5 DEF Replies

LEMMA StepNetTruth ==
    ASSUME SonarTypeOK, CallInv, TruthInv, SonarNext
    PROVE  NetTruth'
<1>1. NetTruth
  BY DEF TruthInv, NetTruth
<1>2. ASSUME NEW c \in Queries, BroadcastAll(c) PROVE NetTruth'
  <2>1. Asked(c)
    BY <1>2 DEF BroadcastAll, Asked
  <2>2. FrameIsTrue(Question(c))
    BY <2>1 DEF FrameIsTrue, Question, WhoHasFrame
  <2>3. \A k \in DOMAIN Questions(c) : FrameIsTrue(Questions(c)[k])
    BY <2>2 DEF Questions
  <2>4. QED
    BY <1>1, <1>2, <2>3, BroadcastEffect, NetStaysTrue
<1>3. ASSUME NEW l \in SonarLinks, HandleWhoHas(l) PROVE NetTruth'
  <2> DEFINE f == Head(net[l])
  <2>1. f \in WhoHasFrames /\ FrameIsTrue(f)
    BY <1>1, <1>3, WhoHasEffect DEF NetTruth
  <2>2. CASE FirstSeen(l[2], f) /\ Effect(l, Replies(l, f))
    BY <1>1, <2>1, <2>2, RepliesAreTrue, NetStaysTrue
  <2>3. CASE Effect(l, Nothing)
    BY <1>1, <2>3, NothingSent, NetStaysTrue
  <2>4. QED
    BY <1>3, <2>2, <2>3, WhoHasEffect
<1>4. ASSUME NEW l \in SonarLinks, HandleIHave(l) PROVE NetTruth'
  <2> DEFINE f == Head(net[l])
  <2>1. FrameIsTrue(f)
    BY <1>1, <1>4, IHaveEffect DEF NetTruth
  <2>2. CASE Effect(l, Nothing)
    BY <1>1, <2>2, NothingSent, NetStaysTrue
  <2>3. ASSUME NEW h, Effect(l, Relayed(l[2], h, f)) PROVE NetTruth'
    <3>1. \A k \in DOMAIN Relayed(l[2], h, f) : FrameIsTrue(Relayed(l[2], h, f)[k])
      BY <2>1 DEF Relayed
    <3>2. QED
      BY <1>1, <2>3, <3>1, NetStaysTrue
  <2>4. QED
    BY <1>4, <2>2, <2>3, IHaveEffect
<1>5. CASE net' = net
  BY <1>1, <1>5, NetUnchangedTruth
<1>6. QED
  BY <1>2, <1>3, <1>4, <1>5
     DEF SonarNext, HandleFrame, StartQuery, Collect, StopCollection, Expire

-----------------------------------------------------------------------------
(* Sequences of answers. *)

LEMMA AppendAnswer ==
    ASSUME NEW s \in Seq(SonarNodes), NEW m \in SonarNodes
    PROVE  /\ Elements(Append(s, m)) = Elements(s) \cup {m}
           /\ NoRepeat(s) /\ m \notin Elements(s) => NoRepeat(Append(s, m))
<1> DEFINE t == Append(s, m)
<1>1. /\ Len(s) \in Nat /\ Len(t) = Len(s) + 1 /\ t[Len(s) + 1] = m
      /\ \A i \in 1..Len(s) : t[i] = s[i]
  OBVIOUS
<1> HIDE DEF t
<1>2. Elements(t) = Elements(s) \cup {m}
  <2>1. \A i \in 1..Len(t) : i \in 1..Len(s) \/ i = Len(s) + 1
    BY <1>1
  <2>2. \A i \in 1..Len(s) : i \in 1..Len(t)
    BY <1>1
  <2>3. Len(s) + 1 \in 1..Len(t)
    BY <1>1
  <2>4. QED
    BY <1>1, <2>1, <2>2, <2>3 DEF Elements
<1>3. ASSUME NoRepeat(s), m \notin Elements(s) PROVE NoRepeat(t)
  BY <1>1, <1>3 DEF NoRepeat, Elements
<1>4. QED
  BY <1>2, <1>3 DEF t

LEMMA TakeAnswer ==
    ASSUME NEW s \in Seq(SonarNodes), s # <<>>
    PROVE  /\ Head(s) \in SonarNodes /\ Tail(s) \in Seq(SonarNodes)
           /\ Elements(s) = Elements(Tail(s)) \cup {Head(s)}
           /\ NoRepeat(s) => NoRepeat(Tail(s)) /\ Head(s) \notin Elements(Tail(s))
<1> DEFINE t == Tail(s)
<1>1. /\ Len(s) \in Nat /\ Len(s) > 0 /\ Head(s) = s[1] /\ Head(s) \in SonarNodes
      /\ t \in Seq(SonarNodes) /\ Len(t) = Len(s) - 1
      /\ \A i \in 1..Len(t) : t[i] = s[i + 1]
  OBVIOUS
<1> HIDE DEF t
<1>2. Elements(s) = Elements(t) \cup {Head(s)}
  <2>1. \A i \in 1..Len(s) : i = 1 \/ (i - 1 \in 1..Len(t) /\ s[i] = t[i - 1])
    BY <1>1
  <2>2. \A i \in 1..Len(t) : i + 1 \in 1..Len(s) /\ t[i] = s[i + 1]
    BY <1>1
  <2>3. 1 \in 1..Len(s)
    BY <1>1
  <2>4. QED
    BY <1>1, <2>1, <2>2, <2>3 DEF Elements
<1>3. ASSUME NoRepeat(s) PROVE NoRepeat(t) /\ Head(s) \notin Elements(t)
  <2>1. \A i \in 1..Len(t) : i + 1 \in 1..Len(s) /\ t[i] = s[i + 1] /\ i \in Nat
    BY <1>1
  <2>2. 1 \in 1..Len(s)
    BY <1>1
  <2>3. NoRepeat(t)
    BY <1>3, <2>1 DEF NoRepeat
  <2>4. \A i \in 1..Len(t) : t[i] # Head(s)
    BY <1>1, <1>3, <2>1, <2>2 DEF NoRepeat
  <2>5. QED
    BY <2>3, <2>4 DEF Elements
<1>4. QED
  BY <1>1, <1>2, <1>3 DEF t

LEMMA NoAnswers == Elements(<<>>) = {} /\ NoRepeat(<<>>)
BY DEF Elements, NoRepeat

(* What a node delivers goes to the call that asked. *)
LEMMA DeliveryFacts ==
    ASSUME SonarTypeOK, CallInv, NEW n, NEW f \in IHaveFrames, Deliverable(n, f)
    PROVE  /\ collectors[f.uuid] \in Queries /\ Live(collectors[f.uuid])
           /\ Asked(collectors[f.uuid]) /\ uuid[collectors[f.uuid]] = f.uuid
<1>1. f.uuid \in UUIDs /\ collectors[f.uuid] # NoCall
  BY DEF IHaveFrames, Deliverable
<1>2. QED
  BY <1>1 DEF CallInv, SonarTypeOK, Live, Asked

LEMMA OthersAreKept ==
    ASSUME SonarTypeOK, CallInv, SonarNext, NEW c \in Queries
    PROVE  Others(c) \subseteq Others(c)'
<1>1. CASE Asked(c)
  BY <1>1, CallsAreKept
<1>2. CASE ~Asked(c)
  BY <1>2 DEF CallInv, Asked, Others
<1>3. QED
  BY <1>1, <1>2

LEMMA StepTruth ==
    ASSUME SonarTypeOK, CallInv, TruthInv, SonarNext
    PROVE  TruthInv'
<1>1. NetTruth'
  BY StepNetTruth
<1>2. SUFFICES ASSUME NEW c \in Queries
               PROVE  Elements(buffer'[c]) \subseteq Others(c)
                      /\ Elements(results'[c]) \subseteq Others(c)
  <2>1. ASSUME NEW c \in Queries
        PROVE  (Elements(buffer[c]) \subseteq Others(c) /\ Elements(results[c]) \subseteq Others(c))'
    BY <1>2, OthersAreKept DEF Elements
  <2>2. QED
    BY <1>1, <2>1 DEF TruthInv, NetTruth
<1>3. Elements(buffer[c]) \subseteq Others(c) /\ Elements(results[c]) \subseteq Others(c)
  BY DEF TruthInv
<1>4. ASSUME NEW d \in Queries, Collect(d)
      PROVE  Elements(buffer'[c]) \subseteq Others(c) /\ Elements(results'[c]) \subseteq Others(c)
  <2>1. CASE d = c
    <3>1. /\ buffer[c] \in Seq(SonarNodes) /\ buffer[c] # <<>> /\ results[c] \in Seq(SonarNodes)
          /\ buffer'[c] = Tail(buffer[c]) /\ results'[c] = Append(results[c], Head(buffer[c]))
      BY <1>4, <2>1 DEF Collect, SonarTypeOK
    <3>2. QED
      BY <1>3, <3>1, TakeAnswer, AppendAnswer
  <2>2. CASE d # c
    BY <1>3, <1>4, <2>2 DEF Collect, SonarTypeOK
  <2>3. QED
    BY <2>1, <2>2
<1>5. ASSUME NEW d \in Queries, StopCollection(d)
      PROVE  Elements(buffer'[c]) \subseteq Others(c) /\ Elements(results'[c]) \subseteq Others(c)
  <2>1. results' = results /\ (buffer'[c] = buffer[c] \/ buffer'[c] = <<>>)
    BY <1>5 DEF StopCollection, SonarTypeOK
  <2>2. QED
    BY <1>3, <2>1, NoAnswers
<1>6. ASSUME NEW l \in SonarLinks, HandleIHave(l)
      PROVE  Elements(buffer'[c]) \subseteq Others(c) /\ Elements(results'[c]) \subseteq Others(c)
  <2> DEFINE f == Head(net[l])
  <2>1. results' = results
    BY <1>6 DEF HandleIHave
  <2>2. CASE Deliverable(l[2], f) /\ collectors[f.uuid] = c
    <3>1. f \in IHaveFrames /\ FrameIsTrue(f)
      BY <1>6, IHaveEffect DEF TruthInv
    <3>2. Asked(c) /\ uuid[c] = f.uuid
      BY <2>2, <3>1, DeliveryFacts
    <3>3. f.nodeID \in Others(c) /\ f.nodeID \in SonarNodes
      BY <3>1, <3>2 DEF FrameIsTrue, IHaveFrames, CallInv
    <3>4. buffer'[c] = Append(buffer[c], f.nodeID) \/ buffer'[c] = buffer[c]
      <4>1. \/ buffer' = [buffer EXCEPT ![collectors[f.uuid]] = Append(@, f.nodeID)]
            \/ buffer' = buffer
        BY <1>6, IHaveEffect
      <4>2. QED
        BY <2>2, <4>1 DEF SonarTypeOK
    <3>5. buffer[c] \in Seq(SonarNodes)
      BY DEF SonarTypeOK
    <3>6. Elements(Append(buffer[c], f.nodeID)) = Elements(buffer[c]) \cup {f.nodeID}
      BY <3>3, <3>5, AppendAnswer
    <3>7. QED
      BY <1>3, <2>1, <3>3, <3>4, <3>6
  <2>3. CASE ~(Deliverable(l[2], f) /\ collectors[f.uuid] = c)
    <3>1. buffer'[c] = buffer[c]
      BY <1>6, <2>3, IHaveEffect DEF SonarTypeOK
    <3>2. QED
      BY <1>3, <2>1, <3>1
  <2>4. QED
    BY <2>2, <2>3
<1>7. CASE buffer' = buffer /\ results' = results
  BY <1>3, <1>7
<1>8. QED
  BY <1>4, <1>5, <1>6, <1>7
     DEF SonarNext, HandleFrame, StartQuery, BroadcastAll, HandleWhoHas, Expire

-----------------------------------------------------------------------------
(* Once: an answer is in one place only. *)

(* A frame on a link was there before, or has just been sent. *)
LEMMA FramesComeFrom ==
    ASSUME NEW in, NEW out, Effect(in, out), NEW l \in SonarLinks,
           NEW f \in Elements(net'[l])
    PROVE  \/ f \in Elements(net[l])
           \/ l \in DOMAIN out /\ f = out[l]
<1>1. PICK i \in 1..Len(net'[l]) : f = net'[l][i]
  BY DEF Elements
<1>2. Moved(in, l, i) \/ Sent(in, out, l, i)
  BY DEF Effect
<1>3. QED
  BY <1>1, <1>2 DEF Moved, Sent, Elements

(* The frame out[k] equals none that stays on a link or is sent elsewhere. *)
Alone(in, out, k) ==
    /\ \A m \in SonarLinks : \A j \in 1..Len(net[m]) :
         net[m][j] = out[k] => m = in /\ j = 1
    /\ \A m \in DOMAIN out : out[m] = out[k] => m = k

LEMMA SendOneFrame ==
    ASSUME SonarTypeOK, OneFrame, NEW in, NEW out, Effect(in, out),
           collectors' = collectors,
           \A k \in DOMAIN out : LiveAnswer(out[k]) => Alone(in, out, k)
    PROVE  OneFrame'
<1>1. SUFFICES ASSUME NEW l \in SonarLinks, NEW k \in SonarLinks,
                      NEW i \in 1..Len(net'[l]), NEW j \in 1..Len(net'[k]),
                      LiveAnswer(net'[l][i]), net'[l][i] = net'[k][j]
               PROVE  l = k /\ i = j
  BY DEF OneFrame, LiveAnswer
<1>2. /\ Moved(in, l, i) \/ Sent(in, out, l, i)
      /\ Moved(in, k, j) \/ Sent(in, out, k, j)
  BY DEF Effect
<1>3. \A m \in SonarLinks : Len(net[m]) \in Nat /\ Len(net'[m]) \in Nat
  BY DEF Effect, SonarTypeOK
<1>4. CASE Moved(in, l, i) /\ Moved(in, k, j)
  <2>1. l = k /\ i + Shift(in, l) = j + Shift(in, k)
    BY <1>1, <1>4 DEF Moved, OneFrame
  <2>2. QED
    BY <1>3, <2>1 DEF Shift
<1>5. CASE Sent(in, out, l, i) /\ Moved(in, k, j)
  <2>1. Alone(in, out, l)
    BY <1>1, <1>5 DEF Sent
  <2>2. k = in /\ j + Shift(in, k) = 1
    BY <1>1, <1>5, <2>1 DEF Sent, Moved, Alone
  <2>3. QED
    BY <1>3, <2>2 DEF Shift
<1>6. CASE Moved(in, l, i) /\ Sent(in, out, k, j)
  <2>1. Alone(in, out, k)
    BY <1>1, <1>6 DEF Sent
  <2>2. l = in /\ i + Shift(in, l) = 1
    BY <1>1, <1>6, <2>1 DEF Sent, Moved, Alone
  <2>3. QED
    BY <1>3, <2>2 DEF Shift
<1>7. CASE Sent(in, out, l, i) /\ Sent(in, out, k, j)
  <2>1. l = k
    BY <1>1, <1>7 DEF Sent, Alone
  <2>2. QED
    BY <1>3, <1>7, <2>1 DEF Sent, Shift
<1>8. QED
  BY <1>2, <1>4, <1>5, <1>6, <1>7

LEMMA StartOnce ==
    ASSUME SonarTypeOK, CallInv, TruthInv, OnceInv, NEW c \in Queries, NEW n \in Callers,
           NEW cap \in Capabilities, StartQuery(c, n, cap)
    PROVE  OnceInv'
<1> DEFINE u == generateUUID(n)
<1>1. u \in UUIDs /\ \A d \in Queries : Asked(d) => uuid[d] # u
  BY StartIsFresh
<1>2. /\ phase[c] = "idle" /\ phase' = [phase EXCEPT ![c] = "created"]
      /\ uuid' = [uuid EXCEPT ![c] = u] /\ collectors' = [collectors EXCEPT ![u] = c]
      /\ buffer' = buffer /\ results' = results /\ net' = net /\ seen' = seen
  BY DEF StartQuery
<1> HIDE DEF u
<1>3. ASSUME NEW l \in SonarLinks, NEW f \in Elements(net[l])
      PROVE  f.uuid \in UUIDs /\ collectors'[f.uuid] = collectors[f.uuid]
  <2>1. FrameIsTrue(f) /\ f \in SonarFrames
    BY DEF TruthInv, Elements, SonarTypeOK
  <2>2. f.uuid # u /\ f.uuid \in UUIDs
    BY <1>1, <2>1, FrameKinds DEF FrameIsTrue
  <2>3. QED
    BY <1>2, <2>2 DEF SonarTypeOK
<1>4. ResultsOnce'
  BY <1>2 DEF OnceInv, ResultsOnce
<1>5. ASSUME NEW d \in Queries, Live(d)'
      PROVE  (/\ NoRepeat(buffer[d]) /\ Elements(buffer[d]) \cap Elements(results[d]) = {}
              /\ \A m \in Gathered(d) : uuid[d] \in seen[m])'
  <2>1. CASE d = c
    <3>1. buffer[c] = <<>> /\ results[c] = <<>>
      BY <1>2 DEF CallInv, Asked
    <3>2. Gathered(d)' = {}
      BY <1>2, <2>1, <3>1, NoAnswers DEF Gathered
    <3>3. QED
      BY <1>2, <2>1, <3>1, <3>2, NoAnswers
  <2>2. CASE d # c
    <3>1. Live(d) /\ uuid'[d] = uuid[d]
      BY <1>2, <1>5, <2>2 DEF Live, SonarTypeOK
    <3>2. /\ NoRepeat(buffer[d]) /\ Elements(buffer[d]) \cap Elements(results[d]) = {}
          /\ \A m \in Gathered(d) : uuid[d] \in seen[m]
      BY <3>1 DEF OnceInv, GatheredOnce
    <3>3. Gathered(d)' = Gathered(d)
      BY <1>2 DEF Gathered
    <3>4. QED
      BY <1>2, <3>1, <3>2, <3>3
  <2>3. QED
    BY <2>1, <2>2
<1>6. GatheredOnce'
  BY <1>5 DEF GatheredOnce
<1>7. PendingOnce'
  <2>1. ASSUME NEW l \in SonarLinks, NEW f \in Elements(net[l]), LiveAnswer(f)'
        PROVE  Pending(f)'
    <3>1. LiveAnswer(f)
      BY <1>3, <2>1 DEF LiveAnswer
    <3>2. Pending(f)
      BY <3>1 DEF OnceInv, PendingOnce
    <3>3. QED
      BY <1>2, <1>3, <3>2 DEF Pending, Gathered
  <2>2. QED
    BY <1>2, <2>1 DEF PendingOnce
<1>8. OneFrame'
  <2>1. \A l \in SonarLinks : \A i \in 1..Len(net[l]) : net[l][i] \in Elements(net[l])
    BY DEF Elements
  <2>2. QED
    BY <1>2, <1>3, <2>1 DEF OnceInv, OneFrame, LiveAnswer
<1>9. QED
  BY <1>4, <1>6, <1>7, <1>8 DEF OnceInv

(* The calls, what they gathered and the seen sets of live calls are kept. *)
LEMMA SameGatheredOnce ==
    ASSUME GatheredOnce, ResultsOnce, buffer' = buffer, results' = results, uuid' = uuid,
           \A c \in Queries : Live(c)' => Live(c),
           \A c \in Queries : Live(c) => \A m \in SonarNodes :
               uuid[c] \in seen[m] => uuid[c] \in seen'[m],
           SonarTypeOK
    PROVE  GatheredOnce' /\ ResultsOnce'
<1>1. ASSUME NEW c \in Queries, Live(c)'
      PROVE  (/\ NoRepeat(buffer[c]) /\ Elements(buffer[c]) \cap Elements(results[c]) = {}
              /\ \A m \in Gathered(c) : uuid[c] \in seen[m])'
  <2>1. /\ Live(c) /\ NoRepeat(buffer[c]) /\ Elements(buffer[c]) \cap Elements(results[c]) = {}
        /\ \A m \in Gathered(c) : uuid[c] \in seen[m]
    BY <1>1 DEF GatheredOnce
  <2>2. Gathered(c)' = Gathered(c)
    BY DEF Gathered
  <2>3. Gathered(c) \subseteq SonarNodes
    BY DEF Gathered, Elements, SonarTypeOK
  <2>4. QED
    BY <2>1, <2>2, <2>3
<1>2. QED
  BY <1>1 DEF GatheredOnce, ResultsOnce

LEMMA BroadcastOnce ==
    ASSUME SonarTypeOK, CallInv, OnceInv, NEW c \in Queries, BroadcastAll(c)
    PROVE  OnceInv'
<1>1. /\ phase[c] = "created" /\ phase' = [phase EXCEPT ![c] = "collecting"]
      /\ collectors' = collectors /\ uuid' = uuid /\ seen' = seen
      /\ buffer' = buffer /\ results' = results
  BY DEF BroadcastAll
<1>2. Effect(NoCall, Questions(c))
  BY BroadcastEffect
<1>3. \A k \in DOMAIN Questions(c) : ~LiveAnswer(Questions(c)[k])
  BY DEF Questions, Question, WhoHasFrame, LiveAnswer
<1>4. OneFrame'
  BY <1>1, <1>2, <1>3, SendOneFrame DEF OnceInv
<1>5. ASSUME NEW l \in SonarLinks, NEW f \in Elements(net'[l]), LiveAnswer(f)'
      PROVE  Pending(f)'
  <2>1. LiveAnswer(f)
    BY <1>1, <1>5 DEF LiveAnswer
  <2>2. f \in Elements(net[l])
    BY <1>2, <1>3, <2>1, FramesComeFrom
  <2>3. Pending(f)
    BY <2>1, <2>2 DEF OnceInv, PendingOnce
  <2>4. QED
    BY <1>1, <2>3 DEF Pending, Gathered
<1>6. PendingOnce'
  BY <1>5 DEF PendingOnce
<1>7. GatheredOnce' /\ ResultsOnce'
  <2>1. \A d \in Queries : Live(d)' => Live(d)
    BY <1>1 DEF Live, SonarTypeOK
  <2>2. QED
    BY <1>1, <2>1, SameGatheredOnce DEF OnceInv
<1>8. QED
  BY <1>4, <1>6, <1>7 DEF OnceInv

LEMMA CollectOnce ==
    ASSUME SonarTypeOK, CallInv, OnceInv, NEW c \in Queries, Collect(c)
    PROVE  OnceInv'
<1>1. /\ phase[c] = "collecting" /\ buffer[c] # <<>> /\ phase' = phase /\ uuid' = uuid
      /\ collectors' = collectors /\ seen' = seen /\ net' = net
      /\ results' = [results EXCEPT ![c] = Append(results[c], Head(buffer[c]))]
      /\ buffer' = [buffer EXCEPT ![c] = Tail(buffer[c])]
  BY DEF Collect, callVars
<1>2. /\ buffer[c] \in Seq(SonarNodes) /\ results[c] \in Seq(SonarNodes) /\ Live(c)
      /\ buffer'[c] = Tail(buffer[c]) /\ results'[c] = Append(results[c], Head(buffer[c]))
      /\ \A d \in Queries : d # c => buffer'[d] = buffer[d] /\ results'[d] = results[d]
  BY <1>1 DEF SonarTypeOK, Live
<1>3. /\ NoRepeat(buffer[c]) /\ Elements(buffer[c]) \cap Elements(results[c]) = {}
      /\ NoRepeat(results[c])
  BY <1>2 DEF OnceInv, GatheredOnce, ResultsOnce
<1>4. /\ Head(buffer[c]) \in SonarNodes
      /\ Elements(buffer[c]) = Elements(buffer'[c]) \cup {Head(buffer[c])}
      /\ NoRepeat(buffer'[c]) /\ Head(buffer[c]) \notin Elements(buffer'[c])
  BY <1>1, <1>2, <1>3, TakeAnswer
<1>5. /\ Elements(results'[c]) = Elements(results[c]) \cup {Head(buffer[c])}
      /\ NoRepeat(results'[c])
  BY <1>2, <1>3, <1>4, AppendAnswer
<1>6. \A d \in Queries : Gathered(d)' = Gathered(d)
  <2>1. Gathered(c)' = Gathered(c)
    BY <1>4, <1>5 DEF Gathered
  <2>2. QED
    BY <1>2, <2>1 DEF Gathered
<1>7. ResultsOnce'
  BY <1>2, <1>5 DEF OnceInv, ResultsOnce
<1>8. GatheredOnce'
  <2>1. ASSUME NEW d \in Queries, Live(d)'
        PROVE  (/\ NoRepeat(buffer[d]) /\ Elements(buffer[d]) \cap Elements(results[d]) = {}
                /\ \A m \in Gathered(d) : uuid[d] \in seen[m])'
    <3>1. Live(d)
      BY <1>1, <2>1 DEF Live
    <3>2. \A m \in Gathered(d)' : uuid'[d] \in seen'[m]
      BY <1>1, <1>6, <3>1 DEF OnceInv, GatheredOnce
    <3>3. NoRepeat(buffer'[d]) /\ Elements(buffer'[d]) \cap Elements(results'[d]) = {}
      <4>1. CASE d = c
        BY <1>3, <1>4, <1>5, <4>1
      <4>2. CASE d # c
        BY <1>2, <3>1, <4>2 DEF OnceInv, GatheredOnce
      <4>3. QED
        BY <4>1, <4>2
    <3>4. QED
      BY <3>2, <3>3
  <2>2. QED
    BY <2>1 DEF GatheredOnce
<1>9. PendingOnce'
  <2>1. ASSUME NEW l \in SonarLinks, NEW f \in Elements(net[l]), LiveAnswer(f)'
        PROVE  Pending(f)'
    <3>1. LiveAnswer(f)
      BY <1>1, <2>1 DEF LiveAnswer
    <3>2. Pending(f) /\ f \in SonarFrames
      BY <3>1 DEF OnceInv, PendingOnce, SonarTypeOK, Elements
    <3>3. collectors[f.uuid] \in Queries
      BY <3>1, <3>2, FrameKinds DEF LiveAnswer, SonarTypeOK
    <3>4. Gathered(collectors[f.uuid])' = Gathered(collectors[f.uuid])
      BY <1>1, <1>6, <3>3 DEF Gathered
    <3>5. QED
      BY <1>1, <3>2, <3>4 DEF Pending
  <2>2. QED
    BY <1>1, <2>1 DEF PendingOnce
<1>10. OneFrame'
  BY <1>1 DEF OnceInv, OneFrame, LiveAnswer
<1>11. QED
  BY <1>7, <1>8, <1>9, <1>10 DEF OnceInv

LEMMA StopOnce ==
    ASSUME SonarTypeOK, CallInv, OnceInv, NEW c \in Queries, StopCollection(c)
    PROVE  OnceInv'
<1>1. /\ phase[c] = "collecting" /\ phase' = [phase EXCEPT ![c] = "done"] /\ uuid' = uuid
      /\ buffer' = [buffer EXCEPT ![c] = <<>>] /\ results' = results
      /\ collectors' = [collectors EXCEPT ![uuid[c]] = NoCall]
      /\ seen' = seen /\ net' = net
  BY DEF StopCollection
<1>2. uuid[c] \in UUIDs /\ collectors[uuid[c]] = c
  BY <1>1 DEF CallInv, Live
<1>3. \A d \in Queries : Live(d)' => d # c /\ Live(d) /\ buffer'[d] = buffer[d]
  BY <1>1 DEF Live, SonarTypeOK
<1>4. ResultsOnce'
  BY <1>1 DEF OnceInv, ResultsOnce
<1>5. GatheredOnce'
  <2>1. ASSUME NEW d \in Queries, Live(d)'
        PROVE  (/\ NoRepeat(buffer[d]) /\ Elements(buffer[d]) \cap Elements(results[d]) = {}
                /\ \A m \in Gathered(d) : uuid[d] \in seen[m])'
    <3>1. Live(d) /\ buffer'[d] = buffer[d] /\ Gathered(d)' = Gathered(d)
      BY <1>1, <1>3, <2>1 DEF Gathered
    <3>2. QED
      BY <1>1, <3>1 DEF OnceInv, GatheredOnce
  <2>2. QED
    BY <2>1 DEF GatheredOnce
<1>6. ASSUME NEW l \in SonarLinks, NEW f \in Elements(net[l]), LiveAnswer(f)'
      PROVE  /\ LiveAnswer(f) /\ collectors'[f.uuid] = collectors[f.uuid]
             /\ collectors[f.uuid] \in Queries \ {c}
  <2>1. f.uuid \in UUIDs
    BY FrameKinds DEF SonarTypeOK, Elements
  <2>2. f.uuid # uuid[c] /\ collectors'[f.uuid] = collectors[f.uuid]
    BY <1>1, <1>2, <1>6, <2>1 DEF LiveAnswer, SonarTypeOK
  <2>3. LiveAnswer(f)
    BY <1>6, <2>2 DEF LiveAnswer
  <2>4. QED
    BY <2>1, <2>2, <2>3 DEF LiveAnswer, CallInv, SonarTypeOK
<1>7. PendingOnce'
  <2>1. ASSUME NEW l \in SonarLinks, NEW f \in Elements(net[l]), LiveAnswer(f)'
        PROVE  Pending(f)'
    <3>1. /\ Pending(f) /\ collectors'[f.uuid] = collectors[f.uuid]
          /\ collectors[f.uuid] \in Queries \ {c}
      BY <1>6, <2>1 DEF OnceInv, PendingOnce
    <3>2. buffer'[collectors[f.uuid]] = buffer[collectors[f.uuid]]
      BY <1>1, <3>1 DEF SonarTypeOK
    <3>3. QED
      BY <1>1, <3>1, <3>2 DEF Pending, Gathered
  <2>2. QED
    BY <1>1, <2>1 DEF PendingOnce
<1>8. OneFrame'
  <2>1. \A l \in SonarLinks : \A i \in 1..Len(net[l]) : net[l][i] \in Elements(net[l])
    BY DEF Elements
  <2>2. \A l \in SonarLinks : \A i \in 1..Len(net[l]) : LiveAnswer(net[l][i])' => LiveAnswer(net[l][i])
    BY <1>1, <1>6, <2>1 DEF LiveAnswer
  <2>3. QED
    BY <1>1, <2>2 DEF OnceInv, OneFrame, LiveAnswer
<1>9. QED
  BY <1>4, <1>5, <1>7, <1>8 DEF OnceInv

LEMMA ExpireOnce ==
    ASSUME SonarTypeOK, CallInv, OnceInv, NEW n \in SonarNodes, NEW u \in UUIDs, Expire(n, u)
    PROVE  OnceInv'
<1>1. /\ collectors[u] = NoCall /\ seen' = [seen EXCEPT ![n] = seen[n] \ {u}]
      /\ phase' = phase /\ uuid' = uuid /\ collectors' = collectors
      /\ buffer' = buffer /\ results' = results /\ net' = net
  BY DEF Expire, callVars
<1>2. \A m \in SonarNodes : \A v \in seen[m] : v # u => v \in seen'[m]
  BY <1>1 DEF SonarTypeOK
<1>3. \A c \in Queries : Live(c) => uuid[c] # u
  BY <1>1, NoCallIsNoQuery DEF CallInv
<1>4. GatheredOnce' /\ ResultsOnce'
  <2>1. \A c \in Queries : Live(c)' => Live(c)
    BY <1>1 DEF Live
  <2>2. QED
    BY <1>1, <1>2, <1>3, <2>1, SameGatheredOnce DEF OnceInv
<1>5. PendingOnce'
  <2>1. ASSUME NEW l \in SonarLinks, NEW f \in Elements(net[l]), LiveAnswer(f)'
        PROVE  Pending(f)'
    <3>1. LiveAnswer(f) /\ f.uuid # u
      BY <1>1, <2>1 DEF LiveAnswer
    <3>2. Pending(f) /\ f \in SonarFrames
      BY <3>1 DEF OnceInv, PendingOnce, SonarTypeOK, Elements
    <3>3. f.nodeID \in SonarNodes
      BY <3>1, <3>2, FrameKinds DEF LiveAnswer, IHaveFrames
    <3>4. QED
      BY <1>1, <1>2, <3>1, <3>2, <3>3 DEF Pending, Gathered
  <2>2. QED
    BY <1>1, <2>1 DEF PendingOnce
<1>6. OneFrame'
  BY <1>1 DEF OnceInv, OneFrame, LiveAnswer
<1>7. QED
  BY <1>4, <1>5, <1>6 DEF OnceInv

LEMMA WhoHasOnce ==
    ASSUME SonarTypeOK, CallInv, TruthInv, OnceInv, NEW l \in SonarLinks, HandleWhoHas(l)
    PROVE  OnceInv'
<1> DEFINE f == Head(net[l])
           n == l[2]
           reply == IHaveFrame(f.uuid, n)
<1>1. phase' = phase /\ uuid' = uuid /\ collectors' = collectors
      /\ buffer' = buffer /\ results' = results
  BY DEF HandleWhoHas, callVars
<1>2. /\ f \in WhoHasFrames /\ n \in SonarNodes /\ f.uuid \in UUIDs
      /\ \/ /\ FirstSeen(n, f) /\ Effect(l, Replies(l, f))
            /\ seen' = [seen EXCEPT ![n] = @ \cup {f.uuid}]
         \/ Effect(l, Nothing) /\ seen' = seen
  BY WhoHasEffect, SonarAssumption DEF WhoHasFrames
<1>3. \A m \in SonarNodes : seen[m] \subseteq seen'[m]
  BY <1>2 DEF SonarTypeOK
<1>4. GatheredOnce' /\ ResultsOnce'
  <2>1. \A c \in Queries : Live(c)' => Live(c)
    BY <1>1 DEF Live
  <2>2. QED
    BY <1>1, <1>3, <2>1, SameGatheredOnce DEF OnceInv
<1>5. ASSUME NEW k \in SonarLinks, NEW g \in Elements(net[k]), LiveAnswer(g)
      PROVE  Pending(g) /\ Pending(g)'
  <2>1. Pending(g) /\ g \in SonarFrames
    BY <1>5 DEF OnceInv, PendingOnce, SonarTypeOK, Elements
  <2>2. g.nodeID \in SonarNodes
    BY <1>5, <2>1, FrameKinds DEF LiveAnswer, IHaveFrames
  <2>3. QED
    BY <1>1, <1>3, <2>1, <2>2 DEF Pending, Gathered
<1>6. CASE Effect(l, Nothing)
  <2>1. OneFrame'
    BY <1>1, <1>6, NothingSent, SendOneFrame DEF OnceInv
  <2>2. ASSUME NEW k \in SonarLinks, NEW g \in Elements(net'[k]), LiveAnswer(g)'
        PROVE  Pending(g)'
    <3>1. g \in Elements(net[k])
      BY <1>6, NothingSent, FramesComeFrom
    <3>2. QED
      BY <1>1, <1>5, <2>2, <3>1 DEF LiveAnswer
  <2>3. PendingOnce'
    BY <2>2 DEF PendingOnce
  <2>4. QED
    BY <1>4, <2>1, <2>3 DEF OnceInv
<1>7. CASE /\ FirstSeen(n, f) /\ Effect(l, Replies(l, f))
           /\ seen' = [seen EXCEPT ![n] = @ \cup {f.uuid}]
  <2>1. f.uuid \notin seen[n] /\ f.uuid \in seen'[n]
    BY <1>2, <1>7 DEF FirstSeen, SonarTypeOK
  <2>2. reply.type = "IHave" /\ reply.uuid = f.uuid /\ reply.nodeID = n
    BY DEF IHaveFrame
  <2>3. ASSUME NEW k \in DOMAIN Replies(l, f), LiveAnswer(Replies(l, f)[k])
        PROVE  k = <<l[2], l[1]>> /\ Replies(l, f)[k] = reply
    <3>1. CASE k \in Answer(l, f)
      BY <2>3, <3>1 DEF Replies, Answer
    <3>2. CASE k \notin Answer(l, f)
      BY <2>3, <3>2 DEF Replies, WhoHasFrame, LiveAnswer
    <3>3. QED
      BY <3>1, <3>2
  <2> HIDE DEF reply
  <2>4. ASSUME NEW m \in SonarLinks, NEW g \in Elements(net[m]), LiveAnswer(reply)
        PROVE  g # reply
    BY <1>5, <2>1, <2>2, <2>4 DEF Pending
  <2>5. ASSUME NEW k \in DOMAIN Replies(l, f), LiveAnswer(Replies(l, f)[k])
        PROVE  Alone(l, Replies(l, f), k)
    <3>1. k = <<l[2], l[1]>> /\ Replies(l, f)[k] = reply /\ LiveAnswer(reply)
      BY <2>3, <2>5
    <3>2. \A m \in SonarLinks : \A j \in 1..Len(net[m]) : net[m][j] # reply
      BY <2>4, <3>1 DEF Elements
    <3>3. \A m \in DOMAIN Replies(l, f) : Replies(l, f)[m] = reply => m = k
      BY <2>3, <3>1
    <3>4. QED
      BY <3>1, <3>2, <3>3 DEF Alone
  <2>6. OneFrame'
    BY <1>1, <1>7, <2>5, SendOneFrame DEF OnceInv
  <2>7. ASSUME LiveAnswer(reply) PROVE n \notin Gathered(collectors[f.uuid])
    <3>1. collectors[f.uuid] \in Queries /\ Live(collectors[f.uuid]) /\ uuid[collectors[f.uuid]] = f.uuid
      BY <1>2, <2>2, <2>7 DEF LiveAnswer, CallInv, SonarTypeOK
    <3>2. \A m \in Gathered(collectors[f.uuid]) : f.uuid \in seen[m]
      BY <3>1 DEF OnceInv, GatheredOnce
    <3>3. QED
      BY <2>1, <3>2
  <2>8. ASSUME NEW k \in SonarLinks, NEW g \in Elements(net'[k]), LiveAnswer(g)'
        PROVE  Pending(g)'
    <3>1. LiveAnswer(g)
      BY <1>1, <2>8 DEF LiveAnswer
    <3>2. g \in Elements(net[k]) \/ g = reply
      BY <1>7, <2>3, <3>1, FramesComeFrom
    <3>3. CASE g \in Elements(net[k])
      BY <1>5, <3>1, <3>3
    <3>4. CASE g = reply
      <4>1. n \notin Gathered(collectors[f.uuid])
        BY <2>7, <3>1, <3>4
      <4>2. Gathered(collectors[g.uuid])' = Gathered(collectors[f.uuid])
        BY <1>1, <2>2, <3>4 DEF Gathered
      <4>3. g.uuid \in seen'[g.nodeID] /\ g.nodeID = n
        BY <2>1, <2>2, <3>4
      <4>4. QED
        BY <4>1, <4>2, <4>3 DEF Pending
    <3>5. QED
      BY <3>2, <3>3, <3>4
  <2>9. PendingOnce'
    BY <2>8 DEF PendingOnce
  <2>10. QED
    BY <1>4, <2>6, <2>9 DEF OnceInv
<1>8. QED
  BY <1>2, <1>6, <1>7

(* An answer is delivered, relayed or lost: it leaves the place it was in. *)
LEMMA RelayOnce ==
    ASSUME SonarTypeOK, CallInv, OnceInv, NEW l \in SonarLinks, HandleIHave(l),
           NEW out, Effect(l, out), buffer' = buffer,
           \A k \in DOMAIN out : out[k] = Head(net[l]),
           \A k, m \in DOMAIN out : k = m
    PROVE  OnceInv'
<1> DEFINE f == Head(net[l])
<1>1. phase' = phase /\ uuid' = uuid /\ collectors' = collectors
      /\ seen' = seen /\ results' = results
  BY DEF HandleIHave, callVars
<1>2. 1 \in 1..Len(net[l]) /\ f = net[l][1] /\ f \in Elements(net[l])
  BY IHaveEffect DEF Elements
<1>3. GatheredOnce' /\ ResultsOnce'
  <2>1. \A c \in Queries : Live(c)' => Live(c)
    BY <1>1 DEF Live
  <2>2. QED
    BY <1>1, <2>1, SameGatheredOnce DEF OnceInv
<1>4. ASSUME NEW k \in DOMAIN out, LiveAnswer(out[k]) PROVE Alone(l, out, k)
  BY <1>2, <1>4 DEF Alone, OnceInv, OneFrame
<1>5. OneFrame'
  BY <1>1, <1>4, SendOneFrame DEF OnceInv
<1>6. ASSUME NEW k \in SonarLinks, NEW g \in Elements(net'[k]), LiveAnswer(g)'
      PROVE  Pending(g)'
  <2>1. LiveAnswer(g)
    BY <1>1, <1>6 DEF LiveAnswer
  <2>2. g \in Elements(net[k]) \/ g \in Elements(net[l])
    BY <1>2, FramesComeFrom
  <2>3. Pending(g)
    BY <2>1, <2>2 DEF OnceInv, PendingOnce
  <2>4. QED
    BY <1>1, <2>3 DEF Pending, Gathered
<1>7. PendingOnce'
  BY <1>6 DEF PendingOnce
<1>8. QED
  BY <1>3, <1>5, <1>7 DEF OnceInv

LEMMA DeliverOnce ==
    ASSUME SonarTypeOK, CallInv, OnceInv, NEW l \in SonarLinks, HandleIHave(l),
           Deliverable(l[2], Head(net[l])), Effect(l, Nothing),
           buffer' = [buffer EXCEPT ![collectors[Head(net[l]).uuid]] = Append(@, Head(net[l]).nodeID)]
    PROVE  OnceInv'
<1> DEFINE f == Head(net[l])
           c == collectors[f.uuid]
           m == f.nodeID
<1>1. phase' = phase /\ uuid' = uuid /\ collectors' = collectors
      /\ seen' = seen /\ results' = results
  BY DEF HandleIHave, callVars
<1>2. /\ 1 \in 1..Len(net[l]) /\ f = net[l][1] /\ f \in Elements(net[l])
      /\ f \in IHaveFrames /\ m \in SonarNodes
  BY IHaveEffect DEF Elements, IHaveFrames
<1>3. c \in Queries /\ Live(c) /\ uuid[c] = f.uuid /\ LiveAnswer(f)
  BY <1>2, DeliveryFacts DEF Deliverable, LiveAnswer, IHaveFrames
<1>4. f.uuid \in seen[m] /\ m \notin Gathered(c)
  BY <1>2, <1>3 DEF OnceInv, PendingOnce, Pending
<1>5. buffer' = [buffer EXCEPT ![c] = Append(buffer[c], m)] /\ buffer[c] \in Seq(SonarNodes)
  BY <1>3 DEF SonarTypeOK
<1>6. ASSUME NEW k \in SonarLinks, NEW g \in Elements(net'[k]), LiveAnswer(g)
      PROVE  /\ g \in Elements(net[k]) /\ Pending(g) /\ g \in SonarFrames
             /\ g.uuid = f.uuid => g.nodeID # m
  <2>1. PICK i \in 1..Len(net'[k]) : g = net'[k][i]
    BY DEF Elements
  <2>2. Moved(l, k, i)
    BY NothingSent DEF Effect, Sent
  <2>3. g \in Elements(net[k]) /\ g \in SonarFrames
    BY <2>1, <2>2 DEF Moved, Elements, SonarTypeOK
  <2>4. Pending(g)
    BY <1>6, <2>3 DEF OnceInv, PendingOnce
  <2>5. g # f
    <3>1. SUFFICES ASSUME g = f PROVE FALSE
      OBVIOUS
    <3>2. k = l /\ i + Shift(l, k) = 1
      BY <1>2, <1>3, <2>1, <2>2, <3>1 DEF Moved, OnceInv, OneFrame
    <3>3. i \in Nat /\ i >= 1
      BY DEF Effect
    <3>4. QED
      BY <3>2, <3>3 DEF Shift
  <2>6. g \in IHaveFrames
    BY <1>6, <2>3, FrameKinds DEF LiveAnswer
  <2>7. g.uuid = f.uuid => g.nodeID # m
    BY <1>2, <2>5, <2>6 DEF IHaveFrames
  <2>8. QED
    BY <2>3, <2>4, <2>7
<1> HIDE DEF f, c, m
<1>7. buffer'[c] = Append(buffer[c], m) /\ \A d \in Queries : d # c => buffer'[d] = buffer[d]
  BY <1>3, <1>5 DEF SonarTypeOK
<1>8. NoRepeat(buffer[c]) /\ Elements(buffer[c]) \cap Elements(results[c]) = {}
      /\ \A o \in Gathered(c) : uuid[c] \in seen[o]
  BY <1>3 DEF OnceInv, GatheredOnce
<1>9. Elements(buffer'[c]) = Elements(buffer[c]) \cup {m} /\ NoRepeat(buffer'[c])
  BY <1>2, <1>4, <1>5, <1>7, <1>8, AppendAnswer DEF Gathered
<1>10. ResultsOnce'
  BY <1>1 DEF OnceInv, ResultsOnce
<1>11. GatheredOnce'
  <2>1. ASSUME NEW d \in Queries, Live(d)'
        PROVE  (/\ NoRepeat(buffer[d]) /\ Elements(buffer[d]) \cap Elements(results[d]) = {}
                /\ \A o \in Gathered(d) : uuid[d] \in seen[o])'
    <3>1. CASE d = c
      <4>1. Gathered(d)' = Gathered(c) \cup {m}
        BY <1>1, <1>9, <3>1 DEF Gathered
      <4>2. Elements(buffer'[c]) \cap Elements(results[c]) = {}
        BY <1>4, <1>8, <1>9 DEF Gathered
      <4>3. QED
        BY <1>1, <1>3, <1>4, <1>8, <1>9, <3>1, <4>1, <4>2
    <3>2. CASE d # c
      <4>1. Live(d) /\ buffer'[d] = buffer[d] /\ Gathered(d)' = Gathered(d)
        BY <1>1, <1>7, <2>1, <3>2 DEF Live, Gathered
      <4>2. QED
        BY <1>1, <4>1 DEF OnceInv, GatheredOnce
    <3>3. QED
      BY <3>1, <3>2
  <2>2. QED
    BY <2>1 DEF GatheredOnce
<1>12. PendingOnce'
  <2>1. ASSUME NEW k \in SonarLinks, NEW g \in Elements(net'[k]), LiveAnswer(g)'
        PROVE  Pending(g)'
    <3>1. LiveAnswer(g)
      BY <1>1, <2>1 DEF LiveAnswer
    <3>2. /\ Pending(g) /\ g \in SonarFrames
          /\ g.uuid = f.uuid => g.nodeID # m
      BY <1>6, <3>1
    <3>3. collectors[g.uuid] \in Queries /\ uuid[collectors[g.uuid]] = g.uuid
      BY <3>1, <3>2, FrameKinds DEF LiveAnswer, CallInv, SonarTypeOK
    <3>4. CASE collectors[g.uuid] = c
      <4>1. g.nodeID # m
        BY <1>3, <3>2, <3>3, <3>4
      <4>2. Gathered(collectors[g.uuid])' = Gathered(c) \cup {m}
        BY <1>1, <1>9, <3>4 DEF Gathered
      <4>3. QED
        BY <1>1, <3>2, <3>4, <4>1, <4>2 DEF Pending
    <3>5. CASE collectors[g.uuid] # c
      <4>1. Gathered(collectors[g.uuid])' = Gathered(collectors[g.uuid])
        BY <1>1, <1>7, <3>3, <3>5 DEF Gathered
      <4>2. QED
        BY <1>1, <3>2, <4>1 DEF Pending
    <3>6. QED
      BY <3>4, <3>5
  <2>2. QED
    BY <2>1 DEF PendingOnce
<1>13. OneFrame'
  BY <1>1, NothingSent, SendOneFrame DEF OnceInv
<1>14. QED
  BY <1>10, <1>11, <1>12, <1>13 DEF OnceInv

LEMMA IHaveOnce ==
    ASSUME SonarTypeOK, CallInv, OnceInv, NEW l \in SonarLinks, HandleIHave(l)
    PROVE  OnceInv'
<1> DEFINE f == Head(net[l])
<1>1. CASE /\ Deliverable(l[2], f) /\ Effect(l, Nothing)
           /\ buffer' = [buffer EXCEPT ![collectors[f.uuid]] = Append(@, f.nodeID)]
  BY <1>1, DeliverOnce
<1>2. CASE Effect(l, Nothing) /\ buffer' = buffer
  BY <1>2, NothingSent, RelayOnce
<1>3. ASSUME NEW h, Effect(l, Relayed(l[2], h, f)), buffer' = buffer PROVE OnceInv'
  <2>1. \A k \in DOMAIN Relayed(l[2], h, f) : Relayed(l[2], h, f)[k] = f
    BY DEF Relayed
  <2>2. \A k, m \in DOMAIN Relayed(l[2], h, f) : k = m
    BY DEF Relayed
  <2>3. QED
    BY <1>3, <2>1, <2>2, RelayOnce
<1>4. QED
  BY <1>1, <1>2, <1>3, IHaveEffect

-----------------------------------------------------------------------------
LEMMA InitInv == SonarInit => SonarInv
<1> SUFFICES ASSUME SonarInit PROVE SonarInv
  OBVIOUS
<1>1. Cardinality(Queries) \in Nat
  BY SonarAssumption, FS_CardinalityType
<1>2. SonarTypeOK
  <2>1. <<>> \in Seq(SonarNodes) /\ <<>> \in Seq(SonarFrames)
    OBVIOUS
  <2>2. 0 \in 0..Cardinality(Queries) /\ 0 \in 0..MaxDrops
    BY <1>1, SonarAssumption
  <2>3. QED
    BY <2>1, <2>2 DEF SonarInit, SonarTypeOK
<1>3. CallInv
  <2>1. \A n \in SonarNodes : AskedAt(n) = {}
    BY DEF SonarInit, AskedAt, Asked
  <2>2. \A n \in SonarNodes : uuidCounter[n] <= Cardinality(AskedAt(n))
    <3>1. Cardinality({}) = 0
      BY FS_EmptySet
    <3>2. \A n \in SonarNodes : uuidCounter[n] = 0 /\ Cardinality(AskedAt(n)) = Cardinality({})
      BY <2>1 DEF SonarInit
    <3>3. QED
      BY <3>1, <3>2
  <2>3. \A c \in Queries : ~Asked(c) /\ ~Live(c)
    BY DEF SonarInit, Asked, Live
  <2>4. \A c \in Queries : phase[c] = "idle" /\ uuid[c] = NoUUID /\ wanted[c] = NoCall
                           /\ buffer[c] = <<>> /\ results[c] = <<>>
    BY DEF SonarInit
  <2>5. \A u \in UUIDs : collectors[u] = NoCall
    BY DEF SonarInit
  <2>6. QED
    BY <2>2, <2>3, <2>4, <2>5 DEF CallInv
<1>4. \A l \in SonarLinks : Len(net[l]) = 0 /\ Elements(net[l]) = {}
  BY NoAnswers DEF SonarInit
<1>5. \A c \in Queries : buffer[c] = <<>> /\ results[c] = <<>> /\ ~Live(c)
  BY DEF SonarInit, Live
<1>6. TruthInv
  BY <1>4, <1>5, NoAnswers DEF TruthInv
<1>7. OnceInv
  BY <1>4, <1>5, NoAnswers DEF OnceInv, ResultsOnce, GatheredOnce, PendingOnce, OneFrame
<1>8. QED
  BY <1>2, <1>3, <1>6, <1>7 DEF SonarInv

LEMMA StepOnce ==
    ASSUME SonarTypeOK, CallInv, TruthInv, OnceInv, SonarNext
    PROVE  OnceInv'
BY StartOnce, BroadcastOnce, CollectOnce, StopOnce, WhoHasOnce, IHaveOnce, ExpireOnce
   DEF SonarNext, HandleFrame

LEMMA StutterInv == SonarInv /\ UNCHANGED sonarVars => SonarInv'
<1> SUFFICES ASSUME SonarInv, UNCHANGED sonarVars PROVE SonarInv'
  OBVIOUS
<1> USE DEF SonarInv, sonarVars, callVars
<1>1. SonarTypeOK'
  BY DEF SonarTypeOK
<1>2. CallInv'
  <2>1. \A n \in SonarNodes : AskedAt(n)' = AskedAt(n)
    BY DEF AskedAt, Asked
  <2>2. QED
    BY <2>1 DEF CallInv, Asked, Live
<1>3. TruthInv'
  <2>1. \A c \in Queries : Others(c)' = Others(c)
    BY DEF Others
  <2>2. \A l \in SonarLinks : \A i \in 1..Len(net[l]) : FrameIsTrue(net[l][i])'
    BY <2>1 DEF TruthInv, FrameIsTrue, Asked
  <2>3. QED
    BY <2>1, <2>2 DEF TruthInv
<1>4. OnceInv'
  BY DEF OnceInv, ResultsOnce, GatheredOnce, PendingOnce, OneFrame, Pending, Gathered,
         LiveAnswer, Live
<1>5. QED
  BY <1>1, <1>2, <1>3, <1>4

(* The inductive invariant holds: calls own their UUIDs, frames are true,  *)
(* and an answer to a call under way is in one place only.                 *)
THEOREM SonarInvariant == SonarSpec => []SonarInv
<1>1. SonarInit => SonarInv
  BY InitInv
<1>2. SonarInv /\ [SonarNext]_sonarVars => SonarInv'
  BY StepType, StepCall, StepTruth, StepOnce, StutterInv DEF SonarInv
<1>3. QED
  BY <1>1, <1>2, PTL DEF SonarSpec

(* Types: the counters stay in range and a hop budget never wraps below 0, *)
(* on any graph (ShouldForward stops a frame before MaxHops - 1 wraps).    *)
THEOREM SonarTypes == SonarSpec => []SonarTypeOK
<1>1. SonarInv => SonarTypeOK
  BY DEF SonarInv
<1>2. QED
  BY <1>1, SonarInvariant, PTL

(* Sonar returns only nodes that have the capability asked for, and never  *)
(* the asking node, whatever the routes the answers take.                  *)
THEOREM AnswersAreTrueAlways == SonarSpec => []AnswersAreTrue
<1>1. SonarInv => AnswersAreTrue
  BY DEF SonarInv, TruthInv, AnswersAreTrue
<1>2. QED
  BY <1>1, SonarInvariant, PTL

(* Sonar returns every node at most once, however many paths a WhoHas      *)
(* takes and whatever loops the gradient tables send its answers round.    *)
THEOREM NoDuplicateAnswersAlways == SonarSpec => []NoDuplicateAnswers
<1>1. SonarInv => NoDuplicateAnswers
  BY DEF SonarInv, OnceInv, ResultsOnce, NoRepeat, NoDuplicateAnswers
<1>2. QED
  BY <1>1, SonarInvariant, PTL

-----------------------------------------------------------------------------
(***************************************************************************)
(* ControlWriter, for any number of senders, any queue size and any number of *)
(* bootstrap chunks.                                                       *)
(***************************************************************************)

(* TypeOK is inductive: the queue only grows through a send that found it  *)
(* not Full.                                                               *)
LEMMA MessageFacts ==
    /\ Frame \in Messages
    /\ \A i \in 1..NumChunks : i \in Messages
  BY WriterAssumption DEF Messages, Frame

LEMMA QueueFacts ==
    ASSUME NEW q \in Seq(Messages), NEW m \in Messages
    PROVE  /\ Append(q, m) \in Seq(Messages)
           /\ Len(Append(q, m)) = Len(q) + 1
           /\ Len(q) \in Nat
           /\ q # <<>> => /\ Head(q) \in Messages
                          /\ Tail(q) \in Seq(Messages)
                          /\ Len(Tail(q)) = Len(q) - 1
  OBVIOUS

LEMMA TypeInit == Init => TypeOK
<1> SUFFICES ASSUME Init PROVE TypeOK
  OBVIOUS
<1>1. writeCh \in Seq(Messages) /\ Len(writeCh) <= QueueSize
      /\ received \in Seq(Messages)
  BY WriterAssumption DEF Init
<1>2. bootPc \in BootStates /\ chunk \in Nat
      /\ (bootPc # "done" => chunk \in 1..NumChunks)
  BY WriterAssumption DEF Init, BootStates
<1>3. offered \in 0..MaxFrames
  BY WriterAssumption DEF Init
<1> QED
  BY <1>1, <1>2, <1>3, MessageFacts DEF Init, TypeOK, DeathStates

LEMMA TypeStep == TypeOK /\ [Next]_vars => TypeOK'
<1> SUFFICES ASSUME TypeOK, [Next]_vars PROVE TypeOK'
  OBVIOUS
<1> USE DEF TypeOK
<1>1. CASE UNCHANGED vars
  BY <1>1 DEF vars, sendVars
<1>2. ASSUME NEW s \in Senders, SendLock(s) PROVE TypeOK'
  BY <1>2, WriterAssumption DEF SendLock
<1>3. ASSUME NEW s \in Senders, Send(s) PROVE TypeOK'
  <2>1. writeCh' \in Seq(Messages) /\ Len(writeCh') <= QueueSize
    BY <1>3, MessageFacts, QueueFacts, WriterAssumption DEF Send, Full
  <2> QED
    BY <1>3, <2>1 DEF Send
<1>4. CASE BootStep
  <2>1. CASE BootLock
    BY <2>1 DEF BootLock, unchangedByBoot, BootStates
  <2>2. CASE BootSend
    <3>1. chunk \in Messages /\ chunk \in 1..NumChunks
      BY <2>2, MessageFacts DEF BootSend
    <3>2. writeCh' \in Seq(Messages) /\ Len(writeCh') <= QueueSize
      BY <2>2, <3>1, QueueFacts, WriterAssumption, SMTT(30) DEF BootSend, Full
    <3>3. bootPc' \in BootStates /\ chunk' \in Nat
          /\ (bootPc' # "done" => chunk' \in 1..NumChunks)
      BY <2>2, <3>1, WriterAssumption DEF BootSend, NextChunk, BootStates
    <3> QED
      BY <2>2, <3>2, <3>3 DEF BootSend, unchangedByBoot
  <2>3. CASE BootRetry
    BY <2>3 DEF BootRetry, unchangedByBoot, BootStates
  <2>4. CASE BootAbort
    BY <2>4 DEF BootAbort, unchangedByBoot, BootStates
  <2> QED
    BY <1>4, <2>1, <2>2, <2>3, <2>4 DEF BootStep
<1>5. CASE WriterStep
  <2> USE DEF unchangedByWriter, sendVars
  <2>1. CASE WriterTake
    <3>1. /\ writeCh' \in Seq(Messages) /\ Len(writeCh') <= QueueSize
          /\ writing' \in Messages
      BY <2>1, MessageFacts, QueueFacts, WriterAssumption DEF WriterTake
    <3> QED
      BY <2>1, <3>1 DEF WriterTake
  <2>2. CASE WriterRangeEnds
    BY <2>2 DEF WriterRangeEnds
  <2>3. CASE WriterWrites
    <3>1. received' \in Seq(Messages)
      BY <2>3, MessageFacts, QueueFacts DEF WriterWrites
    <3> QED
      BY <2>3, <3>1, MessageFacts DEF WriterWrites
  <2>4. CASE WriterFails
    BY <2>4, MessageFacts DEF WriterFails
  <2> QED
    BY <1>5, <2>1, <2>2, <2>3, <2>4 DEF WriterStep
<1>6. CASE DeathStep
  BY <1>6, ZenonT(30) DEF DeathStep, DeathBegins, StopLock, StopCloseCh, StopCloseStream,
              StopWait, unchangedByDeath, sendVars, DeathStates
<1>7. CASE Break \/ ReaderFails \/ SessionFails \/ VersionMismatch \/ Cancel
  <2>1. deathPc' \in DeathStates
    BY <1>7 DEF Break, ReaderFails, SessionFails, VersionMismatch, Cancel,
                DeathOnceDo, DeathStates
  <2>2. readerPc' \in {"reading", "exited"} /\ controlUp' \in BOOLEAN
        /\ deadCh' \in BOOLEAN /\ ctxDone' \in BOOLEAN
    BY <1>7 DEF Break, ReaderFails, SessionFails, VersionMismatch, Cancel
  <2>3. UNCHANGED unchangedByEvents
    BY <1>7 DEF Break, ReaderFails, SessionFails, VersionMismatch, Cancel,
                unchangedByEvents
  <2> QED
    BY <2>1, <2>2, <2>3 DEF unchangedByEvents, sendVars
<1> QED
  BY <1>1, <1>2, <1>3, <1>4, <1>5, <1>6, <1>7 DEF Next

(* sendControl, the bootstrap, the writer and stopWriter keep every        *)
(* variable in its type, and the queue within controlWriteQueueSize.       *)
THEOREM TypeCorrect == Spec => []TypeOK
  BY TypeInit, TypeStep, PTL DEF Spec

-----------------------------------------------------------------------------
(* Where handlePeerDeath is determines the lock, the flag and the channel; *)
(* and nobody is inside its read lock once the flag is up: the flag is     *)
(* raised under the write lock, and whoever gets the read lock afterwards  *)
(* sees it.                                                                *)
LockInv ==
    /\ wlocked => deathPc = "locked"
    /\ chClosed => deathPc \in {"unlocked", "waiting", "done"}
    /\ deathPc \in {"locked", "unlocked", "waiting", "done"} => stopped
    /\ stopped => NobodySending

LEMMA LockInit == Init => LockInv
  BY DEF Init, LockInv, NobodySending

LEMMA LockStep == TypeOK /\ LockInv /\ [Next]_vars => LockInv'
<1> SUFFICES ASSUME TypeOK, LockInv, [Next]_vars PROVE LockInv'
  OBVIOUS
<1> USE DEF TypeOK, LockInv, NobodySending
<1>1. CASE UNCHANGED vars
  BY <1>1 DEF vars, sendVars
<1>2. ASSUME NEW s \in Senders, SendLock(s) PROVE LockInv'
  BY <1>2 DEF SendLock
<1>3. ASSUME NEW s \in Senders, Send(s) PROVE LockInv'
  BY <1>3 DEF Send
<1>4. CASE BootStep
  BY <1>4 DEF BootStep, BootLock, BootSend, BootRetry, BootAbort,
              unchangedByBoot, NextChunk
<1>5. CASE WriterStep
  BY <1>5 DEF WriterStep, WriterTake, WriterRangeEnds, WriterWrites, WriterFails,
              unchangedByWriter, sendVars
<1>6. CASE DeathStep
  BY <1>6 DEF DeathStep, DeathBegins, StopLock, StopCloseCh, StopCloseStream,
              StopWait, unchangedByDeath, sendVars
<1>7. CASE Break \/ ReaderFails \/ SessionFails \/ VersionMismatch \/ Cancel
  BY <1>7 DEF Break, ReaderFails, SessionFails, VersionMismatch, Cancel,
              DeathOnceDo, unchangedByEvents, sendVars
<1> QED
  BY <1>1, <1>2, <1>3, <1>4, <1>5, <1>6, <1>7 DEF Next

LEMMA LockGivesSafety == LockInv => NoSendOnClosedChannel
  BY DEF LockInv, NoSendOnClosedChannel

(* stopWriter never closes writeCh under a goroutine that has passed the   *)
(* test of writerStopped in sendControl, so no send panics.                *)
THEOREM ClosedChannelIsNeverSentOn == Spec => []NoSendOnClosedChannel
  BY TypeInit, TypeStep, LockInit, LockStep, LockGivesSafety, PTL DEF Spec

-----------------------------------------------------------------------------
(***************************************************************************)
(* The bootstrap in order. While the writer lives, the queue holds exactly *)
(* the chunks after the last one that left it, in order: the invariant of  *)
(* a FIFO with a single producer that retries the same chunk until it is   *)
(* queued.                                                                 *)
(***************************************************************************)
Left == Len(received) + (IF writing = Frame THEN 0 ELSE 1)

(* Queue q holds the chunks from a + 1 to b, among other frames. *)
Holds(q, a, b) ==
    /\ a <= b
    /\ \A i \in 1..Len(q) : q[i] # Frame => a < q[i] /\ q[i] <= b
    /\ \A i, j \in 1..Len(q) : i < j /\ q[i] # Frame /\ q[j] # Frame => q[i] < q[j]
    /\ \A m \in (a + 1)..b : \E i \in 1..Len(q) : q[i] = m

PipeInv ==
    /\ \A i \in 1..Len(received) : received[i] = i
    /\ writerPc # "exited" =>
         /\ writing # Frame => writing = Len(received) + 1
         /\ Holds(writeCh, Left, SentChunks)
    /\ writerPc = "range" => writing = Frame

LEMMA MessagesAreNumbers ==
    ASSUME NEW q \in Seq(Messages)
    PROVE  \A i \in 1..Len(q) : q[i] \in Nat
<1>1. Messages \subseteq Nat
  BY WriterAssumption DEF Messages
<1>2. \A i \in 1..Len(q) : q[i] \in Messages
  OBVIOUS
<1>3. QED
  BY <1>1, <1>2

LEMMA HoldsAppendFrame ==
    ASSUME NEW q \in Seq(Messages), NEW a \in Nat, NEW b \in Nat, Holds(q, a, b)
    PROVE  Holds(Append(q, Frame), a, b)
<1> DEFINE r == Append(q, Frame)
<1>1. /\ Len(q) \in Nat /\ Len(r) = Len(q) + 1 /\ r[Len(q) + 1] = Frame
      /\ \A i \in 1..Len(q) : r[i] = q[i]
  BY MessageFacts
<1> HIDE DEF r
<1>2. \A i \in 1..Len(r) : r[i] # Frame => i \in 1..Len(q)
  BY <1>1
<1>3. \A i \in 1..Len(q) : i \in 1..Len(r)
  BY <1>1
<1>4. QED
  BY <1>1, <1>2, <1>3 DEF Holds, r

LEMMA HoldsAppendChunk ==
    ASSUME NEW q \in Seq(Messages), NEW a \in Nat, NEW b \in Nat, Holds(q, a, b),
           b + 1 \in Messages
    PROVE  Holds(Append(q, b + 1), a, b + 1)
<1> DEFINE r == Append(q, b + 1)
<1>1. /\ Len(q) \in Nat /\ Len(r) = Len(q) + 1 /\ r[Len(q) + 1] = b + 1
      /\ \A i \in 1..Len(q) : r[i] = q[i] /\ q[i] \in Nat
  <2>1. \A i \in 1..Len(q) : q[i] \in Nat
    BY MessagesAreNumbers
  <2>2. QED
    BY <2>1
<1> HIDE DEF r
<1>2. \A i \in 1..Len(r) : i \in 1..Len(q) \/ (i = Len(q) + 1 /\ r[i] = b + 1)
  BY <1>1
<1>3. \A i \in 1..Len(r) : r[i] # Frame => a < r[i] /\ r[i] <= b + 1
  BY <1>1, <1>2 DEF Holds
<1>4. ASSUME NEW i \in 1..Len(r), NEW j \in 1..Len(r), i < j, r[i] # Frame, r[j] # Frame
      PROVE  r[i] < r[j]
  <2>1. i \in 1..Len(q)
    BY <1>1, <1>4
  <2>2. CASE j \in 1..Len(q)
    BY <1>1, <1>4, <2>1, <2>2 DEF Holds
  <2>3. CASE j = Len(q) + 1
    BY <1>1, <1>4, <2>1, <2>3 DEF Holds
  <2>4. QED
    BY <1>2, <2>2, <2>3
<1>5. ASSUME NEW m \in (a + 1)..(b + 1) PROVE \E i \in 1..Len(r) : r[i] = m
  <2>1. CASE m = b + 1
    BY <1>1, <2>1
  <2>2. CASE m # b + 1
    <3>1. m \in (a + 1)..b
      BY <2>2
    <3>2. PICK i \in 1..Len(q) : q[i] = m
      BY <3>1 DEF Holds
    <3>3. QED
      BY <1>1, <3>2
  <2>3. QED
    BY <2>1, <2>2
<1>6. QED
  BY <1>3, <1>4, <1>5 DEF Holds, r

(* The head of the queue is the next chunk, or another frame. *)
LEMMA HoldsTail ==
    ASSUME NEW q \in Seq(Messages), q # <<>>, NEW a \in Nat, NEW b \in Nat, Holds(q, a, b)
    PROVE  /\ Head(q) # Frame => Head(q) = a + 1 /\ Holds(Tail(q), a + 1, b)
           /\ Head(q) = Frame => Holds(Tail(q), a, b)
<1> DEFINE r == Tail(q)
<1>1. /\ Len(q) \in Nat /\ Len(q) >= 1 /\ Len(r) = Len(q) - 1 /\ Head(q) = q[1]
      /\ \A i \in 1..Len(r) : r[i] = q[i + 1] /\ i + 1 \in 1..Len(q)
      /\ \A i \in 1..Len(q) : q[i] \in Nat
  <2>1. \A i \in 1..Len(q) : q[i] \in Nat
    BY MessagesAreNumbers
  <2>2. QED
    BY <2>1
<1> HIDE DEF r
<1>2. \A i \in 1..Len(q) : i = 1 \/ (i - 1 \in 1..Len(r) /\ r[i - 1] = q[i])
  BY <1>1
<1>3. ASSUME NEW i \in 1..Len(r), NEW j \in 1..Len(r), i < j, r[i] # Frame, r[j] # Frame
      PROVE  r[i] < r[j]
  <2>1. r[i] = q[i + 1] /\ r[j] = q[j + 1] /\ i + 1 \in 1..Len(q) /\ j + 1 \in 1..Len(q)
    BY <1>1
  <2>2. i + 1 < j + 1
    BY <1>1, <1>3
  <2>3. QED
    BY <1>3, <2>1, <2>2 DEF Holds
<1>4. CASE Head(q) = Frame
  <2>1. \A i \in 1..Len(r) : r[i] # Frame => a < r[i] /\ r[i] <= b
    BY <1>1 DEF Holds
  <2>2. ASSUME NEW m \in (a + 1)..b PROVE \E i \in 1..Len(r) : r[i] = m
    <3>1. PICK i \in 1..Len(q) : q[i] = m
      BY DEF Holds
    <3>2. i # 1
      BY <1>1, <1>4, <3>1 DEF Frame
    <3>3. QED
      BY <1>2, <3>1, <3>2
  <2>3. QED
    BY <1>3, <1>4, <2>1, <2>2 DEF Holds, r
<1>5. CASE Head(q) # Frame
  <2>1. a < q[1] /\ q[1] <= b
    BY <1>1, <1>5 DEF Holds
  <2>2. PICK i \in 1..Len(q) : q[i] = a + 1
    BY <1>1, <2>1 DEF Holds
  <2>3. q[1] = a + 1
    <3>1. CASE i = 1
      BY <2>2, <3>1
    <3>2. CASE i # 1
      <4>1. q[1] < q[i]
        BY <1>1, <1>5, <2>2, <3>2 DEF Holds, Frame
      <4>2. QED
        BY <1>1, <2>1, <2>2, <4>1
    <3>3. QED
      BY <3>1, <3>2
  <2>4. \A k \in 1..Len(r) : r[k] # Frame => a + 1 < r[k] /\ r[k] <= b
    BY <1>1, <1>5, <2>3 DEF Holds
  <2>5. ASSUME NEW m \in ((a + 1) + 1)..b PROVE \E k \in 1..Len(r) : r[k] = m
    <3>1. PICK k \in 1..Len(q) : q[k] = m
      <4>1. m \in (a + 1)..b
        OBVIOUS
      <4>2. QED
        BY <4>1 DEF Holds
    <3>2. k # 1
      BY <2>3, <3>1
    <3>3. QED
      BY <1>2, <3>1, <3>2
  <2>6. a + 1 <= b
    BY <2>1, <2>3
  <2>7. Holds(r, a + 1, b)
    BY <1>3, <2>4, <2>5, <2>6 DEF Holds
  <2>8. QED
    BY <1>1, <1>5, <2>3, <2>7 DEF r
<1>6. QED
  BY <1>4, <1>5

LEMMA PipeInit == Init => PipeInv
<1> SUFFICES ASSUME Init PROVE PipeInv
  OBVIOUS
<1>1. SentChunks = 0
  BY WriterAssumption DEF Init, SentChunks
<1>2. Left = 0 /\ Len(received) = 0 /\ Len(writeCh) = 0 /\ writing = Frame
  BY DEF Init, Left
<1>3. Holds(writeCh, 0, 0)
  BY <1>2 DEF Holds
<1>4. QED
  BY <1>1, <1>2, <1>3 DEF PipeInv

LEMMA CountsAreNumbers ==
    ASSUME TypeOK
    PROVE  Left \in Nat /\ SentChunks \in Nat /\ Len(received) \in Nat
BY WriterAssumption DEF TypeOK, Left, SentChunks

LEMMA PipeStep == TypeOK /\ PipeInv /\ [Next]_vars => PipeInv'
<1> SUFFICES ASSUME TypeOK, PipeInv, [Next]_vars PROVE PipeInv'
  OBVIOUS
<1>1. writeCh \in Seq(Messages) /\ received \in Seq(Messages) /\ writing \in Messages
  BY DEF TypeOK
<1>2. ASSUME received' = received, writing' = writing, writerPc' = writerPc,
             writerPc # "exited" => Holds(writeCh', Left, SentChunks')
      PROVE  PipeInv'
  <2>1. Left' = Left
    BY <1>2 DEF Left
  <2>2. writerPc # "exited" => Holds(writeCh, Left, SentChunks)'
    BY <1>2, <2>1 DEF Holds
  <2>3. QED
    BY <1>2, <2>2 DEF PipeInv
<1>3. ASSUME received' = received, writing' = writing, writerPc' = writerPc,
             writeCh' = writeCh, SentChunks' = SentChunks
      PROVE  PipeInv'
  BY <1>2, <1>3 DEF PipeInv
<1>4. ASSUME NEW s \in Senders, Send(s) PROVE PipeInv'
  <2>1. /\ received' = received /\ writing' = writing /\ writerPc' = writerPc
        /\ SentChunks' = SentChunks /\ writeCh' \in {writeCh, Append(writeCh, Frame)}
    BY <1>4 DEF Send, SentChunks
  <2>2. QED
    BY <1>1, <1>2, <2>1, HoldsAppendFrame, CountsAreNumbers DEF PipeInv
<1>5. CASE BootSend
  <2>1. received' = received /\ writing' = writing /\ writerPc' = writerPc
    BY <1>5 DEF BootSend, unchangedByBoot
  <2>2. CASE Full
    <3>1. writeCh' = writeCh /\ SentChunks' = SentChunks
      BY <1>5, <2>2 DEF BootSend, SentChunks
    <3>2. QED
      BY <1>3, <2>1, <3>1
  <2>3. CASE ~Full
    <3>1. chunk \in 1..NumChunks /\ SentChunks = chunk - 1 /\ writeCh' = Append(writeCh, chunk)
      BY <1>5, <2>3 DEF BootSend, SentChunks, TypeOK
    <3>2. SentChunks' = chunk
      BY <1>5, <2>3, <3>1, WriterAssumption DEF BootSend, SentChunks, NextChunk
    <3>3. chunk = SentChunks + 1 /\ SentChunks + 1 \in Messages
      BY <3>1, WriterAssumption DEF Messages
    <3>4. ASSUME writerPc # "exited"
          PROVE  Holds(Append(writeCh, SentChunks + 1), Left, SentChunks + 1)
      BY <1>1, <3>3, <3>4, HoldsAppendChunk, CountsAreNumbers DEF PipeInv
    <3>5. QED
      BY <1>2, <2>1, <3>1, <3>2, <3>3, <3>4
  <2>4. QED
    BY <2>2, <2>3
<1>6. CASE WriterTake
  <2>1. /\ received' = received /\ writing' = Head(writeCh) /\ writeCh' = Tail(writeCh)
        /\ writerPc = "range" /\ writerPc' = "writing" /\ writeCh # <<>>
        /\ SentChunks' = SentChunks
    BY <1>6 DEF WriterTake, unchangedByWriter, sendVars, SentChunks
  <2>2. writing = Frame /\ Left = Len(received) /\ Holds(writeCh, Len(received), SentChunks)
    BY <2>1, CountsAreNumbers DEF PipeInv, Left
  <2>3. CASE Head(writeCh) = Frame
    <3>1. Left' = Len(received) /\ Holds(Tail(writeCh), Len(received), SentChunks)
      BY <1>1, <2>1, <2>2, <2>3, HoldsTail, CountsAreNumbers DEF Left
    <3>2. Holds(writeCh, Left, SentChunks)'
      BY <2>1, <3>1 DEF Holds
    <3>3. QED
      BY <2>1, <2>3, <3>2 DEF PipeInv
  <2>4. CASE Head(writeCh) # Frame
    <3>1. /\ Head(writeCh) = Len(received) + 1
          /\ Holds(Tail(writeCh), Len(received) + 1, SentChunks)
      BY <1>1, <2>1, <2>2, <2>4, HoldsTail, CountsAreNumbers
    <3>2. Left' = Len(received) + 1
      BY <2>1, <2>4 DEF Left
    <3>3. Holds(writeCh, Left, SentChunks)'
      BY <2>1, <3>1, <3>2 DEF Holds
    <3>4. QED
      BY <2>1, <3>1, <3>3 DEF PipeInv
  <2>5. QED
    BY <2>3, <2>4
<1>7. CASE WriterWrites
  <2>1. /\ received' = (IF writing = Frame THEN received ELSE Append(received, writing))
        /\ writing' = Frame /\ writeCh' = writeCh /\ SentChunks' = SentChunks
        /\ writerPc = "writing" /\ writerPc' = "range"
    BY <1>7 DEF WriterWrites, unchangedByWriter, sendVars, SentChunks
  <2>2. /\ writing # Frame => writing = Len(received) + 1
        /\ Holds(writeCh, Left, SentChunks) /\ \A i \in 1..Len(received) : received[i] = i
    BY <2>1 DEF PipeInv
  <2>3. Len(received') = Left /\ \A i \in 1..Len(received') : received'[i] = i
    BY <1>1, <2>1, <2>2 DEF Left
  <2>4. Left' = Left
    BY <2>1, <2>3, CountsAreNumbers DEF Left
  <2>5. Holds(writeCh, Left, SentChunks)'
    BY <2>1, <2>2, <2>4 DEF Holds
  <2>6. QED
    BY <2>1, <2>3, <2>5 DEF PipeInv
<1>8. CASE WriterRangeEnds \/ WriterFails
  BY <1>8 DEF WriterRangeEnds, WriterFails, PipeInv
<1>9. CASE \/ UNCHANGED vars \/ DeathStep
           \/ Break \/ ReaderFails \/ SessionFails \/ VersionMismatch \/ Cancel
           \/ BootLock \/ BootRetry \/ BootAbort \/ \E s \in Senders : SendLock(s)
  <2>1. /\ received' = received /\ writing' = writing /\ writerPc' = writerPc
        /\ writeCh' = writeCh /\ chunk' = chunk
    BY <1>9 DEF vars, sendVars, DeathStep, DeathBegins, StopLock, StopCloseCh,
                StopCloseStream, StopWait, unchangedByDeath, Break, ReaderFails,
                SessionFails, VersionMismatch, Cancel, unchangedByEvents, BootLock,
                BootRetry, BootAbort, unchangedByBoot, SendLock
  <2>2. bootPc' = bootPc \/ (bootPc # "done" /\ bootPc' # "done")
    BY <1>9 DEF vars, sendVars, DeathStep, DeathBegins, StopLock, StopCloseCh,
                StopCloseStream, StopWait, unchangedByDeath, Break, ReaderFails,
                SessionFails, VersionMismatch, Cancel, unchangedByEvents, BootLock,
                BootRetry, BootAbort, unchangedByBoot, SendLock
  <2>3. SentChunks' = SentChunks
    BY <2>1, <2>2 DEF SentChunks
  <2>4. QED
    BY <1>3, <2>1, <2>3
<1>10. QED
  BY <1>4, <1>5, <1>6, <1>7, <1>8, <1>9 DEF Next, BootStep, WriterStep

LEMMA PipeGivesOrder == TypeOK /\ PipeInv => BootstrapInOrder
<1> SUFFICES ASSUME TypeOK, PipeInv, writerPc # "exited"
             PROVE  /\ Chunks = 1..SentChunks
                    /\ \A i, j \in 1..Len(Pipeline) :
                         i < j /\ Pipeline[i] # Frame /\ Pipeline[j] # Frame
                         => Pipeline[i] < Pipeline[j]
  BY DEF BootstrapInOrder, PipeInv
<1> DEFINE r == Len(received)
           p == Pipeline
<1>1. writeCh \in Seq(Messages) /\ received \in Seq(Messages) /\ writing \in Messages
  BY DEF TypeOK
<1>2. /\ r \in Nat /\ Len(writeCh) \in Nat /\ Len(p) = r + 1 + Len(writeCh)
      /\ \A i \in 1..r : p[i] = received[i]
      /\ p[r + 1] = writing
      /\ \A i \in 1..Len(writeCh) : p[r + 1 + i] = writeCh[i]
  <2>1. <<writing>> \in Seq(Messages) /\ Len(<<writing>>) = 1 /\ <<writing>>[1] = writing
    BY <1>1
  <2> DEFINE q == received \o <<writing>>
  <2>2. /\ q \in Seq(Messages) /\ Len(q) = r + 1 /\ q[r + 1] = writing
        /\ \A i \in 1..r : q[i] = received[i]
    BY <1>1, <2>1
  <2> HIDE DEF q
  <2>3. p = q \o writeCh
    BY DEF Pipeline, q
  <2>4. /\ Len(q \o writeCh) = Len(q) + Len(writeCh)
        /\ \A i \in 1..Len(q) : (q \o writeCh)[i] = q[i]
        /\ \A i \in 1..Len(writeCh) : (q \o writeCh)[Len(q) + i] = writeCh[i]
    BY <1>1, <2>2
  <2>5. r \in Nat /\ Len(writeCh) \in Nat
    BY <1>1
  <2>6. QED
    BY <2>2, <2>3, <2>4, <2>5
<1> HIDE DEF r, p
<1>3. /\ \A i \in 1..r : p[i] = i
      /\ p[r + 1] # Frame => p[r + 1] = r + 1
      /\ Left = r + (IF p[r + 1] = Frame THEN 0 ELSE 1)
      /\ Holds(writeCh, Left, SentChunks)
  BY <1>2 DEF PipeInv, Left, r
<1>4. \A i \in 1..Len(p) : \/ i \in 1..r \/ i = r + 1
                           \/ (i - (r + 1) \in 1..Len(writeCh) /\ p[i] = writeCh[i - (r + 1)])
  BY <1>2
<1>5. SentChunks \in Nat /\ Left \in Nat /\ \A i \in 1..Len(writeCh) : writeCh[i] \in Nat
  BY <1>1, CountsAreNumbers, MessagesAreNumbers
<1>6. Frame = 0
  BY DEF Frame
<1>7. ASSUME NEW i \in 1..Len(p), p[i] # Frame PROVE p[i] \in 1..SentChunks
  <2>1. CASE i \in 1..r
    BY <1>2, <1>3, <1>5, <2>1 DEF Holds
  <2>2. CASE i = r + 1
    BY <1>2, <1>3, <1>5, <1>7, <2>2 DEF Holds
  <2>3. CASE i - (r + 1) \in 1..Len(writeCh) /\ p[i] = writeCh[i - (r + 1)]
    BY <1>3, <1>5, <1>7, <2>3 DEF Holds
  <2>4. QED
    BY <1>4, <2>1, <2>2, <2>3
<1>8. ASSUME NEW m \in 1..SentChunks PROVE \E i \in 1..Len(p) : p[i] = m
  <2>1. CASE m \in 1..r
    BY <1>2, <1>3, <2>1
  <2>2. CASE m = r + 1 /\ p[r + 1] # Frame
    BY <1>2, <1>3, <2>2
  <2>3. CASE m \in (Left + 1)..SentChunks
    <3>1. PICK i \in 1..Len(writeCh) : writeCh[i] = m
      BY <1>3, <2>3 DEF Holds
    <3>2. r + 1 + i \in 1..Len(p) /\ p[r + 1 + i] = m
      BY <1>2, <3>1
    <3>3. QED
      BY <3>2
  <2>4. QED
    BY <1>2, <1>3, <1>5, <2>1, <2>2, <2>3
<1>9. Chunks = 1..SentChunks
  <2>1. Chunks = {p[i] : i \in 1..Len(p)} \ {Frame}
    BY DEF Chunks, p
  <2>2. QED
    BY <1>6, <1>7, <1>8, <2>1
<1>10. ASSUME NEW i \in 1..Len(p), NEW j \in 1..Len(p), i < j, p[i] # Frame, p[j] # Frame
       PROVE  p[i] < p[j]
  <2>1. CASE j \in 1..r
    BY <1>2, <1>3, <1>10, <2>1
  <2>2. CASE j = r + 1
    BY <1>2, <1>3, <1>10, <2>2
  <2>3. CASE j - (r + 1) \in 1..Len(writeCh) /\ p[j] = writeCh[j - (r + 1)]
    <3>1. Left < p[j]
      BY <1>3, <1>10, <2>3 DEF Holds
    <3>2. CASE i \in 1..r \/ i = r + 1
      BY <1>2, <1>3, <1>5, <1>10, <2>3, <3>1, <3>2
    <3>3. CASE i - (r + 1) \in 1..Len(writeCh) /\ p[i] = writeCh[i - (r + 1)]
      <4>1. i - (r + 1) < j - (r + 1)
        BY <1>2, <1>10
      <4>2. QED
        BY <1>3, <1>10, <2>3, <3>3, <4>1 DEF Holds
    <3>4. QED
      BY <1>4, <3>2, <3>3
  <2>4. QED
    BY <1>4, <2>1, <2>2, <2>3
<1>11. QED
  BY <1>9, <1>10 DEF p

(* Whatever is dropped, retried or cut short, the peer receives the        *)
(* bootstrap chunks 1, 2, 3, ... and while the writer goroutine lives no   *)
(* chunk that sendBootstrapReliable has queued is missing or out of order. *)
THEOREM BootstrapStaysInOrder == Spec => []BootstrapInOrder
  BY TypeInit, TypeStep, PipeInit, PipeStep, PipeGivesOrder, PTL DEF Spec
=============================================================================
