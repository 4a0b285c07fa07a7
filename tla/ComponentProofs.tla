----------------------------- MODULE ComponentProofs -----------------------------
(***************************************************************************)
(* Proofs about the layers of a link - pairing, listener and compressed    *)
(* connection (Membrane), the frames read from it (FrameCodec) and the     *)
(* chains that put it together (Connections) - about the way a node comes  *)
(* up (NodeStart, Configuration, Reconciler) and about what it knows       *)
(* (Nucleus), for any values of their constants.                           *)
(***************************************************************************)
EXTENDS Connections, NodeStart, Nucleus, FiniteSetTheorems, SequenceTheorems, TLAPS

-----------------------------------------------------------------------------
(***************************************************************************)
(* Membrane                                                                *)
(***************************************************************************)
JoinRecords == [control : Dials, data : Dials]

(* A pending entry is of one dial, and so is a pair. A dial has been       *)
(* joined, or was refused, only after its data connection arrived, which   *)
(* it does once.                                                           *)
PairInv ==
    /\ joined \in Seq(JoinRecords) /\ pairErrors \subseteq Dials
    /\ \A p \in DOMAIN pairs : pairs[p].token \in Dials /\ pairs[p].conn = pairs[p].token
    /\ \A n \in 1..Len(joined) :
         /\ joined[n].control = joined[n].data
         /\ verifyCertChain(DialCert[joined[n].data], "client")
         /\ <<joined[n].data, "data">> \in arrived /\ joined[n].data \notin pairErrors
    /\ \A n, m \in 1..Len(joined) : joined[m].data = joined[n].data => m = n
    /\ \A d \in pairErrors : <<d, "data">> \in arrived

(* A stream is with Deliver, queued or accepted, or closed. *)
Taken == Range(accepted) \cup Range(incoming)
ListenerInv ==
    /\ incoming \in Seq(MeshStreams) /\ accepted \in Seq(MeshStreams)
    /\ delivering \subseteq MeshStreams
    /\ delivering \cap Taken = {} /\ dropped \cap Taken = {} /\ delivering \cap dropped = {}
    /\ dropped # {} => listenerClosed
    /\ IsFiniteSet(Taken) /\ Cardinality(Taken) = Len(accepted) + Len(incoming)
    /\ Len(incoming) <= ListenerCap

(* Who holds the write lock. *)
ZstdInv ==
    /\ zstdState \in [Writers -> {"idle", "writing", "done", "failed"}]
    /\ closer = "closing" \/ rawClosed => zstdClosed
    /\ zstdClosed => \A w \in Writers : zstdState[w] # "writing"

MembraneInv == PairInv /\ ListenerInv /\ ZstdInv

LEMMA MembraneInitInv == MembraneInit => MembraneInv
<1> SUFFICES ASSUME MembraneInit PROVE MembraneInv
  OBVIOUS
<1>1. /\ joined = <<>> /\ pairs = <<>> /\ pairErrors = {} /\ incoming = <<>> /\ accepted = <<>>
      /\ delivering = {} /\ dropped = {} /\ zstdClosed = FALSE /\ rawClosed = FALSE
      /\ closer = "idle" /\ zstdState = [w \in Writers |-> "idle"]
  BY DEF MembraneInit
<1>2. /\ \A S : <<>> \in Seq(S)
      /\ Len(<<>>) = 0 /\ DOMAIN <<>> = {}
  OBVIOUS
<1>3. PairInv
  BY <1>1, <1>2 DEF PairInv
<1>4. ListenerInv
  <2>1. Taken = {}
    BY <1>1, <1>2 DEF Taken, Range
  <2>2. IsFiniteSet({}) /\ Cardinality({}) = 0
    BY FS_EmptySet
  <2>3. QED
    BY <1>1, <1>2, <2>1, <2>2, MembraneAssumption DEF ListenerInv
<1>5. ZstdInv
  BY <1>1 DEF ZstdInv
<1>6. QED
  BY <1>3, <1>4, <1>5 DEF MembraneInv

LEMMA ControlRegistered ==
    ASSUME PairInv, NEW d \in Dials, RegisterControl(d)
    PROVE  PairInv'
<1>1. /\ arrived \subseteq arrived' /\ UNCHANGED <<joined, pairErrors>>
  BY DEF RegisterControl, HandshakeServer
<1>2. \A p \in DOMAIN pairs' : pairs'[p].token \in Dials /\ pairs'[p].conn = pairs'[p].token
  <2>1. CASE pairs' = pairs
    BY <2>1 DEF PairInv
  <2>2. CASE pairs' = [p \in DOMAIN pairs \cup {DialCert[d].cn} |->
                         IF p = DialCert[d].cn
                         THEN [token |-> d, conn |-> d, created |-> pairTime] ELSE pairs[p]]
    BY <2>2 DEF PairInv
  <2>3. QED
    BY <2>1, <2>2 DEF RegisterControl
<1>3. QED
  BY <1>1, <1>2 DEF PairInv

LEMMA DataCompleted ==
    ASSUME PairInv, NEW d \in Dials, CompleteData(d)
    PROVE  PairInv'
<1> DEFINE p == DialCert[d].cn
           known == <<d, "data">> \notin refused' /\ p \in DOMAIN pairs
           ok == known /\ ~PairExpired(p) /\ pairs[p].token = d
<1>1. /\ <<d, "data">> \notin arrived /\ arrived' = arrived \cup {<<d, "data">>}
      /\ <<d, "data">> \notin refused' => verifyCertChain(DialCert[d], "client")
      /\ pairs' = IF ok \/ (known /\ PairExpired(p)) THEN Restrict(pairs, DOMAIN pairs \ {p})
                  ELSE pairs
      /\ joined' = IF ok THEN Append(joined, [control |-> pairs[p].conn, data |-> d]) ELSE joined
      /\ pairErrors' = IF ok THEN pairErrors ELSE pairErrors \cup {d}
  BY DEF CompleteData, HandshakeServer
<1>2. \A q \in DOMAIN pairs' : pairs'[q].token \in Dials /\ pairs'[q].conn = pairs'[q].token
  <2>1. CASE pairs' = pairs
    BY <2>1 DEF PairInv
  <2>2. CASE pairs' = Restrict(pairs, DOMAIN pairs \ {p})
    BY <2>2 DEF PairInv, Restrict
  <2>3. QED
    BY <1>1, <2>1, <2>2
<1>3. /\ \A n \in 1..Len(joined) : joined[n].data # d
      /\ d \notin pairErrors
  BY <1>1 DEF PairInv
<1>4. CASE ok
  <2> DEFINE j == [control |-> d, data |-> d]
  <2>1. joined' = Append(joined, j) /\ pairErrors' = pairErrors
    BY <1>1, <1>4 DEF PairInv
  <2>2. j \in JoinRecords /\ verifyCertChain(DialCert[d], "client")
    BY <1>1, <1>4 DEF JoinRecords
  <2>3. joined \in Seq(JoinRecords)
    BY DEF PairInv
  <2> HIDE DEF j
  <2>4. /\ joined' \in Seq(JoinRecords) /\ Len(joined) \in Nat /\ Len(joined') = Len(joined) + 1
        /\ \A n \in 1..Len(joined) : joined'[n] = joined[n]
        /\ joined'[Len(joined) + 1] = j
    BY <2>1, <2>2, <2>3
  <2>5. \A n \in 1..Len(joined') : n \in 1..Len(joined) \/ n = Len(joined) + 1
    BY <2>4
  <2>6. j.control = d /\ j.data = d
    BY DEF j
  <2>7. ASSUME NEW n \in 1..Len(joined')
        PROVE  /\ joined'[n].control = joined'[n].data
               /\ verifyCertChain(DialCert[joined'[n].data], "client")
               /\ <<joined'[n].data, "data">> \in arrived' /\ joined'[n].data \notin pairErrors'
    <3>1. CASE n \in 1..Len(joined)
      BY <1>1, <2>1, <2>4, <3>1 DEF PairInv
    <3>2. CASE n = Len(joined) + 1
      BY <1>1, <1>3, <2>1, <2>2, <2>4, <2>6, <3>2
    <3>3. QED
      BY <2>5, <3>1, <3>2
  <2>8. \A n, m \in 1..Len(joined') : joined'[m].data = joined'[n].data => m = n
    BY <1>3, <2>4, <2>5, <2>6 DEF PairInv
  <2>9. QED
    BY <1>1, <1>2, <2>1, <2>4, <2>7, <2>8 DEF PairInv
<1>5. CASE ~ok
  <2>1. joined' = joined /\ pairErrors' = pairErrors \cup {d}
    BY <1>1, <1>5
  <2>2. QED
    BY <1>1, <1>2, <1>3, <2>1 DEF PairInv
<1>6. QED
  BY <1>4, <1>5

LEMMA PairSteps ==
    ASSUME MembraneInv, PairNext
    PROVE  MembraneInv'
<1>1. UNCHANGED listenerVars /\ UNCHANGED zstdVars
  BY DEF PairNext, RegisterControl, CompleteData, purgeExpired, PairTick
<1>2. ListenerInv'
  BY <1>1 DEF MembraneInv, ListenerInv, listenerVars, Taken
<1>3. ZstdInv'
  BY <1>1 DEF MembraneInv, ZstdInv, zstdVars
<1>4. CASE purgeExpired
  <2>1. /\ UNCHANGED <<arrived, joined, pairErrors>>
        /\ pairs' = Restrict(pairs, {p \in DOMAIN pairs : ~PairExpired(p)})
    BY <1>4 DEF purgeExpired
  <2>2. PairInv'
    BY <2>1 DEF MembraneInv, PairInv, Restrict
  <2>3. QED
    BY <1>2, <1>3, <2>2 DEF MembraneInv
<1>5. CASE PairTick
  <2>1. PairInv'
    BY <1>5 DEF PairTick, MembraneInv, PairInv
  <2>2. QED
    BY <1>2, <1>3, <2>1 DEF MembraneInv
<1>6. QED
  BY <1>2, <1>3, <1>4, <1>5, ControlRegistered, DataCompleted DEF PairNext, MembraneInv


(* What a channel holds after a send and after a receive. *)
LEMMA RangeOfQueue ==
    ASSUME NEW S, NEW s \in Seq(S), NEW x \in S
    PROVE  /\ Append(s, x) \in Seq(S) /\ Len(Append(s, x)) = Len(s) + 1
           /\ Range(Append(s, x)) = Range(s) \cup {x}
           /\ s # <<>> => /\ Tail(s) \in Seq(S) /\ Len(Tail(s)) = Len(s) - 1
                          /\ Head(s) \in S /\ Range(s) = Range(Tail(s)) \cup {Head(s)}
<1>1. Append(s, x) \in Seq(S) /\ Len(Append(s, x)) = Len(s) + 1 /\ Len(s) \in Nat
  OBVIOUS
<1>2. Range(Append(s, x)) = Range(s) \cup {x}
  <2> DEFINE u == Append(s, x)
             n == Len(s)
  <2>1. /\ DOMAIN s = 1..n /\ DOMAIN u = 1..(n + 1)
        /\ \A i \in 1..n : u[i] = s[i]
        /\ u[n + 1] = x /\ n \in Nat
    OBVIOUS
  <2> HIDE DEF u, n
  <2>2. n + 1 \in 1..(n + 1) /\ \A i \in 1..(n + 1) : i \in 1..n \/ i = n + 1
    BY <2>1
  <2>3. \A i \in 1..n : i \in 1..(n + 1)
    BY <2>1
  <2>4. QED
    BY <2>1, <2>2, <2>3 DEF Range, u
<1>3. ASSUME s # <<>>
      PROVE  /\ Tail(s) \in Seq(S) /\ Len(Tail(s)) = Len(s) - 1
             /\ Head(s) \in S /\ Range(s) = Range(Tail(s)) \cup {Head(s)}
  <2> DEFINE u == Tail(s)
             n == Len(s)
  <2>1. /\ Tail(s) \in Seq(S) /\ Len(Tail(s)) = Len(s) - 1 /\ Head(s) \in S
        /\ DOMAIN s = 1..n /\ DOMAIN u = 1..(n - 1) /\ n \in Nat /\ n >= 1
        /\ \A i \in 1..(n - 1) : u[i] = s[i + 1]
        /\ s[1] = Head(s)
    <3>1. Len(s) \in Nat /\ Len(s) # 0 /\ DOMAIN s = 1..Len(s)
      BY <1>3
    <3>2. /\ Tail(s) \in Seq(S) /\ Len(Tail(s)) = Len(s) - 1 /\ Head(s) \in S
          /\ \A i \in 1..Len(Tail(s)) : Tail(s)[i] = s[i + 1]
          /\ s[1] = Head(s) /\ DOMAIN Tail(s) = 1..Len(Tail(s))
      BY <1>3
    <3>3. QED
      BY <3>1, <3>2
  <2> HIDE DEF u, n
  <2>2. /\ 1 \in 1..n /\ \A i \in 1..(n - 1) : i + 1 \in 1..n
        /\ \A i \in 1..n : i = 1 \/ (i - 1 \in 1..(n - 1) /\ (i - 1) + 1 = i)
    BY <2>1
  <2>3. Range(s) \subseteq Range(u) \cup {s[1]}
    <3>1. ASSUME NEW i \in 1..n PROVE s[i] \in Range(u) \cup {s[1]}
      <4>1. CASE i = 1
        BY <4>1
      <4>2. CASE i - 1 \in 1..(n - 1) /\ (i - 1) + 1 = i
        BY <2>1, <4>2 DEF Range
      <4>3. QED
        BY <2>2, <4>1, <4>2
    <3>2. QED
      BY <2>1, <3>1 DEF Range
  <2>4. Range(u) \cup {s[1]} \subseteq Range(s)
    <3>1. ASSUME NEW i \in 1..(n - 1) PROVE u[i] \in Range(s)
      <4>1. i + 1 \in DOMAIN s /\ u[i] = s[i + 1]
        BY <2>1, <2>2
      <4>2. QED
        BY <4>1 DEF Range
    <3>2. Range(u) \subseteq Range(s)
      BY <2>1, <3>1 DEF Range
    <3>3. s[1] \in Range(s)
      BY <2>1, <2>2 DEF Range
    <3>4. QED
      BY <3>2, <3>3
  <2>5. QED
    BY <2>1, <2>3, <2>4 DEF u, n
<1>4. QED
  BY <1>1, <1>2, <1>3

LEMMA ListenerSteps ==
    ASSUME MembraneInv, ListenerNext
    PROVE  MembraneInv'
<1>1. UNCHANGED pairVars /\ UNCHANGED zstdVars
  BY DEF ListenerNext, DeliverCall, Deliver, Accept, ListenerClose
<1>2. PairInv' /\ ZstdInv'
  BY <1>1 DEF MembraneInv, PairInv, ZstdInv, pairVars, zstdVars
<1>3. /\ ListenerInv /\ incoming \in Seq(MeshStreams) /\ accepted \in Seq(MeshStreams)
      /\ Len(incoming) \in Nat /\ Len(accepted) \in Nat
  BY DEF MembraneInv, ListenerInv
<1>4. ASSUME NEW s \in MeshStreams, DeliverCall(s) PROVE ListenerInv'
  <2>1. Taken' = Taken
    BY <1>4 DEF DeliverCall, Taken
  <2>2. s \notin Taken \cup dropped
    BY <1>4 DEF DeliverCall, Taken
  <2>3. QED
    BY <1>3, <1>4, <2>1, <2>2 DEF DeliverCall, ListenerInv
<1>5. ASSUME NEW s \in MeshStreams, Deliver(s) PROVE ListenerInv'
  <2>1. /\ s \in delivering /\ delivering' = delivering \ {s} /\ UNCHANGED <<listenerClosed, accepted>>
        /\ s \notin Taken /\ s \notin dropped
    BY <1>3, <1>5 DEF Deliver, ListenerInv
  <2>2. CASE Len(incoming) < ListenerCap /\ incoming' = Append(incoming, s) /\ UNCHANGED dropped
    <3>1. /\ incoming' \in Seq(MeshStreams) /\ Len(incoming') = Len(incoming) + 1
          /\ Range(incoming') = Range(incoming) \cup {s}
      BY <1>3, <2>2, RangeOfQueue
    <3>2. Taken' = Taken \cup {s}
      BY <2>1, <3>1 DEF Taken
    <3>3. IsFiniteSet(Taken') /\ Cardinality(Taken') = Cardinality(Taken) + 1
      BY <1>3, <2>1, <3>2, FS_AddElement DEF ListenerInv
    <3>4. Cardinality(Taken') = Len(accepted') + Len(incoming') /\ Len(incoming') <= ListenerCap
      BY <1>3, <2>1, <2>2, <3>1, <3>3, MembraneAssumption DEF ListenerInv
    <3>5. /\ delivering' \cap Taken' = {} /\ dropped' \cap Taken' = {} /\ delivering' \cap dropped' = {}
      BY <1>3, <2>1, <2>2, <3>2 DEF ListenerInv
    <3>6. QED
      BY <1>3, <2>1, <2>2, <3>1, <3>3, <3>4, <3>5 DEF ListenerInv
  <2>3. CASE listenerClosed /\ dropped' = dropped \cup {s} /\ UNCHANGED incoming
    <3>1. Taken' = Taken
      BY <2>1, <2>3 DEF Taken
    <3>2. QED
      BY <1>3, <2>1, <2>3, <3>1 DEF ListenerInv
  <2>4. QED
    BY <1>5, <2>2, <2>3 DEF Deliver
<1>6. ASSUME Accept PROVE ListenerInv'
  <2>1. /\ incoming # <<>> /\ accepted' = Append(accepted, Head(incoming)) /\ incoming' = Tail(incoming)
        /\ UNCHANGED <<listenerClosed, delivering, dropped>>
    BY <1>6 DEF Accept
  <2>2. /\ incoming' \in Seq(MeshStreams) /\ Len(incoming') = Len(incoming) - 1
        /\ Head(incoming) \in MeshStreams /\ Range(incoming) = Range(incoming') \cup {Head(incoming)}
    <3>1. Head(incoming) \in MeshStreams
      BY <1>3, <2>1
    <3>2. QED
      BY <1>3, <2>1, <3>1, RangeOfQueue
  <2>3. /\ accepted' \in Seq(MeshStreams) /\ Len(accepted') = Len(accepted) + 1
        /\ Range(accepted') = Range(accepted) \cup {Head(incoming)}
    BY <1>3, <2>1, <2>2, RangeOfQueue
  <2>4. Taken' = Taken
    BY <2>2, <2>3 DEF Taken
  <2>5. Len(accepted') + Len(incoming') = Len(accepted) + Len(incoming) /\ Len(incoming') <= ListenerCap
    BY <1>3, <2>2, <2>3, MembraneAssumption DEF ListenerInv
  <2>6. QED
    BY <1>3, <2>1, <2>2, <2>3, <2>4, <2>5 DEF ListenerInv
<1>7. ASSUME ListenerClose PROVE ListenerInv'
  BY <1>3, <1>7 DEF ListenerClose, ListenerInv, Taken
<1>8. QED
  BY <1>2, <1>4, <1>5, <1>6, <1>7 DEF ListenerNext, MembraneInv

LEMMA ZstdSteps ==
    ASSUME MembraneInv, ZstdNext
    PROVE  MembraneInv'
<1>1. UNCHANGED pairVars /\ UNCHANGED listenerVars
  BY DEF ZstdNext, ZstdWrite, ZstdFlush, ZstdCloseCall, ZstdLock, ZstdClose
<1>2. PairInv' /\ ListenerInv'
  BY <1>1 DEF MembraneInv, PairInv, ListenerInv, Taken, pairVars, listenerVars
<1>3. ZstdInv
  BY DEF MembraneInv
<1>4. ASSUME NEW w \in Writers, ZstdWrite(w) \/ ZstdFlush(w) PROVE ZstdInv'
  BY <1>3, <1>4 DEF ZstdInv, ZstdWrite, ZstdFlush
<1>5. ASSUME ZstdLock PROVE ZstdInv'
  BY <1>3, <1>5 DEF ZstdInv, ZstdLock, WriteLocked
<1>6. ASSUME ZstdCloseCall \/ ZstdClose PROVE ZstdInv'
  BY <1>3, <1>6 DEF ZstdInv, ZstdCloseCall, ZstdClose
<1>7. QED
  BY <1>2, <1>4, <1>5, <1>6 DEF ZstdNext, MembraneInv

LEMMA MembraneGivesSafety == MembraneInv => ConnectionsMeetOnce
<1> SUFFICES ASSUME MembraneInv PROVE ConnectionsMeetOnce
  OBVIOUS
<1>1. \A n \in 1..Len(joined) :
         /\ joined[n].control = joined[n].data
         /\ verifyCertChain(DialCert[joined[n].data], "client")
         /\ joined[n].data \notin pairErrors
         /\ \A m \in 1..Len(joined) : m # n => joined[m].control # joined[n].control
  BY DEF MembraneInv, PairInv
<1>2. /\ dropped # {} => listenerClosed
      /\ dropped \cap (Range(accepted) \cup Range(incoming)) = {}
      /\ Len(accepted) + Len(incoming) = Cardinality(Range(accepted) \cup Range(incoming))
      /\ Len(incoming) <= ListenerCap
  BY DEF MembraneInv, ListenerInv, Taken
<1>3. rawClosed => \A w \in Writers : zstdState[w] # "writing"
  BY DEF MembraneInv, ZstdInv
<1>4. QED
  BY <1>1, <1>2, <1>3 DEF ConnectionsMeetOnce


-----------------------------------------------------------------------------
(***************************************************************************)
(* FrameCodec                                                              *)
(***************************************************************************)
Units == [kind : {"header", "byte"}, frame : Nat, len : Nat]
Delivered == [frame : Nat, bytes : Seq(Units)]

IsHeader(w, i, f) == w[i].kind = "header" /\ w[i].frame = f
IsByte(w, i, f) == w[i].kind = "byte" /\ w[i].frame = f

(* After position i the wire w has the payload of frame f, and behind it   *)
(* the next header; only the last frame of a broken stream is cut off.     *)
Body(w, sent, cut, i, f) ==
    /\ \A j \in 1..Len(w) : i < j /\ j <= i + sent[f] => IsByte(w, j, f)
    /\ \/ i + sent[f] < Len(w) /\ f < Len(sent) /\ IsHeader(w, i + sent[f] + 1, f + 1)
       \/ i + sent[f] = Len(w) /\ f = Len(sent)
       \/ i + sent[f] > Len(w) /\ f = Len(sent) /\ cut

WireInv(w, sent, cut) ==
    \A i \in 1..Len(w) : w[i].kind = "header" =>
        /\ w[i].frame \in 1..Len(sent) /\ w[i].len = sent[w[i].frame]
        /\ Body(w, sent, cut, i, w[i].frame)

(* The loop is about to read the header after the frames received. *)
AtBoundary(w, sent, got) ==
    \/ w = <<>> /\ Len(got) = Len(sent)
    \/ w # <<>> /\ IsHeader(w, 1, Len(got) + 1)

(* The loop has read the header h and waits for its payload. *)
InFrame(w, sent, cut, got, h) ==
    /\ Len(got) < Len(sent) /\ h.frame = Len(got) + 1 /\ h.len = sent[Len(got) + 1]
    /\ Body(w, sent, cut, 0, Len(got) + 1)

Whole(r, i, n) ==
    r.frame = i /\ Len(r.bytes) = n /\ \A j \in 1..n : IsByte(r.bytes, j, i)

FrameTypes ==
    /\ wire \in Seq(Units) /\ sentFrames \in Seq(Nat) /\ received \in Seq(Delivered)
    /\ memoryUsed \in Nat /\ expecting \in Units \cup {NoFrame}

FrameInv ==
    /\ FrameTypes
    /\ Len(received) <= Len(sentFrames)
    /\ \A i \in 1..Len(received) : Whole(received[i], i, sentFrames[i])
    /\ expecting = NoFrame => memoryUsed = 0
    /\ expecting # NoFrame => memoryUsed = expecting.len
    /\ reading =>
         /\ WireInv(wire, sentFrames, broken)
         /\ expecting = NoFrame => AtBoundary(wire, sentFrames, received)
         /\ expecting # NoFrame => InFrame(wire, sentFrames, broken, received, expecting)

LEMMA FrameInitInv == FrameInit => FrameInv
<1> SUFFICES ASSUME FrameInit PROVE FrameInv
  OBVIOUS
<1>1. /\ wire = <<>> /\ sentFrames = <<>> /\ received = <<>> /\ memoryUsed = 0 /\ expecting = NoFrame
  BY DEF FrameInit
<1>2. (\A S : <<>> \in Seq(S)) /\ Len(<<>>) = 0
  OBVIOUS
<1>3. FrameTypes
  BY <1>1, <1>2 DEF FrameTypes
<1>4. WireInv(wire, sentFrames, broken)
  BY <1>1, <1>2 DEF WireInv
<1>5. AtBoundary(wire, sentFrames, received)
  BY <1>1 DEF AtBoundary
<1>6. QED
  BY <1>1, <1>2, <1>3, <1>4, <1>5 DEF FrameInv

(* Reading k units moves every position by k. *)
LEMMA WireShifts ==
    ASSUME NEW w \in Seq(Units), NEW k \in 0..Len(w), NEW sent \in Seq(Nat), NEW cut,
           WireInv(w, sent, cut)
    PROVE  LET v == SubSeq(w, k + 1, Len(w)) IN
           /\ v \in Seq(Units) /\ Len(v) = Len(w) - k
           /\ \A i \in 1..Len(v) : v[i] = w[i + k]
           /\ \A f \in 1..Len(sent) : Body(w, sent, cut, k, f) => Body(v, sent, cut, 0, f)
           /\ WireInv(v, sent, cut)
<1> DEFINE v == SubSeq(w, k + 1, Len(w))
<1>1. /\ v \in Seq(Units) /\ Len(w) \in Nat /\ Len(v) = Len(w) - k /\ Len(v) \in Nat
      /\ \A i \in 1..Len(v) : v[i] = w[i + k]
  <2>1. Len(w) \in Nat
    OBVIOUS
  <2>2. v \in Seq(Units) /\ Len(v) = Len(w) - k
    BY <2>1
  <2>3. \A i \in 1..(Len(w) - k) : v[i] = w[i + k]
    BY <2>1
  <2>4. QED
    BY <2>1, <2>2, <2>3
<1> HIDE DEF v
<1>2. ASSUME NEW i \in Nat, NEW f \in 1..Len(sent), Body(w, sent, cut, i + k, f)
      PROVE  Body(v, sent, cut, i, f)
  <2>1. sent[f] \in Nat
    OBVIOUS
  <2>2. ASSUME NEW j \in 1..Len(v), i < j, j <= i + sent[f] PROVE IsByte(v, j, f)
    <3>1. j + k \in 1..Len(w) /\ i + k < j + k /\ j + k <= (i + k) + sent[f]
      BY <1>1, <2>1, <2>2
    <3>2. IsByte(w, j + k, f)
      BY <1>2, <3>1 DEF Body
    <3>3. v[j] = w[j + k]
      BY <1>1
    <3>4. QED
      BY <3>2, <3>3 DEF IsByte
  <2>3. CASE (i + k) + sent[f] < Len(w) /\ f < Len(sent) /\ IsHeader(w, (i + k) + sent[f] + 1, f + 1)
    <3>1. /\ i + sent[f] < Len(v) /\ i + sent[f] + 1 \in 1..Len(v)
          /\ (i + sent[f] + 1) + k = (i + k) + sent[f] + 1
      <4> DEFINE n == sent[f]
                 lw == Len(w)
                 lv == Len(v)
      <4>1. n \in Nat /\ lw \in Nat /\ lv = lw - k /\ k \in Nat /\ i \in Nat /\ (i + k) + n < lw
        BY <1>1, <2>1, <2>3
      <4> HIDE DEF n, lw, lv
      <4>2. i + n < lv /\ i + n + 1 \in 1..lv /\ (i + n + 1) + k = (i + k) + n + 1
        BY <4>1
      <4>3. QED
        BY <4>2 DEF n, lv
    <3>2. IsHeader(v, i + sent[f] + 1, f + 1)
      BY <1>1, <2>3, <3>1 DEF IsHeader
    <3>3. QED
      BY <2>2, <2>3, <3>1, <3>2 DEF Body
  <2>4. CASE (i + k) + sent[f] = Len(w) /\ f = Len(sent)
    <3>1. i + sent[f] = Len(v)
      <4> DEFINE n == sent[f]
                 lw == Len(w)
                 lv == Len(v)
      <4>1. n \in Nat /\ lw \in Nat /\ lv = lw - k /\ k \in Nat /\ i \in Nat
        BY <1>1, <2>1
      <4>2. (i + k) + n = lw
        BY <2>4
      <4> HIDE DEF n, lw, lv
      <4>3. i + n = lv
        BY <4>1, <4>2
      <4>4. QED
        BY <4>3 DEF n, lv
    <3>2. QED
      BY <2>2, <2>4, <3>1 DEF Body
  <2>5. CASE (i + k) + sent[f] > Len(w) /\ f = Len(sent) /\ cut
    <3>1. i + sent[f] > Len(v)
      <4> DEFINE n == sent[f]
                 lw == Len(w)
                 lv == Len(v)
      <4>1. n \in Nat /\ lw \in Nat /\ lv = lw - k /\ k \in Nat /\ i \in Nat
        BY <1>1, <2>1
      <4>2. (i + k) + n > lw
        BY <2>5
      <4> HIDE DEF n, lw, lv
      <4>3. i + n > lv
        BY <4>1, <4>2
      <4>4. QED
        BY <4>3 DEF n, lv
    <3>2. QED
      BY <2>2, <2>5, <3>1 DEF Body
  <2>6. QED
    BY <1>2, <2>3, <2>4, <2>5 DEF Body
<1>3. \A f \in 1..Len(sent) : Body(w, sent, cut, k, f) => Body(v, sent, cut, 0, f)
  <2>1. 0 \in Nat /\ 0 + k = k
    OBVIOUS
  <2>2. QED
    BY <1>2, <2>1
<1>4. ASSUME NEW i \in 1..Len(v), v[i].kind = "header"
      PROVE  /\ v[i].frame \in 1..Len(sent) /\ v[i].len = sent[v[i].frame]
             /\ Body(v, sent, cut, i, v[i].frame)
  <2>1. i + k \in 1..Len(w) /\ v[i] = w[i + k] /\ i \in Nat
    BY <1>1
  <2>2. QED
    BY <1>2, <1>4, <2>1 DEF WireInv
<1>5. WireInv(v, sent, cut)
  BY <1>4 DEF WireInv
<1>6. QED
  BY <1>1, <1>3, <1>5 DEF v


LEMMA Concatenation ==
    ASSUME NEW S, NEW u \in Seq(S), NEW t \in Seq(S)
    PROVE  /\ u \o t \in Seq(S) /\ Len(u \o t) = Len(u) + Len(t)
           /\ \A j \in 1..Len(u) : (u \o t)[j] = u[j]
           /\ \A j \in 1..Len(t) : (u \o t)[Len(u) + j] = t[j]
  OBVIOUS

(* A header and k bytes at the end of the wire. *)
Grown(w, h, b, k, v) ==
    /\ v \in Seq(Units) /\ Len(v) = Len(w) + 1 + k
    /\ \A j \in 1..Len(w) : v[j] = w[j]
    /\ v[Len(w) + 1] = h
    /\ \A j \in 1..k : v[Len(w) + 1 + j] = b

LEMMA FrameAppended ==
    ASSUME NEW w \in Seq(Units), NEW h \in Units, NEW b \in Units, NEW k \in Nat
    PROVE  Grown(w, h, b, k, w \o <<h>> \o [i \in 1..k |-> b])
<1> DEFINE t == [i \in 1..k |-> b]
           u == w \o <<h>>
<1>1. t \in Seq(Units) /\ Len(t) = k /\ \A i \in 1..k : t[i] = b
  OBVIOUS
<1>2. /\ u \in Seq(Units) /\ Len(u) = Len(w) + 1 /\ u[Len(w) + 1] = h
      /\ \A j \in 1..Len(w) : u[j] = w[j]
  OBVIOUS
<1>3. Len(w) \in Nat
  OBVIOUS
<1> HIDE DEF t, u
<1>4. /\ u \o t \in Seq(Units) /\ Len(u \o t) = Len(u) + Len(t)
      /\ \A j \in 1..Len(u) : (u \o t)[j] = u[j]
      /\ \A j \in 1..Len(t) : (u \o t)[Len(u) + j] = t[j]
  <2>1. u \in Seq(Units) /\ t \in Seq(Units)
    BY <1>1, <1>2
  <2>2. QED
    BY <2>1, Concatenation
<1> DEFINE v == u \o t
<1>5. /\ v \in Seq(Units) /\ Len(v) = Len(u) + Len(t)
      /\ \A j \in 1..Len(u) : v[j] = u[j]
      /\ \A j \in 1..Len(t) : v[Len(u) + j] = t[j]
  BY <1>4
<1> HIDE DEF v
<1>6. Grown(w, h, b, k, v)
  <2>1. Len(v) = Len(w) + 1 + k /\ v \in Seq(Units)
    BY <1>1, <1>2, <1>3, <1>5
  <2>2. \A j \in 1..Len(w) : v[j] = w[j]
    BY <1>2, <1>3, <1>5
  <2>3. v[Len(w) + 1] = h
    BY <1>2, <1>3, <1>5
  <2>4. \A j \in 1..k : v[Len(w) + 1 + j] = b
    BY <1>1, <1>2, <1>5
  <2>5. QED
    BY <2>1, <2>2, <2>3, <2>4 DEF Grown
<1>7. QED
  BY <1>6 DEF v, u, t

(* Writing frame n, or its first k bytes, on a stream that is whole. *)
HeaderUnit(sent, n) == [kind |-> "header", frame |-> Len(sent) + 1, len |-> n]
ByteUnit(sent) == [kind |-> "byte", frame |-> Len(sent) + 1, len |-> 0]
Written(w, sent, n, k, cut, v) ==
    /\ w \in Seq(Units) /\ sent \in Seq(Nat) /\ n \in Nat /\ k \in 0..n
    /\ k = n \/ cut
    /\ WireInv(w, sent, FALSE)
    /\ Grown(w, HeaderUnit(sent, n), ByteUnit(sent), k, v)

LEMMA WireGrows ==
    ASSUME NEW w, NEW sent, NEW n, NEW k, NEW cut, NEW v, Written(w, sent, n, k, cut, v)
    PROVE  /\ v \in Seq(Units) /\ v # <<>>
           /\ IF w = <<>> THEN v[1] = HeaderUnit(sent, n) ELSE v[1] = w[1]
           /\ \A f \in 1..Len(sent) :
                Body(w, sent, FALSE, 0, f) => Body(v, Append(sent, n), cut, 0, f)
           /\ WireInv(v, Append(sent, n), cut)
<1> DEFINE more == Append(sent, n)
           L == Len(w)
           S == Len(sent)
           h == HeaderUnit(sent, n)
           b == ByteUnit(sent)
<1> USE DEF Written
<1>a. w \in Seq(Units) /\ sent \in Seq(Nat) /\ n \in Nat /\ k \in 0..n
  OBVIOUS
<1>b. k = n \/ cut
  OBVIOUS
<1>c. WireInv(w, sent, FALSE) /\ Grown(w, h, b, k, v)
  OBVIOUS
<1> HIDE DEF Written
<1>1. /\ L \in Nat /\ S \in Nat /\ more \in Seq(Nat) /\ Len(more) = S + 1 /\ more[S + 1] = n
      /\ \A f \in 1..S : more[f] = sent[f] /\ sent[f] \in Nat
  BY <1>a
<1>3. /\ h.kind = "header" /\ h.frame = S + 1 /\ h.len = n
      /\ b.kind = "byte" /\ b.frame = S + 1
  BY DEF HeaderUnit, ByteUnit
<1>4. /\ v \in Seq(Units) /\ Len(v) = L + 1 + k
      /\ \A j \in 1..L : v[j] = w[j]
      /\ v[L + 1] = h
      /\ \A j \in (L + 2)..(L + 1 + k) : v[j] = b
  <2>1. L \in Nat /\ k \in Nat
    BY <1>1, <1>a
  <2>2. /\ v \in Seq(Units) /\ Len(v) = L + 1 + k /\ v[L + 1] = h
        /\ \A j \in 1..L : v[j] = w[j]
        /\ \A j \in 1..k : v[L + 1 + j] = b
    BY <1>c DEF Grown
  <2> HIDE DEF L
  <2>3. ASSUME NEW j \in (L + 2)..(L + 1 + k) PROVE v[j] = b
    <3>1. j - (L + 1) \in 1..k /\ L + 1 + (j - (L + 1)) = j
      BY <2>1
    <3>2. QED
      BY <2>2, <3>1
  <2>4. QED
    BY <2>2, <2>3
<1> HIDE DEF more, L, S, h, b
<1>5. Len(w) = L /\ Len(sent) = S
  BY DEF L, S
<1>6. ASSUME NEW i \in 0..L, NEW f \in 1..S, Body(w, sent, FALSE, i, f)
      PROVE  Body(v, more, cut, i, f)
  <2> DEFINE z == sent[f]
  <2>1. z \in Nat /\ more[f] = z
    BY <1>1
  <2>2. /\ \A j \in 1..L : i < j /\ j <= i + z => IsByte(w, j, f)
        /\ \/ i + z < L /\ f < S /\ IsHeader(w, i + z + 1, f + 1)
           \/ i + z = L /\ f = S
    BY <1>5, <1>6 DEF Body
  <2> HIDE DEF z
  <2>3. i + z <= L
    BY <1>1, <2>1, <2>2
  <2>4. ASSUME NEW j \in 1..Len(v), i < j, j <= i + z PROVE IsByte(v, j, f)
    <3>1. j \in 1..L
      BY <1>1, <1>4, <2>1, <2>3, <2>4
    <3>2. QED
      BY <1>4, <2>2, <2>4, <3>1 DEF IsByte
  <2>5. i + z < Len(v) /\ f < Len(more)
    BY <1>1, <1>4, <1>a, <2>1, <2>3
  <2>6. IsHeader(v, i + z + 1, f + 1)
    <3>1. CASE i + z < L /\ IsHeader(w, i + z + 1, f + 1)
      <4>1. i + z + 1 \in 1..L
        BY <1>1, <2>1, <3>1
      <4>2. QED
        BY <1>4, <3>1, <4>1 DEF IsHeader
    <3>2. CASE i + z = L /\ f = S
      BY <1>3, <1>4, <3>2 DEF IsHeader
    <3>3. QED
      BY <2>2, <3>1, <3>2
  <2>7. QED
    BY <2>1, <2>4, <2>5, <2>6 DEF Body
<1>7. Body(v, more, cut, L + 1, S + 1)
  <2>1. ASSUME NEW j \in 1..Len(v), L + 1 < j, j <= L + 1 + n PROVE IsByte(v, j, S + 1)
    <3>1. j \in (L + 2)..(L + 1 + k)
      BY <1>1, <1>4, <1>a, <2>1
    <3>2. QED
      BY <1>3, <1>4, <3>1 DEF IsByte
  <2>2. S + 1 = Len(more) /\ more[S + 1] = n
    BY <1>1
  <2>3. \/ L + 1 + n = Len(v)
        \/ L + 1 + n > Len(v) /\ cut
    <3>1. k = n => L + 1 + n = Len(v)
      BY <1>1, <1>4, <1>a
    <3>2. k # n => L + 1 + n > Len(v)
      BY <1>1, <1>4, <1>a
    <3>3. QED
      BY <1>b, <3>1, <3>2
  <2>4. QED
    BY <2>1, <2>2, <2>3 DEF Body
<1>8. ASSUME NEW i \in 1..Len(v), v[i].kind = "header"
      PROVE  /\ v[i].frame \in 1..Len(more) /\ v[i].len = more[v[i].frame]
             /\ Body(v, more, cut, i, v[i].frame)
  <2>1. CASE i \in 1..L
    <3>1. v[i] = w[i] /\ i \in 0..L
      BY <1>1, <1>4, <2>1
    <3>2. /\ w[i].frame \in 1..S /\ w[i].len = sent[w[i].frame]
          /\ Body(w, sent, FALSE, i, w[i].frame)
      BY <1>5, <1>8, <1>c, <2>1, <3>1 DEF WireInv
    <3>3. w[i].frame \in 1..Len(more)
      <4>1. \A f \in 1..S : f \in 1..(S + 1)
        BY <1>1
      <4>2. QED
        BY <1>1, <3>2, <4>1
    <3>4. QED
      BY <1>1, <1>6, <3>1, <3>2, <3>3
  <2>2. CASE i = L + 1
    <3>1. v[i] = h /\ S + 1 \in 1..Len(more)
      BY <1>1, <1>4, <2>2
    <3>2. QED
      BY <1>1, <1>3, <1>7, <2>2, <3>1
  <2>3. CASE i \in (L + 2)..(L + 1 + k)
    BY <1>3, <1>4, <1>8, <2>3
  <2>4. QED
    BY <1>1, <1>4, <1>a, <2>1, <2>2, <2>3
<1>9. WireInv(v, more, cut)
  BY <1>8 DEF WireInv
<1>10. v # <<>>
  <2>1. Len(v) # 0
    BY <1>1, <1>4, <1>a
  <2>2. Len(<<>>) = 0
    OBVIOUS
  <2>3. QED
    BY <2>1, <2>2
<1>11. IF w = <<>> THEN v[1] = h ELSE v[1] = w[1]
  <2>1. CASE w = <<>>
    <3>1. L = 0
      BY <2>1 DEF L
    <3>2. QED
      BY <1>4, <2>1, <3>1
  <2>2. CASE w # <<>>
    <3>1. 1 \in 1..L
      <4>1. Len(w) \in Nat /\ Len(w) # 0
        BY <1>a, <2>2
      <4>2. QED
        BY <1>5, <4>1
    <3>2. QED
      BY <1>4, <2>2, <3>1
  <2>3. QED
    BY <2>1, <2>2
<1>12. \A f \in 1..S : Body(w, sent, FALSE, 0, f) => Body(v, more, cut, 0, f)
  <2>1. 0 \in 0..L
    BY <1>1
  <2>2. QED
    BY <1>6, <2>1
<1>13. QED
  BY <1>4, <1>5, <1>9, <1>10, <1>11, <1>12 DEF more, h


LEMMA FrameWritten ==
    ASSUME FrameInv, NEW n \in FrameSizes, WriteFrame(n)
    PROVE  FrameInv'
<1> DEFINE S == Len(sentFrames)
           h == HeaderUnit(sentFrames, n)
           b == ByteUnit(sentFrames)
<1>1. /\ n \in Nat /\ ~broken /\ sentFrames' = Append(sentFrames, n)
      /\ UNCHANGED <<memoryUsed, expecting, received, reading>>
  BY FrameAssumption DEF WriteFrame
<1>2. /\ FrameTypes /\ S \in Nat /\ sentFrames' \in Seq(Nat) /\ Len(sentFrames') = S + 1
      /\ \A i \in 1..S : sentFrames'[i] = sentFrames[i]
      /\ received \in Seq(Delivered) /\ Len(received) \in Nat /\ Len(received) <= S
  BY <1>1 DEF FrameInv, FrameTypes
<1>3. h \in Units /\ b \in Units
  BY <1>1, <1>2 DEF Units, HeaderUnit, ByteUnit
<1>4. PICK k \in 0..n : /\ wire' = wire \o <<h>> \o [i \in 1..k |-> b]
                        /\ k = n \/ broken'
  <2>1. CASE wire' = wire \o <<Header(n)>> \o [i \in 1..n |-> Byte]
    <3>1. n \in 0..n
      BY <1>1
    <3>2. QED
      BY <2>1, <3>1 DEF Header, Byte, HeaderUnit, ByteUnit
  <2>2. CASE (\E k \in 0..n : wire' = wire \o <<Header(n)>> \o [i \in 1..k |-> Byte]) /\ broken' = TRUE
    BY <2>2 DEF Header, Byte, HeaderUnit, ByteUnit
  <2>3. QED
    BY <2>1, <2>2 DEF WriteFrame
<1>5. Grown(wire, h, b, k, wire')
  <2>1. wire \in Seq(Units) /\ k \in Nat
    BY <1>1, <1>2 DEF FrameTypes
  <2>2. QED
    BY <1>3, <1>4, <2>1, FrameAppended
<1>6. wire' \in Seq(Units)
  BY <1>5 DEF Grown
<1>7. FrameTypes'
  BY <1>1, <1>2, <1>6 DEF FrameTypes
<1>8. \A i \in 1..Len(received) : Whole(received'[i], i, sentFrames'[i])
  <2>1. \A i \in 1..Len(received) : i \in 1..S
    BY <1>2
  <2>2. QED
    BY <1>1, <1>2, <2>1 DEF FrameInv
<1>9. ASSUME reading
      PROVE  /\ WireInv(wire', sentFrames', broken')
             /\ expecting = NoFrame => AtBoundary(wire', sentFrames', received)
             /\ expecting # NoFrame => InFrame(wire', sentFrames', broken', received, expecting)
  <2>1. /\ WireInv(wire, sentFrames, FALSE)
        /\ expecting = NoFrame => AtBoundary(wire, sentFrames, received)
        /\ expecting # NoFrame => InFrame(wire, sentFrames, FALSE, received, expecting)
    <3>1. WireInv(wire, sentFrames, broken) => WireInv(wire, sentFrames, FALSE)
      BY <1>1 DEF WireInv, Body
    <3>2. InFrame(wire, sentFrames, broken, received, expecting)
            => InFrame(wire, sentFrames, FALSE, received, expecting)
      BY <1>1 DEF InFrame, Body
    <3>3. QED
      BY <1>9, <3>1, <3>2 DEF FrameInv
  <2>2. wire \in Seq(Units) /\ sentFrames \in Seq(Nat)
    BY <1>2 DEF FrameTypes
  <2> HIDE DEF S
  <2>5. h.kind = "header" /\ h.frame = S + 1
    BY DEF S, HeaderUnit
  <2> HIDE DEF h, b
  <2>6. /\ wire' # <<>>
        /\ IF wire = <<>> THEN wire'[1] = h ELSE wire'[1] = wire[1]
        /\ \A f \in 1..S : Body(wire, sentFrames, FALSE, 0, f) => Body(wire', sentFrames', broken', 0, f)
        /\ WireInv(wire', sentFrames', broken')
    <3>1. n \in Nat /\ sentFrames' = Append(sentFrames, n) /\ Len(sentFrames) = S
      BY <1>1 DEF S
    <3>2. k \in 0..n /\ (k = n \/ broken')
      BY <1>4
    <3>3. WireInv(wire, sentFrames, FALSE)
      BY <2>1
    <3> DEFINE v == wire'
               cut == broken'
    <3>4. Written(wire, sentFrames, n, k, cut, v)
      BY <1>5, <2>2, <3>1, <3>2, <3>3 DEF Written, h, b
    <3> HIDE DEF v, cut
    <3>5. /\ v \in Seq(Units) /\ v # <<>>
          /\ IF wire = <<>> THEN v[1] = HeaderUnit(sentFrames, n) ELSE v[1] = wire[1]
          /\ \A f \in 1..Len(sentFrames) :
               Body(wire, sentFrames, FALSE, 0, f) => Body(v, Append(sentFrames, n), cut, 0, f)
          /\ WireInv(v, Append(sentFrames, n), cut)
      BY ONLY <3>4, WireGrows, Zenon
    <3>6. QED
      BY <3>1, <3>5 DEF v, cut, h
  <2>7. ASSUME expecting = NoFrame PROVE AtBoundary(wire', sentFrames', received)
    BY <2>1, <2>5, <2>6, <2>7 DEF AtBoundary, IsHeader, S
  <2>8. ASSUME expecting # NoFrame PROVE InFrame(wire', sentFrames', broken', received, expecting)
    <3>1. /\ Len(received) < S /\ expecting.frame = Len(received) + 1
          /\ expecting.len = sentFrames[Len(received) + 1]
          /\ Body(wire, sentFrames, FALSE, 0, Len(received) + 1)
      BY <2>1, <2>8 DEF InFrame, S
    <3>2. Len(received) + 1 \in 1..S /\ Len(received) < S + 1
      BY <1>2, <3>1
    <3>3. QED
      BY <1>2, <2>6, <3>1, <3>2 DEF InFrame
  <2>9. QED
    BY <2>6, <2>7, <2>8
<1>10. Len(received) <= Len(sentFrames')
  BY <1>2
<1>11. QED
  BY <1>1, <1>7, <1>8, <1>9, <1>10 DEF FrameInv

(* A frame is handed on: the next one is at the beginning of the wire. *)
HandedOn(r) == received' = Append(received, r)

LEMMA FrameDelivered ==
    ASSUME FrameInv, reading, NEW n \in 0..Len(wire), NEW k \in 0..n,
           NEW f \in 1..Len(sentFrames), f = Len(received) + 1, k + sentFrames[f] = n,
           Body(wire, sentFrames, broken, k, f), Take(n),
           NEW r \in Delivered, Whole(r, f, sentFrames[f]), HandedOn(r),
           expecting' = NoFrame, memoryUsed' = 0, UNCHANGED <<sentFrames, broken, reading>>
    PROVE  FrameInv'
<1>1. /\ wire \in Seq(Units) /\ sentFrames \in Seq(Nat) /\ received \in Seq(Delivered)
      /\ Len(wire) \in Nat /\ Len(received) \in Nat /\ Len(sentFrames) \in Nat
      /\ WireInv(wire, sentFrames, broken)
  BY DEF FrameInv, FrameTypes
<1>2. /\ wire' \in Seq(Units) /\ Len(wire') = Len(wire) - n
      /\ \A i \in 1..Len(wire') : wire'[i] = wire[i + n]
      /\ WireInv(wire', sentFrames, broken)
  BY <1>1, WireShifts DEF Take
<1>3. /\ received' \in Seq(Delivered) /\ Len(received') = f
      /\ received'[f] = r
      /\ \A i \in 1..Len(received) : received'[i] = received[i]
  BY <1>1 DEF HandedOn
<1>4. \A i \in 1..Len(received') : Whole(received'[i], i, sentFrames[i])
  <2>1. \A i \in 1..Len(received') : i \in 1..Len(received) \/ i = f
    BY <1>1, <1>3
  <2>2. QED
    BY <1>3, <2>1 DEF FrameInv
<1>5. AtBoundary(wire', sentFrames, received')
  <2>1. \/ n < Len(wire) /\ IsHeader(wire, n + 1, f + 1)
        \/ n = Len(wire) /\ f = Len(sentFrames)
    BY <1>1 DEF Body
  <2>2. CASE n < Len(wire) /\ IsHeader(wire, n + 1, f + 1)
    <3>1. 1 \in 1..Len(wire') /\ 1 + n = n + 1 /\ Len(wire') # 0
      BY <1>1, <1>2, <2>2
    <3>2. wire'[1] = wire[n + 1]
      BY <1>2, <3>1
    <3>3. wire' # <<>>
      BY <3>1
    <3>4. QED
      BY <1>3, <2>2, <3>2, <3>3 DEF AtBoundary, IsHeader
  <2>3. CASE n = Len(wire) /\ f = Len(sentFrames)
    <3>1. Len(wire') = 0
      BY <1>1, <1>2, <2>3
    <3>2. wire' = <<>>
      BY <1>2, <3>1
    <3>3. QED
      BY <1>3, <2>3, <3>2 DEF AtBoundary
  <2>4. QED
    BY <2>1, <2>2, <2>3
<1>6. FrameTypes'
  BY <1>1, <1>2, <1>3 DEF FrameTypes
<1>7. Len(received') <= Len(sentFrames)
  BY <1>1, <1>3
<1>8. QED
  BY <1>2, <1>4, <1>5, <1>6, <1>7 DEF FrameInv


LEMMA WireTaken ==
    ASSUME FrameTypes, NEW n \in Nat, Take(n)
    PROVE  wire' \in Seq(Units)
<1>1. wire \in Seq(Units) /\ Len(wire) \in Nat
  BY DEF FrameTypes
<1>2. CASE n <= Len(wire)
  BY <1>1, <1>2 DEF Take
<1>3. CASE n > Len(wire)
  <2>1. SubSeq(wire, n + 1, Len(wire)) = <<>>
    BY <1>1, <1>3, SubSeqEmpty
  <2>2. wire' = <<>>
    BY <2>1, Zenon DEF Take
  <2>3. QED
    BY <2>2
<1>4. QED
  BY <1>1, <1>2, <1>3

(* The loop ends: only what it has handed on still counts. *)
LEMMA ReadingEnds ==
    ASSUME FrameInv, wire' \in Seq(Units), reading' = FALSE, UNCHANGED <<received, sentFrames>>,
           \/ UNCHANGED <<memoryUsed, expecting>>
           \/ memoryUsed' = 0 /\ expecting' = NoFrame
    PROVE  FrameInv'
<1>1. FrameTypes'
  BY DEF FrameInv, FrameTypes
<1>2. QED
  BY <1>1 DEF FrameInv, NoFrame

(* What the loop knows of the unit it reads as a header. *)
LEMMA HeaderNext ==
    ASSUME FrameInv, reading, wire # <<>>, expecting = NoFrame
    PROVE  LET f == Len(received) + 1 IN
           /\ f \in 1..Len(sentFrames) /\ 1 \in 0..Len(wire)
           /\ wire[1] \in Units /\ wire[1].kind = "header" /\ wire[1].frame = f
           /\ wire[1].len = sentFrames[f] /\ LengthOf(wire[1]) = sentFrames[f]
           /\ Body(wire, sentFrames, broken, 1, f)
<1> DEFINE f == Len(received) + 1
<1>1. wire \in Seq(Units) /\ Len(wire) \in Nat /\ Len(wire) # 0
  BY DEF FrameInv, FrameTypes
<1>2. 1 \in 1..Len(wire) /\ 1 \in 0..Len(wire)
  BY <1>1
<1>3. wire[1] \in Units
  BY <1>1, <1>2
<1>4. WireInv(wire, sentFrames, broken) /\ AtBoundary(wire, sentFrames, received)
  BY DEF FrameInv
<1>5. wire[1].kind = "header" /\ wire[1].frame = f
  BY <1>4 DEF AtBoundary, IsHeader
<1>6. /\ wire[1].frame \in 1..Len(sentFrames) /\ wire[1].len = sentFrames[wire[1].frame]
      /\ Body(wire, sentFrames, broken, 1, wire[1].frame)
  BY <1>2, <1>4, <1>5 DEF WireInv
<1>7. QED
  BY <1>2, <1>3, <1>5, <1>6 DEF LengthOf

LEMMA FrameRead ==
    ASSUME FrameInv, ReadFrame
    PROVE  FrameInv'
<1>1. reading /\ UNCHANGED <<sentFrames, broken>> /\ FrameTypes
  BY DEF ReadFrame, FrameInv
<1>2. CASE ReadEOF
  <2>1. wire' \in Seq(Units)
    BY <1>1, <1>2 DEF ReadEOF, FrameTypes
  <2>2. QED
    BY <1>1, <1>2, <2>1, ReadingEnds DEF ReadEOF, ReadFails
<1>3. CASE ReadPayload
  <2> DEFINE n == expecting.len
             f == Len(received) + 1
  <2>1. /\ expecting # NoFrame /\ memoryUsed' = memoryUsed - n /\ expecting' = NoFrame /\ Take(n)
        /\ memoryUsed = n
    BY <1>3 DEF ReadPayload, FrameInv
  <2>2. n \in Nat /\ memoryUsed' = 0
    BY <1>1, <2>1 DEF FrameTypes, Units
  <2>3. CASE Len(wire) >= n
    <3> DEFINE r == [frame |-> expecting.frame, bytes |-> SubSeq(wire, 1, n)]
    <3>1. HandedOn(r) /\ UNCHANGED reading
      BY <1>3, <2>3 DEF ReadPayload, HandedOn
    <3>2. InFrame(wire, sentFrames, broken, received, expecting)
      BY <1>1, <2>1 DEF FrameInv
    <3>3. /\ Len(received) < Len(sentFrames) /\ expecting.frame = f /\ n = sentFrames[f]
          /\ Body(wire, sentFrames, broken, 0, f)
      BY <3>2 DEF InFrame
    <3>4. /\ Len(received) \in Nat /\ Len(sentFrames) \in Nat /\ Len(wire) \in Nat
          /\ wire \in Seq(Units)
      BY <1>1 DEF FrameTypes
    <3>5. f \in 1..Len(sentFrames) /\ n \in 0..Len(wire) /\ 0 \in 0..n /\ 0 + sentFrames[f] = n
      BY <2>2, <2>3, <3>3, <3>4
    <3>6. /\ SubSeq(wire, 1, n) \in Seq(Units) /\ Len(SubSeq(wire, 1, n)) = n
          /\ \A j \in 1..n : SubSeq(wire, 1, n)[j] = wire[j]
      BY <3>4, <3>5
    <3>7. r \in Delivered
      BY <3>3, <3>4, <3>6 DEF Delivered
    <3>8. \A j \in 1..n : IsByte(wire, j, f)
      <4>1. \A j \in 1..n : j \in 1..Len(wire) /\ 0 < j /\ j <= 0 + n
        BY <2>2, <3>4, <3>5
      <4>2. QED
        BY <3>3, <4>1 DEF Body
    <3>9. Whole(r, f, sentFrames[f])
      BY <3>3, <3>6, <3>8 DEF Whole, IsByte
    <3>10. QED
      BY <1>1, <2>1, <2>2, <3>1, <3>3, <3>5, <3>7, <3>9, FrameDelivered
  <2>4. CASE ~(Len(wire) >= n)
    <3>1. reading' = FALSE /\ UNCHANGED received
      BY <1>3, <2>4 DEF ReadPayload
    <3>2. wire' \in Seq(Units)
      BY <1>1, <2>1, <2>2, WireTaken
    <3>3. QED
      BY <1>1, <2>1, <2>2, <3>1, <3>2, ReadingEnds
  <2>5. QED
    BY <2>3, <2>4
<1>4. ASSUME wire # <<>>, expecting = NoFrame, NEW n, n = LengthOf(wire[1]),
             ReadOversized(n) \/ ReadEmpty(n) \/ ReadOverBudget(n) \/ ReadHeader(n)
      PROVE  FrameInv'
  <2> DEFINE f == Len(received) + 1
  <2>1. /\ f \in 1..Len(sentFrames) /\ 1 \in 0..Len(wire)
        /\ wire[1] \in Units /\ wire[1].kind = "header" /\ wire[1].frame = f
        /\ wire[1].len = n /\ n = sentFrames[f]
        /\ Body(wire, sentFrames, broken, 1, f)
    BY <1>1, <1>4, HeaderNext
  <2>2. n \in Nat /\ memoryUsed = 0 /\ MaxFrameSize + 1 \in Nat /\ n + 1 \in Nat
    BY <1>4, <2>1, FrameAssumption DEF Units, FrameInv
  <2>3. CASE ReadOversized(n) \/ ReadOverBudget(n)
    <3>1. wire' \in Seq(Units)
      BY <1>1, <2>2, <2>3, WireTaken DEF ReadOversized, ReadOverBudget
    <3>2. QED
      BY <1>1, <2>3, <3>1, ReadingEnds DEF ReadOversized, ReadOverBudget, ReadFails
  <2>4. CASE ReadEmpty(n)
    <3> DEFINE r == [frame |-> wire[1].frame, bytes |-> <<>>]
    <3>1. /\ n = 0 /\ Take(1) /\ HandedOn(r) /\ expecting' = NoFrame /\ memoryUsed' = 0
          /\ UNCHANGED reading
      BY <1>4, <2>2, <2>4 DEF ReadEmpty, HandedOn
    <3>2. <<>> \in Seq(Units) /\ Len(<<>>) = 0 /\ f \in Nat
      BY <2>1 DEF Units
    <3>3. r \in Delivered /\ Whole(r, f, sentFrames[f])
      BY <2>1, <3>1, <3>2 DEF Delivered, Whole
    <3>4. 1 \in 0..1 /\ 1 + sentFrames[f] = 1
      BY <2>1, <3>1
    <3>5. QED
      BY <1>1, <2>1, <3>1, <3>3, <3>4, FrameDelivered
  <2>5. CASE ReadHeader(n)
    <3>1. /\ memoryUsed' = n /\ expecting' = wire[1] /\ Take(1) /\ UNCHANGED <<reading, received>>
      BY <2>2, <2>5 DEF ReadHeader
    <3>2. wire \in Seq(Units) /\ sentFrames \in Seq(Nat) /\ WireInv(wire, sentFrames, broken)
      BY <1>1 DEF FrameInv, FrameTypes
    <3>3. /\ wire' \in Seq(Units) /\ Body(wire', sentFrames, broken, 0, f)
          /\ WireInv(wire', sentFrames, broken)
      BY <2>1, <3>1, <3>2, WireShifts DEF Take
    <3>4. expecting' # NoFrame
      BY <2>1, <3>1 DEF NoFrame
    <3>5. FrameTypes'
      BY <1>1, <2>1, <2>2, <3>1, <3>3 DEF FrameTypes
    <3>6. Len(received) < Len(sentFrames)
      <4>1. Len(received) \in Nat /\ Len(sentFrames) \in Nat
        BY <1>1 DEF FrameTypes
      <4>2. QED
        BY <2>1, <4>1
    <3>7. InFrame(wire', sentFrames, broken, received, wire[1])
      BY <2>1, <3>3, <3>6 DEF InFrame
    <3>8. QED
      BY <1>1, <2>1, <3>1, <3>3, <3>4, <3>5, <3>7 DEF FrameInv
  <2>6. QED
    BY <1>4, <2>3, <2>4, <2>5
<1>5. QED
  BY <1>2, <1>3, <1>4 DEF ReadFrame

(* The theorem of the control stream, for every budget, frame size limit   *)
(* and sequence of frames.                                                 *)
LEMMA FrameGivesSafety == FrameInv => FramesStayWhole
<1> SUFFICES ASSUME FrameInv PROVE FramesStayWhole
  OBVIOUS
<1>1. expecting = NoFrame => memoryUsed = 0
  BY DEF FrameInv
<1>2. \A i \in 1..Len(received) : Whole(received[i], i, sentFrames[i])
  BY DEF FrameInv
<1>3. QED
  BY <1>1, <1>2 DEF FramesStayWhole, Whole, IsByte


-----------------------------------------------------------------------------
(***************************************************************************)
(* Connections                                                             *)
(***************************************************************************)

(* What a chain holds before each of its steps, and at the end. *)
Pipes == {"tcp", "client", "session", "stdin"}
Holds == [
    DialSSH |-> <<{}, {"tcp"}, {"tcp", "client"}, {"tcp", "client", "session"}, Pipes, Pipes, Pipes>>,
    DialSSHTunnel |-> <<{}, {"tcp"}, {"tcp", "client"}, {"tcp", "client", "forward"}>>,
    DialProxy |-> <<{}, {"tcp"}, {"tcp"}, {"tcp"}, {"tcp"}, {"tcp"}>>,
    DialHTTPS |-> <<{}, {"tcp"}, {"tcp", "tls"}>>,
    Deploy |-> <<{}, {"tcp"}, {"tcp", "client"}, {"tcp", "client", "sftp"},
                 {"tcp", "client", "sftp", "file"}, {"tcp", "client", "sftp"},
                 {"tcp", "client"}, {"tcp", "client", "session"}, Pipes, Pipes, Pipes, Pipes, Pipes>>,
    upgradeOverSSH |-> <<{}, {"tcp"}, {"tcp", "client"}, {"tcp", "client", "sftp"},
                 {"tcp", "client", "sftp", "file"}, {"tcp", "client", "sftp"},
                 {"tcp", "client"}, {"tcp", "client"}, {}>>,
    Upgrade |-> <<{}, {"tls"}, {"tls", "zstd"}, {"tls", "zstd", "yamux"},
                  {"tls", "zstd", "yamux", "control"}>>,
    UpgradeDual |-> <<{}, {"tls"}, {"tls", "tls2"}, {"tls", "tls2", "zstd"},
                      {"tls", "tls2", "zstd", "zstd2"}, {"tls", "tls2", "zstd", "zstd2", "yamux2"}>>]

(* Step i of the chain s takes the chain from what the table h says to the *)
(* next line of it, and its error path releases all that is held.          *)
StepFits(h, s, i) == h[i + 1] = (h[i] \cup s[i].get) \ s[i].give
StepReleases(h, s, i) == h[i] \subseteq CloseAll(s[i].undo)
ChainFits(c, h, s) ==
    /\ Len(s) \in Nat \ {0} /\ h[1] = {}
    /\ \A i \in 1..Len(s) :
         StepFits(h, s, i) /\ (StepReleases(h, s, i) \/ (c = "DialProxy" /\ i = BodyStep))
    /\ h[Len(s) + 1] \subseteq CloseAll(CloseOf(c))


LEMMA ClosedBy ==
    /\ Closes("tcp") = {"tcp"} /\ Closes("tls2") = {"tls2"} /\ Closes("stdin") = {"stdin"}
    /\ Closes("file") = {"file"} /\ Closes("forward") = {"forward"} /\ Closes("control") = {"control"}
    /\ Closes("session") = {"session", "stdin"} /\ Closes("sftp") = {"sftp", "file"}
    /\ Closes("client") = {"client", "tcp", "session", "stdin", "sftp", "file", "forward"}
    /\ Closes("tls") = {"tls", "tcp"} /\ Closes("zstd") = {"zstd", "tls", "tcp"}
    /\ Closes("yamux") = {"yamux", "control", "zstd", "tls", "tcp"}
    /\ Closes("zstd2") = {"zstd2", "tls2"} /\ Closes("yamux2") = {"yamux2", "zstd2", "tls2"}
  BY DEF Closes, BuiltOn

LEMMA DialSSHFits == ChainFits("DialSSH", Holds["DialSSH"], Chains["DialSSH"])
<1> DEFINE h == Holds["DialSSH"]
           s == Chains["DialSSH"]
<1>1. s = DialSSH /\ Len(s) = 6 /\ h[1] = {}
  BY DEF Chains, DialSSH, Holds
<1>2. /\ StepFits(h, s, 1) /\ StepFits(h, s, 2) /\ StepFits(h, s, 3)
      /\ StepFits(h, s, 4) /\ StepFits(h, s, 5) /\ StepFits(h, s, 6)
  BY <1>1 DEF StepFits, DialSSH, Holds, ConnStep, Pipes, SSHPipes
<1>3. /\ StepReleases(h, s, 1) /\ StepReleases(h, s, 2) /\ StepReleases(h, s, 3)
      /\ StepReleases(h, s, 4) /\ StepReleases(h, s, 5) /\ StepReleases(h, s, 6)
  BY <1>1, ClosedBy DEF StepReleases, DialSSH, Holds, ConnStep, Pipes, SSHPipes, CloseAll
<1>4. h[7] \subseteq CloseAll(CloseOf("DialSSH"))
  BY ClosedBy DEF CloseAll, CloseOf, Holds, SSHPipes, Pipes
<1> HIDE DEF h, s
<1>5. \A i \in 1..6 : i = 1 \/ i = 2 \/ i = 3 \/ i = 4 \/ i = 5 \/ i = 6
  OBVIOUS
<1>6. \A i \in 1..6 : StepFits(h, s, i)
  BY <1>2, <1>5
<1>7. \A i \in 1..6 : StepReleases(h, s, i)
  BY <1>3, <1>5
<1>8. ChainFits("DialSSH", h, s)
  BY <1>1, <1>4, <1>6, <1>7 DEF ChainFits
<1>9. QED
  BY <1>8 DEF h, s

LEMMA DialSSHTunnelFits == ChainFits("DialSSHTunnel", Holds["DialSSHTunnel"], Chains["DialSSHTunnel"])
<1> DEFINE h == Holds["DialSSHTunnel"]
           s == Chains["DialSSHTunnel"]
<1>1. s = DialSSHTunnel /\ Len(s) = 3 /\ h[1] = {}
  BY DEF Chains, DialSSHTunnel, Holds
<1>2. /\ StepFits(h, s, 1) /\ StepFits(h, s, 2) /\ StepFits(h, s, 3)
  BY <1>1 DEF StepFits, DialSSHTunnel, Holds, ConnStep, Pipes, SSHPipes
<1>3. /\ StepReleases(h, s, 1) /\ StepReleases(h, s, 2) /\ StepReleases(h, s, 3)
  BY <1>1, ClosedBy DEF StepReleases, DialSSHTunnel, Holds, ConnStep, Pipes, SSHPipes, CloseAll
<1>4. h[4] \subseteq CloseAll(CloseOf("DialSSHTunnel"))
  BY ClosedBy DEF CloseAll, CloseOf, Holds, SSHPipes, Pipes
<1> HIDE DEF h, s
<1>5. \A i \in 1..3 : i = 1 \/ i = 2 \/ i = 3
  OBVIOUS
<1>6. \A i \in 1..3 : StepFits(h, s, i)
  BY <1>2, <1>5
<1>7. \A i \in 1..3 : StepReleases(h, s, i)
  BY <1>3, <1>5
<1>8. ChainFits("DialSSHTunnel", h, s)
  BY <1>1, <1>4, <1>6, <1>7 DEF ChainFits
<1>9. QED
  BY <1>8 DEF h, s

LEMMA DialProxyFits == ChainFits("DialProxy", Holds["DialProxy"], Chains["DialProxy"])
<1> DEFINE h == Holds["DialProxy"]
           s == Chains["DialProxy"]
<1>1. s = DialProxy /\ Len(s) = 5 /\ h[1] = {}
  BY DEF Chains, DialProxy, Holds
<1>2. /\ StepFits(h, s, 1) /\ StepFits(h, s, 2) /\ StepFits(h, s, 3)
      /\ StepFits(h, s, 4) /\ StepFits(h, s, 5)
  BY <1>1 DEF StepFits, DialProxy, Holds, ConnStep, Pipes, SSHPipes
<1>3. /\ StepReleases(h, s, 1) /\ StepReleases(h, s, 2) /\ StepReleases(h, s, 3)
      /\ StepReleases(h, s, 5)
  BY <1>1, ClosedBy DEF StepReleases, DialProxy, Holds, ConnStep, Pipes, SSHPipes, CloseAll
<1>4. h[6] \subseteq CloseAll(CloseOf("DialProxy"))
  BY ClosedBy DEF CloseAll, CloseOf, Holds, SSHPipes, Pipes
<1> HIDE DEF h, s
<1>5. \A i \in 1..5 : i = 1 \/ i = 2 \/ i = 3 \/ i = 4 \/ i = 5
  OBVIOUS
<1>6. \A i \in 1..5 : StepFits(h, s, i)
  BY <1>2, <1>5
<1>7. \A i \in 1..5 : StepReleases(h, s, i) \/ i = BodyStep
  BY <1>3, <1>5 DEF BodyStep
<1>8. ChainFits("DialProxy", h, s)
  BY <1>1, <1>4, <1>6, <1>7 DEF ChainFits
<1>9. QED
  BY <1>8 DEF h, s

LEMMA DialHTTPSFits == ChainFits("DialHTTPS", Holds["DialHTTPS"], Chains["DialHTTPS"])
<1> DEFINE h == Holds["DialHTTPS"]
           s == Chains["DialHTTPS"]
<1>1. s = DialHTTPS /\ Len(s) = 2 /\ h[1] = {}
  BY DEF Chains, DialHTTPS, Holds
<1>2. /\ StepFits(h, s, 1) /\ StepFits(h, s, 2)
  BY <1>1 DEF StepFits, DialHTTPS, Holds, ConnStep, Pipes, SSHPipes
<1>3. /\ StepReleases(h, s, 1) /\ StepReleases(h, s, 2)
  BY <1>1, ClosedBy DEF StepReleases, DialHTTPS, Holds, ConnStep, Pipes, SSHPipes, CloseAll
<1>4. h[3] \subseteq CloseAll(CloseOf("DialHTTPS"))
  BY ClosedBy DEF CloseAll, CloseOf, Holds, SSHPipes, Pipes
<1> HIDE DEF h, s
<1>5. \A i \in 1..2 : i = 1 \/ i = 2
  OBVIOUS
<1>6. \A i \in 1..2 : StepFits(h, s, i)
  BY <1>2, <1>5
<1>7. \A i \in 1..2 : StepReleases(h, s, i)
  BY <1>3, <1>5
<1>8. ChainFits("DialHTTPS", h, s)
  BY <1>1, <1>4, <1>6, <1>7 DEF ChainFits
<1>9. QED
  BY <1>8 DEF h, s

LEMMA DeployFits == ChainFits("Deploy", Holds["Deploy"], Chains["Deploy"])
<1> DEFINE h == Holds["Deploy"]
           s == Chains["Deploy"]
<1>1. s = Deploy /\ Len(s) = 12 /\ h[1] = {}
  BY DEF Chains, Deploy, SFTPUpload, Holds
<1>2. /\ StepFits(h, s, 1) /\ StepFits(h, s, 2) /\ StepFits(h, s, 3)
      /\ StepFits(h, s, 4) /\ StepFits(h, s, 5) /\ StepFits(h, s, 6)
      /\ StepFits(h, s, 7) /\ StepFits(h, s, 8) /\ StepFits(h, s, 9)
      /\ StepFits(h, s, 10) /\ StepFits(h, s, 11) /\ StepFits(h, s, 12)
  BY <1>1 DEF StepFits, Deploy, SFTPUpload, Holds, ConnStep, Pipes, SSHPipes
<1>3. /\ StepReleases(h, s, 1) /\ StepReleases(h, s, 2) /\ StepReleases(h, s, 3)
      /\ StepReleases(h, s, 4) /\ StepReleases(h, s, 5) /\ StepReleases(h, s, 6)
      /\ StepReleases(h, s, 7) /\ StepReleases(h, s, 8) /\ StepReleases(h, s, 9)
      /\ StepReleases(h, s, 10) /\ StepReleases(h, s, 11) /\ StepReleases(h, s, 12)
  BY <1>1, ClosedBy DEF StepReleases, Deploy, SFTPUpload, Holds, ConnStep, Pipes, SSHPipes, CloseAll
<1>4. h[13] \subseteq CloseAll(CloseOf("Deploy"))
  BY ClosedBy DEF CloseAll, CloseOf, Holds, SSHPipes, Pipes
<1> HIDE DEF h, s
<1>5. \A i \in 1..12 : \/ i = 1 \/ i = 2 \/ i = 3 \/ i = 4 \/ i = 5 \/ i = 6
                      \/ i = 7 \/ i = 8 \/ i = 9 \/ i = 10 \/ i = 11 \/ i = 12
  OBVIOUS
<1>6. \A i \in 1..12 : StepFits(h, s, i)
  BY <1>2, <1>5
<1>7. \A i \in 1..12 : StepReleases(h, s, i)
  BY <1>3, <1>5
<1>8. ChainFits("Deploy", h, s)
  BY <1>1, <1>4, <1>6, <1>7 DEF ChainFits
<1>9. QED
  BY <1>8 DEF h, s

LEMMA UpgradeOverSSHFits == ChainFits("upgradeOverSSH", Holds["upgradeOverSSH"], Chains["upgradeOverSSH"])
<1> DEFINE h == Holds["upgradeOverSSH"]
           s == Chains["upgradeOverSSH"]
<1>1. s = upgradeOverSSH /\ Len(s) = 8 /\ h[1] = {}
  BY DEF Chains, upgradeOverSSH, SFTPUpload, Holds
<1>2. /\ StepFits(h, s, 1) /\ StepFits(h, s, 2) /\ StepFits(h, s, 3)
      /\ StepFits(h, s, 4) /\ StepFits(h, s, 5) /\ StepFits(h, s, 6)
      /\ StepFits(h, s, 7) /\ StepFits(h, s, 8)
  BY <1>1 DEF StepFits, upgradeOverSSH, SFTPUpload, Holds, ConnStep, Pipes, SSHPipes
<1>3. /\ StepReleases(h, s, 1) /\ StepReleases(h, s, 2) /\ StepReleases(h, s, 3)
      /\ StepReleases(h, s, 4) /\ StepReleases(h, s, 5) /\ StepReleases(h, s, 6)
      /\ StepReleases(h, s, 7) /\ StepReleases(h, s, 8)
  BY <1>1, ClosedBy DEF StepReleases, upgradeOverSSH, SFTPUpload, Holds, ConnStep, Pipes, SSHPipes, CloseAll
<1>4. h[9] \subseteq CloseAll(CloseOf("upgradeOverSSH"))
  BY ClosedBy DEF CloseAll, CloseOf, Holds, SSHPipes, Pipes
<1> HIDE DEF h, s
<1>5. \A i \in 1..8 : i = 1 \/ i = 2 \/ i = 3 \/ i = 4 \/ i = 5 \/ i = 6 \/ i = 7 \/ i = 8
  OBVIOUS
<1>6. \A i \in 1..8 : StepFits(h, s, i)
  BY <1>2, <1>5
<1>7. \A i \in 1..8 : StepReleases(h, s, i)
  BY <1>3, <1>5
<1>8. ChainFits("upgradeOverSSH", h, s)
  BY <1>1, <1>4, <1>6, <1>7 DEF ChainFits
<1>9. QED
  BY <1>8 DEF h, s

LEMMA UpgradeFits == ChainFits("Upgrade", Holds["Upgrade"], Chains["Upgrade"])
<1> DEFINE h == Holds["Upgrade"]
           s == Chains["Upgrade"]
<1>1. s = Upgrade /\ Len(s) = 4 /\ h[1] = {}
  BY DEF Chains, Upgrade, Holds
<1>2. /\ StepFits(h, s, 1) /\ StepFits(h, s, 2) /\ StepFits(h, s, 3)
      /\ StepFits(h, s, 4)
  BY <1>1 DEF StepFits, Upgrade, Holds, ConnStep, Pipes, SSHPipes
<1>3. /\ StepReleases(h, s, 1) /\ StepReleases(h, s, 2) /\ StepReleases(h, s, 3)
      /\ StepReleases(h, s, 4)
  BY <1>1, ClosedBy DEF StepReleases, Upgrade, Holds, ConnStep, Pipes, SSHPipes, CloseAll
<1>4. h[5] \subseteq CloseAll(CloseOf("Upgrade"))
  BY ClosedBy DEF CloseAll, CloseOf, Holds, SSHPipes, Pipes
<1> HIDE DEF h, s
<1>5. \A i \in 1..4 : i = 1 \/ i = 2 \/ i = 3 \/ i = 4
  OBVIOUS
<1>6. \A i \in 1..4 : StepFits(h, s, i)
  BY <1>2, <1>5
<1>7. \A i \in 1..4 : StepReleases(h, s, i)
  BY <1>3, <1>5
<1>8. ChainFits("Upgrade", h, s)
  BY <1>1, <1>4, <1>6, <1>7 DEF ChainFits
<1>9. QED
  BY <1>8 DEF h, s

LEMMA UpgradeDualFits == ChainFits("UpgradeDual", Holds["UpgradeDual"], Chains["UpgradeDual"])
<1> DEFINE h == Holds["UpgradeDual"]
           s == Chains["UpgradeDual"]
<1>1. s = UpgradeDual /\ Len(s) = 5 /\ h[1] = {}
  BY DEF Chains, UpgradeDual, Holds
<1>2. /\ StepFits(h, s, 1) /\ StepFits(h, s, 2) /\ StepFits(h, s, 3)
      /\ StepFits(h, s, 4) /\ StepFits(h, s, 5)
  BY <1>1 DEF StepFits, UpgradeDual, Holds, ConnStep, Pipes, SSHPipes
<1>3. /\ StepReleases(h, s, 1) /\ StepReleases(h, s, 2) /\ StepReleases(h, s, 3)
      /\ StepReleases(h, s, 4) /\ StepReleases(h, s, 5)
  BY <1>1, ClosedBy DEF StepReleases, UpgradeDual, Holds, ConnStep, Pipes, SSHPipes, CloseAll
<1>4. h[6] \subseteq CloseAll(CloseOf("UpgradeDual"))
  BY ClosedBy DEF CloseAll, CloseOf, Holds, SSHPipes, Pipes
<1> HIDE DEF h, s
<1>5. \A i \in 1..5 : i = 1 \/ i = 2 \/ i = 3 \/ i = 4 \/ i = 5
  OBVIOUS
<1>6. \A i \in 1..5 : StepFits(h, s, i)
  BY <1>2, <1>5
<1>7. \A i \in 1..5 : StepReleases(h, s, i)
  BY <1>3, <1>5
<1>8. ChainFits("UpgradeDual", h, s)
  BY <1>1, <1>4, <1>6, <1>7 DEF ChainFits
<1>9. QED
  BY <1>8 DEF h, s

LEMMA ChainsFit == \A c \in DOMAIN Chains : ChainFits(c, Holds[c], Chains[c])
<1>1. DOMAIN Chains = {"DialSSH", "DialSSHTunnel", "DialProxy", "DialHTTPS", "Deploy",
                       "upgradeOverSSH", "Upgrade", "UpgradeDual"}
  BY DEF Chains
<1>2. QED
  BY <1>1, DialSSHFits, DialSSHTunnelFits, DialProxyFits, DialHTTPSFits, DeployFits,
     UpgradeOverSSHFits, UpgradeFits, UpgradeDualFits

(* A running chain holds what the table says; a finished one has released  *)
(* it.                                                                     *)
ConnInv ==
    /\ chain \in DOMAIN Chains \cup {""}
    /\ chain # "" /\ outcome = "none" =>
         at \in 1..Len(Chains[chain]) /\ held = Holds[chain][at]
    /\ chain # "" /\ outcome = "open" => held = Holds[chain][Len(Chains[chain]) + 1]
    /\ NothingStaysOpen

LEMMA ConnInitInv == ConnInit => ConnInv
  BY DEF ConnInit, ConnInv, NothingStaysOpen

LEMMA ConnSteps ==
    ASSUME ConnInv, ConnNext
    PROVE  ConnInv'
<1>1. ASSUME NEW c \in DOMAIN Chains, Begin(c) PROVE ConnInv'
  <2>1. ChainFits(c, Holds[c], Chains[c])
    BY ChainsFit
  <2>2. 1 \in 1..Len(Chains[c]) /\ Holds[c][1] = {}
    BY <2>1 DEF ChainFits
  <2>3. QED
    BY <1>1, <2>2 DEF Begin, ConnInv, NothingStaysOpen
<1>2. ASSUME chain # "" PROVE ChainFits(chain, Holds[chain], Chains[chain])
  BY <1>2, ChainsFit DEF ConnInv
<1>3. CASE StepSucceeds
  <2>1. /\ chain # "" /\ chain' = chain /\ at \in 1..Len(Chains[chain]) /\ at' = at + 1
        /\ held = Holds[chain][at]
        /\ held' = (held \cup Chains[chain][at].get) \ Chains[chain][at].give
        /\ outcome' = IF at = Len(Chains[chain]) THEN "open" ELSE "none"
    BY <1>3 DEF StepSucceeds, ConnInv, Steps
  <2>2. Len(Chains[chain]) \in Nat /\ held' = Holds[chain][at + 1]
    BY <1>2, <2>1 DEF ChainFits, StepFits
  <2>3. at # Len(Chains[chain]) => at + 1 \in 1..Len(Chains[chain])
    <3> DEFINE n == Len(Chains[chain])
    <3>1. at \in 1..n /\ n \in Nat
      BY <2>1, <2>2
    <3> HIDE DEF n
    <3>2. at # n => at + 1 \in 1..n
      BY <3>1
    <3>3. QED
      BY <3>2 DEF n
  <2>4. QED
    BY <2>1, <2>2, <2>3 DEF ConnInv, NothingStaysOpen
<1>4. CASE ConnStepFails
  <2>1. /\ chain # "" /\ chain' = chain /\ at \in 1..Len(Chains[chain]) /\ at' = at
        /\ held = Holds[chain][at] /\ held' = held \ CloseAll(Chains[chain][at].undo)
        /\ outcome' = "failed"
    BY <1>4 DEF ConnStepFails, ConnInv, Steps
  <2>2. \/ held \subseteq CloseAll(Chains[chain][at].undo)
        \/ chain = "DialProxy" /\ at = BodyStep
    BY <1>2, <2>1 DEF ChainFits, StepReleases
  <2>3. held' = {} \/ (chain = "DialProxy" /\ at = BodyStep)
    BY <2>1, <2>2
  <2>4. QED
    BY <2>1, <2>3 DEF ConnInv, NothingStaysOpen
<1>5. CASE CloseConnection
  <2>1. /\ chain # "" /\ chain' = chain /\ outcome' = "closed"
        /\ held = Holds[chain][Len(Chains[chain]) + 1] /\ held' = held \ CloseAll(CloseOf(chain))
    BY <1>5 DEF CloseConnection, ConnInv
  <2>2. held \subseteq CloseAll(CloseOf(chain))
    BY <1>2, <2>1 DEF ChainFits
  <2>3. held' = {}
    BY <2>1, <2>2
  <2>4. QED
    BY <2>1, <2>3 DEF ConnInv, NothingStaysOpen
<1>6. CASE Done
  BY <1>6 DEF Done, ConnInv, NothingStaysOpen
<1>7. QED
  BY <1>1, <1>3, <1>4, <1>5, <1>6 DEF ConnNext

-----------------------------------------------------------------------------
(***************************************************************************)
(* The link as a whole                                                     *)
(***************************************************************************)
LinksInv == FrameInv /\ MembraneInv /\ ConnInv

LEMMA FrameStays ==
    ASSUME FrameInv, UNCHANGED frameVars
    PROVE  FrameInv'
<1>1. /\ wire' = wire /\ sentFrames' = sentFrames /\ broken' = broken /\ memoryUsed' = memoryUsed
      /\ expecting' = expecting /\ received' = received /\ reading' = reading
  BY DEF frameVars
<1>2. QED
  BY <1>1 DEF FrameInv, FrameTypes

LEMMA MembraneStays ==
    ASSUME MembraneInv, UNCHANGED membraneVars
    PROVE  MembraneInv'
<1>1. PairInv'
  BY DEF MembraneInv, PairInv, membraneVars, pairVars
<1>2. ListenerInv'
  BY DEF MembraneInv, ListenerInv, Taken, membraneVars, listenerVars
<1>3. ZstdInv'
  BY DEF MembraneInv, ZstdInv, membraneVars, zstdVars
<1>4. QED
  BY <1>1, <1>2, <1>3 DEF MembraneInv

LEMMA ConnStays ==
    ASSUME ConnInv, UNCHANGED connVars
    PROVE  ConnInv'
  BY DEF ConnInv, connVars, NothingStaysOpen

LEMMA LinksSteps ==
    ASSUME LinksInv, [LinksNext]_linkVars
    PROVE  LinksInv'
<1> USE DEF LinksInv
<1>1. CASE FrameNext /\ UNCHANGED <<membraneVars, connVars>>
  <2>1. FrameInv'
    BY <1>1, FrameRead, FrameWritten DEF FrameNext
  <2>2. QED
    BY <1>1, <2>1, MembraneStays, ConnStays
<1>2. CASE (PairNext \/ ListenerNext \/ ZstdNext) /\ UNCHANGED <<frameVars, connVars>>
  BY <1>2, PairSteps, ListenerSteps, ZstdSteps, FrameStays, ConnStays
<1>3. CASE ConnNext /\ UNCHANGED <<frameVars, membraneVars>>
  BY <1>3, ConnSteps, FrameStays, MembraneStays
<1>4. CASE UNCHANGED linkVars
  BY <1>4, FrameStays, MembraneStays, ConnStays DEF linkVars
<1>5. QED
  BY <1>1, <1>2, <1>3, <1>4 DEF LinksNext

(* Nothing is torn, mismatched, lost or left open on the way from a dial   *)
(* to a frame or a stream, for every limit of the codec, every set of      *)
(* dials and certificates and every queue length (codec.go, pair.go,       *)
(* mtls.go, grpc.go, zstd.go, ssh.go, proxy.go, yamux.go).                 *)
THEOREM LinksStaySound == LinksSpec => []LinksAreSound
<1>1. LinksInit => LinksInv
  BY FrameInitInv, MembraneInitInv, ConnInitInv DEF LinksInit, LinksInv
<1>2. LinksInv /\ [LinksNext]_linkVars => LinksInv'
  BY LinksSteps
<1>3. LinksInv => LinksAreSound
  BY FrameGivesSafety, MembraneGivesSafety DEF LinksInv, LinksAreSound, ConnInv
<1>4. QED
  BY <1>1, <1>2, <1>3, PTL DEF LinksSpec

-----------------------------------------------------------------------------
(***************************************************************************)
(* Configuration: the certificate authority                                *)
(***************************************************************************)

(* An authority that has signed and is not lost is in the file that is     *)
(* read, so that no command generates another; one that is being written   *)
(* has signed nothing, and an authority that is only in memory is lost.    *)
Valid == signed \ lostCAs
CAInv ==
    /\ lastCA \in Nat
    /\ step \in {"idle", "load", "write", "writing", "ready"}
    /\ step # "idle" => command # "none"
    /\ step \in {"write", "writing"} => memory \in Nat \ {0} /\ (forced \/ Valid = {})
    /\ step = "ready" => (memory = Read /\ Read > 0) \/ (memory \in lostCAs /\ (forced \/ Valid = {}))
    /\ Valid # {} /\ ~forced => Valid = {Read} /\ Read > 0

LEMMA CAInitInv == CAInit => CAInv
  BY DEF CAInit, CAInv, Read, Valid

LEMMA CASteps ==
    ASSUME CAInv, CANext
    PROVE  CAInv'
<1>1. ASSUME NEW c \in Commands, Invoke(c) PROVE CAInv'
  <2>1. CASE c = "generate" /\ (caFile # 0 \/ legacyFile # 0)
    <3>1. UNCHANGED <<caFile, legacyFile, command, step, forced, signed, lastCA, lostCAs>> /\ step = "idle"
      BY <1>1, <2>1 DEF Invoke, CAInv
    <3>2. QED
      BY <3>1 DEF CAInv, Read, Valid
  <2>2. CASE ~(c = "generate" /\ (caFile # 0 \/ legacyFile # 0)) /\ c = "force"
    <3>1. forced' = TRUE /\ command' = c /\ step' = "load" /\ UNCHANGED <<signed, lastCA, lostCAs>>
      BY <1>1, <2>2 DEF Invoke
    <3>2. QED
      BY <2>2, <3>1 DEF CAInv
  <2>3. CASE ~(c = "generate" /\ (caFile # 0 \/ legacyFile # 0)) /\ c # "force"
    <3>1. /\ UNCHANGED <<caFile, legacyFile, forced, signed, lastCA, lostCAs>>
          /\ command' = c /\ step' = "load" /\ c # "none"
      BY <1>1, <2>3 DEF Invoke, Commands
    <3>2. QED
      BY <3>1 DEF CAInv, Read, Valid
  <2>4. QED
    BY <2>1, <2>2, <2>3
<1>2. CASE loadOrGeneratePKI
  <2>1. /\ step = "load" /\ UNCHANGED <<caFile, legacyFile, command, signed, forced>> /\ Read' = Read
        /\ Read \in {caFile, legacyFile}
    BY <1>2 DEF loadOrGeneratePKI, Read
  <2>2. PICK got \in {Read, legacyFile, 0} :
          /\ lostCAs' = IF got = Read THEN lostCAs ELSE lostCAs \cup {caFile, legacyFile}
          /\ IF got > 0
             THEN memory' = got /\ step' = "ready" /\ UNCHANGED lastCA
             ELSE lastCA' = lastCA + 1 /\ memory' = lastCA' /\ step' = "write"
    BY <1>2 DEF loadOrGeneratePKI
  <2>3. command # "none" /\ lastCA \in Nat
    BY <2>1 DEF CAInv
  <2>4. forced \/ Valid \subseteq {Read}
    BY DEF CAInv
  <2>5. CASE got = Read /\ Read > 0
    <3>1. memory' = Read /\ step' = "ready" /\ UNCHANGED <<lastCA, lostCAs>>
      BY <2>2, <2>5
    <3>2. QED
      BY <2>1, <2>3, <2>5, <3>1 DEF CAInv, Valid
  <2>6. CASE got = Read /\ ~(Read > 0)
    <3>1. lastCA' = lastCA + 1 /\ memory' = lastCA + 1 /\ step' = "write" /\ UNCHANGED lostCAs
      BY <2>2, <2>6
    <3>2. lastCA' \in Nat /\ memory' \in Nat \ {0}
      BY <2>3, <3>1
    <3>3. forced \/ Valid = {}
      BY <2>6 DEF CAInv
    <3>4. QED
      BY <2>1, <2>3, <3>1, <3>2, <3>3 DEF CAInv, Valid
  <2>7. CASE got # Read
    <3>1. lostCAs' = lostCAs \cup {caFile, legacyFile}
      BY <2>2, <2>7
    <3>2. forced \/ Valid' = {}
      BY <2>1, <2>4, <3>1 DEF Valid
    <3>3. CASE got > 0
      <4>1. memory' = got /\ step' = "ready" /\ UNCHANGED lastCA
        BY <2>2, <3>3
      <4>2. got = legacyFile
        BY <2>2, <2>7, <3>3
      <4>3. memory' \in lostCAs'
        BY <3>1, <4>1, <4>2
      <4>4. QED
        BY <2>1, <2>3, <3>2, <4>1, <4>3 DEF CAInv
    <3>4. CASE ~(got > 0)
      <4>1. lastCA' = lastCA + 1 /\ memory' = lastCA + 1 /\ step' = "write"
        BY <2>2, <3>4
      <4>2. lastCA' \in Nat /\ memory' \in Nat \ {0}
        BY <2>3, <4>1
      <4>3. QED
        BY <2>1, <2>3, <3>2, <4>1, <4>2 DEF CAInv
    <3>5. QED
      BY <3>3, <3>4
  <2>8. QED
    BY <2>5, <2>6, <2>7
<1>3. CASE SaveBegin
  <2>1. /\ step = "write" /\ command # "none" /\ memory \in Nat \ {0} /\ (forced \/ Valid = {})
        /\ UNCHANGED <<legacyFile, command, memory, signed, lastCA, forced>> /\ lastCA \in Nat
    BY <1>3 DEF SaveBegin, CAInv
  <2>2. CASE step' = "writing" /\ UNCHANGED lostCAs
    BY <2>1, <2>2 DEF CAInv, Valid
  <2>3. CASE step' = "ready" /\ lostCAs' = lostCAs \cup {memory}
    <3>1. memory' \in lostCAs' /\ (forced' \/ Valid' = {})
      BY <2>1, <2>3 DEF Valid
    <3>2. QED
      BY <2>1, <2>3, <3>1 DEF CAInv
  <2>4. QED
    BY <1>3, <2>2, <2>3 DEF SaveBegin
<1>4. CASE SaveEnd
  <2>1. /\ step = "writing" /\ step' = "ready" /\ command # "none" /\ memory \in Nat \ {0}
        /\ UNCHANGED <<legacyFile, command, memory, signed, lastCA, forced>> /\ lastCA \in Nat
        /\ forced \/ Valid = {}
    BY <1>4 DEF SaveEnd, CAInv
  <2>2. CASE caFile' = memory /\ UNCHANGED lostCAs
    <3>1. Read' = memory
      BY <2>1, <2>2 DEF Read
    <3>2. QED
      BY <2>1, <2>2, <3>1 DEF CAInv, Valid
  <2>3. CASE lostCAs' = lostCAs \cup {memory}
    <3>1. memory' \in lostCAs' /\ (forced' \/ Valid' = {})
      BY <2>1, <2>3 DEF Valid
    <3>2. QED
      BY <2>1, <3>1 DEF CAInv
  <2>4. QED
    BY <1>4, <2>2, <2>3 DEF SaveEnd
<1>5. CASE generateNodeBundle
  <2>1. /\ step = "ready" /\ signed' = signed \cup {memory} /\ Read' = Read /\ command # "none"
        /\ UNCHANGED <<command, step, memory, lastCA, lostCAs, forced>> /\ lastCA \in Nat
    BY <1>5 DEF generateNodeBundle, Read, CAInv
  <2>2. CASE memory \in lostCAs
    <3>1. Valid' = Valid
      BY <2>1, <2>2 DEF Valid
    <3>2. QED
      BY <2>1, <3>1 DEF CAInv
  <2>3. CASE memory \notin lostCAs
    <3>1. memory = Read /\ memory > 0 /\ Valid' = Valid \cup {Read}
      BY <2>1, <2>3 DEF CAInv, Valid
    <3>2. QED
      BY <2>1, <3>1 DEF CAInv
  <2>4. QED
    BY <2>2, <2>3
<1>6. CASE Finish
  BY <1>6 DEF Finish, CAInv, Read, Valid
<1>7. QED
  BY <1>1, <1>2, <1>3, <1>4, <1>5, <1>6 DEF CANext

LEMMA CAGivesSafety == CAInv => IdentitiesStayValid
  BY DEF CAInv, IdentitiesStayValid, Valid

-----------------------------------------------------------------------------
(***************************************************************************)
(* Reconciler                                                              *)
(***************************************************************************)
Dialled == {h \in FleetHosts : RouteOf[h].addresses > 0}
Limit == IndirectMax + MaxInterval

ReconcilerTypes ==
    /\ clock \in Nat /\ nextRound \in Int /\ nextRound >= 0 - 1
    /\ pause \in 0..MaxInterval
    /\ idle \in [FleetHosts -> Nat] /\ heldUp \in [FleetHosts -> Nat]
    /\ backoffs \in [FleetHosts -> [next : Nat, interval : 0..IndirectMax]]
    /\ DOMAIN reach = FleetHosts

(* A host's backoff ends IndirectMax after its last dial at the latest; a  *)
(* round leaves no host idle for longer than that, but for the time it was *)
(* held up, and the pause after it is bounded too. Time passes in a round  *)
(* only in a dial: a host that was direct when the round began has been    *)
(* held up for as long as it has been idle.                                *)
RetryInv ==
    /\ ReconcilerTypes
    /\ nextRound >= 0 => nextRound >= clock /\ nextRound - clock <= MaxInterval /\ pendingHosts = {} /\ dial = NoDial
    /\ dial # NoDial => /\ dial = [host |-> dial.host, methods |-> dial.methods]
                        /\ dial.host \in FleetHosts /\ idle[dial.host] = 0
    /\ \A h \in FleetHosts :
         /\ idle[h] <= clock
         /\ reach[h] = "direct" => idle[h] = 0
         /\ nextRound < 0 /\ snapshot[h] = "direct" => idle[h] <= heldUp[h]
    /\ \A h \in Dialled :
         /\ backoffs[h].next <= clock - idle[h] + IndirectMax
         /\ nextRound >= 0 => idle[h] - heldUp[h] + (nextRound - clock) <= Limit
         /\ nextRound < 0 => idle[h] - heldUp[h] <= IF h \in pendingHosts THEN Limit ELSE IndirectMax

LEMMA RetryInitInv == ReconcilerInit => RetryInv
<1> SUFFICES ASSUME ReconcilerInit PROVE RetryInv
  OBVIOUS
<1>1. /\ clock = 0 /\ nextRound = 0 /\ pause = 0 /\ pendingHosts = {} /\ dial = NoDial
      /\ reach = [h \in FleetHosts |-> "none"] /\ idle = [h \in FleetHosts |-> 0]
      /\ heldUp = [h \in FleetHosts |-> 0] /\ backoffs = [h \in FleetHosts |-> NoBackoff]
  BY DEF ReconcilerInit
<1>2. ReconcilerTypes
  BY <1>1, ReconcilerAssumption DEF ReconcilerTypes, NoBackoff
<1>3. \A h \in FleetHosts : idle[h] = 0 /\ heldUp[h] = 0 /\ reach[h] = "none" /\ backoffs[h].next = 0
  BY <1>1 DEF NoBackoff
<1>4. QED
  BY <1>1, <1>2, <1>3, ReconcilerAssumption DEF RetryInv, Dialled, Limit

LEMMA LeastIs ==
    ASSUME NEW a \in Nat, NEW b \in Nat
    PROVE  Least(a, b) \in Nat /\ Least(a, b) <= b
  BY DEF Least


LEMMA RetrySteps ==
    ASSUME RetryInv, ReconcilerNext
    PROVE  RetryInv'
<1>1. /\ ReconcilerTypes /\ Limit \in Nat /\ IndirectMax \in Nat /\ MaxInterval \in Nat
      /\ BaseInterval \in 1..MaxInterval /\ IndirectBase \in 1..IndirectMax
      /\ IndirectMax <= Limit /\ Limit = IndirectMax + MaxInterval
      /\ Dialled \subseteq FleetHosts
  BY ReconcilerAssumption DEF RetryInv, Limit, Dialled
<1>2. CASE StartRound
  <2>1. /\ pendingHosts' = FleetHosts /\ snapshot' = reach /\ nextRound' = 0 - 1 /\ dial = NoDial
        /\ nextRound <= clock /\ nextRound >= 0
        /\ UNCHANGED <<clock, pause, reach, backoffs, dial, idle, heldUp>>
    BY <1>2 DEF StartRound, InRound
  <2>2. ReconcilerTypes'
    BY <1>1, <2>1 DEF ReconcilerTypes
  <2>3. nextRound = clock
    <3>1. nextRound \in Int /\ clock \in Nat
      BY <1>1 DEF ReconcilerTypes
    <3>2. nextRound >= clock
      BY <2>1 DEF RetryInv
    <3>3. QED
      BY <2>1, <3>1, <3>2
  <2>4. \A h \in Dialled : idle[h] - heldUp[h] <= Limit
    BY <1>1, <2>1, <2>3 DEF RetryInv, ReconcilerTypes
  <2>5. \A h \in FleetHosts : reach[h] = "direct" => idle[h] <= heldUp[h]
    BY <1>1 DEF RetryInv, ReconcilerTypes
  <2>6. QED
    BY <1>1, <2>1, <2>2, <2>4, <2>5 DEF RetryInv, Dialled
<1>3. ASSUME NEW h \in FleetHosts, Consider(h) PROVE RetryInv'
  <2> DEFINE indirect == snapshot[h] = "indirect"
             skip == \/ snapshot[h] = "direct"
                     \/ indirect /\ clock < backoffs[h].next
                     \/ RouteOf[h].addresses = 0
  <2>1. /\ nextRound < 0 /\ h \in pendingHosts /\ dial = NoDial /\ pendingHosts' = pendingHosts \ {h}
        /\ UNCHANGED <<clock, nextRound, pause, snapshot, reach>>
        /\ backoffs' = IF indirect /\ clock >= backoffs[h].next
                       THEN [backoffs EXCEPT ![h] =
                                [next |-> clock + @.interval, interval |-> NextInterval(@.interval)]]
                       ELSE backoffs
        /\ IF skip THEN UNCHANGED <<dial, idle, heldUp>>
           ELSE /\ dial' = [host |-> h, methods |-> Methods(h)]
                /\ idle' = [idle EXCEPT ![h] = 0] /\ heldUp' = [heldUp EXCEPT ![h] = 0]
    BY <1>3 DEF Consider
  <2>2. /\ clock \in Nat /\ idle \in [FleetHosts -> Nat] /\ heldUp \in [FleetHosts -> Nat]
        /\ backoffs \in [FleetHosts -> [next : Nat, interval : 0..IndirectMax]]
    BY <1>1 DEF ReconcilerTypes
  <2>3. /\ idle' \in [FleetHosts -> Nat] /\ idle'[h] \in {0, idle[h]}
        /\ heldUp' \in [FleetHosts -> Nat]
        /\ \A g \in FleetHosts : g # h => idle'[g] = idle[g] /\ heldUp'[g] = heldUp[g]
        /\ ~skip => idle'[h] = 0 /\ heldUp'[h] = 0
        /\ skip => idle'[h] = idle[h] /\ heldUp'[h] = heldUp[h] /\ dial' = NoDial
    BY <2>1, <2>2
  <2>4. NextInterval(backoffs[h].interval) \in 0..IndirectMax
    <3>1. 2 * backoffs[h].interval \in Nat
      BY <1>1, <2>2
    <3> DEFINE l == Least(2 * backoffs[h].interval, IndirectMax)
    <3>2. l \in Nat /\ l <= IndirectMax
      BY <1>1, <3>1, LeastIs
    <3> HIDE DEF l
    <3>3. l \in 0..IndirectMax
      BY <1>1, <3>2
    <3>4. QED
      BY <3>3 DEF NextInterval, l
  <2>5. /\ backoffs' \in [FleetHosts -> [next : Nat, interval : 0..IndirectMax]]
        /\ \A g \in FleetHosts : g # h => backoffs'[g] = backoffs[g]
        /\ \/ backoffs'[h] = backoffs[h]
           \/ /\ indirect /\ clock >= backoffs[h].next
              /\ backoffs'[h].next \in Nat /\ backoffs'[h].next <= clock + IndirectMax
    <3>1. CASE indirect /\ clock >= backoffs[h].next
      <4> DEFINE b == [next |-> clock + backoffs[h].interval,
                       interval |-> NextInterval(backoffs[h].interval)]
      <4>1. backoffs' = [backoffs EXCEPT ![h] = b]
        BY <2>1, <3>1
      <4>2. backoffs[h].interval \in 0..IndirectMax
        BY <2>2
      <4>3. clock + backoffs[h].interval \in Nat /\ clock + backoffs[h].interval <= clock + IndirectMax
        BY <1>1, <2>2, <4>2
      <4>4. b \in [next : Nat, interval : 0..IndirectMax] /\ b.next \in Nat /\ b.next <= clock + IndirectMax
        BY <2>4, <4>3
      <4> HIDE DEF b
      <4>5. /\ backoffs'[h] = b /\ \A g \in FleetHosts : g # h => backoffs'[g] = backoffs[g]
            /\ backoffs' \in [FleetHosts -> [next : Nat, interval : 0..IndirectMax]]
        BY <2>2, <4>1, <4>4
      <4>6. QED
        BY <3>1, <4>4, <4>5
    <3>2. CASE ~(indirect /\ clock >= backoffs[h].next)
      BY <2>1, <2>2, <3>2
    <3>3. QED
      BY <3>1, <3>2
  <2>6. ReconcilerTypes'
    BY <1>1, <2>1, <2>3, <2>5 DEF ReconcilerTypes
  <2>7. dial' # NoDial => /\ dial' = [host |-> dial'.host, methods |-> dial'.methods]
                          /\ dial'.host \in FleetHosts /\ idle'[dial'.host] = 0
    BY <2>1, <2>3
  <2>8. \A g \in FleetHosts :
          /\ idle'[g] <= clock
          /\ reach[g] = "direct" => idle'[g] = 0
          /\ snapshot[g] = "direct" => idle'[g] <= heldUp'[g]
    <3>1. \A g \in FleetHosts : \/ idle'[g] = idle[g] /\ heldUp'[g] = heldUp[g]
                                \/ idle'[g] = 0 /\ heldUp'[g] = 0
      BY <2>3
    <3>2. QED
      BY <2>1, <2>2, <3>1 DEF RetryInv
  <2>9. ASSUME NEW g \in Dialled
        PROVE  /\ backoffs'[g].next <= clock - idle'[g] + IndirectMax
               /\ idle'[g] - heldUp'[g] <= IF g \in pendingHosts' THEN Limit ELSE IndirectMax
    <3>1. /\ backoffs[g].next <= clock - idle[g] + IndirectMax
          /\ idle[g] - heldUp[g] <= IF g \in pendingHosts THEN Limit ELSE IndirectMax
          /\ idle[g] \in Nat /\ heldUp[g] \in Nat /\ backoffs[g].next \in Nat /\ g \in FleetHosts
      BY <1>1, <2>1, <2>2 DEF RetryInv
    <3>2. CASE g # h
      BY <2>1, <2>3, <2>5, <3>1, <3>2
    <3>3. CASE g = h /\ ~skip
      <4>1. idle'[g] = 0 /\ heldUp'[g] = 0 /\ g \notin pendingHosts'
        BY <2>1, <2>3, <3>3
      <4>2. backoffs'[g].next <= clock + IndirectMax
        <5>1. \/ backoffs'[g].next = backoffs[g].next
              \/ backoffs'[g].next <= clock + IndirectMax
          BY <2>5, <3>3
        <5>2. backoffs[g].next <= clock + IndirectMax
          BY <1>1, <2>2, <3>1
        <5>3. QED
          BY <5>1, <5>2
      <4>3. QED
        BY <1>1, <2>2, <4>1, <4>2
    <3>4. CASE g = h /\ skip
      <4>1. RouteOf[h].addresses # 0
        BY <3>4 DEF Dialled
      <4>2. g \notin pendingHosts' /\ idle'[g] = idle[g] /\ heldUp'[g] = heldUp[g]
        BY <2>1, <2>3, <3>4
      <4>3. CASE snapshot[h] = "direct"
        <5>1. idle[g] <= heldUp[g] /\ backoffs'[g] = backoffs[g]
          BY <2>1, <2>5, <3>4, <4>3 DEF RetryInv
        <5>2. QED
          BY <1>1, <3>1, <4>2, <5>1
      <4>4. CASE indirect /\ clock < backoffs[h].next
        <5>1. backoffs'[g] = backoffs[g]
          BY <2>2, <2>5, <3>1, <3>4, <4>4
        <5>2. idle[g] <= IndirectMax
          BY <1>1, <2>2, <3>1, <3>4, <4>4
        <5>3. idle[g] - heldUp[g] <= IndirectMax
          BY <1>1, <3>1, <5>2
        <5>4. QED
          BY <3>1, <4>2, <5>1, <5>3
      <4>5. QED
        BY <3>4, <4>1, <4>3, <4>4
    <3>5. QED
      BY <3>2, <3>3, <3>4
  <2>10. nextRound' < 0 /\ UNCHANGED <<clock, nextRound, reach, snapshot>>
    BY <2>1
  <2>11. nextRound \in Int /\ ~(nextRound >= 0)
    BY <1>1, <2>1 DEF ReconcilerTypes
  <2> HIDE DEF skip, indirect
  <2>12. QED
    BY <2>6, <2>7, <2>8, <2>9, <2>10, <2>11 DEF RetryInv, Dialled
<1>4. CASE DialFails
  <2>1. /\ dial # NoDial /\ dial' = IF Len(dial.methods) = 1 THEN NoDial
                                    ELSE [dial EXCEPT !.methods = Tail(@)]
        /\ UNCHANGED <<clock, nextRound, pause, pendingHosts, snapshot, reach, backoffs, idle, heldUp>>
    BY <1>4 DEF DialFails
  <2>2. /\ dial = [host |-> dial.host, methods |-> dial.methods]
        /\ dial.host \in FleetHosts /\ idle[dial.host] = 0 /\ ~(nextRound >= 0)
    BY <2>1 DEF RetryInv
  <2>3. dial' # NoDial => dial' = [host |-> dial.host, methods |-> Tail(dial.methods)]
    BY <2>1, <2>2
  <2>4. dial' # NoDial => /\ dial' = [host |-> dial'.host, methods |-> dial'.methods]
                          /\ dial'.host = dial.host
    BY <2>3
  <2>5. ReconcilerTypes'
    BY <1>1, <2>1 DEF ReconcilerTypes
  <2>6. QED
    BY <2>1, <2>2, <2>4, <2>5 DEF RetryInv, Dialled
<1>5. ASSUME NEW ok \in BOOLEAN, AddPeer(ok) PROVE RetryInv'
  <2> DEFINE h == dial.host
  <2>1. /\ dial # NoDial /\ dial' = NoDial
        /\ reach' = IF ok THEN [reach EXCEPT ![h] = "direct"] ELSE reach
        /\ backoffs' = IF ok THEN [backoffs EXCEPT ![h] = NoBackoff] ELSE backoffs
        /\ UNCHANGED <<clock, nextRound, pause, pendingHosts, snapshot, idle, heldUp>>
    BY <1>5 DEF AddPeer
  <2>2. h \in FleetHosts /\ idle[h] = 0 /\ ~(nextRound >= 0)
    BY <2>1 DEF RetryInv
  <2> HIDE DEF h
  <2>3. NoBackoff \in [next : Nat, interval : 0..IndirectMax] /\ NoBackoff.next = 0
    BY <1>1 DEF NoBackoff
  <2>4. /\ backoffs' \in [FleetHosts -> [next : Nat, interval : 0..IndirectMax]]
        /\ \A g \in FleetHosts : backoffs'[g] = backoffs[g] \/ backoffs'[g].next = 0
    BY <1>1, <2>1, <2>2, <2>3 DEF ReconcilerTypes
  <2>5. ReconcilerTypes'
    BY <1>1, <2>1, <2>4 DEF ReconcilerTypes
  <2>6. \A g \in FleetHosts : reach'[g] = "direct" => reach[g] = "direct" \/ g = h
    BY <1>1, <2>1 DEF ReconcilerTypes
  <2>7. \A g \in Dialled : backoffs'[g].next <= clock - idle[g] + IndirectMax
    <3> SUFFICES ASSUME NEW g \in Dialled PROVE backoffs'[g].next <= clock - idle[g] + IndirectMax
      OBVIOUS
    <3>1. g \in FleetHosts /\ idle[g] \in Nat /\ clock \in Nat /\ idle[g] <= clock
      BY <1>1 DEF RetryInv, ReconcilerTypes
    <3>2. 0 <= clock - idle[g] + IndirectMax /\ backoffs[g].next <= clock - idle[g] + IndirectMax
      BY <1>1, <3>1 DEF RetryInv
    <3>3. QED
      BY <2>4, <3>1, <3>2
  <2>8. QED
    BY <1>1, <2>1, <2>2, <2>5, <2>6, <2>7 DEF RetryInv, Dialled
<1>6. CASE EndRound
  <2>1. /\ nextRound < 0 /\ pendingHosts = {} /\ dial = NoDial
        /\ pause' = (IF anyConnected \/ pause = 0 THEN BaseInterval ELSE Least(2 * pause, MaxInterval))
        /\ nextRound' = clock + pause'
        /\ UNCHANGED <<clock, pendingHosts, snapshot, reach, backoffs, dial, idle, heldUp>>
    BY <1>6 DEF EndRound
  <2>2. pause' \in 0..MaxInterval /\ clock \in Nat
    <3>1. 2 * pause \in Nat /\ clock \in Nat
      BY <1>1 DEF ReconcilerTypes
    <3> DEFINE l == Least(2 * pause, MaxInterval)
    <3>2. l \in Nat /\ l <= MaxInterval
      BY <1>1, <3>1, LeastIs
    <3>3. pause' = BaseInterval \/ pause' = l
      BY <2>1
    <3> HIDE DEF l
    <3>4. QED
      BY <1>1, <3>1, <3>2, <3>3
  <2>3. nextRound' \in Nat /\ nextRound' >= clock /\ nextRound' - clock <= MaxInterval
    BY <1>1, <2>1, <2>2
  <2>4. ReconcilerTypes'
    BY <1>1, <2>1, <2>2, <2>3 DEF ReconcilerTypes
  <2>5. \A h \in Dialled : idle[h] - heldUp[h] + (nextRound' - clock) <= Limit
    <3> SUFFICES ASSUME NEW h \in Dialled PROVE idle[h] - heldUp[h] + (nextRound' - clock) <= Limit
      OBVIOUS
    <3>1. idle[h] \in Nat /\ heldUp[h] \in Nat /\ idle[h] - heldUp[h] <= IndirectMax
      BY <1>1, <2>1 DEF RetryInv, ReconcilerTypes
    <3> DEFINE i == idle[h] - heldUp[h]
               d == nextRound' - clock
    <3>2. i \in Int /\ i <= IndirectMax /\ d \in Int /\ d <= MaxInterval
      BY <2>2, <2>3, <3>1
    <3> HIDE DEF i, d
    <3>3. i + d <= Limit
      BY <1>1, <3>2
    <3>4. QED
      BY <3>3 DEF i, d
  <2>6. QED
    BY <2>1, <2>2, <2>3, <2>4, <2>5 DEF RetryInv, Dialled
<1>7. CASE PassTime
  <2> DEFINE busy(h) == reach[h] = "direct" \/ dial.host = h
  <2>1. /\ nextRound > clock \/ dial # NoDial
        /\ clock' = clock + 1
        /\ idle' = [h \in FleetHosts |-> IF busy(h) THEN idle[h] ELSE idle[h] + 1]
        /\ heldUp' = [h \in FleetHosts |->
                         IF busy(h) \/ dial = NoDial THEN heldUp[h] ELSE heldUp[h] + 1]
        /\ UNCHANGED <<nextRound, pause, pendingHosts, snapshot, reach, backoffs, dial>>
    BY <1>7 DEF PassTime
  <2>2. /\ clock \in Nat /\ nextRound \in Int
        /\ idle \in [FleetHosts -> Nat] /\ heldUp \in [FleetHosts -> Nat]
        /\ backoffs \in [FleetHosts -> [next : Nat, interval : 0..IndirectMax]]
    BY <1>1 DEF ReconcilerTypes
  <2>3. /\ idle' \in [FleetHosts -> Nat] /\ heldUp' \in [FleetHosts -> Nat]
        /\ \A h \in FleetHosts :
             /\ idle'[h] = IF busy(h) THEN idle[h] ELSE idle[h] + 1
             /\ heldUp'[h] = IF busy(h) \/ dial = NoDial THEN heldUp[h] ELSE heldUp[h] + 1
    BY <2>1, <2>2
  <2>4. ReconcilerTypes'
    BY <1>1, <2>1, <2>2, <2>3 DEF ReconcilerTypes
  <2>5. \A h \in FleetHosts : /\ idle'[h] <= idle[h] + 1 /\ (busy(h) => idle'[h] = idle[h])
                              /\ idle[h] \in Nat /\ idle'[h] \in Nat
                              /\ heldUp[h] \in Nat /\ heldUp'[h] \in Nat
                              /\ dial # NoDial => idle'[h] - heldUp'[h] = idle[h] - heldUp[h]
                              /\ dial = NoDial => idle'[h] - heldUp'[h] <= idle[h] - heldUp[h] + 1
    BY <2>2, <2>3
  <2>6. \A h \in FleetHosts : idle'[h] <= clock' /\ (reach[h] = "direct" => idle'[h] = 0)
    BY <2>1, <2>2, <2>5 DEF RetryInv
  <2>7. \A h \in Dialled : backoffs[h].next <= clock' - idle'[h] + IndirectMax
    <3> SUFFICES ASSUME NEW h \in Dialled PROVE backoffs[h].next <= clock' - idle'[h] + IndirectMax
      OBVIOUS
    <3>1. /\ h \in FleetHosts /\ backoffs[h].next \in Nat
          /\ backoffs[h].next <= clock - idle[h] + IndirectMax
      BY <1>1, <2>2 DEF RetryInv
    <3>2. idle[h] \in Nat /\ idle'[h] \in Nat /\ idle'[h] <= idle[h] + 1
      BY <2>5, <3>1
    <3>3. QED
      BY <1>1, <2>1, <2>2, <3>1, <3>2
  <2>8. CASE dial # NoDial
    <3>1. ~(nextRound >= 0) /\ dial.host \in FleetHosts /\ idle'[dial.host] = 0
          /\ dial = [host |-> dial.host, methods |-> dial.methods]
      BY <2>5, <2>8 DEF RetryInv
    <3>2. \A h \in FleetHosts : snapshot[h] = "direct" => idle'[h] <= heldUp'[h]
      <4> SUFFICES ASSUME NEW h \in FleetHosts, snapshot[h] = "direct" PROVE idle'[h] <= heldUp'[h]
        OBVIOUS
      <4>1. idle[h] <= heldUp[h]
        BY <2>2, <3>1 DEF RetryInv
      <4>2. QED
        BY <2>5, <2>8, <4>1
    <3>3. \A h \in Dialled :
            idle'[h] - heldUp'[h] <= IF h \in pendingHosts THEN Limit ELSE IndirectMax
      BY <1>1, <2>2, <2>5, <2>8, <3>1 DEF RetryInv
    <3> HIDE DEF busy
    <3>4. QED
      BY <2>1, <2>2, <2>4, <2>6, <2>7, <3>1, <3>2, <3>3 DEF RetryInv, Dialled
  <2>9. CASE dial = NoDial
    <3>1. nextRound > clock
      BY <2>1, <2>9
    <3>2. /\ nextRound >= 0 /\ nextRound >= clock' /\ ~(nextRound < 0) /\ pendingHosts = {}
          /\ nextRound' = nextRound
      BY <2>1, <2>2, <3>1 DEF RetryInv
    <3>3. \A h \in Dialled : idle'[h] - heldUp'[h] + (nextRound - clock') <= Limit
      <4> SUFFICES ASSUME NEW h \in Dialled
                   PROVE  idle'[h] - heldUp'[h] + (nextRound - clock') <= Limit
        OBVIOUS
      <4>1. h \in FleetHosts /\ idle[h] - heldUp[h] + (nextRound - clock) <= Limit
        BY <1>1, <3>2 DEF RetryInv
      <4>2. /\ idle'[h] - heldUp'[h] <= idle[h] - heldUp[h] + 1
            /\ idle[h] \in Nat /\ idle'[h] \in Nat /\ heldUp[h] \in Nat /\ heldUp'[h] \in Nat
        BY <2>5, <2>9, <4>1
      <4> HIDE DEF busy
      <4>3. QED
        BY <1>1, <2>1, <2>2, <4>1, <4>2
    <3> HIDE DEF busy
    <3>4. nextRound' - clock' <= MaxInterval /\ dial' = NoDial
      <4>1. nextRound - clock <= MaxInterval
        BY <3>2 DEF RetryInv
      <4>2. QED
        BY <1>1, <2>1, <2>2, <2>9, <3>2, <4>1
    <3>5. QED
      BY <2>1, <2>2, <2>4, <2>6, <2>7, <3>2, <3>3, <3>4 DEF RetryInv, Dialled
  <2>10. QED
    BY <2>8, <2>9
<1>8. ASSUME NEW h \in FleetHosts, NEW r \in {"none", "indirect", "direct"}, TopologyChanges(h, r)
      PROVE  RetryInv'
  <2>1. /\ reach' = [reach EXCEPT ![h] = r]
        /\ idle' = (IF r = "direct" THEN [idle EXCEPT ![h] = 0] ELSE idle)
        /\ heldUp' = (IF r = "direct" THEN [heldUp EXCEPT ![h] = 0] ELSE heldUp)
        /\ UNCHANGED <<clock, nextRound, pause, pendingHosts, snapshot, backoffs, dial>>
    BY <1>8 DEF TopologyChanges
  <2>2. /\ clock \in Nat /\ nextRound \in Int /\ DOMAIN reach = FleetHosts
        /\ idle \in [FleetHosts -> Nat] /\ heldUp \in [FleetHosts -> Nat]
        /\ backoffs \in [FleetHosts -> [next : Nat, interval : 0..IndirectMax]]
    BY <1>1 DEF ReconcilerTypes
  <2>3. /\ idle' \in [FleetHosts -> Nat] /\ heldUp' \in [FleetHosts -> Nat]
        /\ \A g \in FleetHosts : \/ idle'[g] = idle[g] /\ heldUp'[g] = heldUp[g]
                                 \/ idle'[g] = 0 /\ heldUp'[g] = 0
        /\ \A g \in FleetHosts : reach'[g] = "direct" => idle'[g] = 0 \/ reach[g] = "direct"
    BY <2>1, <2>2
  <2>4. ReconcilerTypes'
    BY <1>1, <2>1, <2>2, <2>3 DEF ReconcilerTypes
  <2>5. \A g \in FleetHosts : /\ idle'[g] <= idle[g] /\ idle'[g] \in Nat /\ idle[g] \in Nat
                              /\ heldUp[g] \in Nat /\ heldUp'[g] \in Nat
                              /\ idle[g] = 0 => idle'[g] = 0
                              /\ \/ idle'[g] - heldUp'[g] = idle[g] - heldUp[g]
                                 \/ idle'[g] - heldUp'[g] = 0
                              /\ idle[g] <= heldUp[g] => idle'[g] <= heldUp'[g]
    BY <2>2, <2>3
  <2>6. \A g \in FleetHosts : /\ idle'[g] <= clock /\ (reach'[g] = "direct" => idle'[g] = 0)
                              /\ nextRound < 0 /\ snapshot[g] = "direct" => idle'[g] <= heldUp'[g]
    BY <2>2, <2>3, <2>5 DEF RetryInv
  <2>7. \A g \in Dialled :
          /\ backoffs[g].next <= clock - idle'[g] + IndirectMax
          /\ nextRound >= 0 => idle'[g] - heldUp'[g] + (nextRound - clock) <= Limit
          /\ nextRound < 0 => idle'[g] - heldUp'[g] <= IF g \in pendingHosts THEN Limit ELSE IndirectMax
    <3> SUFFICES ASSUME NEW g \in Dialled
                 PROVE  /\ backoffs[g].next <= clock - idle'[g] + IndirectMax
                        /\ nextRound >= 0 => idle'[g] - heldUp'[g] + (nextRound - clock) <= Limit
                        /\ nextRound < 0 => idle'[g] - heldUp'[g] <= IF g \in pendingHosts THEN Limit ELSE IndirectMax
      OBVIOUS
    <3>1. /\ g \in FleetHosts /\ backoffs[g].next \in Nat
          /\ backoffs[g].next <= clock - idle[g] + IndirectMax
          /\ nextRound >= 0 => idle[g] - heldUp[g] + (nextRound - clock) <= Limit
          /\ nextRound < 0 => idle[g] - heldUp[g] <= IF g \in pendingHosts THEN Limit ELSE IndirectMax
      BY <1>1, <2>2 DEF RetryInv
    <3>2. /\ idle'[g] <= idle[g] /\ idle'[g] \in Nat /\ idle[g] \in Nat
          /\ heldUp[g] \in Nat /\ heldUp'[g] \in Nat
      BY <2>5, <3>1
    <3>3. CASE idle'[g] - heldUp'[g] = idle[g] - heldUp[g]
      BY <1>1, <2>2, <3>1, <3>2, <3>3
    <3>4. CASE idle'[g] - heldUp'[g] = 0
      <4>1. nextRound >= 0 => nextRound - clock <= Limit
        BY <1>1, <2>2, <3>1 DEF RetryInv
      <4>2. QED
        BY <1>1, <2>2, <3>1, <3>2, <3>4, <4>1
    <3>5. QED
      BY <2>5, <3>1, <3>3, <3>4
  <2>8. dial # NoDial => idle'[dial.host] = 0
    BY <2>5 DEF RetryInv
  <2>9. QED
    BY <2>1, <2>4, <2>6, <2>7, <2>8 DEF RetryInv, Dialled
<1>9. QED
  BY <1>2, <1>3, <1>4, <1>5, <1>6, <1>7, <1>8 DEF ReconcilerNext

LEMMA RetryGivesSafety == RetryInv => HostsAreRetried
<1> SUFFICES ASSUME RetryInv, NEW h \in FleetHosts, RouteOf[h].addresses > 0
             PROVE  idle[h] - heldUp[h] <= IndirectMax + MaxInterval
  BY DEF HostsAreRetried
<1>1. h \in Dialled /\ idle[h] \in Nat /\ heldUp[h] \in Nat /\ clock \in Nat /\ nextRound \in Int
      /\ IndirectMax \in Nat /\ MaxInterval \in Nat
  BY ReconcilerAssumption DEF Dialled, RetryInv, ReconcilerTypes
<1>2. CASE nextRound >= 0
  BY <1>1, <1>2 DEF RetryInv, Limit
<1>3. CASE nextRound < 0
  BY <1>1, <1>3 DEF RetryInv, Limit
<1>4. QED
  BY <1>1, <1>2, <1>3

-----------------------------------------------------------------------------
(***************************************************************************)
(* NodeStart                                                               *)
(***************************************************************************)
States == {"absent", "new", "starting", "serving", "dying", "gone"}
Connecting == {"stdio", "listen", "reconcile", "deploy"}
OnlyFirst == {"lock", "read", "kill", "relock"}
StepNames == Connecting \cup OnlyFirst \cup
             {"pki", "node", "tools", "gossip", "grpc", "fanout", "serve", "end"}

(* What is left to do: the lock comes first and only for a fleet node, a   *)
(* fleet node does not end, only stop fans out, and tools come before      *)
(* whatever lets a peer connect.                                           *)
TodoInv ==
    /\ todo \in [Processes -> Seq(StepNames)]
    /\ \A p \in Processes : \A i \in 1..Len(todo[p]) :
         /\ todo[p][i] = "fanout" => Starts[p] = "gateway-stop"
         /\ todo[p][i] = "end" => p \notin Fleet
         /\ todo[p][i] \in OnlyFirst => i = 1 /\ p \in Fleet /\ startState[p] # "starting"
         /\ todo[p][i] \in Connecting =>
              \/ p \in hasTools \/ Starts[p] = "gateway-client"
              \/ \E j \in 1..(i - 1) : todo[p][j] = "tools"
    /\ \A p \in Processes : startState[p] \in {"new", "starting"} => Len(todo[p]) > 0
    /\ \A p \in Fleet : startState[p] = "new" => todo[p][1] \in OnlyFirst

(* The socket belongs to a process that runs or is about to be reaped; who *)
(* has read a pid waits for the holder, or for one that is gone.           *)
LockInv ==
    /\ startState \in [Processes -> States]
    /\ victim \in [Processes -> Processes \cup {0}]
    /\ lockedBy \in Fleet \cup {0}
    /\ lockedBy # 0 => startState[lockedBy] \in {"starting", "serving", "dying"}
    /\ \A p \in Fleet : startState[p] \in {"starting", "serving", "dying"} => lockedBy = p
    /\ \A p \in Processes : startState[p] = "dying" => p \in Fleet
    /\ \A p \in Processes : victim[p] # 0 => lockedBy = victim[p] \/ startState[victim[p]] = "gone"

(* Who kills, or has killed, has read a pid.                               *)
VictimInv ==
    \A p \in Processes :
        startState[p] = "new" /\ todo[p][1] \in {"kill", "relock"} => victim[p] # 0

(* Who will have the socket: its holder, the process that has killed the   *)
(* holder and tries again, or one that may bind a free socket.             *)
Waits(p) == startState[p] = "new" /\ todo[p][1] = "relock" /\ victim[p] # 0
HeirInv ==
    ~tooSoon /\ failures = 0 /\ stops = 0 /\ (\E p \in Fleet : startState[p] # "absent") =>
        \/ lockedBy # 0 /\ startState[lockedBy] # "dying"
        \/ lockedBy # 0 /\ \E p \in Fleet : Waits(p) /\ victim[p] = lockedBy
        \/ lockedBy = 0 /\ \E p \in Fleet :
             \/ startState[p] = "new" /\ todo[p][1] = "lock"
             \/ Waits(p) /\ startState[victim[p]] = "gone"

ViewInv ==
    /\ failures \in Nat /\ stops \in Nat /\ reachable \subseteq Processes
    /\ \A p \in reachable : p \in hasTools \/ Starts[p] = "gateway-client"
    /\ \A p \in DOMAIN firstView : Starts[p] # "gateway-client" => firstView[p]
    /\ \A h \in stoppedOn : \E p \in Processes : Starts[p] = "gateway-stop" /\ TargetOf[p] \in {"", h}

StartInv == TodoInv /\ LockInv /\ VictimInv /\ HeirInv /\ ViewInv

(* Steps in the order that TodoInv asks for, of a start in this mode.      *)
Order(s, mode) ==
    /\ s \in Seq(StepNames) /\ Len(s) > 0
    /\ mode \in {"stdio", "daemon"} => s[1] = "lock"
    /\ \A i \in 1..Len(s) :
         /\ s[i] = "fanout" => mode = "gateway-stop"
         /\ s[i] = "end" => mode \notin {"stdio", "daemon"}
         /\ s[i] \in OnlyFirst => i = 1 /\ mode \in {"stdio", "daemon"}
         /\ s[i] \in Connecting =>
              mode = "gateway-client" \/ \E j \in 1..(i - 1) : s[j] = "tools"

LEMMA DaemonStart == Order(runFleetNode("daemon"), "daemon")
<1> DEFINE s == runFleetNode("daemon")
<1>1. s \in Seq(StepNames) /\ Len(s) = 8
  BY DEF runFleetNode, StepNames, Connecting, OnlyFirst
<1>2. /\ s[1] = "lock" /\ s[2] = "node" /\ s[3] = "tools" /\ s[4] = "gossip"
      /\ s[5] = "grpc" /\ s[6] = "listen" /\ s[7] = "reconcile" /\ s[8] = "serve"
  BY DEF runFleetNode
<1> HIDE DEF s
<1>3. \A i \in 1..8 : i = 1 \/ i = 2 \/ i = 3 \/ i = 4 \/ i = 5 \/ i = 6 \/ i = 7 \/ i = 8
  OBVIOUS
<1>4. \A i \in 1..8 : s[i] \in Connecting => 3 \in 1..(i - 1)
  BY <1>2, <1>3 DEF Connecting
<1>5. QED
  BY <1>1, <1>2, <1>3, <1>4 DEF Order, OnlyFirst, s

LEMMA StdioStart == Order(runFleetNode("stdio"), "stdio")
<1> DEFINE s == runFleetNode("stdio")
<1>1. s \in Seq(StepNames) /\ Len(s) = 7
  BY DEF runFleetNode, StepNames, Connecting, OnlyFirst
<1>2. /\ s[1] = "lock" /\ s[2] = "node" /\ s[3] = "tools" /\ s[4] = "stdio"
      /\ s[5] = "gossip" /\ s[6] = "grpc" /\ s[7] = "serve"
  BY DEF runFleetNode
<1> HIDE DEF s
<1>3. \A i \in 1..7 : i = 1 \/ i = 2 \/ i = 3 \/ i = 4 \/ i = 5 \/ i = 6 \/ i = 7
  OBVIOUS
<1>4. \A i \in 1..7 : s[i] \in Connecting => 3 \in 1..(i - 1)
  BY <1>2, <1>3 DEF Connecting
<1>5. QED
  BY <1>1, <1>2, <1>3, <1>4 DEF Order, OnlyFirst, s

LEMMA BridgeStart == Order(runBridgeNode, "bridge")
<1> DEFINE s == runBridgeNode
<1>1. s \in Seq(StepNames) /\ Len(s) = 8
  BY DEF runBridgeNode, StepNames, Connecting, OnlyFirst
<1>2. /\ s[1] = "pki" /\ s[2] = "node" /\ s[3] = "tools" /\ s[4] = "gossip"
      /\ s[5] = "grpc" /\ s[6] = "listen" /\ s[7] = "deploy" /\ s[8] = "serve"
  BY DEF runBridgeNode
<1> HIDE DEF s
<1>3. \A i \in 1..8 : i = 1 \/ i = 2 \/ i = 3 \/ i = 4 \/ i = 5 \/ i = 6 \/ i = 7 \/ i = 8
  OBVIOUS
<1>4. \A i \in 1..8 : s[i] \in Connecting => 3 \in 1..(i - 1)
  BY <1>2, <1>3 DEF Connecting
<1>5. QED
  BY <1>1, <1>2, <1>3, <1>4 DEF Order, OnlyFirst, s

LEMMA GatewayStart == Order(runGateway("gateway"), "gateway")
<1> DEFINE s == runGateway("gateway")
<1>1. s \in Seq(StepNames) /\ Len(s) = 6
  BY DEF runGateway, StepNames, Connecting, OnlyFirst
<1>2. /\ s[1] = "pki" /\ s[2] = "node" /\ s[3] = "tools" /\ s[4] = "gossip"
      /\ s[5] = "reconcile" /\ s[6] = "serve"
  BY DEF runGateway
<1> HIDE DEF s
<1>3. \A i \in 1..6 : i = 1 \/ i = 2 \/ i = 3 \/ i = 4 \/ i = 5 \/ i = 6
  OBVIOUS
<1>4. \A i \in 1..6 : s[i] \in Connecting => 3 \in 1..(i - 1)
  BY <1>2, <1>3 DEF Connecting
<1>5. QED
  BY <1>1, <1>2, <1>3, <1>4 DEF Order, OnlyFirst, s

LEMMA GatewayClientStart == Order(runGateway("gateway-client"), "gateway-client")
<1> DEFINE s == runGateway("gateway-client")
<1>1. s \in Seq(StepNames) /\ Len(s) = 5
  BY DEF runGateway, StepNames, Connecting, OnlyFirst
<1>2. /\ s[1] = "pki" /\ s[2] = "node" /\ s[3] = "gossip" /\ s[4] = "reconcile"
      /\ s[5] = "serve"
  BY DEF runGateway
<1> HIDE DEF s
<1>3. \A i \in 1..5 : i = 1 \/ i = 2 \/ i = 3 \/ i = 4 \/ i = 5
  OBVIOUS
<1>4. QED
  BY <1>1, <1>2, <1>3 DEF Order, OnlyFirst, s

LEMMA GatewayInstallStart == Order(runGateway("gateway-install"), "gateway-install")
<1> DEFINE s == runGateway("gateway-install")
<1>1. s \in Seq(StepNames) /\ Len(s) = 6
  BY DEF runGateway, StepNames, Connecting, OnlyFirst
<1>2. /\ s[1] = "pki" /\ s[2] = "node" /\ s[3] = "tools" /\ s[4] = "deploy"
      /\ s[5] = "gossip" /\ s[6] = "end"
  BY DEF runGateway
<1> HIDE DEF s
<1>3. \A i \in 1..6 : i = 1 \/ i = 2 \/ i = 3 \/ i = 4 \/ i = 5 \/ i = 6
  OBVIOUS
<1>4. \A i \in 1..6 : s[i] \in Connecting => 3 \in 1..(i - 1)
  BY <1>2, <1>3 DEF Connecting
<1>5. QED
  BY <1>1, <1>2, <1>3, <1>4 DEF Order, OnlyFirst, s

LEMMA GatewayStopStart == Order(runGateway("gateway-stop"), "gateway-stop")
<1> DEFINE s == runGateway("gateway-stop")
<1>1. s \in Seq(StepNames) /\ Len(s) = 6
  BY DEF runGateway, StepNames, Connecting, OnlyFirst
<1>2. /\ s[1] = "pki" /\ s[2] = "node" /\ s[3] = "tools" /\ s[4] = "deploy"
      /\ s[5] = "fanout" /\ s[6] = "end"
  BY DEF runGateway
<1> HIDE DEF s
<1>3. \A i \in 1..6 : i = 1 \/ i = 2 \/ i = 3 \/ i = 4 \/ i = 5 \/ i = 6
  OBVIOUS
<1>4. \A i \in 1..6 : s[i] \in Connecting => 3 \in 1..(i - 1)
  BY <1>2, <1>3 DEF Connecting
<1>5. QED
  BY <1>1, <1>2, <1>3, <1>4 DEF Order, OnlyFirst, s

LEMMA GatewayLocalStart == Order(runGateway("gateway-local"), "gateway-local")
<1> DEFINE s == runGateway("gateway-local")
<1>1. s \in Seq(StepNames) /\ Len(s) = 4
  BY DEF runGateway, StepNames, Connecting, OnlyFirst
<1>2. /\ s[1] = "pki" /\ s[2] = "node" /\ s[3] = "tools" /\ s[4] = "end"
  BY DEF runGateway
<1> HIDE DEF s
<1>3. \A i \in 1..4 : i = 1 \/ i = 2 \/ i = 3 \/ i = 4
  OBVIOUS
<1>4. \A i \in 1..4 : s[i] \in Connecting => 3 \in 1..(i - 1)
  BY <1>2, <1>3 DEF Connecting
<1>5. QED
  BY <1>1, <1>2, <1>3, <1>4 DEF Order, OnlyFirst, s

LEMMA StartsAreOrderly == \A p \in Processes : Order(StartSteps(p), Starts[p])
<1> SUFFICES ASSUME NEW p \in Processes PROVE Order(StartSteps(p), Starts[p])
  OBVIOUS
<1>1. Starts[p] \in {"stdio", "daemon", "bridge", "gateway",
          "gateway-install", "gateway-stop", "gateway-local", "gateway-client"}
  BY NodeStartAssumption DEF Processes
<1>2. p \in Fleet <=> Starts[p] \in {"stdio", "daemon"}
  BY DEF Fleet
<1>3. QED
  BY <1>1, <1>2, DaemonStart, StdioStart, BridgeStart, GatewayStart, GatewayClientStart,
     GatewayInstallStart, GatewayStopStart, GatewayLocalStart DEF StartSteps

LEMMA StartInitInv == StartInit => StartInv
<1> SUFFICES ASSUME StartInit PROVE StartInv
  OBVIOUS
<1>1. /\ todo = [p \in Processes |-> StartSteps(p)]
      /\ lockedBy = 0 /\ victim = [p \in Processes |-> 0]
      /\ hasTools = {} /\ reachable = {} /\ firstView = << >> /\ stoppedOn = {}
      /\ failures = 0 /\ stops = 0
  BY DEF StartInit
<1>2. /\ startState \in [Processes -> {"new", "absent"}]
  BY DEF StartInit
<1>3. \A p \in Processes : Order(todo[p], Starts[p])
  BY <1>1, StartsAreOrderly
<1>4. \A p \in Processes : p \in Fleet <=> Starts[p] \in {"stdio", "daemon"}
  BY DEF Fleet
<1>5. TodoInv
  <2>1. todo \in [Processes -> Seq(StepNames)]
    BY <1>1, <1>3 DEF Order
  <2>2. \A p \in Processes : startState[p] \in {"new", "absent"} /\ Len(todo[p]) > 0
    BY <1>2, <1>3 DEF Order
  <2>3. ASSUME NEW p \in Processes, NEW i \in 1..Len(todo[p])
        PROVE  /\ todo[p][i] = "fanout" => Starts[p] = "gateway-stop"
               /\ todo[p][i] = "end" => p \notin Fleet
               /\ todo[p][i] \in OnlyFirst => i = 1 /\ p \in Fleet /\ startState[p] # "starting"
               /\ todo[p][i] \in Connecting =>
                    \/ p \in hasTools \/ Starts[p] = "gateway-client"
                    \/ \E j \in 1..(i - 1) : todo[p][j] = "tools"
    <3>1. Order(todo[p], Starts[p])
      BY <1>3
    <3>2. p \in Fleet <=> Starts[p] \in {"stdio", "daemon"}
      BY <1>4
    <3>3. startState[p] # "starting"
      BY <2>2
    <3>4. QED
      BY <3>1, <3>2, <3>3 DEF Order
  <2>4. \A p \in Fleet : todo[p][1] \in OnlyFirst
    <3>1. \A p \in Fleet : p \in Processes /\ Starts[p] \in {"stdio", "daemon"}
      BY DEF Fleet
    <3>2. QED
      BY <1>3, <3>1 DEF Order, OnlyFirst
  <2>5. QED
    BY <2>1, <2>2, <2>3, <2>4 DEF TodoInv
<1>6. LockInv
  <2>1. /\ startState \in [Processes -> States] /\ \A p \in Processes : startState[p] \in {"new", "absent"}
    BY <1>2 DEF States
  <2>2. victim \in [Processes -> Processes \cup {0}] /\ \A p \in Processes : victim[p] = 0
    BY <1>1
  <2>3. QED
    BY <1>1, <2>1, <2>2 DEF LockInv, Fleet
<1>7. HeirInv
  <2> SUFFICES ASSUME NEW p \in Fleet, startState[p] # "absent"
               PROVE  startState[p] = "new" /\ todo[p][1] = "lock"
    BY <1>1 DEF HeirInv
  <2>1. p \in Processes
    BY DEF Fleet
  <2>2. QED
    BY <1>1, <1>2, <1>3, <1>4, <2>1 DEF Order
<1>8. ViewInv
  BY <1>1 DEF ViewInv
<1>9. VictimInv
  <2> SUFFICES ASSUME NEW p \in Processes PROVE todo[p][1] \notin {"kill", "relock"}
    BY DEF VictimInv
  <2>1. Order(todo[p], Starts[p]) /\ (p \in Fleet <=> Starts[p] \in {"stdio", "daemon"})
    BY <1>3, <1>4
  <2>2. CASE p \in Fleet
    BY <2>1, <2>2 DEF Order
  <2>3. CASE p \notin Fleet
    <3>1. 1 \in 1..Len(todo[p])
      BY <2>1 DEF Order
    <3>2. todo[p][1] \notin OnlyFirst
      BY <2>1, <2>3, <3>1 DEF Order
    <3>3. QED
      BY <3>2 DEF OnlyFirst
  <2>4. QED
    BY <2>2, <2>3
<1>10. QED
  BY <1>5, <1>6, <1>7, <1>8, <1>9 DEF StartInv

LEMMA NextStep ==
    ASSUME TodoInv, NEW p \in Processes, startState[p] \in {"new", "starting"}
    PROVE  /\ todo[p] \in Seq(StepNames) /\ Len(todo[p]) \in Nat /\ 1 \in 1..Len(todo[p])
           /\ Head(todo[p]) = todo[p][1]
           /\ Head(todo[p]) \in OnlyFirst => p \in Fleet /\ startState[p] = "new"
           /\ p \in Fleet /\ startState[p] = "new" => Head(todo[p]) \in OnlyFirst
<1>1. todo[p] \in Seq(StepNames) /\ Len(todo[p]) > 0
  BY DEF TodoInv
<1>2. Len(todo[p]) \in Nat /\ 1 \in 1..Len(todo[p]) /\ Head(todo[p]) = todo[p][1]
  BY <1>1
<1>3. todo[p][1] \in OnlyFirst => p \in Fleet /\ startState[p] = "new"
  BY <1>2 DEF TodoInv
<1>4. p \in Fleet /\ startState[p] = "new" => todo[p][1] \in OnlyFirst
  BY DEF TodoInv
<1>5. QED
  BY <1>1, <1>2, <1>3, <1>4

LEMMA TodoAdvances ==
    ASSUME TodoInv, startState \in [Processes -> States],
           NEW p \in Processes, startState[p] \in {"new", "starting"}, Advance(p),
           hasTools \subseteq hasTools', Head(todo[p]) = "tools" => p \in hasTools'
    PROVE  TodoInv'
<1> DEFINE s == todo[p]
           t == Tail(s)
           n == Len(s)
<1>1. /\ s \in Seq(StepNames) /\ n \in Nat /\ 1 \in 1..n /\ Head(s) = s[1]
  BY NextStep
<1>2. /\ t \in Seq(StepNames) /\ Len(t) = n - 1 /\ \A i \in 1..(n - 1) : t[i] = s[i + 1]
  BY <1>1
<1>3. /\ todo' = [todo EXCEPT ![p] = t]
      /\ startState' = [startState EXCEPT ![p] = IF n = 1 THEN "serving" ELSE "starting"]
  BY DEF Advance
<1>4. \A i \in 1..n :
         /\ s[i] = "fanout" => Starts[p] = "gateway-stop"
         /\ s[i] = "end" => p \notin Fleet
         /\ s[i] \in OnlyFirst => i = 1
         /\ s[i] \in Connecting =>
              \/ p \in hasTools \/ Starts[p] = "gateway-client"
              \/ \E j \in 1..(i - 1) : s[j] = "tools"
  BY DEF TodoInv
<1>5. /\ todo' \in [Processes -> Seq(StepNames)] /\ todo'[p] = t
      /\ \A q \in Processes : q # p => todo'[q] = todo[q] /\ startState'[q] = startState[q]
      /\ startState'[p] = IF n = 1 THEN "serving" ELSE "starting"
  BY <1>2, <1>3 DEF TodoInv
<1> HIDE DEF s, t, n
<1>6. \A i \in 1..Len(t) :
         /\ t[i] = "fanout" => Starts[p] = "gateway-stop"
         /\ t[i] = "end" => p \notin Fleet
         /\ t[i] \notin OnlyFirst
         /\ t[i] \in Connecting =>
              \/ p \in hasTools' \/ Starts[p] = "gateway-client"
              \/ \E j \in 1..(i - 1) : t[j] = "tools"
  <2> SUFFICES ASSUME NEW i \in 1..Len(t)
               PROVE  /\ t[i] = "fanout" => Starts[p] = "gateway-stop"
                      /\ t[i] = "end" => p \notin Fleet
                      /\ t[i] \notin OnlyFirst
                      /\ t[i] \in Connecting =>
                           \/ p \in hasTools' \/ Starts[p] = "gateway-client"
                           \/ \E j \in 1..(i - 1) : t[j] = "tools"
    OBVIOUS
  <2>1. i \in 1..(n - 1) /\ i + 1 \in 1..n /\ i + 1 # 1 /\ t[i] = s[i + 1] /\ (i + 1) - 1 = i
    BY <1>1, <1>2
  <2>2. t[i] \in Connecting =>
          \/ p \in hasTools \/ Starts[p] = "gateway-client"
          \/ \E j \in 1..i : s[j] = "tools"
    BY <1>4, <2>1
  <2>3. ASSUME NEW j \in 1..i, s[j] = "tools"
        PROVE  p \in hasTools' \/ \E k \in 1..(i - 1) : t[k] = "tools"
    <3>1. CASE j = 1
      BY <1>1, <2>3, <3>1 DEF s
    <3>2. CASE j # 1
      <4>1. j - 1 \in 1..(i - 1) /\ j - 1 \in 1..(n - 1) /\ (j - 1) + 1 = j
        BY <1>1, <2>1, <3>2
      <4>2. t[j - 1] = "tools"
        BY <1>2, <2>3, <4>1
      <4>3. QED
        BY <4>1, <4>2
    <3>3. QED
      BY <3>1, <3>2
  <2>4. QED
    BY <1>4, <2>1, <2>2, <2>3
<1>7. startState'[p] \in {"new", "starting"} => Len(t) > 0
  BY <1>1, <1>2, <1>5
<1>8. startState'[p] # "new"
  BY <1>5
<1>9. ASSUME NEW q \in Processes, NEW i \in 1..Len(todo'[q])
      PROVE  /\ todo'[q][i] = "fanout" => Starts[q] = "gateway-stop"
             /\ todo'[q][i] = "end" => q \notin Fleet
             /\ todo'[q][i] \in OnlyFirst => i = 1 /\ q \in Fleet /\ startState'[q] # "starting"
             /\ todo'[q][i] \in Connecting =>
                  \/ q \in hasTools' \/ Starts[q] = "gateway-client"
                  \/ \E j \in 1..(i - 1) : todo'[q][j] = "tools"
  <2>1. CASE q = p
    BY <1>5, <1>6, <2>1
  <2>2. CASE q # p
    <3>1. todo'[q] = todo[q] /\ startState'[q] = startState[q]
      BY <1>5, <2>2
    <3>2. QED
      BY <3>1 DEF TodoInv
  <2>3. QED
    BY <2>1, <2>2
<1>10. \A q \in Processes : startState'[q] \in {"new", "starting"} => Len(todo'[q]) > 0
  <2>1. \A q \in Processes : q # p => (startState'[q] \in {"new", "starting"} => Len(todo'[q]) > 0)
    BY <1>5 DEF TodoInv
  <2>2. QED
    BY <1>5, <1>7, <2>1
<1>11. \A q \in Fleet : startState'[q] = "new" => todo'[q][1] \in OnlyFirst
  BY <1>5, <1>8 DEF TodoInv, Fleet
<1>12. QED
  BY <1>5, <1>9, <1>10, <1>11 DEF TodoInv

(* A step after which nobody has begun to start or goes on with it. *)
LEMMA TodoStays ==
    ASSUME TodoInv, UNCHANGED todo, UNCHANGED hasTools,
           \A p \in Processes : startState'[p] = startState[p] \/ startState'[p] \notin {"new", "starting"}
    PROVE  TodoInv'
  BY DEF TodoInv, Fleet

(* A process leaves, and the socket with it if it holds it. *)
LEMMA LockLeaves ==
    ASSUME LockInv, NEW p \in Processes, Leave(p), UNCHANGED victim
    PROVE  LockInv'
<1>1. /\ startState' = [startState EXCEPT ![p] = "gone"]
      /\ lockedBy' = IF lockedBy = p THEN 0 ELSE lockedBy
      /\ startState \in [Processes -> States] /\ 0 \notin Processes /\ Fleet \subseteq Processes
  BY NodeStartAssumption DEF Leave, LockInv, Processes, Fleet
<1>2. /\ startState' \in [Processes -> States] /\ startState'[p] = "gone"
      /\ \A q \in Processes : q # p => startState'[q] = startState[q]
  BY <1>1 DEF States
<1>3. lockedBy' # 0 => lockedBy' = lockedBy /\ lockedBy # p /\ lockedBy \in Processes
  BY <1>1 DEF LockInv
<1>4. \A q \in Processes : victim[q] # 0 => lockedBy' = victim[q] \/ startState'[victim[q]] = "gone"
  <2> SUFFICES ASSUME NEW q \in Processes, victim[q] # 0
               PROVE  lockedBy' = victim[q] \/ startState'[victim[q]] = "gone"
    OBVIOUS
  <2>1. victim[q] \in Processes /\ (lockedBy = victim[q] \/ startState[victim[q]] = "gone")
    BY DEF LockInv
  <2>2. QED
    BY <1>1, <1>2, <2>1
<1>5. \A q \in Fleet : startState'[q] \in {"starting", "serving", "dying"} => lockedBy' = q
  BY <1>1, <1>2 DEF LockInv
<1>6. \A q \in Processes : startState'[q] = "dying" => q \in Fleet
  BY <1>2 DEF LockInv
<1>7. lockedBy' \in Fleet \cup {0}
  BY <1>1 DEF LockInv
<1>8. lockedBy' # 0 => startState'[lockedBy'] \in {"starting", "serving", "dying"}
  BY <1>2, <1>3 DEF LockInv
<1>9. QED
  BY <1>2, <1>4, <1>5, <1>6, <1>7, <1>8 DEF LockInv

(* A process goes on, with the socket if it needs it. *)
LEMMA LockAdvances ==
    ASSUME LockInv, NEW p \in Processes, startState[p] \in {"new", "starting"}, Advance(p), UNCHANGED victim,
           \/ UNCHANGED lockedBy /\ (p \in Fleet => startState[p] = "starting")
           \/ lockedBy = 0 /\ lockedBy' = p /\ p \in Fleet
    PROVE  /\ LockInv'
           /\ startState'[p] \in {"starting", "serving"}
           /\ \A q \in Processes : q # p => startState'[q] = startState[q]
<1>1. /\ startState \in [Processes -> States] /\ 0 \notin Processes /\ Fleet \subseteq Processes
      /\ victim \in [Processes -> Processes \cup {0}] /\ lockedBy \in Fleet \cup {0}
  BY NodeStartAssumption DEF LockInv, Processes, Fleet
<1>2. /\ startState' \in [Processes -> States] /\ startState'[p] \in {"starting", "serving"}
      /\ \A q \in Processes : q # p => startState'[q] = startState[q]
  BY <1>1 DEF Advance, States
<1>3. \A q \in Processes : victim[q] # 0 => lockedBy' = victim[q] \/ startState'[victim[q]] = "gone"
  <2> SUFFICES ASSUME NEW q \in Processes, victim[q] # 0
               PROVE  lockedBy' = victim[q] \/ startState'[victim[q]] = "gone"
    OBVIOUS
  <2>1. victim[q] \in Processes /\ (lockedBy = victim[q] \/ startState[victim[q]] = "gone")
    BY <1>1 DEF LockInv
  <2>2. CASE startState[victim[q]] = "gone"
    BY <1>2, <2>1, <2>2
  <2>3. CASE lockedBy = victim[q]
    BY <1>1, <2>1, <2>3
  <2>4. QED
    BY <2>1, <2>2, <2>3
<1>4. CASE UNCHANGED lockedBy /\ (p \in Fleet => startState[p] = "starting")
  <2>1. \A q \in Fleet : startState'[q] \in {"starting", "serving", "dying"} => lockedBy = q
    BY <1>1, <1>2, <1>4 DEF LockInv
  <2>2. lockedBy # 0 => startState'[lockedBy] \in {"starting", "serving", "dying"}
    BY <1>1, <1>2 DEF LockInv
  <2>3. \A q \in Processes : startState'[q] = "dying" => q \in Fleet
    BY <1>2 DEF LockInv
  <2>4. QED
    BY <1>1, <1>2, <1>3, <1>4, <2>1, <2>2, <2>3 DEF LockInv
<1>5. CASE lockedBy = 0 /\ lockedBy' = p /\ p \in Fleet
  <2>1. \A q \in Fleet : startState'[q] \in {"starting", "serving", "dying"} => q = p
    BY <1>1, <1>2, <1>5 DEF LockInv
  <2>2. \A q \in Processes : startState'[q] = "dying" => q \in Fleet
    BY <1>2 DEF LockInv
  <2>3. QED
    BY <1>1, <1>2, <1>3, <1>5, <2>1, <2>2 DEF LockInv
<1>6. QED
  BY <1>2, <1>4, <1>5

(* A process that is nobody's heir leaves. *)
LEMMA HeirLeaves ==
    ASSUME LockInv, HeirInv, NEW p \in Processes, Leave(p), UNCHANGED <<todo, victim, failures, stops>>,
           ~tooSoon' => ~tooSoon,
           startState[p] # "absent", lockedBy # p,
           p \in Fleet => /\ ~(Waits(p) /\ lockedBy # 0 /\ victim[p] = lockedBy)
                          /\ ~(Waits(p) /\ lockedBy = 0)
                          /\ ~(startState[p] = "new" /\ todo[p][1] = "lock" /\ lockedBy = 0)
    PROVE  HeirInv'
<1>1. /\ startState' = [startState EXCEPT ![p] = "gone"] /\ lockedBy' = lockedBy
      /\ startState \in [Processes -> States] /\ victim \in [Processes -> Processes \cup {0}]
      /\ Fleet \subseteq Processes /\ lockedBy \in Fleet \cup {0}
  BY DEF Leave, LockInv, Fleet
<1>2. /\ startState'[p] = "gone" /\ \A q \in Processes : q # p => startState'[q] = startState[q]
  BY <1>1
<1>3. SUFFICES ASSUME ~tooSoon', failures = 0, stops = 0, \E q \in Fleet : startState'[q] # "absent"
               PROVE  \/ lockedBy # 0 /\ startState'[lockedBy] # "dying"
                      \/ lockedBy # 0 /\ \E q \in Fleet : Waits(q)' /\ victim[q] = lockedBy
                      \/ lockedBy = 0 /\ \E q \in Fleet :
                           \/ startState'[q] = "new" /\ todo[q][1] = "lock"
                           \/ Waits(q)' /\ startState'[victim[q]] = "gone"
  BY <1>1 DEF HeirInv
<1>4. \E q \in Fleet : startState[q] # "absent"
  BY <1>1, <1>2, <1>3
<1>5. CASE lockedBy # 0 /\ startState[lockedBy] # "dying"
  BY <1>1, <1>2, <1>5
<1>6. ASSUME lockedBy # 0, NEW q \in Fleet, Waits(q), victim[q] = lockedBy
      PROVE  Waits(q)'
  <2>1. q # p /\ q \in Processes
    BY <1>1, <1>6
  <2>2. QED
    BY <1>2, <1>6, <2>1 DEF Waits
<1>7. ASSUME lockedBy = 0, NEW q \in Fleet,
             \/ startState[q] = "new" /\ todo[q][1] = "lock"
             \/ Waits(q) /\ startState[victim[q]] = "gone"
      PROVE  \/ startState'[q] = "new" /\ todo[q][1] = "lock"
             \/ Waits(q)' /\ startState'[victim[q]] = "gone"
  <2>1. q # p /\ q \in Processes
    BY <1>1, <1>7
  <2>2. Waits(q) => victim[q] \in Processes /\ Waits(q)'
    BY <1>1, <1>2, <2>1 DEF Waits
  <2>3. QED
    BY <1>2, <1>7, <2>1, <2>2
<1>8. QED
  BY <1>3, <1>4, <1>5, <1>6, <1>7 DEF HeirInv

(* The socket has an owner that is not dying: the host has its node. *)
LEMMA HeirFound ==
    ASSUME lockedBy' # 0, startState'[lockedBy'] # "dying"
    PROVE  HeirInv'
  BY DEF HeirInv

(* A step after which the processes that peers can reach still have tools. *)
LEMMA ViewStays ==
    ASSUME ViewInv, hasTools \subseteq hasTools', reachable' \subseteq reachable,
           UNCHANGED <<firstView, stoppedOn>>, failures' \in Nat, stops' \in Nat
    PROVE  ViewInv'
  BY DEF ViewInv

(* A step after which nobody else has begun to kill. *)
LEMMA VictimStays ==
    ASSUME VictimInv, UNCHANGED victim,
           \A q \in Processes : \/ startState'[q] # "new"
                                \/ startState'[q] = startState[q] /\ todo'[q] = todo[q]
    PROVE  VictimInv'
  BY DEF VictimInv

LEMMA VictimLeft ==
    ASSUME VictimInv, LockInv, NEW p \in Processes, UNCHANGED victim,
           \/ Leave(p) /\ UNCHANGED todo
           \/ Advance(p) /\ todo \in [Processes -> Seq(StepNames)]
    PROVE  VictimInv'
<1>1. startState \in [Processes -> States]
  BY DEF LockInv
<1>2. CASE Leave(p) /\ UNCHANGED todo
  BY <1>1, <1>2, VictimStays DEF Leave
<1>3. CASE Advance(p) /\ todo \in [Processes -> Seq(StepNames)]
  <2>1. /\ startState'[p] \in {"starting", "serving"}
        /\ \A q \in Processes : q # p => startState'[q] = startState[q] /\ todo'[q] = todo[q]
    BY <1>1, <1>3 DEF Advance
  <2>2. QED
    BY <2>1, VictimStays
<1>4. QED
  BY <1>2, <1>3

(* Who is about to bind the socket has not started yet. *)
LEMMA Binding ==
    ASSUME StartInv, NEW p \in Processes, NEW a \in OnlyFirst, At(p, a)
    PROVE  /\ p \in Fleet /\ startState[p] = "new" /\ Head(todo[p]) = todo[p][1]
           /\ lockedBy # p
           /\ 0 \notin Processes /\ Fleet \subseteq Processes
<1>1. /\ startState[p] \in {"new", "starting"} /\ Head(todo[p]) \in OnlyFirst
  BY DEF At
<1>2. p \in Fleet /\ startState[p] = "new" /\ Head(todo[p]) = todo[p][1]
  BY <1>1, NextStep DEF StartInv
<1>3. 0 \notin Processes /\ Fleet \subseteq Processes
  BY NodeStartAssumption DEF Processes, Fleet
<1>4. lockedBy # p
  BY <1>2, <1>3 DEF StartInv, LockInv
<1>5. QED
  BY <1>2, <1>3, <1>4

LEMMA AcquireSteps ==
    ASSUME StartInv, NEW p \in Processes, AcquireLock(p)
    PROVE  StartInv'
<1>1. /\ p \in Fleet /\ startState[p] = "new" /\ Head(todo[p]) = "lock" /\ 0 \notin Processes
      /\ Fleet \subseteq Processes
      /\ Advance(p) /\ lockedBy = 0 /\ lockedBy' = p
      /\ UNCHANGED victim /\ UNCHANGED <<hasTools, reachable, firstView, stoppedOn, tooSoon, failures, stops>>
  BY Binding DEF AcquireLock, At, OnlyFirst
<1>2. LockInv' /\ startState'[p] \in {"starting", "serving"}
  BY <1>1, LockAdvances DEF StartInv
<1>3. TodoInv'
  BY <1>1, TodoAdvances DEF StartInv, LockInv
<1>4. HeirInv'
  BY <1>1, <1>2, HeirFound
<1>5. ViewInv'
  BY <1>1, ViewStays DEF StartInv, ViewInv
<1>6. VictimInv'
  BY <1>1, VictimLeft DEF StartInv, TodoInv
<1>7. QED
  BY <1>2, <1>3, <1>4, <1>5, <1>6 DEF StartInv

(* A process on its way to the socket has the same steps left but for the   *)
(* first.                                                                  *)
LEMMA StepReplaced ==
    ASSUME NEW a \in OnlyFirst, NEW s \in Seq(StepNames), Len(s) > 0
    PROVE  LET r == <<a>> \o Tail(s)
           IN  /\ r \in Seq(StepNames) /\ Len(r) = Len(s) /\ r[1] = a
               /\ \A i \in 2..Len(s) : r[i] = s[i]
<1> DEFINE t == Tail(s)
           n == Len(s)
           r == <<a>> \o t
<1>1. n \in Nat /\ n > 0 /\ t \in Seq(StepNames) /\ Len(t) = n - 1
      /\ \A i \in 1..(n - 1) : t[i] = s[i + 1]
  OBVIOUS
<1>2. <<a>> \in Seq(StepNames) /\ Len(<<a>>) = 1
  BY DEF StepNames
<1> HIDE DEF t, n
<1>3. /\ r \in Seq(StepNames) /\ Len(r) = 1 + Len(t) /\ r[1] = a
      /\ \A i \in 2..(1 + Len(t)) : r[i] = t[i - 1]
  <2>1. r \in Seq(StepNames) /\ Len(r) = 1 + Len(t)
    BY <1>1, <1>2
  <2>2. \A i \in 1..(1 + Len(t)) : r[i] = IF i <= 1 THEN <<a>>[i] ELSE t[i - 1]
    BY <1>1, <1>2
  <2>3. QED
    BY <1>1, <2>1, <2>2
<1>4. \A i \in 2..n : i - 1 \in 1..(n - 1) /\ (i - 1) + 1 = i
  BY <1>1
<1>5. Len(r) = n /\ 1 + Len(t) = n
  BY <1>1, <1>3
<1>6. \A i \in 2..n : r[i] = s[i]
  BY <1>1, <1>3, <1>4, <1>5
<1>7. QED
  BY <1>3, <1>5, <1>6 DEF t, n

LEMMA TodoGoesOn ==
    ASSUME TodoInv, startState \in [Processes -> States],
           NEW p \in Processes, p \in Fleet, startState[p] = "new", todo[p][1] \in OnlyFirst,
           NEW a \in OnlyFirst, GoesOnWith(p, a), UNCHANGED hasTools,
           \A q \in Processes : \/ startState'[q] = startState[q]
                                \/ q # p /\ startState'[q] = "dying"
    PROVE  /\ TodoInv' /\ todo'[p][1] = a
           /\ \A q \in Processes : q # p => todo'[q] = todo[q]
<1>1. /\ todo' = [todo EXCEPT ![p] = <<a>> \o Tail(todo[p])]
      /\ todo \in [Processes -> Seq(StepNames)] /\ Fleet \subseteq Processes
      /\ p \in Fleet /\ startState[p] = "new" /\ todo[p][1] \in OnlyFirst /\ hasTools' = hasTools
  BY DEF GoesOnWith, TodoInv, Fleet
<1>2. /\ startState'[p] = "new"
      /\ \A q \in Processes : startState'[q] = startState[q] \/ startState'[q] = "dying"
  BY <1>1
<1> DEFINE s == todo[p]
           r == <<a>> \o Tail(s)
<1>3. /\ s \in Seq(StepNames) /\ Len(s) \in Nat /\ Len(s) > 0
  BY <1>1, NextStep DEF TodoInv
<1>4. /\ r \in Seq(StepNames) /\ Len(r) = Len(s) /\ r[1] = a
      /\ \A i \in 2..Len(s) : r[i] = s[i]
  BY <1>3, StepReplaced
<1>5. /\ todo' \in [Processes -> Seq(StepNames)] /\ todo'[p] = r
      /\ \A q \in Processes : q # p => todo'[q] = todo[q]
  BY <1>1, <1>4 DEF GoesOnWith
<1>6. \A i \in 1..Len(s) :
         /\ s[i] = "fanout" => Starts[p] = "gateway-stop"
         /\ s[i] = "end" => p \notin Fleet
         /\ s[i] \in OnlyFirst => i = 1
         /\ s[i] \in Connecting =>
              \/ p \in hasTools \/ Starts[p] = "gateway-client"
              \/ \E j \in 1..(i - 1) : s[j] = "tools"
  BY DEF TodoInv
<1>7. s[1] # "tools"
  BY <1>1 DEF OnlyFirst
<1> HIDE DEF s, r
<1>8. \A i \in 1..Len(r) :
         /\ r[i] = "fanout" => Starts[p] = "gateway-stop"
         /\ r[i] = "end" => p \notin Fleet
         /\ r[i] \in OnlyFirst => i = 1
         /\ r[i] \in Connecting =>
              \/ p \in hasTools \/ Starts[p] = "gateway-client"
              \/ \E j \in 1..(i - 1) : r[j] = "tools"
  <2> SUFFICES ASSUME NEW i \in 1..Len(r)
               PROVE  /\ r[i] = "fanout" => Starts[p] = "gateway-stop"
                      /\ r[i] = "end" => p \notin Fleet
                      /\ r[i] \in OnlyFirst => i = 1
                      /\ r[i] \in Connecting =>
                           \/ p \in hasTools \/ Starts[p] = "gateway-client"
                           \/ \E j \in 1..(i - 1) : r[j] = "tools"
    OBVIOUS
  <2>1. CASE i = 1
    BY <1>4, <2>1 DEF Connecting, OnlyFirst
  <2>2. CASE i # 1
    <3>1. i \in 1..Len(s) /\ i \in 2..Len(s) /\ r[i] = s[i]
      BY <1>3, <1>4, <2>2
    <3>2. ASSUME NEW j \in 1..(i - 1), s[j] = "tools"
          PROVE  r[j] = "tools"
      <4>1. j # 1
        BY <1>7, <3>2
      <4>2. j \in 2..Len(s)
        BY <1>3, <3>1, <4>1
      <4>3. QED
        BY <1>4, <3>2, <4>2
    <3>3. QED
      BY <1>6, <3>1, <3>2
  <2>3. QED
    BY <2>1, <2>2
<1>9. TodoInv'
  <2>1. ASSUME NEW q \in Processes, NEW i \in 1..Len(todo'[q])
        PROVE  /\ todo'[q][i] = "fanout" => Starts[q] = "gateway-stop"
               /\ todo'[q][i] = "end" => q \notin Fleet
               /\ todo'[q][i] \in OnlyFirst => i = 1 /\ q \in Fleet /\ startState'[q] # "starting"
               /\ todo'[q][i] \in Connecting =>
                    \/ q \in hasTools' \/ Starts[q] = "gateway-client"
                    \/ \E j \in 1..(i - 1) : todo'[q][j] = "tools"
    <3>1. CASE q = p
      BY <1>1, <1>2, <1>5, <1>8, <3>1
    <3>2. CASE q # p
      <4>1. todo'[q] = todo[q] /\ hasTools' = hasTools
            /\ (startState'[q] = startState[q] \/ startState'[q] = "dying")
        BY <1>1, <1>2, <1>5, <3>2
      <4>2. QED
        BY <4>1 DEF TodoInv
    <3>3. QED
      BY <3>1, <3>2
  <2>2. \A q \in Processes : startState'[q] \in {"new", "starting"} => Len(todo'[q]) > 0
    <3>1. \A q \in Processes : q # p => (startState'[q] \in {"new", "starting"} => Len(todo'[q]) > 0)
      BY <1>2, <1>5 DEF TodoInv
    <3>2. Len(todo'[p]) > 0
      BY <1>3, <1>4, <1>5
    <3>3. QED
      BY <3>1, <3>2
  <2>3. \A q \in Fleet : startState'[q] = "new" => todo'[q][1] \in OnlyFirst
    <3>1. \A q \in Fleet : q # p => (startState'[q] = "new" => todo'[q][1] \in OnlyFirst)
      BY <1>1, <1>2, <1>5 DEF TodoInv
    <3>2. todo'[p][1] \in OnlyFirst
      BY <1>4, <1>5
    <3>3. QED
      BY <3>1, <3>2
  <2>4. QED
    BY <1>5, <2>1, <2>2, <2>3 DEF TodoInv
<1>10. QED
  BY <1>4, <1>5, <1>9

LEMMA LockHeldSteps ==
    ASSUME StartInv, NEW p \in Processes, LockHeld(p)
    PROVE  StartInv'
<1>1. /\ p \in Fleet /\ startState[p] = "new" /\ todo[p][1] = "lock" /\ lockedBy # 0
      /\ GoesOnWith(p, "read") /\ UNCHANGED hasTools
      /\ UNCHANGED <<startState, lockedBy, victim, reachable, firstView, stoppedOn, tooSoon, failures, stops>>
  BY Binding DEF LockHeld, At, OnlyFirst
<1>2. TodoInv' /\ todo'[p][1] = "read" /\ \A q \in Processes : q # p => todo'[q] = todo[q]
  BY <1>1, TodoGoesOn DEF StartInv, LockInv, OnlyFirst
<1>3. LockInv'
  BY <1>1 DEF StartInv, LockInv
<1>4. VictimInv'
  BY <1>1, <1>2 DEF StartInv, VictimInv
<1>5. HeirInv'
  <2>1. \A q \in Fleet : Waits(q) => Waits(q)'
    BY <1>1, <1>2 DEF Waits, Fleet
  <2>2. QED
    BY <1>1, <2>1 DEF StartInv, HeirInv
<1>6. ViewInv'
  BY <1>1, ViewStays DEF StartInv, ViewInv
<1>7. QED
  BY <1>2, <1>3, <1>4, <1>5, <1>6 DEF StartInv

LEMMA ReadSteps ==
    ASSUME StartInv, NEW p \in Processes, readPayloadFromSocket(p)
    PROVE  StartInv'
<1>1. /\ p \in Fleet /\ startState[p] = "new" /\ todo[p][1] = "read"
      /\ lockedBy # p
      /\ 0 \notin Processes /\ Fleet \subseteq Processes
      /\ UNCHANGED hasTools /\ UNCHANGED <<firstView, stoppedOn, tooSoon, failures, stops>>
  BY Binding DEF readPayloadFromSocket, At, OnlyFirst
<1>2. CASE lockedBy # 0 /\ Running(lockedBy) /\ victim' = [victim EXCEPT ![p] = lockedBy]
           /\ GoesOnWith(p, "kill") /\ UNCHANGED <<startState, lockedBy, reachable>>
  <2>1. TodoInv' /\ todo'[p][1] = "kill" /\ \A q \in Processes : q # p => todo'[q] = todo[q]
    BY <1>1, <1>2, TodoGoesOn DEF StartInv, LockInv, OnlyFirst
  <2>2. /\ victim \in [Processes -> Processes \cup {0}] /\ lockedBy \in Processes
        /\ \A q \in Processes : victim[q] # 0 => lockedBy = victim[q] \/ startState[victim[q]] = "gone"
    BY <1>1, <1>2 DEF StartInv, LockInv
  <2>3. /\ victim' \in [Processes -> Processes \cup {0}]
        /\ victim'[p] = lockedBy /\ \A q \in Processes : q # p => victim'[q] = victim[q]
    BY <1>2, <2>2
  <2>4. LockInv'
    <3>1. \A q \in Processes : victim'[q] # 0 => lockedBy = victim'[q] \/ startState[victim'[q]] = "gone"
      BY <2>2, <2>3
    <3>2. QED
      BY <1>2, <2>3, <3>1 DEF StartInv, LockInv
  <2>5. VictimInv'
    BY <1>2, <2>1, <2>3 DEF StartInv, VictimInv
  <2>6. HeirInv'
    BY <1>1, <1>2, HeirFound DEF Running
  <2>7. ViewInv'
    BY <1>1, <1>2, ViewStays DEF StartInv, ViewInv
  <2>8. QED
    BY <2>1, <2>4, <2>5, <2>6, <2>7 DEF StartInv
<1>3. CASE Leave(p) /\ UNCHANGED <<todo, victim>>
  <2>1. TodoInv'
    BY <1>1, <1>3, TodoStays DEF StartInv, Leave, LockInv
  <2>2. LockInv' /\ VictimInv'
    BY <1>3, LockLeaves, VictimLeft DEF StartInv
  <2>3. HeirInv'
    BY <1>1, <1>3, HeirLeaves DEF StartInv, Waits
  <2>4. ViewInv'
    BY <1>1, <1>3, ViewStays DEF StartInv, ViewInv, Leave
  <2>5. QED
    BY <2>1, <2>2, <2>3, <2>4 DEF StartInv
<1>4. QED
  BY <1>2, <1>3 DEF readPayloadFromSocket

LEMMA ReapedSteps ==
    ASSUME StartInv, NEW p \in Processes, Reaped(p)
    PROVE  StartInv'
<1>1. /\ startState[p] = "dying" /\ Leave(p) /\ UNCHANGED victim
      /\ UNCHANGED <<todo, victim, hasTools, firstView, stoppedOn, tooSoon, failures, stops>>
      /\ 0 \notin Processes /\ Fleet \subseteq Processes
  BY NodeStartAssumption DEF Reaped, Processes, Fleet
<1>2. p \in Fleet /\ lockedBy = p
  BY <1>1 DEF StartInv, LockInv
<1>3. /\ startState' = [startState EXCEPT ![p] = "gone"] /\ lockedBy' = 0 /\ reachable' \subseteq reachable
      /\ startState \in [Processes -> States]
  BY <1>1, <1>2 DEF Leave, StartInv, LockInv
<1>4. startState'[p] = "gone" /\ \A q \in Processes : q # p => startState'[q] = startState[q]
  BY <1>3
<1>5. TodoInv'
  BY <1>1, <1>4, TodoStays DEF StartInv
<1>6. LockInv' /\ VictimInv'
  BY <1>1, LockLeaves, VictimLeft DEF StartInv
<1>7. HeirInv'
  <2> SUFFICES ASSUME ~tooSoon, failures = 0, stops = 0
               PROVE  \E q \in Fleet : Waits(q)' /\ startState'[victim'[q]] = "gone"
    BY <1>1, <1>3 DEF HeirInv
  <2>1. \E q \in Fleet : startState[q] # "absent"
    BY <1>1, <1>2
  <2>2. PICK q \in Fleet : Waits(q) /\ victim[q] = p
    BY <1>1, <1>2, <2>1 DEF StartInv, HeirInv
  <2>3. q # p /\ q \in Processes
    BY <1>1, <2>2 DEF Waits
  <2>4. Waits(q)' /\ startState'[victim'[q]] = "gone"
    BY <1>1, <1>4, <2>2, <2>3 DEF Waits
  <2>5. QED
    BY <2>4
<1>8. ViewInv'
  BY <1>1, <1>3, ViewStays DEF StartInv, ViewInv
<1>9. QED
  BY <1>5, <1>6, <1>7, <1>8 DEF StartInv

LEMMA RetrySocketSteps ==
    ASSUME StartInv, NEW p \in Processes, RetryLock(p)
    PROVE  StartInv'
<1>1. /\ p \in Fleet /\ startState[p] = "new" /\ Head(todo[p]) = "relock" /\ todo[p][1] = "relock"
      /\ lockedBy # p
      /\ 0 \notin Processes /\ Fleet \subseteq Processes
      /\ UNCHANGED victim /\ UNCHANGED <<hasTools, firstView, stoppedOn, failures, stops>>
      /\ tooSoon' = (tooSoon \/ lockedBy = victim[p])
  BY Binding DEF RetryLock, At, OnlyFirst
<1>2. CASE lockedBy = 0 /\ Advance(p) /\ lockedBy' = p /\ UNCHANGED reachable
  <2>1. LockInv' /\ startState'[p] \in {"starting", "serving"}
    BY <1>1, <1>2, LockAdvances DEF StartInv
  <2>2. TodoInv' /\ VictimInv'
    BY <1>1, <1>2, TodoAdvances, VictimLeft DEF StartInv, LockInv, TodoInv
  <2>3. HeirInv'
    BY <1>1, <1>2, <2>1, HeirFound
  <2>4. ViewInv'
    BY <1>1, <1>2, ViewStays DEF StartInv, ViewInv
  <2>5. QED
    BY <2>1, <2>2, <2>3, <2>4 DEF StartInv
<1>3. CASE lockedBy # 0 /\ Leave(p) /\ UNCHANGED todo
  <2>1. TodoInv'
    BY <1>1, <1>3, TodoStays DEF StartInv, Leave, LockInv
  <2>2. LockInv' /\ VictimInv'
    BY <1>1, <1>3, LockLeaves, VictimLeft DEF StartInv
  <2>3. HeirInv'
    <3>1. CASE victim[p] = lockedBy
      BY <1>1, <3>1 DEF HeirInv
    <3>2. CASE victim[p] # lockedBy
      <4>1. ~tooSoon' => ~tooSoon
        BY <1>1
      <4>2. ~(Waits(p) /\ lockedBy # 0 /\ victim[p] = lockedBy) /\ startState[p] # "absent"
        BY <1>1, <3>2
      <4>3. QED
        BY <1>1, <1>3, <4>1, <4>2, HeirLeaves DEF StartInv
    <3>3. QED
      BY <3>1, <3>2
  <2>4. ViewInv'
    BY <1>1, <1>3, ViewStays DEF StartInv, ViewInv, Leave
  <2>5. QED
    BY <2>1, <2>2, <2>3, <2>4 DEF StartInv
<1>4. QED
  BY <1>2, <1>3 DEF RetryLock

LEMMA KillSteps ==
    ASSUME StartInv, NEW p \in Processes, KillLockedProcess(p)
    PROVE  StartInv'
<1>1. /\ p \in Fleet /\ startState[p] = "new" /\ todo[p][1] = "kill"
      /\ lockedBy # p
      /\ 0 \notin Processes /\ Fleet \subseteq Processes
      /\ UNCHANGED hasTools /\ UNCHANGED victim
      /\ UNCHANGED <<firstView, stoppedOn, tooSoon, failures, stops>>
  BY Binding DEF KillLockedProcess, At, OnlyFirst
<1>2. victim[p] # 0
  BY <1>1 DEF StartInv, VictimInv
<1>3. CASE Leave(p) /\ UNCHANGED todo
  <2>1. TodoInv'
    BY <1>1, <1>3, TodoStays DEF StartInv, Leave, LockInv
  <2>2. LockInv' /\ VictimInv'
    BY <1>1, <1>3, LockLeaves, VictimLeft DEF StartInv
  <2>3. HeirInv'
    BY <1>1, <1>3, HeirLeaves DEF StartInv, Waits
  <2>4. ViewInv'
    BY <1>1, <1>3, ViewStays DEF StartInv, ViewInv, Leave
  <2>5. QED
    BY <2>1, <2>2, <2>3, <2>4 DEF StartInv
<1>4. CASE /\ startState[victim[p]] # "gone"
           /\ startState' = [startState EXCEPT ![victim[p]] = "dying"]
           /\ GoesOnWith(p, "relock") /\ UNCHANGED <<lockedBy, reachable>>
  <2>1. /\ victim[p] = lockedBy /\ lockedBy \in Fleet /\ lockedBy # 0
        /\ startState \in [Processes -> States]
    BY <1>1, <1>2, <1>4 DEF StartInv, LockInv
  <2>2. /\ startState' \in [Processes -> States] /\ startState'[lockedBy] = "dying"
        /\ \A q \in Processes : q # lockedBy => startState'[q] = startState[q]
    BY <1>1, <1>4, <2>1 DEF States
  <2>3. \A q \in Processes : \/ startState'[q] = startState[q]
                             \/ q # p /\ startState'[q] = "dying"
    BY <1>1, <2>1, <2>2
  <2>4. TodoInv' /\ todo'[p][1] = "relock" /\ \A q \in Processes : q # p => todo'[q] = todo[q]
    BY <1>1, <1>4, <2>1, <2>3, TodoGoesOn DEF StartInv, OnlyFirst
  <2>5. LockInv'
    <3>1. \A q \in Processes : victim[q] # 0 => lockedBy = victim[q] \/ startState'[victim[q]] = "gone"
      BY <2>1, <2>2 DEF StartInv, LockInv
    <3>2. /\ \A q \in Fleet : startState'[q] \in {"starting", "serving", "dying"} => lockedBy = q
          /\ \A q \in Processes : startState'[q] = "dying" => q \in Fleet
      BY <1>1, <2>1, <2>2 DEF StartInv, LockInv
    <3>3. QED
      BY <1>1, <1>4, <2>2, <3>1, <3>2 DEF StartInv, LockInv
  <2>6. VictimInv'
    BY <1>1, <1>2, <2>3, <2>4 DEF StartInv, VictimInv
  <2>7. HeirInv'
    <3>1. startState'[p] = "new" /\ todo'[p][1] = "relock"
      BY <1>1, <2>1, <2>2, <2>4
    <3>2. Waits(p)' /\ victim'[p] = lockedBy'
      BY <1>1, <1>2, <1>4, <2>1, <3>1 DEF Waits
    <3>3. QED
      BY <1>1, <1>4, <2>1, <3>2 DEF HeirInv
  <2>8. ViewInv'
    BY <1>1, <1>4, ViewStays DEF StartInv, ViewInv
  <2>9. QED
    BY <2>4, <2>5, <2>6, <2>7, <2>8 DEF StartInv
<1>5. QED
  BY <1>3, <1>4 DEF KillLockedProcess

(* A process that goes on past the lock takes nothing from an heir. *)
LEMMA HeirStays ==
    ASSUME StartInv, NEW p \in Processes, startState[p] \in {"new", "starting"}, Advance(p),
           p \in Fleet => startState[p] = "starting",
           UNCHANGED <<lockedBy, victim, tooSoon, failures, stops>>
    PROVE  HeirInv'
<1>1. /\ startState \in [Processes -> States] /\ victim \in [Processes -> Processes \cup {0}]
      /\ Fleet \subseteq Processes /\ lockedBy \in Fleet \cup {0}
      /\ todo \in [Processes -> Seq(StepNames)]
  BY DEF StartInv, LockInv, TodoInv, Fleet
<1>2. /\ startState'[p] \in {"starting", "serving"}
      /\ \A q \in Processes : q # p => startState'[q] = startState[q] /\ todo'[q] = todo[q]
  BY <1>1 DEF Advance
<1>3. SUFFICES ASSUME ~tooSoon', failures = 0, stops = 0, \E q \in Fleet : startState'[q] # "absent"
               PROVE  \/ lockedBy # 0 /\ startState'[lockedBy] # "dying"
                      \/ lockedBy # 0 /\ \E q \in Fleet : Waits(q)' /\ victim[q] = lockedBy
                      \/ lockedBy = 0 /\ \E q \in Fleet :
                           \/ startState'[q] = "new" /\ todo'[q][1] = "lock"
                           \/ Waits(q)' /\ startState'[victim[q]] = "gone"
  BY DEF HeirInv
<1>4. \E q \in Fleet : startState[q] # "absent"
  BY <1>1, <1>2, <1>3
<1>5. \A q \in Fleet : startState[q] = "new" =>
          q # p /\ startState'[q] = "new" /\ todo'[q] = todo[q] /\ victim'[q] = victim[q]
  BY <1>1, <1>2
<1>6. \A q \in Fleet : Waits(q) => Waits(q)'
  BY <1>5 DEF Waits
<1>7. \A q \in Processes : startState[q] = "gone" => startState'[q] = "gone"
  BY <1>2
<1>8. CASE lockedBy # 0 /\ startState[lockedBy] # "dying"
  BY <1>1, <1>2, <1>8
<1>9. CASE lockedBy # 0 /\ \E q \in Fleet : Waits(q) /\ victim[q] = lockedBy
  BY <1>6, <1>9
<1>10. ASSUME lockedBy = 0, NEW q \in Fleet,
              \/ startState[q] = "new" /\ todo[q][1] = "lock"
              \/ Waits(q) /\ startState[victim[q]] = "gone"
       PROVE  \/ startState'[q] = "new" /\ todo'[q][1] = "lock"
              \/ Waits(q)' /\ startState'[victim[q]] = "gone"
  <2>1. CASE startState[q] = "new" /\ todo[q][1] = "lock"
    BY <1>5, <2>1
  <2>2. CASE Waits(q) /\ startState[victim[q]] = "gone"
    <3>1. victim[q] \in Processes
      BY <1>1, <2>2 DEF Waits
    <3>2. QED
      BY <1>6, <1>7, <2>2, <3>1
  <2>3. QED
    BY <1>10, <2>1, <2>2
<1>11. QED
  BY <1>3, <1>4, <1>8, <1>9, <1>10 DEF StartInv, HeirInv

LEMMA StepSteps ==
    ASSUME StartInv, NEW p \in Processes, Step(p)
    PROVE  StartInv'
<1>1. /\ startState[p] \in {"new", "starting"} /\ Head(todo[p]) \notin {"lock", "read", "kill", "relock", "end"}
      /\ Advance(p)
      /\ hasTools' = IF Head(todo[p]) = "tools" THEN hasTools \cup {p} ELSE hasTools
      /\ reachable' = IF Head(todo[p]) \in Connecting THEN reachable \cup {p} ELSE reachable
      /\ UNCHANGED victim
      /\ UNCHANGED <<lockedBy, victim, firstView, tooSoon, failures, stops>>
      /\ StopFanOut(p)
  BY DEF Step, Connecting
<1>2. /\ Head(todo[p]) = todo[p][1] /\ 1 \in 1..Len(todo[p])
      /\ p \in Fleet => startState[p] = "starting"
  BY <1>1, NextStep DEF StartInv, OnlyFirst
<1>3. TodoInv'
  BY <1>1, TodoAdvances DEF StartInv, LockInv
<1>4. LockInv' /\ VictimInv'
  BY <1>1, <1>2, LockAdvances, VictimLeft DEF StartInv, TodoInv
<1>5. HeirInv'
  BY <1>1, <1>2, HeirStays
<1>6. ViewInv'
  <2>1. Head(todo[p]) \in Connecting => p \in hasTools \/ Starts[p] = "gateway-client"
    <3> SUFFICES ASSUME todo[p][1] \in Connecting
                 PROVE  p \in hasTools \/ Starts[p] = "gateway-client"
      BY <1>2
    <3>1. \/ p \in hasTools \/ Starts[p] = "gateway-client"
          \/ \E j \in 1..(1 - 1) : todo[p][j] = "tools"
      BY <1>2 DEF StartInv, TodoInv
    <3>2. ~ \E j \in 1..(1 - 1) : todo[p][j] = "tools"
      OBVIOUS
    <3>3. QED
      BY <3>1, <3>2
  <2>2. /\ reachable' \subseteq Processes
        /\ \A q \in reachable' : q \in hasTools' \/ Starts[q] = "gateway-client"
    BY <1>1, <2>1 DEF StartInv, ViewInv
  <2>3. \A h \in stoppedOn' : \E q \in Processes : Starts[q] = "gateway-stop" /\ TargetOf[q] \in {"", h}
    <3>1. CASE Head(todo[p]) = "fanout"
      <4>1. Starts[p] = "gateway-stop"
        BY <1>2, <3>1 DEF StartInv, TodoInv
      <4>2. PICK nodes \in SUBSET StartHosts : stoppedOn' = stoppedOn \cup StopTargets(p, nodes)
        BY <1>1, <3>1 DEF StopFanOut
      <4>3. \A h \in StopTargets(p, nodes) : TargetOf[p] \in {"", h}
        BY DEF StopTargets
      <4>4. QED
        BY <4>1, <4>2, <4>3 DEF StartInv, ViewInv
    <3>2. CASE Head(todo[p]) # "fanout"
      BY <1>1, <3>2 DEF StopFanOut, StartInv, ViewInv
    <3>3. QED
      BY <3>1, <3>2
  <2>4. QED
    BY <1>1, <2>2, <2>3 DEF StartInv, ViewInv
<1>7. QED
  BY <1>3, <1>4, <1>5, <1>6 DEF StartInv

LEMMA StepFailsSteps ==
    ASSUME StartInv, NEW p \in Processes, StepFails(p)
    PROVE  StartInv'
<1>1. /\ failures' = failures + 1 /\ startState[p] \in {"new", "starting"}
      /\ Head(todo[p]) \in {"read", "pki", "node", "stdio", "grpc", "listen", "deploy"}
      /\ UNCHANGED victim /\ UNCHANGED <<hasTools, firstView, stoppedOn, tooSoon, stops>>
  BY DEF StepFails
<1>2. failures' \in Nat /\ failures' # 0
  <2>1. failures \in Nat
    BY DEF StartInv, ViewInv
  <2>2. QED
    BY <1>1, <2>1
<1>3. HeirInv'
  BY <1>2 DEF HeirInv
<1>4. CASE Advance(p) /\ UNCHANGED <<lockedBy, reachable>> /\ Head(todo[p]) \in {"listen", "deploy"}
  <2>1. p \in Fleet => startState[p] = "starting"
    BY <1>1, <1>4, NextStep DEF StartInv, OnlyFirst
  <2>2. TodoInv'
    BY <1>1, <1>4, TodoAdvances DEF StartInv, LockInv
  <2>3. LockInv' /\ VictimInv'
    BY <1>1, <1>4, <2>1, LockAdvances, VictimLeft DEF StartInv, TodoInv
  <2>4. ViewInv'
    BY <1>1, <1>2, <1>4, ViewStays DEF StartInv, ViewInv
  <2>5. QED
    BY <1>3, <2>2, <2>3, <2>4 DEF StartInv
<1>5. CASE Leave(p) /\ UNCHANGED todo
  <2>1. TodoInv'
    BY <1>1, <1>5, TodoStays DEF StartInv, Leave, LockInv
  <2>2. LockInv' /\ VictimInv'
    BY <1>1, <1>5, LockLeaves, VictimLeft DEF StartInv
  <2>3. ViewInv'
    BY <1>1, <1>2, <1>5, ViewStays DEF StartInv, ViewInv, Leave
  <2>4. QED
    BY <1>3, <2>1, <2>2, <2>3 DEF StartInv
<1>6. QED
  BY <1>4, <1>5 DEF StepFails

LEMMA StopSteps ==
    ASSUME StartInv, NEW p \in Processes, Stop(p)
    PROVE  StartInv'
<1>1. /\ Leave(p) /\ UNCHANGED victim
      /\ UNCHANGED <<todo, victim, hasTools, firstView, stoppedOn, tooSoon, failures>>
  BY DEF Stop
<1>2. stops \in Nat /\ (stops' = stops \/ stops' = stops + 1)
  BY DEF Stop, StartInv, ViewInv
<1>3. stops' \in Nat
  BY <1>2
<1>4. TodoInv'
  BY <1>1, TodoStays DEF StartInv, Leave, LockInv
<1>5. LockInv' /\ VictimInv'
  BY <1>1, LockLeaves, VictimLeft DEF StartInv
<1>6. ViewInv'
  BY <1>1, <1>3, ViewStays DEF StartInv, ViewInv, Leave
<1>7. HeirInv'
  <2>1. CASE At(p, "end") /\ UNCHANGED stops
    <3>1. startState[p] \in {"new", "starting"} /\ Head(todo[p]) = "end"
      BY <2>1 DEF At
    <3>2. p \notin Fleet
      BY <3>1, NextStep DEF StartInv, TodoInv
    <3>3. lockedBy # p
      <4>1. 0 \notin Processes
        BY NodeStartAssumption DEF Processes
      <4>2. QED
        BY <3>2, <4>1 DEF StartInv, LockInv
    <3>4. QED
      BY <1>1, <2>1, <3>1, <3>2, <3>3, HeirLeaves DEF StartInv
  <2>2. CASE stops' = stops + 1
    <3>1. stops' # 0
      BY <1>2, <2>2
    <3>2. QED
      BY <3>1 DEF HeirInv
  <2>3. QED
    BY <2>1, <2>2 DEF Stop
<1>8. QED
  BY <1>4, <1>5, <1>6, <1>7 DEF StartInv

LEMMA PeerSteps ==
    ASSUME StartInv, NEW p \in Processes, PeerConnects(p)
    PROVE  StartInv'
<1>1. /\ p \in reachable
      /\ firstView' = [q \in DOMAIN firstView \cup {p} |->
                          IF q = p THEN p \in hasTools ELSE firstView[q]]
      /\ UNCHANGED <<todo, startState, lockedBy, victim, hasTools, reachable, stoppedOn, tooSoon, failures, stops>>
  BY DEF PeerConnects
<1>2. ViewInv'
  BY <1>1 DEF StartInv, ViewInv
<1>3. QED
  BY <1>1, <1>2 DEF StartInv, TodoInv, LockInv, VictimInv, HeirInv, Waits

LEMMA StartInvariant == StartInv /\ StartNext => StartInv'
  BY AcquireSteps, LockHeldSteps, ReadSteps, KillSteps, RetrySocketSteps, ReapedSteps, StepSteps,
     StepFailsSteps, StopSteps, PeerSteps DEF StartNext

LEMMA StartGivesSafety == StartInv => TakeoverIsClean
<1> SUFFICES ASSUME StartInv PROVE TakeoverIsClean
  OBVIOUS
<1>1. \A p \in Fleet :
        startState[p] \in {"starting", "serving"} => lockedBy = p
  BY DEF StartInv, LockInv
<1>2. ASSUME ~tooSoon, failures = 0, stops = 0,
             \A p \in Fleet : startState[p] \in {"absent", "serving", "gone"},
             \E p \in Fleet : startState[p] # "absent"
      PROVE  \E p \in Fleet : startState[p] = "serving"
  <2>1. \A p \in Fleet : startState[p] # "new" /\ ~Waits(p)
    BY <1>2 DEF Waits
  <2>2. lockedBy # 0 /\ startState[lockedBy] # "dying"
    BY <1>2, <2>1 DEF StartInv, HeirInv
  <2>3. lockedBy \in Fleet /\ startState[lockedBy] \in {"starting", "serving", "dying"}
    BY <2>2 DEF StartInv, LockInv
  <2>4. QED
    BY <1>2, <2>2, <2>3
<1>3. QED
  BY <1>1, <1>2 DEF TakeoverIsClean, StartInv, ViewInv

-----------------------------------------------------------------------------
(***************************************************************************)
(* Configuration: the gateway's file and its copies                        *)
(***************************************************************************)

(* What was left on a host is a copy of the gateway's file without its     *)
(* credentials: the file is not imported anew once a node is installed.    *)
ConfigInv ==
    /\ IsFile(gatewayFile) /\ installs \in Nat
    /\ installs = 0 => DOMAIN nodeFile = {}
    /\ \A h \in DOMAIN nodeFile : nodeFile[h] = Stripped(Load(gatewayFile))
    /\ gatewayFile.creds # NoCreds => vaultEntries \in {{}, LoadCredentials(gatewayFile)}

LEMMA ConfigInitInv == ConfigInit => ConfigInv
  BY ConfigurationAssumption DEF ConfigInit, ConfigInv

LEMMA ImportedIsFile == \A exa : IsFile(convertExascalerToml(exa)) /\ convertExascalerToml(exa).creds = NoCreds
<1> SUFFICES ASSUME NEW exa
             PROVE  IsFile(convertExascalerToml(exa)) /\ convertExascalerToml(exa).creds = NoCreds
  OBVIOUS
<1> DEFINE f == convertExascalerToml(exa)
<1>1. f = [id |-> f.id, port |-> f.port, hosts |-> f.hosts, groups |-> f.groups, creds |-> f.creds]
  BY DEF convertExascalerToml
<1>2. f.creds = NoCreds
  BY DEF convertExascalerToml
<1>3. Len(NoCreds) \in Nat /\ DOMAIN NoCreds = 1..Len(NoCreds)
  BY DEF NoCreds
<1>4. QED
  BY <1>1, <1>2, <1>3 DEF IsFile

LEMMA ConfigSteps == ConfigInv /\ ConfigNext => ConfigInv'
<1> SUFFICES ASSUME ConfigInv, ConfigNext PROVE ConfigInv'
  OBVIOUS
<1>1. ASSUME NEW exa \in ExaFiles, ImportExa(exa) PROVE ConfigInv'
  BY <1>1, ImportedIsFile DEF ImportExa, ConfigInv
<1>2. CASE initVault
  BY <1>2 DEF initVault, ConfigInv
<1>3. ASSUME NEW h \in FleetMembers, Install(h) PROVE ConfigInv'
  <2>1. /\ installs' = installs + 1
        /\ nodeFile' = WithKey(nodeFile, h, Stripped(Load(gatewayFile)))
        /\ UNCHANGED <<gatewayFile, vaultEntries>>
    BY <1>3 DEF Install
  <2>2. installs' \in Nat /\ installs' # 0
    BY <2>1 DEF ConfigInv
  <2>3. \A x \in DOMAIN nodeFile' : nodeFile'[x] = Stripped(Load(gatewayFile))
    BY <2>1 DEF WithKey, ConfigInv
  <2>4. QED
    BY <2>1, <2>2, <2>3 DEF ConfigInv
<1>4. ASSUME NEW h \in FleetMembers, Boot(h) PROVE ConfigInv'
  BY <1>4 DEF Boot, ConfigInv
<1>5. QED
  BY <1>1, <1>2, <1>3, <1>4 DEF ConfigNext

(* A copy is loaded as the file it was made of.                            *)
LEMMA CopyIsLoadedAlike ==
    ASSUME NEW f, IsFile(f)
    PROVE  LET c == Stripped(Load(f))
           IN  /\ Load(c).hosts = Load(f).hosts /\ Load(c).port = Load(f).port
               /\ c.groups = f.groups /\ c.creds = NoCreds
<1> DEFINE r == [id |-> f.id, port |-> f.port, hosts |-> f.hosts, groups |-> f.groups, creds |-> f.creds]
           l == [id |-> f.id, port |-> IF f.port = 0 THEN DefaultPort ELSE f.port, hosts |-> f.hosts,
                 groups |-> f.groups, creds |-> f.creds]
           c == [id |-> f.id, port |-> IF f.port = 0 THEN DefaultPort ELSE f.port, hosts |-> f.hosts,
                 groups |-> f.groups, creds |-> NoCreds]
<1>1. f = r
  BY DEF IsFile
<1>2. Load(r) = l
  BY DEF Load
<1>3. Stripped(l) = c
  BY DEF Stripped
<1>4. Load(c) = c
  BY ConfigurationAssumption DEF Load
<1>5. QED
  BY <1>1, <1>2, <1>3, <1>4

LEMMA ConfigGivesSafety == ConfigInv => NodesGetTheConfiguration
<1> SUFFICES ASSUME ConfigInv PROVE NodesGetTheConfiguration
  OBVIOUS
<1>1. ASSUME NEW h \in DOMAIN nodeFile
      PROVE  /\ KnownHosts(Load(nodeFile[h])) = KnownHosts(Load(gatewayFile))
             /\ nodeFile[h].groups = gatewayFile.groups /\ nodeFile[h].creds = NoCreds
  <2>1. /\ Load(nodeFile[h]).hosts = Load(gatewayFile).hosts
        /\ Load(nodeFile[h]).port = Load(gatewayFile).port
        /\ nodeFile[h].groups = gatewayFile.groups /\ nodeFile[h].creds = NoCreds
    BY CopyIsLoadedAlike DEF ConfigInv
  <2>2. QED
    BY <2>1 DEF KnownHosts
<1>2. ASSUME \A n \in DOMAIN gatewayFile.creds : entryToCredential(gatewayFile.creds[n]),
             vaultEntries # {}, gatewayFile.creds # NoCreds
      PROVE  vaultEntries = {gatewayFile.creds[n].pattern : n \in DOMAIN gatewayFile.creds}
  <2> DEFINE n == Len(gatewayFile.creds)
             good == {k \in DOMAIN gatewayFile.creds :
                        \A j \in 1..k : entryToCredential(gatewayFile.creds[j])}
  <2>1. n \in Nat /\ DOMAIN gatewayFile.creds = 1..n
    BY DEF ConfigInv, IsFile
  <2>2. \A k \in 1..n : \A j \in 1..k : j \in 1..n
    BY <2>1
  <2>3. good = DOMAIN gatewayFile.creds
    BY <1>2, <2>1, <2>2
  <2>4. vaultEntries = LoadCredentials(gatewayFile)
    BY <1>2 DEF ConfigInv
  <2>5. QED
    BY <2>3, <2>4 DEF LoadCredentials
<1>3. \A exa \in ExaFiles :
        LET cfg == convertExascalerToml(exa)
        IN \A n \in DOMAIN cfg.groups : \A h \in cfg.groups[n] :
             h \in DOMAIN exa.hosts => (h \in DOMAIN cfg.hosts <=> exa.hosts[h].ips # << >>)
  <2>1. \A exa \in ExaFiles : DOMAIN convertExascalerToml(exa).hosts =
                                {x \in DOMAIN exa.hosts : exa.hosts[x].ips # << >>}
    BY DEF convertExascalerToml
  <2>2. QED
    BY <2>1
<1>4. QED
  BY <1>1, <1>2, <1>3 DEF NodesGetTheConfiguration

-----------------------------------------------------------------------------
(***************************************************************************)
(* The parts of coming up together                                         *)
(***************************************************************************)
NodeInv == CAInv /\ ConfigInv /\ StartInv /\ RetryInv

LEMMA CAStays ==
    ASSUME CAInv, UNCHANGED caVars
    PROVE  CAInv'
  BY DEF CAInv, Valid, Read, caVars

LEMMA ConfigStays ==
    ASSUME ConfigInv, UNCHANGED configVars
    PROVE  ConfigInv'
  BY DEF ConfigInv, configVars

LEMMA StartStays ==
    ASSUME StartInv, UNCHANGED startVars
    PROVE  StartInv'
<1>1. /\ todo' = todo /\ startState' = startState /\ lockedBy' = lockedBy /\ victim' = victim
      /\ hasTools' = hasTools /\ reachable' = reachable /\ firstView' = firstView
      /\ stoppedOn' = stoppedOn /\ failures' = failures /\ stops' = stops
      /\ tooSoon' = tooSoon
  BY DEF startVars
<1>2. TodoInv'
  BY <1>1, TodoStays DEF StartInv
<1>3. LockInv'
  BY <1>1 DEF StartInv, LockInv
<1>4. HeirInv'
  BY <1>1 DEF StartInv, HeirInv, Waits
<1>5. ViewInv'
  BY <1>1, ViewStays DEF StartInv, ViewInv
<1>6. VictimInv'
  BY <1>1 DEF StartInv, VictimInv
<1>7. QED
  BY <1>2, <1>3, <1>4, <1>5, <1>6 DEF StartInv

LEMMA RetryStays ==
    ASSUME RetryInv, UNCHANGED reconcilerVars
    PROVE  RetryInv'
  BY DEF RetryInv, ReconcilerTypes, reconcilerVars

LEMMA NodeSteps == NodeInv /\ [NodeNext]_nodeVars => NodeInv'
<1> SUFFICES ASSUME NodeInv, [NodeNext]_nodeVars PROVE NodeInv'
  OBVIOUS
<1>1. CASE CANext /\ UNCHANGED <<configVars, startVars, reconcilerVars>>
  BY <1>1, CASteps, ConfigStays, StartStays, RetryStays DEF NodeInv
<1>2. CASE ConfigNext /\ UNCHANGED <<caVars, startVars, reconcilerVars>>
  BY <1>2, CAStays, ConfigSteps, StartStays, RetryStays DEF NodeInv
<1>3. CASE StartNext /\ UNCHANGED <<caVars, configVars, reconcilerVars>>
  BY <1>3, CAStays, ConfigStays, StartInvariant, RetryStays DEF NodeInv
<1>4. CASE ReconcilerNext /\ UNCHANGED <<caVars, configVars, startVars>>
  BY <1>4, CAStays, ConfigStays, StartStays, RetrySteps DEF NodeInv
<1>5. CASE UNCHANGED nodeVars
  BY <1>5, CAStays, ConfigStays, StartStays, RetryStays DEF NodeInv, nodeVars
<1>6. QED
  BY <1>1, <1>2, <1>3, <1>4, <1>5 DEF NodeNext

(* However many commands are killed, installations repeated and processes  *)
(* started: a finished command leaves no identity of another authority,    *)
(* those of an authority aside whose file could not be saved or read; a    *)
(* node gets the gateway's configuration without its secrets; a take-over  *)
(* leaves a host bare only after an operation failed, a stop or a victim   *)
(* that outlived the half second the heir allows it; and a lost host is    *)
(* dialled again in time, the time the reconciler spends in other dials    *)
(* not counted (pki_persistence.go, config.go, cli.go, abstractlock.go).   *)
THEOREM NodesStayRight == NodeSpec => []NodesComeUpRight
<1>1. NodeInit => NodeInv
  BY CAInitInv, ConfigInitInv, StartInitInv, RetryInitInv DEF NodeInit, NodeInv
<1>2. NodeInv /\ [NodeNext]_nodeVars => NodeInv'
  BY NodeSteps
<1>3. NodeInv => NodesComeUpRight
  BY CAGivesSafety, ConfigGivesSafety, StartGivesSafety, RetryGivesSafety DEF NodeInv, NodesComeUpRight
<1>4. QED
  BY <1>1, <1>2, <1>3, PTL DEF NodeSpec

-----------------------------------------------------------------------------
(***************************************************************************)
(* Nucleus                                                                 *)
(***************************************************************************)
LEMMA LargerOf == \A a, b \in Int : Max({a, b}) = IF a >= b THEN a ELSE b
<1> SUFFICES ASSUME NEW a \in Int, NEW b \in Int PROVE Max({a, b}) = IF a >= b THEN a ELSE b
  OBVIOUS
<1> DEFINE m == IF a >= b THEN a ELSE b
<1>1. m \in {a, b} /\ \A y \in {a, b} : m >= y
  OBVIOUS
<1>2. \A x \in {a, b} : (\A y \in {a, b} : x >= y) => x = m
  OBVIOUS
<1>3. QED
  BY <1>1, <1>2 DEF Max

LEMMA SmallerOf == \A a, b \in Int : Min({a, b}) = IF a <= b THEN a ELSE b
<1> SUFFICES ASSUME NEW a \in Int, NEW b \in Int PROVE Min({a, b}) = IF a <= b THEN a ELSE b
  OBVIOUS
<1> DEFINE m == IF a <= b THEN a ELSE b
<1>1. m \in {a, b} /\ \A y \in {a, b} : m <= y
  OBVIOUS
<1>2. \A x \in {a, b} : (\A y \in {a, b} : x <= y) => x = m
  OBVIOUS
<1>3. QED
  BY <1>1, <1>2 DEF Min

-----------------------------------------------------------------------------
(* The impedance of any load and any count is in range.                    *)
LEMMA CalculateInRange ==
    ASSUME NEW cpu \in Int, NEW mem \in Int, NEW n \in Int
    PROVE  Calculate(cpu, mem, n) \in MinImpedance..MaxImpedance
<1> DEFINE pressure == Min({100, (100 * Max({0, n})) \div maxStreamPressure})
           c == clampNorm(cpu)
           m == clampNorm(mem)
           composite == 60 * c + 25 * m + 15 * pressure
<1>1. \A p \in Int : clampNorm(p) \in 0..100
  <2> SUFFICES ASSUME NEW p \in Int PROVE clampNorm(p) \in 0..100
    OBVIOUS
  <2> DEFINE low == Min({100, p})
  <2>1. low \in Int /\ low <= 100
    BY SmallerOf
  <2> HIDE DEF low
  <2>2. Max({0, low}) \in 0..100
    <3>1. Max({0, low}) = IF 0 >= low THEN 0 ELSE low
      BY <2>1, LargerOf
    <3>2. QED
      BY <2>1, <3>1
  <2>3. QED
    BY <2>2 DEF clampNorm, low
<1>2. pressure \in 0..100
  <2>1. Max({0, n}) \in Nat
    BY LargerOf
  <2> DEFINE top == Max({0, n})
             share == (100 * top) \div maxStreamPressure
  <2>2. top \in Nat
    BY <2>1
  <2> HIDE DEF top
  <2>3. share \in Nat
    BY <2>2 DEF maxStreamPressure
  <2> HIDE DEF share
  <2>4. Min({100, share}) = IF 100 <= share THEN 100 ELSE share
    BY <2>3, SmallerOf
  <2>5. Min({100, share}) \in 0..100
    BY <2>3, <2>4
  <2>6. QED
    BY <2>5 DEF share, top
<1>7. c \in 0..100 /\ m \in 0..100
  BY <1>1
<1> HIDE DEF c, m, pressure
<1>3. composite \in 0..10000
  BY <1>7, <1>2
<1> HIDE DEF composite
<1>4. (composite * 9900) \div 10000 \in 0..9900
  BY <1>3
<1>5. Calculate(cpu, mem, n)
        = MinImpedance + (composite * (MaxImpedance - MinImpedance)) \div 10000
  BY DEF Calculate, composite, pressure, c, m
<1>8. MinImpedance = 100 /\ MaxImpedance = 10000 /\ MaxImpedance - MinImpedance = 9900
  BY DEF MinImpedance, MaxImpedance
<1> DEFINE part == (composite * 9900) \div 10000
<1>9. Calculate(cpu, mem, n) = 100 + part /\ part \in 0..9900
  BY <1>4, <1>5, <1>8
<1> HIDE DEF part
<1>6. QED
  BY <1>8, <1>9

LEMMA SetInRange == \A v \in Int : SetImpedance(v) \in MinImpedance..MaxImpedance
<1> SUFFICES ASSUME NEW v \in Int PROVE SetImpedance(v) \in MinImpedance..MaxImpedance
  OBVIOUS
<1> DEFINE low == Min({10000, v})
<1>1. low = IF 10000 <= v THEN 10000 ELSE v
  BY SmallerOf
<1>2. low \in Int /\ low <= 10000
  BY <1>1
<1> HIDE DEF low
<1>3. Max({100, low}) = IF 100 >= low THEN 100 ELSE low
  BY <1>2, LargerOf
<1> DEFINE top == Max({100, low})
<1>4. top = IF 100 >= low THEN 100 ELSE low
  BY <1>3
<1> HIDE DEF top
<1>5. top \in 100..10000
  BY <1>2, <1>4
<1>6. QED
  BY <1>5 DEF top, SetImpedance, MinImpedance, MaxImpedance, low

Held(w, n) == {w} \X (1..n)
OpenWith(f) == UNION {Held(w, f[w]) : w \in StreamOps}

(* The streams of all goroutines are those of one and those of the others. *)
LEMMA OpenCount ==
    ASSUME NEW f \in [StreamOps -> Nat], NEW w \in StreamOps, NEW n \in Nat,
           NEW g, g = [f EXCEPT ![w] = n]
    PROVE  /\ IsFiniteSet(OpenWith(f)) /\ Cardinality(OpenWith(f)) \in Nat
           /\ Cardinality(OpenWith(f)) >= f[w]
           /\ Cardinality(OpenWith(g)) = Cardinality(OpenWith(f)) - f[w] + n
<1> DEFINE rest == UNION {Held(v, f[v]) : v \in StreamOps \ {w}}
<1>1. \A v \in StreamOps : \A k \in Nat : IsFiniteSet(Held(v, k)) /\ Cardinality(Held(v, k)) = k
  <2> SUFFICES ASSUME NEW v \in StreamOps, NEW k \in Nat
               PROVE  IsFiniteSet(Held(v, k)) /\ Cardinality(Held(v, k)) = k
    OBVIOUS
  <2>1. IsFiniteSet({v}) /\ Cardinality({v}) = 1
    BY FS_Singleton
  <2>2. IsFiniteSet(1..k) /\ Cardinality(1..k) = k
    <3>1. 1 \in Int /\ k \in Int
      OBVIOUS
    <3>2. IsFiniteSet(1..k) /\ Cardinality(1..k) = IF 1 > k THEN 0 ELSE k - 1 + 1
      BY <3>1, FS_Interval
    <3>3. (IF 1 > k THEN 0 ELSE k - 1 + 1) = k
      OBVIOUS
    <3>4. QED
      BY <3>2, <3>3
  <2>3. IsFiniteSet({v} \X (1..k)) /\ Cardinality({v} \X (1..k)) = Cardinality({v}) * Cardinality(1..k)
    BY <2>1, <2>2, FS_Product
  <2>4. QED
    BY <2>1, <2>2, <2>3 DEF Held
<1>2. IsFiniteSet(rest)
  <2>1. IsFiniteSet(StreamOps \ {w})
    BY NucleusAssumption, FS_Subset
  <2> DEFINE others == StreamOps \ {w}
             h == [v \in others |-> Held(v, f[v])]
  <2>5. h \in Surjection(others, {Held(v, f[v]) : v \in others})
    BY DEF Surjection
  <2>2. IsFiniteSet({Held(v, f[v]) : v \in StreamOps \ {w}})
    BY <2>1, <2>5, FS_Surjection
  <2>3. \A H \in {Held(v, f[v]) : v \in StreamOps \ {w}} : IsFiniteSet(H)
    BY <1>1
  <2>4. QED
    BY <2>2, <2>3, FS_UNION
<1>3. ASSUME NEW k \in Nat
      PROVE  /\ IsFiniteSet(rest \cup Held(w, k))
             /\ Cardinality(rest \cup Held(w, k)) = Cardinality(rest) + k
  <2>1. rest \cap Held(w, k) = {}
    BY DEF Held
  <2>2. /\ IsFiniteSet(rest \cup Held(w, k))
        /\ Cardinality(rest \cup Held(w, k))
             = Cardinality(rest) + Cardinality(Held(w, k)) - Cardinality(rest \cap Held(w, k))
    BY <1>1, <1>2, FS_Union
  <2>3. Cardinality(rest \cap Held(w, k)) = 0
    BY <2>1, FS_EmptySet
  <2>4. Cardinality(Held(w, k)) = k /\ Cardinality(rest) \in Nat
    BY <1>1, <1>2, FS_CardinalityType
  <2> DEFINE cr == Cardinality(rest)
  <2> HIDE DEF rest, cr
  <2>5. QED
    BY <2>2, <2>3, <2>4 DEF cr
<1>4. OpenWith(f) = rest \cup Held(w, f[w])
  BY DEF OpenWith
<1>5. OpenWith(g) = rest \cup Held(w, n)
  BY DEF OpenWith
<1>6. Cardinality(rest) \in Nat
  BY <1>2, FS_CardinalityType
<1>7. f[w] \in Nat
  OBVIOUS
<1> DEFINE cr == Cardinality(rest)
           old == f[w]
<1>8. /\ IsFiniteSet(OpenWith(f)) /\ Cardinality(OpenWith(f)) = cr + old
      /\ Cardinality(OpenWith(g)) = cr + n
  BY <1>3, <1>4, <1>5, <1>7
<1>9. cr \in Nat /\ old \in Nat
  BY <1>6, <1>7
<1> HIDE DEF rest, cr, old
<1>10. cr + old \in Nat /\ cr + old >= old /\ cr + n = (cr + old) - old + n
  BY <1>9
<1>11. QED
  BY <1>8, <1>10 DEF old


-----------------------------------------------------------------------------
(* The load a node advertises.                                             *)
LoadInv ==
    /\ worker \in [StreamOps -> [pc : {"idle", "swap"}, held : Nat, seen : Int]]
    /\ streams = Cardinality(OpenStreams)
    /\ impedance \in MinImpedance..MaxImpedance

HeldBy == [w \in StreamOps |-> worker[w].held]

LEMMA OpenIsHeld == OpenStreams = OpenWith(HeldBy)
  BY DEF OpenStreams, OpenWith, HeldBy, Held

LEMMA CountIsNat == LoadInv => streams \in Nat
<1> SUFFICES ASSUME LoadInv PROVE Cardinality(OpenStreams) \in Nat
  BY DEF LoadInv
<1>1. CASE StreamOps = {}
  <2>1. OpenStreams = {}
    BY <1>1 DEF OpenStreams
  <2>2. QED
    BY <2>1, FS_EmptySet
<1>2. CASE StreamOps # {}
  <2>1. PICK w \in StreamOps : TRUE
    BY <1>2
  <2>2. HeldBy \in [StreamOps -> Nat]
    BY DEF LoadInv, HeldBy
  <2>3. Cardinality(OpenWith(HeldBy)) \in Nat
    BY <2>2, OpenCount
  <2>4. QED
    BY <2>3, OpenIsHeld
<1>3. QED
  BY <1>1, <1>2

LEMMA NoneOpen ==
    ASSUME worker = [w \in StreamOps |-> [pc |-> "idle", held |-> 0, seen |-> 0]]
    PROVE  Cardinality(OpenStreams) = 0
<1>1. OpenStreams = {}
  BY DEF OpenStreams
<1>2. QED
  BY <1>1, FS_EmptySet

(* One goroutine opens or closes what it holds: the count follows. *)
LEMMA CountFollows ==
    ASSUME LoadInv, NEW w \in StreamOps, NEW n \in Nat, NEW rec, rec.held = n,
           rec \in [pc : {"idle", "swap"}, held : Nat, seen : Int],
           worker' = [worker EXCEPT ![w] = rec]
    PROVE  /\ streams \in Nat /\ streams >= worker[w].held /\ worker[w].held \in Nat
           /\ Cardinality(OpenStreams') = streams - worker[w].held + n
           /\ worker' \in [StreamOps -> [pc : {"idle", "swap"}, held : Nat, seen : Int]]
<1>1. HeldBy \in [StreamOps -> Nat] /\ HeldBy[w] = worker[w].held
  BY DEF LoadInv, HeldBy
<1>2. HeldBy' = [HeldBy EXCEPT ![w] = n]
  BY DEF LoadInv, HeldBy
<1>3. OpenStreams = OpenWith(HeldBy) /\ OpenStreams' = OpenWith(HeldBy')
  BY DEF OpenStreams, OpenWith, HeldBy, Held
<1>4. /\ Cardinality(OpenWith(HeldBy)) \in Nat
      /\ Cardinality(OpenWith(HeldBy)) >= HeldBy[w]
      /\ Cardinality(OpenWith(HeldBy')) = Cardinality(OpenWith(HeldBy)) - HeldBy[w] + n
  BY <1>1, <1>2, OpenCount
<1>5. worker' \in [StreamOps -> [pc : {"idle", "swap"}, held : Nat, seen : Int]]
  BY DEF LoadInv
<1>6. streams = Cardinality(OpenWith(HeldBy))
  BY <1>3 DEF LoadInv
<1>7. worker[w].held \in Nat
  BY DEF LoadInv
<1>8. QED
  BY <1>1, <1>3, <1>4, <1>5, <1>6, <1>7

LEMMA LoadStaysTrue ==
    ASSUME LoadInv, NucleusNext \/ UNCHANGED nucleusVars
    PROVE  LoadInv'
<1>1. ASSUME UNCHANGED <<streams, worker, impedance>> PROVE LoadInv'
  BY <1>1 DEF LoadInv, OpenStreams
<1>2. ASSUME NEW cpu \in Loads, NEW mem \in Loads, UpdateOwnImpedance(cpu, mem) PROVE LoadInv'
  <2>1. OpenStreams' = OpenStreams
    BY <1>2 DEF UpdateOwnImpedance, OpenStreams
  <2>2. streams \in Int
    BY CountIsNat
  <2>3. Calculate(cpu, mem, streams) \in Int
    <3>1. cpu \in Int /\ mem \in Int
      BY NucleusAssumption
    <3> DEFINE value == Calculate(cpu, mem, streams)
    <3>2. value \in MinImpedance..MaxImpedance
      BY <2>2, <3>1, CalculateInRange
    <3> HIDE DEF value
    <3>3. value \in Int
      BY <3>2 DEF MinImpedance, MaxImpedance
    <3>4. QED
      BY <3>3 DEF value
  <2>4. SetImpedance(Calculate(cpu, mem, streams)) \in MinImpedance..MaxImpedance
    BY <2>3, SetInRange
  <2>5. impedance' = SetImpedance(Calculate(cpu, mem, streams)) /\ UNCHANGED <<streams, worker>>
    BY <1>2 DEF UpdateOwnImpedance
  <2>6. impedance' \in MinImpedance..MaxImpedance
    BY <2>4, <2>5
  <2>7. impedance' \in (MinImpedance..MaxImpedance)'
    BY <2>6 DEF MinImpedance, MaxImpedance
  <2>8. worker' \in [StreamOps -> [pc : {"idle", "swap"}, held : Nat, seen : Int]]
    BY <2>5 DEF LoadInv
  <2>9. streams' = Cardinality(OpenStreams)'
    BY <2>1, <2>5 DEF LoadInv
  <2>10. QED
    BY <2>7, <2>8, <2>9 DEF LoadInv
<1>3. ASSUME NEW w \in StreamOps, NEW n \in 1..MaxStreams, AddStreams(w, n) PROVE LoadInv'
  <2> DEFINE rec == [worker[w] EXCEPT !.held = @ + n]
  <2>1. /\ rec \in [pc : {"idle", "swap"}, held : Nat, seen : Int]
        /\ rec.held = worker[w].held + n /\ rec.held \in Nat
    BY NucleusAssumption DEF LoadInv
  <2>2. worker' = [worker EXCEPT ![w] = rec]
    BY <1>3 DEF AddStreams
  <2>3. /\ streams \in Nat /\ worker[w].held \in Nat
        /\ Cardinality(OpenStreams') = streams - worker[w].held + rec.held
        /\ worker' \in [StreamOps -> [pc : {"idle", "swap"}, held : Nat, seen : Int]]
    BY <2>1, <2>2, CountFollows
  <2>4. n \in Int
    OBVIOUS
  <2> DEFINE mine == worker[w].held
             count == Cardinality(OpenStreams')
  <2>5. count = streams - mine + (mine + n) /\ streams \in Nat /\ mine \in Nat
    BY <2>1, <2>3
  <2> HIDE DEF mine, count
  <2>6. count = streams + n
    BY <2>4, <2>5
  <2>7. QED
    BY <1>3, <2>3, <2>6 DEF AddStreams, LoadInv, count
<1>4. ASSUME NEW w \in StreamOps, RemoveLoad(w) PROVE LoadInv'
  <2> DEFINE rec == [worker[w] EXCEPT !.pc = "swap", !.seen = streams]
  <2>1. worker' = [worker EXCEPT ![w] = rec]
    BY <1>4 DEF RemoveLoad
  <2>2. OpenStreams' = OpenStreams
    BY <2>1 DEF OpenStreams, LoadInv
  <2>3. streams \in Int
    BY CountIsNat
  <2>4. rec \in [pc : {"idle", "swap"}, held : Nat, seen : Int]
    BY <2>3 DEF LoadInv
  <2>5. QED
    BY <1>4, <2>1, <2>2, <2>4 DEF RemoveLoad, LoadInv
<1>5. ASSUME NEW w \in StreamOps, RemoveSwap(w) PROVE LoadInv'
  <2>1. CASE streams = worker[w].seen
    <3> DEFINE rec == [pc |-> "idle", held |-> 0, seen |-> 0]
    <3>1. /\ streams \in Nat /\ streams >= worker[w].held /\ worker[w].held \in Nat
          /\ Cardinality(OpenStreams') = streams - worker[w].held + 0
          /\ worker' \in [StreamOps -> [pc : {"idle", "swap"}, held : Nat, seen : Int]]
      <4>1. rec \in [pc : {"idle", "swap"}, held : Nat, seen : Int] /\ rec.held = 0 /\ 0 \in Nat
        OBVIOUS
      <4>2. worker' = [worker EXCEPT ![w] = rec]
        BY <1>5, <2>1 DEF RemoveSwap
      <4>3. QED
        BY <4>1, <4>2, CountFollows
    <3> DEFINE left == streams - worker[w].held
    <3>2. left \in Nat /\ Cardinality(OpenStreams') = left
      BY <3>1
    <3>3. Max({0, left}) = left
      <4> HIDE DEF left
      <4>1. Max({0, left}) = IF 0 >= left THEN 0 ELSE left
        BY <3>2, LargerOf
      <4>2. QED
        BY <3>2, <4>1
    <3>4. streams' = left
      BY <1>5, <2>1, <3>3 DEF RemoveSwap
    <3>5. impedance' = impedance
      BY <1>5 DEF RemoveSwap
    <3> HIDE DEF left
    <3>6. QED
      BY <3>1, <3>2, <3>4, <3>5 DEF LoadInv, MinImpedance, MaxImpedance
  <2>2. CASE streams # worker[w].seen
    <3> DEFINE rec == [worker[w] EXCEPT !.seen = streams]
    <3>1. worker' = [worker EXCEPT ![w] = rec] /\ UNCHANGED <<streams, impedance>>
      BY <1>5, <2>2 DEF RemoveSwap
    <3>2. OpenStreams' = OpenStreams
      BY <3>1 DEF OpenStreams, LoadInv
    <3>3. streams \in Int
      BY CountIsNat
    <3>4. rec \in [pc : {"idle", "swap"}, held : Nat, seen : Int]
      BY <3>3 DEF LoadInv
    <3>5. QED
      BY <3>1, <3>2, <3>4 DEF LoadInv, MinImpedance, MaxImpedance
  <2>3. QED
    BY <2>1, <2>2
<1>6. CASE ResolverNext
  BY <1>1, <1>6 DEF ResolverNext, AddEntryFull, ParseHostsContent, Expire, buildBootstrapFrames,
                    handleBootstrapFrame, loadVars
<1>7. CASE ImpedanceNext
  BY <1>2, <1>3, <1>4, <1>5, <1>7 DEF ImpedanceNext
<1>8. CASE UNCHANGED nucleusVars
  BY <1>1, <1>8 DEF nucleusVars
<1>9. QED
  BY <1>6, <1>7, <1>8 DEF NucleusNext


-----------------------------------------------------------------------------
(* What B has been taught. *)
Lives == {"never", "later", "past"}
Records == [addrs : SUBSET Addresses, transport : Transports, expiry : Lives]
Entries == [addrs : SUBSET Addresses, transport : Transports]
MapsTo(V) == UNION {[D -> V] : D \in SUBSET DNSHosts}
Carries(m, p) == p[1] \in DOMAIN m /\ p[2] \in m[p[1]].addrs

(* Every pair that B was sent in whole is in its cache; every pair of the  *)
(* bootstrap under way is there too, or in a chunk that is yet to come.    *)
TaughtInv ==
    /\ cache \in [{"A", "B"} -> MapsTo(Records)]
    /\ chunks \in Seq(MapsTo(Entries))
    /\ taught \subseteq DNSHosts \X Addresses /\ offered \subseteq DNSHosts \X Addresses
    /\ \A p \in taught : Carries(cache["B"], p)
    /\ chunks # <<>> =>
         \A p \in offered : \/ Carries(cache["B"], p)
                            \/ \E k \in 1..Len(chunks) : Carries(chunks[k], p)

LEMMA MapFacts ==
    ASSUME NEW V, NEW m \in MapsTo(V)
    PROVE  DOMAIN m \subseteq DNSHosts /\ \A h \in DOMAIN m : m[h] \in V
  BY DEF MapsTo

LEMMA MapIntro ==
    ASSUME NEW V, NEW D \in SUBSET DNSHosts, NEW f \in [D -> V]
    PROVE  f \in MapsTo(V)
  BY DEF MapsTo

LEMMA PutFacts ==
    ASSUME NEW c \in MapsTo(Records), NEW h \in DNSHosts, NEW rec \in Records
    PROVE  /\ PutEntry(c, h, rec) \in MapsTo(Records)
           /\ \A p : p[1] # h /\ Carries(c, p) => Carries(PutEntry(c, h, rec), p)
           /\ (h \in DOMAIN c => c[h].addrs \subseteq rec.addrs)
                => \A p : Carries(c, p) => Carries(PutEntry(c, h, rec), p)
<1> DEFINE D == DOMAIN c \cup {h}
           d == PutEntry(c, h, rec)
<1>1. DOMAIN c \subseteq DNSHosts /\ \A x \in DOMAIN c : c[x] \in Records
  BY MapFacts
<1>2. D \in SUBSET DNSHosts /\ d \in [D -> Records]
  BY <1>1 DEF PutEntry
<1>3. d \in MapsTo(Records)
  BY <1>2, MapIntro
<1>4. DOMAIN d = D /\ d[h] = rec /\ \A x \in DOMAIN c : x # h => d[x] = c[x]
  BY DEF PutEntry
<1>5. QED
  BY <1>3, <1>4 DEF Carries

LEMMA MergeFacts ==
    ASSUME NEW c \in MapsTo(Records), NEW m \in MapsTo(Entries)
    PROVE  /\ Merge(c, m) \in MapsTo(Records)
           /\ \A p : Carries(c, p) \/ Carries(m, p) => Carries(Merge(c, m), p)
<1> DEFINE D == DOMAIN c \cup DOMAIN m
           d == Merge(c, m)
<1>1. DOMAIN c \subseteq DNSHosts /\ \A x \in DOMAIN c : c[x] \in Records
  BY MapFacts
<1>2. DOMAIN m \subseteq DNSHosts /\ \A x \in DOMAIN m : m[x] \in Entries
  BY MapFacts
<1>3. \A h \in DOMAIN m :
        /\ MergeEntry(c, h, m[h]) \in Records
        /\ m[h].addrs \subseteq MergeEntry(c, h, m[h]).addrs
        /\ h \in DOMAIN c => c[h].addrs \subseteq MergeEntry(c, h, m[h]).addrs
  <2> SUFFICES ASSUME NEW h \in DOMAIN m
               PROVE  /\ MergeEntry(c, h, m[h]) \in Records
                      /\ m[h].addrs \subseteq MergeEntry(c, h, m[h]).addrs
                      /\ h \in DOMAIN c => c[h].addrs \subseteq MergeEntry(c, h, m[h]).addrs
    OBVIOUS
  <2>1. CASE h \notin DOMAIN c
    BY <1>2, <2>1 DEF MergeEntry, Records, Entries, Lives
  <2>2. CASE h \in DOMAIN c
    <3>1. c[h] \in Records /\ m[h] \in Entries
      BY <1>1, <1>2, <2>2
    <3>2. MergeEntry(c, h, m[h])
            = [c[h] EXCEPT !.addrs = @ \cup m[h].addrs,
                           !.transport = IF @ = "" THEN m[h].transport ELSE @]
      BY <2>2 DEF MergeEntry
    <3>3. QED
      BY <3>1, <3>2 DEF Records, Entries
  <2>3. QED
    BY <2>1, <2>2
<1>4. D \in SUBSET DNSHosts /\ d \in [D -> Records]
  BY <1>1, <1>2, <1>3 DEF Merge
<1>5. d \in MapsTo(Records)
  BY <1>4, MapIntro
<1>6. /\ DOMAIN d = D
      /\ \A h \in DOMAIN m : d[h] = MergeEntry(c, h, m[h])
      /\ \A h \in DOMAIN c : h \notin DOMAIN m => d[h] = c[h]
  BY DEF Merge
<1>7. QED
  BY <1>3, <1>5, <1>6 DEF Carries

(* Knowledge that only grows, or shrinks with what was promised. *)
LEMMA CacheStep ==
    ASSUME TaughtInv, cache' \in [{"A", "B"} -> MapsTo(Records)], chunks' = chunks,
           taught' \subseteq taught, offered' \subseteq offered,
           \A p \in taught' \cup offered' : Carries(cache["B"], p) => Carries(cache'["B"], p)
    PROVE  TaughtInv'
<1>1. \A p \in taught' : Carries(cache'["B"], p)
  BY DEF TaughtInv
<1>2. ASSUME chunks' # <<>>, NEW p \in offered'
      PROVE  Carries(cache'["B"], p) \/ \E k \in 1..Len(chunks') : Carries(chunks'[k], p)
  BY <1>2 DEF TaughtInv
<1>3. QED
  BY <1>1, <1>2 DEF TaughtInv, Carries

LEMMA ConfigurationStep ==
    ASSUME TaughtInv, NEW n \in {"A", "B"}, NEW h \in DNSHosts, NEW rec \in Records,
           cache' = [cache EXCEPT ![n] = PutEntry(@, h, rec)], chunks' = chunks,
           \/ /\ taught' = IF n = "B" THEN {p \in taught : p[1] # h} ELSE taught
              /\ offered' = IF n = "B" THEN {p \in offered : p[1] # h} ELSE offered
           \/ /\ UNCHANGED <<taught, offered>>
              /\ h \in DOMAIN cache[n] => cache[n][h].addrs \subseteq rec.addrs
    PROVE  TaughtInv'
<1> DEFINE d == PutEntry(cache[n], h, rec)
<1>1. cache[n] \in MapsTo(Records) /\ cache \in [{"A", "B"} -> MapsTo(Records)]
  BY DEF TaughtInv
<1>2. /\ d \in MapsTo(Records)
      /\ \A p : p[1] # h /\ Carries(cache[n], p) => Carries(d, p)
      /\ (h \in DOMAIN cache[n] => cache[n][h].addrs \subseteq rec.addrs)
           => \A p : Carries(cache[n], p) => Carries(d, p)
  BY <1>1, PutFacts
<1> HIDE DEF d
<1>3. cache' = [cache EXCEPT ![n] = d]
  BY DEF d
<1>4. cache' \in [{"A", "B"} -> MapsTo(Records)]
  BY <1>1, <1>2, <1>3
<1>5. taught' \subseteq taught /\ offered' \subseteq offered
  OBVIOUS
<1>6. \A p \in taught' \cup offered' : Carries(cache["B"], p) => Carries(cache'["B"], p)
  <2>1. CASE n = "B"
    <3>1. cache'["B"] = d
      BY <1>1, <1>3, <2>1
    <3>2. \A p \in taught' \cup offered' : Carries(cache["B"], p) => Carries(d, p)
      BY <1>2, <2>1
    <3>3. QED
      BY <3>1, <3>2
  <2>2. CASE n # "B"
    BY <1>1, <1>3, <2>2
  <2>3. QED
    BY <2>1, <2>2
<1>7. QED
  BY <1>4, <1>5, <1>6, CacheStep

LEMMA ExpireStep ==
    ASSUME TaughtInv, NEW n \in {"A", "B"}, NEW h \in DNSHosts, Expire(n, h)
    PROVE  TaughtInv'
<1> DEFINE rec == [cache[n][h] EXCEPT !.expiry = "past"]
           d == [cache[n] EXCEPT ![h] = rec]
<1>1. cache[n] \in MapsTo(Records) /\ cache \in [{"A", "B"} -> MapsTo(Records)]
  BY DEF TaughtInv
<1>2. DOMAIN cache[n] \subseteq DNSHosts /\ \A x \in DOMAIN cache[n] : cache[n][x] \in Records
  BY <1>1, MapFacts
<1>3. /\ h \in DOMAIN cache[n] /\ rec \in Records /\ rec.addrs = cache[n][h].addrs
      /\ cache' = [cache EXCEPT ![n] = d]
  BY <1>2 DEF Expire, Records, Lives
<1>4. /\ DOMAIN d = DOMAIN cache[n] /\ d[h] = rec
      /\ \A x \in DOMAIN cache[n] : x # h => d[x] = cache[n][x]
  BY <1>1, <1>2, <1>3 DEF MapsTo
<1>5. d \in [DOMAIN cache[n] -> Records]
  BY <1>1, <1>2, <1>3 DEF MapsTo
<1>6. d \in MapsTo(Records) /\ \A p : Carries(cache[n], p) => Carries(d, p)
  <2>1. d \in MapsTo(Records)
    BY <1>2, <1>5, MapIntro
  <2>2. QED
    BY <1>3, <1>4, <2>1 DEF Carries
<1> HIDE DEF d
<1>7. cache' \in [{"A", "B"} -> MapsTo(Records)]
  BY <1>1, <1>3, <1>6
<1>8. \A p : Carries(cache["B"], p) => Carries(cache'["B"], p)
  <2>1. CASE n = "B"
    <3>1. cache'["B"] = d
      BY <1>1, <1>3, <2>1
    <3>2. QED
      BY <1>6, <2>1, <3>1
  <2>2. CASE n # "B"
    BY <1>1, <1>3, <2>2
  <2>3. QED
    BY <2>1, <2>2
<1>9. UNCHANGED <<chunks, taught, offered>>
  BY DEF Expire
<1>10. QED
  BY <1>7, <1>8, <1>9, CacheStep

(* What is offered is what the chunks hold. *)
LEMMA BuildStep ==
    ASSUME TaughtInv, buildBootstrapFrames
    PROVE  TaughtInv'
<1> DEFINE hosts == Fresh(cache["A"])
           all == AllEntries("A")
<1>1. PICK cut \in Cuts(hosts) : chunks' = [k \in DOMAIN cut |-> Restrict(all, cut[k])]
  BY DEF buildBootstrapFrames
<1>2. cache["A"] \in MapsTo(Records)
  BY DEF TaughtInv
<1>3. hosts \subseteq DOMAIN cache["A"] /\ hosts \subseteq DNSHosts
  BY <1>2, MapFacts DEF Fresh
<1>4. /\ cut \in [1..ChunkCount(Cardinality(hosts)) -> SUBSET hosts]
      /\ \A h \in hosts : \E k \in DOMAIN cut : h \in cut[k]
  BY DEF Cuts
<1>5. \A h \in hosts : all[h].addrs = cache["A"][h].addrs /\ all[h] \in Entries
  <2> SUFFICES ASSUME NEW h \in hosts
               PROVE  all[h].addrs = cache["A"][h].addrs /\ all[h] \in Entries
    OBVIOUS
  <2>1. cache["A"][h] \in Records
    BY <1>2, <1>3, MapFacts
  <2>2. all[h] = [addrs |-> cache["A"][h].addrs, transport |-> cache["A"][h].transport]
    BY DEF AllEntries
  <2>3. QED
    BY <2>1, <2>2 DEF Records, Entries
<1>6. IsFiniteSet(hosts)
  BY <1>3, NucleusAssumption, FS_Subset
<1>7. ChunkCount(Cardinality(hosts)) \in Nat
  <2> DEFINE size == Cardinality(hosts)
  <2>1. size \in Nat
    BY <1>6, FS_CardinalityType
  <2> HIDE DEF size, hosts
  <2>2. CASE size = 0
    BY <2>2 DEF ChunkCount, size
  <2>3. CASE size # 0
    <3>1. size + ChunkSize - 1 \in Nat /\ ChunkSize \in Nat \ {0}
      BY <2>1, NucleusAssumption
    <3>2. (size + ChunkSize - 1) \div ChunkSize \in Nat
      BY <3>1
    <3>3. QED
      BY <2>3, <3>2 DEF ChunkCount, size
  <2>4. QED
    BY <2>2, <2>3 DEF size
<1> HIDE DEF hosts, all
<1> DEFINE n == ChunkCount(Cardinality(hosts))
<1>8. \A k \in 1..n : /\ Restrict(all, cut[k]) \in MapsTo(Entries)
                      /\ DOMAIN Restrict(all, cut[k]) = cut[k]
                      /\ \A h \in cut[k] : Restrict(all, cut[k])[h] = all[h]
  <2> SUFFICES ASSUME NEW k \in 1..n
               PROVE  /\ Restrict(all, cut[k]) \in MapsTo(Entries)
                      /\ DOMAIN Restrict(all, cut[k]) = cut[k]
                      /\ \A h \in cut[k] : Restrict(all, cut[k])[h] = all[h]
    OBVIOUS
  <2>1. cut[k] \subseteq hosts
    BY <1>4
  <2>2. cut[k] \in SUBSET DNSHosts /\ Restrict(all, cut[k]) \in [cut[k] -> Entries]
    BY <1>3, <1>5, <2>1 DEF Restrict
  <2>3. Restrict(all, cut[k]) \in MapsTo(Entries)
    BY <2>2, MapIntro
  <2>4. QED
    BY <2>3 DEF Restrict
<1>9. chunks' = [k \in 1..n |-> Restrict(all, cut[k])]
  BY <1>1, <1>4
<1> HIDE DEF n
<1>10. chunks' \in Seq(MapsTo(Entries)) /\ Len(chunks') = n
  <2>1. n \in Nat
    BY <1>7 DEF n
  <2>2. chunks' \in [1..n -> MapsTo(Entries)]
    BY <1>8, <1>9
  <2>3. QED
    BY <2>1, <2>2
<1>11. ASSUME NEW p \in offered'
       PROVE  /\ p \in DNSHosts \X Addresses
              /\ \E k \in 1..Len(chunks') : Carries(chunks'[k], p)
  <2>1. PICK h \in hosts : p \in {h} \X cache["A"][h].addrs
    BY <1>11 DEF buildBootstrapFrames, AllDialTargets, hosts
  <2>2. p[1] = h /\ p[2] \in all[h].addrs /\ cache["A"][h].addrs \subseteq Addresses
    <3>1. cache["A"][h] \in Records
      BY <1>2, <1>3, MapFacts
    <3>2. cache["A"][h].addrs \subseteq Addresses
      BY <3>1 DEF Records
    <3>3. p[1] = h /\ p[2] \in cache["A"][h].addrs
      BY <2>1
    <3>4. all[h].addrs = cache["A"][h].addrs
      BY <1>5
    <3>5. QED
      BY <3>2, <3>3, <3>4
  <2>3. PICK k \in 1..n : h \in cut[k]
    BY <1>4 DEF n
  <2>4. Carries(chunks'[k], p)
    BY <1>8, <1>9, <2>2, <2>3 DEF Carries
  <2>5. QED
    BY <1>3, <1>10, <2>1, <2>2, <2>4
<1>12. UNCHANGED <<cache, taught>>
  BY DEF buildBootstrapFrames
<1>13. QED
  BY <1>10, <1>11, <1>12 DEF TaughtInv, Carries

(* A chunk is merged: what it carried is known, the rest is still to come. *)
LEMMA HandleStep ==
    ASSUME TaughtInv, NEW same \in BOOLEAN, handleBootstrapFrame(same)
    PROVE  TaughtInv'
<1>1. CASE ~same
  <2>1. chunks' = <<>> /\ UNCHANGED <<cache, taught, offered>>
    BY <1>1 DEF handleBootstrapFrame
  <2>2. <<>> \in Seq(MapsTo(Entries))
    OBVIOUS
  <2>3. QED
    BY <2>1, <2>2 DEF TaughtInv
<1>2. CASE same
  <2> DEFINE d == Merge(cache["B"], Head(chunks))
             V == MapsTo(Entries)
  <2>1. /\ chunks # <<>> /\ chunks' = Tail(chunks) /\ cache' = [cache EXCEPT !["B"] = d]
        /\ taught' = taught \cup (IF Tail(chunks) = <<>> THEN offered ELSE {})
        /\ UNCHANGED offered
    BY <1>2 DEF handleBootstrapFrame
  <2>2. chunks \in Seq(V) /\ cache["B"] \in MapsTo(Records)
    BY DEF TaughtInv
  <2> HIDE DEF V
  <2>3. /\ Tail(chunks) \in Seq(V) /\ Head(chunks) \in V /\ Head(chunks) = chunks[1]
        /\ Len(chunks) \in Nat /\ Len(chunks) >= 1 /\ Len(Tail(chunks)) = Len(chunks) - 1
        /\ \A k \in 1..Len(Tail(chunks)) : Tail(chunks)[k] = chunks[k + 1]
    BY <2>1, <2>2
  <2>4. d \in MapsTo(Records) /\ \A p : Carries(cache["B"], p) \/ Carries(Head(chunks), p)
                                          => Carries(d, p)
    BY <2>2, <2>3, MergeFacts DEF V
  <2> HIDE DEF d
  <2>5. cache' \in [{"A", "B"} -> MapsTo(Records)] /\ cache'["B"] = d
    BY <2>1, <2>4 DEF TaughtInv
  <2>6. \A p \in offered : \/ Carries(cache["B"], p)
                           \/ \E k \in 1..Len(chunks) : Carries(chunks[k], p)
    BY <2>1 DEF TaughtInv
  <2>7. ASSUME NEW p \in offered
        PROVE  Carries(d, p) \/ \E k \in 1..Len(Tail(chunks)) : Carries(Tail(chunks)[k], p)
    <3>1. CASE Carries(cache["B"], p)
      BY <2>4, <3>1
    <3>2. ASSUME NEW k \in 1..Len(chunks), Carries(chunks[k], p)
          PROVE  Carries(d, p) \/ \E j \in 1..Len(Tail(chunks)) : Carries(Tail(chunks)[j], p)
      <4>1. CASE k = 1
        BY <2>3, <2>4, <3>2, <4>1
      <4>2. CASE k # 1
        <5> DEFINE len == Len(chunks)
                   tlen == Len(Tail(chunks))
        <5>1. len \in Nat /\ tlen = len - 1 /\ k \in 1..len
          BY <2>3
        <5> HIDE DEF len, tlen
        <5>2. k - 1 \in 1..tlen /\ (k - 1) + 1 = k
          BY <4>2, <5>1
        <5>3. Tail(chunks)[k - 1] = chunks[k]
          <6>1. Tail(chunks)[k - 1] = chunks[(k - 1) + 1]
            BY <2>3, <5>2 DEF tlen
          <6>2. QED
            BY <5>2, <6>1
        <5>4. QED
          BY <3>2, <5>2, <5>3 DEF tlen
      <4>3. QED
        BY <4>1, <4>2
    <3>3. QED
      BY <2>6, <3>1, <3>2
  <2>8. \A p \in taught : Carries(d, p)
    BY <2>4 DEF TaughtInv
  <2>9. \A p \in taught' : Carries(cache'["B"], p)
    <3>1. CASE Tail(chunks) = <<>>
      <4> DEFINE rest == Tail(chunks)
      <4>1. rest = <<>> => Len(rest) = 0
        <5> HIDE DEF rest
        <5>1. QED
          OBVIOUS
      <4>2. 1..Len(Tail(chunks)) = {}
        <5>1. Len(rest) = 0
          BY <3>1, <4>1
        <5> HIDE DEF rest
        <5>2. 1..Len(rest) = {}
          BY <5>1
        <5>3. QED
          BY <5>2 DEF rest
      <4>3. \A p \in offered : Carries(d, p)
        BY <2>7, <4>2
      <4>4. QED
        BY <2>1, <2>5, <2>8, <4>3
    <3>2. CASE Tail(chunks) # <<>>
      BY <2>1, <2>5, <2>8, <3>2
    <3>3. QED
      BY <3>1, <3>2
  <2>10. taught' \subseteq DNSHosts \X Addresses /\ offered' \subseteq DNSHosts \X Addresses
    BY <2>1 DEF TaughtInv
  <2>11. chunks' \in Seq(MapsTo(Entries))
    BY <2>1, <2>3 DEF V
  <2>12. \A p \in offered' : \/ Carries(cache'["B"], p)
                             \/ \E k \in 1..Len(chunks') : Carries(chunks'[k], p)
    BY <2>1, <2>5, <2>7
  <2>13. QED
    BY <2>5, <2>9, <2>10, <2>11, <2>12 DEF TaughtInv
<1>3. QED
  BY <1>1, <1>2

LEMMA TaughtStays ==
    ASSUME TaughtInv, NucleusNext \/ UNCHANGED nucleusVars
    PROVE  TaughtInv'
<1>1. CASE UNCHANGED <<cache, chunks, taught, offered>>
  BY <1>1 DEF TaughtInv
<1>2. ASSUME NEW n \in {"A", "B"}, NEW h \in DNSHosts, NEW a \in Addresses,
             NEW x \in {"never", "later"}, NEW t \in Transports, AddEntryFull(n, h, {a}, x, t)
      PROVE  TaughtInv'
  <2> DEFINE rec == [addrs |-> {a}, transport |-> t, expiry |-> x]
  <2>1. rec \in Records
    BY DEF Records, Lives
  <2>2. /\ cache' = [cache EXCEPT ![n] = PutEntry(@, h, rec)] /\ chunks' = chunks
        /\ taught' = IF n = "B" THEN {p \in taught : p[1] # h} ELSE taught
        /\ offered' = IF n = "B" THEN {p \in offered : p[1] # h} ELSE offered
    BY <1>2 DEF AddEntryFull
  <2> HIDE DEF rec
  <2>3. QED
    BY <2>1, <2>2, ConfigurationStep
<1>3. ASSUME NEW n \in {"A", "B"}, NEW h \in DNSHosts, NEW a \in Addresses,
             ParseHostsContent(n, a, h)
      PROVE  TaughtInv'
  <2> DEFINE rec == HostsRecord(cache[n], a, h)
  <2>1. cache[n] \in MapsTo(Records) /\ \A x \in DOMAIN cache[n] : cache[n][x] \in Records
    BY MapFacts DEF TaughtInv
  <2>2. rec \in Records /\ (h \in DOMAIN cache[n] => cache[n][h].addrs \subseteq rec.addrs)
    BY <2>1 DEF HostsRecord, Records, Lives, Transports
  <2>3. cache' = [cache EXCEPT ![n] = PutEntry(@, h, rec)] /\ UNCHANGED <<chunks, taught, offered>>
    BY <1>3, <2>1 DEF ParseHostsContent, TaughtInv
  <2> HIDE DEF rec
  <2>4. QED
    BY <2>2, <2>3, ConfigurationStep
<1>4. CASE ImpedanceNext
  BY <1>1, <1>4 DEF ImpedanceNext, UpdateOwnImpedance, AddStreams, RemoveLoad, RemoveSwap, bootVars
<1>5. CASE ResolverNext
  BY <1>2, <1>3, <1>5, ExpireStep, BuildStep, HandleStep DEF ResolverNext
<1>6. CASE UNCHANGED nucleusVars
  BY <1>1, <1>6 DEF nucleusVars
<1>7. QED
  BY <1>4, <1>5, <1>6 DEF NucleusNext

LEMMA KnowledgeInit ==
    ASSUME NucleusInit
    PROVE  LoadInv /\ TaughtInv
<1>1. worker \in [StreamOps -> [pc : {"idle", "swap"}, held : Nat, seen : Int]]
  BY DEF NucleusInit
<1>2. Cardinality(OpenStreams) = 0 /\ streams = 0
  BY NoneOpen DEF NucleusInit
<1>3. impedance \in MinImpedance..MaxImpedance
  BY DEF NucleusInit, MinImpedance, MaxImpedance
<1>4. <<>> \in MapsTo(Records)
  <2>1. <<>> \in [{} -> Records]
    OBVIOUS
  <2>2. QED
    BY <2>1 DEF MapsTo
<1>5. TaughtInv
  BY <1>4 DEF TaughtInv, NucleusInit
<1>6. QED
  BY <1>1, <1>2, <1>3, <1>5 DEF LoadInv

(* What a node has learnt at its bootstrap it can dial, and what it tells  *)
(* of its own load is true, for any caches, chunk size, loads and          *)
(* goroutines (bootstrap.go, resolver.go, impedance.go).                   *)
THEOREM KnowledgeStaysSound == NucleusSpec => []KnowledgeIsSound
<1>1. NucleusInit => LoadInv /\ TaughtInv
  BY KnowledgeInit
<1>2. LoadInv /\ TaughtInv /\ [NucleusNext]_nucleusVars => LoadInv' /\ TaughtInv'
  BY LoadStaysTrue, TaughtStays
<1>3. LoadInv /\ TaughtInv => KnowledgeIsSound
  <2> SUFFICES ASSUME LoadInv, TaughtInv PROVE BootstrapTeaches /\ ImpedanceIsSound
    BY DEF KnowledgeIsSound
  <2>1. ASSUME NEW p \in taught
        PROVE  /\ p[1] \in DOMAIN cache["B"] /\ p[2] \in cache["B"][p[1]].addrs
               /\ cache["B"][p[1]].expiry = "never" => p \in AllDialTargets("B")
    <3>1. p \in DNSHosts \X Addresses /\ Carries(cache["B"], p)
      BY DEF TaughtInv
    <3>2. p = <<p[1], p[2]>> /\ p[1] \in DOMAIN cache["B"] /\ p[2] \in cache["B"][p[1]].addrs
      BY <3>1 DEF Carries
    <3>3. ASSUME cache["B"][p[1]].expiry = "never" PROVE p \in AllDialTargets("B")
      <4>1. p[1] \in Fresh(cache["B"])
        BY <3>2, <3>3 DEF Fresh, Expired
      <4>2. p \in {p[1]} \X cache["B"][p[1]].addrs
        BY <3>2
      <4>3. QED
        BY <4>1, <4>2 DEF AllDialTargets
    <3>4. QED
      BY <3>2, <3>3
  <2>2. \A cpu, mem \in Loads : Calculate(cpu, mem, streams) \in MinImpedance..MaxImpedance
    BY CountIsNat, CalculateInRange, NucleusAssumption
  <2>3. QED
    BY <2>1, <2>2 DEF BootstrapTeaches, ImpedanceIsSound, LoadInv
<1>4. QED
  BY <1>1, <1>2, <1>3, PTL DEF NucleusSpec
=============================================================================
