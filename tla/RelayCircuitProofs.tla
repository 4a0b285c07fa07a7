------------------------- MODULE RelayCircuitProofs -------------------------
(***************************************************************************)
(* Proofs about RelayCircuit for every network, every set of calls, every  *)
(* answer of the routing tables and any number of faults.                  *)
(***************************************************************************)
EXTENDS RelayCircuit, TLAPS

(* The connection of circuit c waits at its hop, or its own stream has it. *)
Kept(c) ==
    \/ \E n \in Nodes : via[c] # None /\ via[c][2] = n /\ c \in pending[n]
    \/ \E x \in Dials : relay[x] = c /\ stitched[x] = c

(* A dial that has begun knows its target and its call. *)
Started ==
    \A x \in Dials :
        /\ pc[x] # "idle" => /\ owner[x] \in Calls
                             /\ target[x] = Target[owner[x]]
                             /\ x \in Circuits => via[x] # None
        /\ pc[x] \in {"idle", "dialing"} => relay[x] = None
        /\ pc[x] \in {"idle", "dialing", "waiting"} => stream[x] = "none"
        /\ pc[x] = "dialed" => stream[x] # "none"

(* The dials of one call form a chain: each asks for a circuit of its own, *)
(* and only the last one has not asked.                                    *)
Chain ==
    /\ \A x \in Dials : relay[x] # None =>
            via[relay[x]] # None /\ owner[relay[x]] = owner[x]
    /\ \A x, y \in Dials : relay[x] = relay[y] /\ relay[x] # None => x = y
    /\ \A x, y \in Dials :
            owner[x] = owner[y] /\ owner[x] # None /\ relay[x] = None /\ relay[y] = None
                => x = y
    /\ \A x \in Dials : owner[x] # None => pc[owner[x]] # "idle"
    /\ \A x \in Calls : owner[x] \in {x, None}

(* An ID that uuid.New has not returned yet is nowhere. *)
Fresh ==
    \A c \in Circuits : via[c] = None =>
        pc[c] = "idle" /\ owner[c] = None /\ waiter[c] = "absent"

FrameOK(l, f) ==
    /\ via[f.circuit] # None
    /\ f.type = "RelayOpen" =>
        /\ via[f.circuit] = l /\ pc[f.circuit] = "idle"
        /\ owner[f.circuit] \in Calls /\ f.target = Target[owner[f.circuit]]
    /\ f.type = "RelayAccept" /\ f.success => Kept(f.circuit)

In(f, s) == \E i \in 1..Len(s) : s[i] = f

(* No circuit is asked for twice. *)
Distinct(s) ==
    \A i, j \in 1..Len(s) :
        (s[i].type = "RelayOpen" /\ s[j].type = "RelayOpen"
            /\ s[i].circuit = s[j].circuit) => i = j

InFlight ==
    \A l \in Links :
        /\ Distinct(ctl[l])
        /\ \A f \in Frames : In(f, ctl[l]) => FrameOK(l, f)

(* Who was told that a circuit is ready, or is telling it, is right. *)
Grants ==
    /\ \A c \in Circuits : waiter[c] = "ok" \/ pc[c] = "stored" => Kept(c)
    /\ \A x \in Dials : stream[x] # "none" /\ relay[x] # None => Kept(relay[x])

Stitches ==
    /\ \A n \in Nodes : \A c \in pending[n] : stream[c] # "none"
    /\ \A x \in Dials :
        /\ stitched[x] # None => /\ stitched[x] = relay[x] /\ stream[x] # "none"
                                 /\ stream[stitched[x]] # "none"
        /\ bytes[x] # None => bytes[x] = owner[x]
        /\ stream[x] = "delivered" => relay[x] = None /\ bytes[x] # None

RelayInv ==
    TypeOK /\ Started /\ Chain /\ Fresh /\ InFlight /\ Grants /\ Stitches

-----------------------------------------------------------------------------
(* Sequences of control frames. *)
LEMMA SeqFacts ==
    ASSUME NEW S, NEW s \in Seq(S)
    PROVE  /\ Len(s) \in Nat
           /\ \A e \in S : /\ Append(s, e) \in Seq(S)
                           /\ Len(Append(s, e)) = Len(s) + 1
                           /\ Append(s, e)[Len(s) + 1] = e
                           /\ \A i \in 1..Len(s) : Append(s, e)[i] = s[i]
           /\ \A i \in 1..Len(s) : s[i] \in S
           /\ s # <<>> => /\ Head(s) \in S /\ Head(s) = s[1] /\ 1 \in 1..Len(s)
                          /\ Tail(s) \in Seq(S) /\ Len(Tail(s)) = Len(s) - 1
                          /\ \A i \in 1..Len(Tail(s)) :
                                i + 1 \in 1..Len(s) /\ Tail(s)[i] = s[i + 1]
  OBVIOUS

LEMMA NoneFacts ==
    /\ None \notin Nodes /\ None \notin Links /\ None \notin Circuits
    /\ None \notin Calls
    /\ \A x \in Circuits : x \notin Calls
    /\ \A l \in Links : Back(l) \in Links /\ l[1] \in Nodes /\ l[2] \in Nodes
  BY RelayAssumption DEF Dials, Back

LEMMA FrameFacts ==
    /\ \A c \in Circuits, t \in Nodes : OpenFrame(c, t) \in Frames
    /\ \A c \in Circuits, ok \in BOOLEAN : AcceptFrame(c, ok) \in Frames
    /\ \A f \in Frames :
        /\ f.circuit \in Circuits
        /\ f.type = "RelayOpen" => f.target \in Nodes
        /\ f.type = "RelayAccept" => f.success \in BOOLEAN
        /\ Verdict(f) \in {"ok", "error"}
  BY DEF OpenFrame, AcceptFrame, Frames, Verdict

-----------------------------------------------------------------------------
(* The type invariant needs that a dial in progress knows its target and   *)
(* that its control loop exists.                                           *)
LEMMA TypeInit == Init => TypeOK
  <1>. SUFFICES ASSUME Init PROVE TypeOK
    OBVIOUS
  <1>1. ctl \in [Links -> Seq(Frames)]
    BY DEF Init
  <1>2. faults \in 0..MaxFaults
    BY RelayAssumption DEF Init
  <1>3. QED
    BY <1>1, <1>2 DEF Init, TypeOK, DialStates

LEMMA TransmitType ==
    ASSUME ctl \in [Links -> Seq(Frames)], NEW l \in Links, NEW f \in Frames,
           Transmit(l, f)
    PROVE  ctl' \in [Links -> Seq(Frames)]
  <1>1. Append(ctl[l], f) \in Seq(Frames)
    BY SeqFacts
  <1>2. QED
    BY <1>1 DEF Transmit

LEMMA TailType ==
    ASSUME ctl \in [Links -> Seq(Frames)], NEW l \in Links, ctl[l] # <<>>,
           ctl' = [ctl EXCEPT ![l] = Tail(@)]
    PROVE  ctl' \in [Links -> Seq(Frames)]
  <1>1. Tail(ctl[l]) \in Seq(Frames)
    BY SeqFacts
  <1>2. QED
    BY <1>1

LEMMA FaultType == faults \in 0..MaxFaults /\ Fault => faults' \in 0..MaxFaults
  BY RelayAssumption DEF Fault

(* Where a dial in progress runs, and the next hops it may ask. *)
LEMMA HopFacts ==
    ASSUME TypeOK, Started, NEW x \in Dials, pc[x] # "idle"
    PROVE  /\ At(x) \in Nodes /\ target[x] \in Nodes
           /\ \A h \in RelayHops(x) : h \in Nodes /\ <<At(x), h>> \in Links
  <1>1. target[x] \in Nodes
    BY RelayAssumption DEF Started
  <1>2. At(x) \in Nodes
    <2>1. CASE x \in Calls
      BY <2>1, RelayAssumption DEF At
    <2>2. CASE x \in Circuits
      BY <2>2, NoneFacts DEF At, Started, TypeOK
    <2>3. QED
      BY <2>1, <2>2 DEF Dials
  <1>3. QED
    BY <1>1, <1>2, RelayAssumption DEF RelayHops, TypeOK

LEMMA TypeStep == TypeOK /\ Started /\ [Next]_vars => TypeOK'
  <1>. SUFFICES ASSUME TypeOK, Started, [Next]_vars PROVE TypeOK'
    OBVIOUS
  <1>. USE DEF DialStates, Dials
  <1>1. ASSUME NEW x \in Calls, StartCall(x) PROVE TypeOK'
    BY <1>1, RelayAssumption DEF TypeOK, StartCall, netVars, streamVars
  <1>2. ASSUME NEW x \in Dials, DialDirect(x) PROVE TypeOK'
    BY <1>2 DEF TypeOK, DialDirect, netVars
  <1>3. ASSUME NEW x \in Dials, DialRelay(x) PROVE TypeOK'
    <2>1. PICK h \in RelayHops(x), c \in Unused :
            /\ pc' = [pc EXCEPT ![x] = "waiting"]
            /\ relay' = [relay EXCEPT ![x] = c]
            /\ via' = [via EXCEPT ![c] = <<At(x), h>>]
            /\ owner' = [owner EXCEPT ![c] = owner[x]]
            /\ waiter' = [waiter EXCEPT ![c] = "empty"]
            /\ Transmit(<<At(x), h>>, OpenFrame(c, target[x]))
      BY <1>3 DEF DialRelay
    <2>2. c \in Circuits /\ pc[x] # "idle"
      BY <1>3 DEF Unused, DialRelay
    <2>3. <<At(x), h>> \in Links /\ target[x] \in Nodes
      BY <2>2, HopFacts
    <2>4. ctl' \in [Links -> Seq(Frames)]
      BY <2>1, <2>2, <2>3, TransmitType, FrameFacts DEF TypeOK
    <2>5. QED
      BY <1>3, <2>1, <2>2, <2>3, <2>4 DEF TypeOK, DialRelay, netVars, streamVars
  <1>4. ASSUME NEW x \in Dials, DialFails(x) \/ CtxOver(x) PROVE TypeOK'
    BY <1>4 DEF TypeOK, DialFails, CtxOver, netVars, streamVars
  <1>5. ASSUME NEW x \in Dials, DialRefused(x) PROVE TypeOK'
    BY <1>5, FaultType DEF TypeOK, DialRefused, streamVars
  <1>6. ASSUME NEW x \in Dials,
               OpenRelayStream(x) \/ RelayFails(x) \/ CtxDone(x) PROVE TypeOK'
    <2>1. /\ stream' \in [Dials -> {"none", "open", "delivered", "closed"}]
          /\ ended' \subseteq Dials
      BY <1>6 DEF TypeOK, OpenRelayStream, RelayFails, CtxDone
    <2>2. PICK state \in {"dialed", "failed"} : ReturnFrom(x, state)
      BY <1>6 DEF OpenRelayStream, RelayFails, CtxDone
    <2>3. QED
      BY <2>1, <2>2 DEF TypeOK, ReturnFrom, netVars
  <1>7. ASSUME NEW l \in Links, HandleRelayOpen(l) PROVE TypeOK'
    <2>1. Head(ctl[l]) \in Frames /\ ctl[l] # <<>> /\ Head(ctl[l]).type = "RelayOpen"
      BY <1>7, SeqFacts DEF HandleRelayOpen, Received, TypeOK
    <2>2. ctl' \in [Links -> Seq(Frames)]
      BY <1>7, <2>1, TailType DEF HandleRelayOpen, TypeOK
    <2>3. QED
      BY <1>7, <2>1, <2>2, FrameFacts DEF TypeOK, HandleRelayOpen, netVars, streamVars
  <1>8. ASSUME NEW c \in Circuits, StorePending(c) PROVE TypeOK'
    BY <1>8 DEF TypeOK, StorePending, netVars
  <1>9. ASSUME NEW c \in Circuits, SendAccept(c) PROVE TypeOK'
    <2>1. Back(via[c]) \in Links
      BY <1>9, NoneFacts DEF SendAccept, Started, TypeOK
    <2>2. ctl' \in [Links -> Seq(Frames)]
      BY <1>9, <2>1, TransmitType, FrameFacts DEF SendAccept, TypeOK
    <2>3. QED
      BY <1>9, <2>2 DEF TypeOK, SendAccept, netVars, streamVars
  <1>10. ASSUME NEW c \in Circuits, AcceptDropped(c) PROVE TypeOK'
    BY <1>10, FaultType DEF TypeOK, AcceptDropped, streamVars
  <1>11. ASSUME NEW l \in Links, HandleRelayAccept(l) PROVE TypeOK'
    <2>1. Head(ctl[l]) \in Frames /\ ctl[l] # <<>>
      BY <1>11, SeqFacts DEF HandleRelayAccept, Received, TypeOK
    <2>2. ctl' \in [Links -> Seq(Frames)]
      BY <1>11, <2>1, TailType DEF HandleRelayAccept, TypeOK
    <2>3. QED
      BY <1>11, <2>1, <2>2, FrameFacts
         DEF TypeOK, HandleRelayAccept, netVars, streamVars
  <1>12. ASSUME NEW x \in Dials, AcceptRelayStream(x) PROVE TypeOK'
    <2>1. /\ pending' \in [Nodes -> SUBSET Circuits]
          /\ stream' \in [Dials -> {"none", "open", "delivered", "closed"}]
          /\ stitched' \in [Dials -> Circuits \cup {None}]
      <3>1. CASE UNCHANGED <<pending, stitched>>
                 /\ stream' = [stream EXCEPT ![x] = "closed"]
        BY <3>1 DEF TypeOK
      <3>2. ASSUME NEW n, NEW c \in Lookup(n, relay[x]),
                   pending' = [pending EXCEPT ![n] = @ \ {c}],
                   stitched' = [stitched EXCEPT ![x] = c], stream' = stream
            PROVE  /\ pending' \in [Nodes -> SUBSET Circuits]
                   /\ stream' \in [Dials -> {"none", "open", "delivered", "closed"}]
                   /\ stitched' \in [Dials -> Circuits \cup {None}]
        BY <3>2 DEF TypeOK, Lookup
      <3>3. QED
        BY <1>12, <3>1, <3>2 DEF AcceptRelayStream
    <2>2. QED
      BY <1>12, <2>1 DEF TypeOK, AcceptRelayStream, dialVars, netVars
  <1>13. ASSUME NEW x \in Calls, FirstByte(x) PROVE TypeOK'
    BY <1>13 DEF TypeOK, FirstByte, dialVars, netVars
  <1>14. ASSUME NEW x \in Dials, Copy(x) PROVE TypeOK'
    BY <1>14 DEF TypeOK, Copy, dialVars, netVars
  <1>15. ASSUME NEW x \in Dials, DeliverStream(x) \/ Hangup(x) PROVE TypeOK'
    BY <1>15 DEF TypeOK, DeliverStream, Hangup, dialVars, netVars
  <1>15a. ASSUME NEW x \in Dials, StitchEnds(x) \/ IdleTimeout(x) PROVE TypeOK'
    <2>1. faults' \in 0..MaxFaults /\ CloseBoth(x)
      BY <1>15a, FaultType DEF StitchEnds, IdleTimeout, TypeOK
    <2>2. QED
      BY <2>1 DEF TypeOK, CloseBoth, dialVars
  <1>16. ASSUME NEW x \in Dials, FirstByteDeadline(x) \/ LateFirstByte(x) PROVE TypeOK'
    <2>1. faults' \in 0..MaxFaults /\ CloseStream(x)
      BY <1>16, FaultType DEF FirstByteDeadline, LateFirstByte, TypeOK
    <2>2. QED
      BY <2>1 DEF TypeOK, CloseStream, dialVars
  <1>17. ASSUME NEW l \in Links, Break(l) PROVE TypeOK'
    <2>1. ctl' \in [Links -> Seq(Frames)]
      BY <1>17 DEF Break, TypeOK
    <2>2. stream' \in [Dials -> {"none", "open", "delivered", "closed"}]
      BY <1>17 DEF Break, TypeOK
    <2>3. QED
      BY <1>17, <2>1, <2>2, FaultType DEF TypeOK, Break, dialVars
  <1>18. ASSUME NEW l \in Links, PeerDeath(l) PROVE TypeOK'
    BY <1>18 DEF TypeOK, PeerDeath, dialVars, streamVars
  <1>19. CASE UNCHANGED vars
    BY <1>19 DEF TypeOK, vars, dialVars, netVars, streamVars
  <1>20. QED
    BY <1>1, <1>2, <1>3, <1>4, <1>5, <1>6, <1>7, <1>8, <1>9, <1>10, <1>11, <1>12,
       <1>13, <1>14, <1>15, <1>16, <1>17, <1>18, <1>19, <1>15a
       DEF Next, DialStep, ControlStep

-----------------------------------------------------------------------------
(* The steps, grouped by what they leave alone. *)
DialProgress(x) == DialFails(x) \/ DialRefused(x) \/ CtxOver(x)
Deadline(x) == FirstByteDeadline(x) \/ LateFirstByte(x)
RelayReturn(x) == OpenRelayStream(x) \/ RelayFails(x) \/ CtxDone(x)
Teardown(x) == StitchEnds(x) \/ IdleTimeout(x)
Answer(c) == SendAccept(c) \/ AcceptDropped(c)

LEMMA StepCases ==
    ASSUME [Next]_vars
    PROVE  \/ \E x \in Calls : StartCall(x) \/ FirstByte(x)
           \/ \E x \in Dials : \/ DialDirect(x) \/ DialRelay(x) \/ DialProgress(x)
                               \/ RelayReturn(x) \/ AcceptRelayStream(x) \/ Copy(x)
                               \/ DeliverStream(x) \/ Hangup(x) \/ Teardown(x)
                               \/ Deadline(x)
           \/ \E c \in Circuits : StorePending(c) \/ Answer(c)
           \/ \E l \in Links : HandleRelayOpen(l) \/ HandleRelayAccept(l) \/ Break(l)
                               \/ PeerDeath(l)
           \/ UNCHANGED vars
  BY DEF Next, DialStep, ControlStep, DialProgress, RelayReturn, Answer, Deadline,
         Teardown, Dials

(* What DialRelay does, with next hop h and the fresh circuit c. *)
RelayStep(x, h, c) ==
    /\ via[c] = None /\ pc[x] = "dialing"
    /\ pc' = [pc EXCEPT ![x] = "waiting"]
    /\ relay' = [relay EXCEPT ![x] = c]
    /\ via' = [via EXCEPT ![c] = <<At(x), h>>]
    /\ owner' = [owner EXCEPT ![c] = owner[x]]
    /\ waiter' = [waiter EXCEPT ![c] = "empty"]
    /\ Transmit(<<At(x), h>>, OpenFrame(c, target[x]))
    /\ UNCHANGED <<target, pending, stream, stitched, bytes, up>>

LEMMA DialRelayPick ==
    ASSUME NEW x \in Dials, DialRelay(x)
    PROVE  \E h \in RelayHops(x), c \in Circuits : RelayStep(x, h, c)
  BY DEF DialRelay, Unused, streamVars, netVars, RelayStep

(* The frame at the head of a control stream that is not empty. *)
LEMMA HeadFacts ==
    ASSUME TypeOK, InFlight, NEW l \in Links, ctl[l] # <<>>
    PROVE  Head(ctl[l]) \in Frames /\ FrameOK(l, Head(ctl[l]))
  <1>1. ctl[l] \in Seq(Frames)
    BY DEF TypeOK
  <1>2. Head(ctl[l]) \in Frames /\ Head(ctl[l]) = ctl[l][1] /\ 1 \in 1..Len(ctl[l])
    BY <1>1, SeqFacts
  <1>3. In(Head(ctl[l]), ctl[l])
    BY <1>2 DEF In
  <1>4. QED
    BY <1>2, <1>3 DEF InFlight

LEMMA StartedInit == Init => Started
  BY DEF Init, Started, Dials

LEMMA StartedStep == RelayInv /\ [Next]_vars => Started'
  <1>. SUFFICES ASSUME RelayInv, [Next]_vars PROVE Started'
    OBVIOUS
  <1>. USE NoneFacts DEF RelayInv, TypeOK
  <1>1. ASSUME NEW x \in Calls, StartCall(x) PROVE Started'
    BY <1>1 DEF StartCall, Started, streamVars, Dials
  <1>2. ASSUME NEW x \in Dials, DialDirect(x) PROVE Started'
    BY <1>2 DEF DialDirect, Started
  <1>3. ASSUME NEW x \in Dials, DialRelay(x) PROVE Started'
    <2>1. PICK h \in RelayHops(x), c \in Circuits : RelayStep(x, h, c)
      BY <1>3, DialRelayPick
    <2>2. pc[c] = "idle" /\ c \in Dials
      BY <2>1 DEF Fresh, Dials, RelayStep
    <2>3. <<At(x), h>> # None
      <3>1. TypeOK /\ Started /\ pc[x] # "idle"
        BY <2>1 DEF RelayStep
      <3>. HIDE DEF TypeOK
      <3>2. QED
        BY <2>1, <3>1, HopFacts
    <2>4. QED
      BY <2>1, <2>2, <2>3 DEF Started, RelayStep
  <1>4. ASSUME NEW x \in Dials, DialProgress(x) PROVE Started'
    BY <1>4 DEF DialProgress, DialFails, DialRefused, CtxOver, Started, streamVars
  <1>5. ASSUME NEW x \in Dials, RelayReturn(x) PROVE Started'
    <2>1. PICK state \in {"dialed", "failed"} :
            /\ ReturnFrom(x, state)
            /\ stream' = IF state = "dialed" THEN [stream EXCEPT ![x] = "open"] ELSE stream
      BY <1>5 DEF RelayReturn, OpenRelayStream, RelayFails, CtxDone
    <2>3. pc[x] = "waiting"
      BY <1>5 DEF RelayReturn, OpenRelayStream, RelayFails, CtxDone, Answered
    <2>4. QED
      BY <2>1, <2>3 DEF ReturnFrom, Started
  <1>6. ASSUME NEW l \in Links, HandleRelayOpen(l) PROVE Started'
    <2>. DEFINE f == Head(ctl[l])
    <2>1. f \in Frames /\ FrameOK(l, f) /\ f.type = "RelayOpen"
      BY <1>6, HeadFacts DEF HandleRelayOpen, Received
    <2>2. f.circuit \in Circuits /\ f.circuit \in Dials
      BY <2>1, FrameFacts DEF Dials
    <2>3. /\ pc' = [pc EXCEPT ![f.circuit] = "dialing"]
          /\ target' = [target EXCEPT ![f.circuit] = f.target]
          /\ UNCHANGED <<relay, via, owner, stream>>
      BY <1>6 DEF HandleRelayOpen, streamVars
    <2>. HIDE DEF f
    <2>4. QED
      BY <2>1, <2>2, <2>3 DEF FrameOK, Started
  <1>7. ASSUME NEW c \in Circuits, StorePending(c) PROVE Started'
    BY <1>7 DEF StorePending, Started, Dials
  <1>8. ASSUME NEW c \in Circuits, Answer(c) PROVE Started'
    BY <1>8 DEF Answer, SendAccept, AcceptDropped, Started, streamVars, Dials
  <1>9. ASSUME NEW l \in Links, HandleRelayAccept(l) PROVE Started'
    BY <1>9 DEF HandleRelayAccept, Started, streamVars
  <1>10. ASSUME NEW x \in Dials, AcceptRelayStream(x) PROVE Started'
    BY <1>10 DEF AcceptRelayStream, Started, dialVars
  <1>11. ASSUME NEW x \in Dials, Copy(x) \/ FirstByte(x) PROVE Started'
    BY <1>11 DEF Copy, FirstByte, Started, dialVars
  <1>12. ASSUME NEW x \in Dials, DeliverStream(x) \/ Hangup(x) \/ Deadline(x)
         PROVE  Started'
    BY <1>12 DEF DeliverStream, Hangup, Deadline, CloseStream, FirstByteDeadline,
                 LateFirstByte, Started, dialVars
  <1>13. ASSUME NEW x \in Dials, Teardown(x) PROVE Started'
    <2>1. stream[x] # "none" /\ stream[stitched[x]] # "none"
      BY <1>13 DEF Teardown, CloseBoth, StitchEnds, IdleTimeout, Stitches
    <2>2. CloseBoth(x)
      BY <1>13 DEF Teardown, StitchEnds, IdleTimeout
    <2>3. /\ UNCHANGED <<pc, target, relay, via, owner>>
          /\ \A y \in Dials : stream[y] = "none" <=> stream'[y] = "none"
      BY <2>1, <2>2 DEF CloseBoth, dialVars
    <2>4. QED
      BY <2>3 DEF Started
  <1>14. ASSUME NEW l \in Links, Break(l) PROVE Started'
    BY <1>14 DEF Break, Started, dialVars
  <1>15. ASSUME NEW l \in Links, PeerDeath(l) PROVE Started'
    BY <1>15 DEF PeerDeath, Started, dialVars, streamVars
  <1>16. CASE UNCHANGED vars
    BY <1>16 DEF Started, vars, dialVars, streamVars
  <1>17. QED
    BY StepCases, <1>1, <1>2, <1>3, <1>4, <1>5, <1>6, <1>7, <1>8, <1>9, <1>10, <1>11,
       <1>12, <1>13, <1>14, <1>15, <1>16 DEF Dials

-----------------------------------------------------------------------------
(* Only StartCall and DialRelay extend the tree of dials. *)
TreeKept == UNCHANGED <<relay, via, owner>>
            /\ \A x \in Dials : pc[x] # "idle" => pc'[x] # "idle"

LEMMA TreeSteps ==
    ASSUME RelayInv, [Next]_vars
    PROVE  \/ \E x \in Calls : StartCall(x)
           \/ \E x \in Dials : DialRelay(x)
           \/ TreeKept
  <1>. USE DEF RelayInv, TypeOK, TreeKept
  <1>1. ASSUME NEW x \in Dials, DialDirect(x) PROVE TreeKept
    BY <1>1 DEF DialDirect
  <1>2. ASSUME NEW x \in Dials, DialProgress(x) PROVE TreeKept
    BY <1>2 DEF DialProgress, DialFails, DialRefused, CtxOver
  <1>3. ASSUME NEW x \in Dials, RelayReturn(x) PROVE TreeKept
    BY <1>3 DEF RelayReturn, OpenRelayStream, RelayFails, CtxDone, ReturnFrom
  <1>4. ASSUME NEW l \in Links, HandleRelayOpen(l) PROVE TreeKept
    BY <1>4 DEF HandleRelayOpen
  <1>5. ASSUME NEW c \in Circuits, StorePending(c) \/ Answer(c) PROVE TreeKept
    BY <1>5 DEF StorePending, Answer, SendAccept, AcceptDropped
  <1>6. ASSUME NEW l \in Links, HandleRelayAccept(l) PROVE TreeKept
    BY <1>6 DEF HandleRelayAccept
  <1>7. ASSUME NEW x \in Dials, AcceptRelayStream(x) PROVE TreeKept
    BY <1>7 DEF AcceptRelayStream, dialVars
  <1>8. ASSUME NEW x \in Dials,
               \/ Copy(x) \/ FirstByte(x) \/ DeliverStream(x) \/ Hangup(x)
               \/ Teardown(x) \/ Deadline(x)
        PROVE  TreeKept
    BY <1>8 DEF Copy, FirstByte, DeliverStream, Hangup, Teardown, CloseBoth,
                StitchEnds, IdleTimeout, Deadline, CloseStream, FirstByteDeadline,
                LateFirstByte, dialVars
  <1>9. ASSUME NEW l \in Links, Break(l) \/ PeerDeath(l) PROVE TreeKept
    BY <1>9 DEF Break, PeerDeath, dialVars
  <1>10. CASE UNCHANGED vars
    BY <1>10 DEF vars, dialVars
  <1>11. QED
    BY StepCases, <1>1, <1>2, <1>3, <1>4, <1>5, <1>6, <1>7, <1>8, <1>9, <1>10 DEF Dials

LEMMA ChainInit == Init => Chain
  BY NoneFacts DEF Init, Chain, Dials

LEMMA ChainStep == RelayInv /\ [Next]_vars => Chain'
  <1>. SUFFICES ASSUME RelayInv, [Next]_vars PROVE Chain'
    OBVIOUS
  <1>. USE NoneFacts DEF RelayInv, TypeOK
  <1>1. ASSUME NEW x \in Calls, StartCall(x) PROVE Chain'
    <2>1. /\ x \in Dials /\ pc[x] = "idle" /\ relay[x] = None /\ owner[x] \in {x, None}
          /\ pc' = [pc EXCEPT ![x] = "dialing"]
          /\ owner' = [owner EXCEPT ![x] = x]
          /\ UNCHANGED <<relay, via>>
      BY <1>1 DEF StartCall, Started, Dials, Chain
    <2>2. \A y \in Dials : owner[y] # x
      BY <2>1 DEF Chain
    <2>3. \A y \in Dials : relay'[y] # None => relay'[y] \in Circuits
      BY <2>1
    <2>4. \A y \in Dials : relay'[y] # None =>
            via'[relay'[y]] # None /\ owner'[relay'[y]] = owner'[y]
      BY <2>1, <2>3 DEF Chain, Dials
    <2>5. \A y \in Dials : owner'[y] # None => pc'[owner'[y]] # "idle"
      BY <2>1, <2>2 DEF Chain, Dials
    <2>6. QED
      BY <2>1, <2>2, <2>4, <2>5 DEF Chain
  <1>2. ASSUME NEW x \in Dials, DialRelay(x) PROVE Chain'
    <2>1. PICK h \in RelayHops(x), c \in Circuits : RelayStep(x, h, c)
      BY <1>2, DialRelayPick
    <2>2. /\ c \in Dials /\ c \notin Calls /\ pc[c] = "idle" /\ owner[c] = None
          /\ relay[c] = None /\ relay[x] = None /\ owner[x] \in Calls /\ x # c
      BY <2>1 DEF RelayStep, Fresh, Started, Dials
    <2>3. \A y \in Dials : relay[y] # c
      BY <2>1 DEF RelayStep, Chain
    <2>4. <<At(x), h>> # None
      <3>1. TypeOK /\ Started /\ pc[x] # "idle"
        BY <2>1 DEF RelayStep
      <3>. HIDE DEF TypeOK
      <3>2. QED
        BY <3>1, HopFacts
    <2>5. /\ pc' = [pc EXCEPT ![x] = "waiting"]
          /\ relay' = [relay EXCEPT ![x] = c]
          /\ via' = [via EXCEPT ![c] = <<At(x), h>>]
          /\ owner' = [owner EXCEPT ![c] = owner[x]]
      BY <2>1 DEF RelayStep
    <2>6. \A y \in Dials : relay'[y] # None =>
            via'[relay'[y]] # None /\ owner'[relay'[y]] = owner'[y]
      BY <2>2, <2>3, <2>4, <2>5 DEF Chain, Dials
    <2>7. \A y, z \in Dials : relay'[y] = relay'[z] /\ relay'[y] # None => y = z
      BY <2>2, <2>3, <2>5 DEF Chain
    <2>8. \A y, z \in Dials :
            owner'[y] = owner'[z] /\ owner'[y] # None /\ relay'[y] = None /\ relay'[z] = None
                => y = z
      BY <2>2, <2>3, <2>5 DEF Chain
    <2>9. \A y \in Dials : owner'[y] # None => pc'[owner'[y]] # "idle"
      BY <2>2, <2>5 DEF Chain, Dials
    <2>10. \A y \in Calls : owner'[y] \in {y, None}
      BY <2>2, <2>5 DEF Chain, Dials
    <2>11. QED
      BY <2>6, <2>7, <2>8, <2>9, <2>10 DEF Chain
  <1>3. CASE TreeKept
    BY <1>3 DEF TreeKept, Chain, Dials
  <1>4. QED
    BY TreeSteps, <1>1, <1>2, <1>3

LEMMA FreshInit == Init => Fresh
  BY DEF Init, Fresh, Dials

LEMMA FreshStep == RelayInv /\ [Next]_vars => Fresh'
  <1>. SUFFICES ASSUME RelayInv, [Next]_vars, NEW c \in Circuits, via'[c] = None
                PROVE  pc'[c] = "idle" /\ owner'[c] = None /\ waiter'[c] = "absent"
    BY DEF Fresh
  <1>. USE NoneFacts DEF RelayInv, TypeOK
  <1>. DEFINE Same == via[c] = None /\ pc'[c] = pc[c] /\ owner'[c] = owner[c]
                      /\ waiter'[c] \in {waiter[c], "absent"}
  <1>0. c \in Dials
    BY DEF Dials
  <1>1. ASSUME NEW x \in Calls, StartCall(x) PROVE Same
    BY <1>0, <1>1 DEF StartCall
  <1>2. ASSUME NEW x \in Dials, DialDirect(x) PROVE Same
    BY <1>0, <1>2 DEF DialDirect, Fresh
  <1>3. ASSUME NEW x \in Dials, DialRelay(x) PROVE Same
    <2>1. PICK h \in RelayHops(x), d \in Circuits : RelayStep(x, h, d)
      BY <1>3, DialRelayPick
    <2>2. <<At(x), h>> # None
      <3>1. TypeOK /\ Started /\ pc[x] # "idle"
        BY <2>1 DEF RelayStep
      <3>. HIDE DEF TypeOK
      <3>2. QED
        BY <3>1, HopFacts
    <2>3. c # d /\ via[c] = None
      BY <2>1, <2>2 DEF RelayStep
    <2>4. QED
      BY <1>0, <2>1, <2>3 DEF RelayStep, Fresh
  <1>4. ASSUME NEW x \in Dials, DialProgress(x) PROVE Same
    BY <1>0, <1>4 DEF DialProgress, DialFails, DialRefused, CtxOver, Fresh
  <1>5. ASSUME NEW x \in Dials, RelayReturn(x) PROVE Same
    <2>1. PICK state : ReturnFrom(x, state)
      BY <1>5 DEF RelayReturn, OpenRelayStream, RelayFails, CtxDone
    <2>2. pc[x] = "waiting"
      BY <1>5 DEF RelayReturn, OpenRelayStream, RelayFails, CtxDone, Answered
    <2>3. QED
      BY <1>0, <2>1, <2>2 DEF ReturnFrom, Fresh
  <1>6. ASSUME NEW l \in Links, HandleRelayOpen(l) PROVE Same
    <2>. DEFINE f == Head(ctl[l])
    <2>1. f \in Frames /\ FrameOK(l, f)
      BY <1>6, HeadFacts DEF HandleRelayOpen, Received
    <2>2. via[f.circuit] # None
      BY <2>1 DEF FrameOK
    <2>3. pc' = [pc EXCEPT ![f.circuit] = "dialing"] /\ UNCHANGED <<via, waiter, owner>>
      BY <1>6 DEF HandleRelayOpen
    <2>. HIDE DEF f
    <2>4. QED
      BY <1>0, <2>2, <2>3
  <1>7. ASSUME NEW d \in Circuits, StorePending(d) \/ Answer(d) PROVE Same
    BY <1>0, <1>7 DEF StorePending, Answer, SendAccept, AcceptDropped, Fresh
  <1>8. ASSUME NEW l \in Links, HandleRelayAccept(l) PROVE Same
    <2>. DEFINE f == Head(ctl[l])
    <2>1. f \in Frames /\ FrameOK(l, f)
      BY <1>8, HeadFacts DEF HandleRelayAccept, Received
    <2>2. via[f.circuit] # None
      BY <2>1 DEF FrameOK
    <2>3. /\ \E v : waiter' = [waiter EXCEPT ![f.circuit] = v]
          /\ UNCHANGED <<via, pc, owner>>
      BY <1>8 DEF HandleRelayAccept
    <2>. HIDE DEF f
    <2>4. QED
      BY <1>0, <2>2, <2>3
  <1>9. ASSUME NEW x \in Dials, AcceptRelayStream(x) PROVE Same
    BY <1>9 DEF AcceptRelayStream, dialVars
  <1>10. ASSUME NEW x \in Dials,
               \/ Copy(x) \/ FirstByte(x) \/ DeliverStream(x) \/ Hangup(x)
               \/ Teardown(x) \/ Deadline(x)
         PROVE  Same
    BY <1>10 DEF Copy, FirstByte, DeliverStream, Hangup, Teardown, CloseBoth,
                 StitchEnds, IdleTimeout, Deadline, CloseStream, FirstByteDeadline,
                 LateFirstByte, dialVars
  <1>11. ASSUME NEW l \in Links, Break(l) \/ PeerDeath(l) PROVE Same
    BY <1>11 DEF Break, PeerDeath, dialVars
  <1>12. ASSUME UNCHANGED vars PROVE Same
    BY <1>12 DEF vars, dialVars
  <1>13. Same
    <2>. HIDE DEF Same
    <2>1. QED
      BY StepCases, <1>1, <1>2, <1>3, <1>4, <1>5, <1>6, <1>7, <1>8, <1>9, <1>10, <1>11,
         <1>12 DEF Dials
  <1>14. QED
    BY <1>13 DEF Fresh

-----------------------------------------------------------------------------
(* A circuit whose connection is kept stays so: only its own stream takes  *)
(* it out of the map, and is stitched to it.                               *)
MapKept == UNCHANGED <<pending, stitched>>

LEMMA MapSteps ==
    ASSUME [Next]_vars
    PROVE  \/ \E c \in Circuits : StorePending(c)
           \/ \E x \in Dials : AcceptRelayStream(x)
           \/ MapKept
  <1>. USE DEF MapKept, streamVars
  <1>1. ASSUME NEW x \in Dials,
               StartCall(x) \/ DialDirect(x) \/ DialRelay(x) \/ DialProgress(x)
        PROVE  MapKept
    BY <1>1 DEF StartCall, DialDirect, DialRelay, DialProgress, DialFails,
                DialRefused, CtxOver
  <1>2. ASSUME NEW x \in Dials, RelayReturn(x) PROVE MapKept
    BY <1>2 DEF RelayReturn, OpenRelayStream, RelayFails, CtxDone, ReturnFrom
  <1>3. ASSUME NEW l \in Links,
               HandleRelayOpen(l) \/ HandleRelayAccept(l) \/ Break(l) \/ PeerDeath(l)
        PROVE  MapKept
    BY <1>3 DEF HandleRelayOpen, HandleRelayAccept, Break, PeerDeath
  <1>4. ASSUME NEW c \in Circuits, Answer(c) PROVE MapKept
    BY <1>4 DEF Answer, SendAccept, AcceptDropped
  <1>5. ASSUME NEW x \in Dials,
               \/ Copy(x) \/ FirstByte(x) \/ DeliverStream(x) \/ Hangup(x)
               \/ Teardown(x) \/ Deadline(x)
        PROVE  MapKept
    BY <1>5 DEF Copy, FirstByte, DeliverStream, Hangup, Teardown, CloseBoth,
                StitchEnds, IdleTimeout, Deadline, CloseStream, FirstByteDeadline,
                LateFirstByte
  <1>6. CASE UNCHANGED vars
    BY <1>6 DEF vars
  <1>7. QED
    BY StepCases, <1>1, <1>2, <1>3, <1>4, <1>5, <1>6 DEF Dials

LEMMA TreeGrows ==
    ASSUME RelayInv, [Next]_vars
    PROVE  /\ \A c \in Circuits : via[c] # None => via'[c] = via[c]
           /\ \A x \in Dials : relay[x] # None => relay'[x] = relay[x]
           /\ \A c \in Circuits : via[c] # None => owner'[c] = owner[c]
  <1>. USE NoneFacts DEF RelayInv, TypeOK
  <1>1. ASSUME NEW x \in Calls, StartCall(x)
        PROVE  /\ UNCHANGED <<via, relay>>
               /\ \A c \in Circuits : owner'[c] = owner[c]
    BY <1>1 DEF StartCall, Dials
  <1>2. ASSUME NEW x \in Dials, NEW h \in RelayHops(x), NEW c \in Circuits,
               RelayStep(x, h, c)
        PROVE  /\ \A d \in Circuits : via[d] # None => via'[d] = via[d]
               /\ \A y \in Dials : relay[y] # None => relay'[y] = relay[y]
               /\ \A d \in Circuits : via[d] # None => owner'[d] = owner[d]
    BY <1>2 DEF RelayStep, Started, Dials
  <1>3. QED
    BY <1>1, <1>2, TreeSteps, DialRelayPick DEF TreeKept

LEMMA KeptStep ==
    ASSUME RelayInv, [Next]_vars, NEW c \in Circuits, Kept(c)
    PROVE  Kept(c)'
  <1>. USE NoneFacts DEF RelayInv, TypeOK
  <1>1. via[c] # None /\ via'[c] = via[c]
    BY TreeGrows DEF Kept, Chain
  <1>2. ASSUME NEW x \in Dials, relay[x] = c, stitched[x] = c PROVE Kept(c)'
    <2>1. relay'[x] = c
      BY <1>2, TreeGrows
    <2>2. stitched'[x] = c
      <3>1. CASE MapKept
        BY <3>1, <1>2 DEF MapKept
      <3>2. ASSUME NEW d \in Circuits, StorePending(d) PROVE stitched'[x] = c
        BY <3>2, <1>2 DEF StorePending
      <3>3. ASSUME NEW y \in Dials, AcceptRelayStream(y) PROVE stitched'[x] = c
        BY <3>3, <1>2 DEF AcceptRelayStream
      <3>4. QED
        BY <3>1, <3>2, <3>3, MapSteps
    <2>3. QED
      BY <2>1, <2>2 DEF Kept
  <1>3. ASSUME NEW n \in Nodes, via[c][2] = n, c \in pending[n] PROVE Kept(c)'
    <2>1. CASE c \in pending'[n]
      BY <1>1, <1>3, <2>1 DEF Kept
    <2>2. CASE c \notin pending'[n]
      <3>1. PICK x \in Dials : AcceptRelayStream(x)
        <4>1. CASE MapKept
          BY <4>1, <1>3, <2>2 DEF MapKept
        <4>2. ASSUME NEW d \in Circuits, StorePending(d) PROVE FALSE
          BY <4>2, <1>3, <2>2 DEF StorePending
        <4>3. QED
          BY <4>1, <4>2, MapSteps
      <3>2. relay[x] = c /\ stitched'[x] = c
        BY <3>1, <1>3, <2>2 DEF AcceptRelayStream, Lookup
      <3>3. relay'[x] = c
        BY <3>2, TreeGrows
      <3>4. QED
        BY <3>2, <3>3 DEF Kept
    <2>3. QED
      BY <2>1, <2>2
  <1>4. QED
    BY <1>2, <1>3 DEF Kept

-----------------------------------------------------------------------------
(* Control frames. *)
LEMMA InFlightInit == Init => InFlight
  BY DEF Init, InFlight, In, Distinct

(* A circuit is first dialled for when its RelayOpen frame is handled. *)
LEMMA IdleSteps ==
    ASSUME RelayInv, [Next]_vars, NEW c \in Circuits, pc[c] = "idle",
           pc'[c] # "idle"
    PROVE  \E l \in Links : HandleRelayOpen(l) /\ Head(ctl[l]).circuit = c
  <1>. USE NoneFacts DEF RelayInv, TypeOK
  <1>0. c \in Dials
    BY DEF Dials
  <1>1. ASSUME NEW x \in Calls, StartCall(x) PROVE FALSE
    BY <1>0, <1>1 DEF StartCall, Dials
  <1>2. ASSUME NEW x \in Dials, DialDirect(x) \/ DialProgress(x) PROVE FALSE
    BY <1>0, <1>2 DEF DialDirect, DialProgress, DialFails, DialRefused, CtxOver
  <1>3. ASSUME NEW x \in Dials, DialRelay(x) PROVE FALSE
    <2>1. PICK h \in RelayHops(x), d \in Circuits : RelayStep(x, h, d)
      BY <1>3, DialRelayPick
    <2>2. QED
      BY <1>0, <2>1 DEF RelayStep
  <1>4. ASSUME NEW x \in Dials, RelayReturn(x) PROVE FALSE
    BY <1>0, <1>4 DEF RelayReturn, OpenRelayStream, RelayFails, CtxDone, ReturnFrom,
                      Answered
  <1>5. ASSUME NEW d \in Circuits, StorePending(d) \/ Answer(d) PROVE FALSE
    BY <1>0, <1>5 DEF StorePending, Answer, SendAccept, AcceptDropped
  <1>6. ASSUME NEW l \in Links, HandleRelayAccept(l) \/ Break(l) \/ PeerDeath(l)
        PROVE  FALSE
    BY <1>6 DEF HandleRelayAccept, Break, PeerDeath, dialVars
  <1>7. ASSUME NEW x \in Dials,
               \/ AcceptRelayStream(x) \/ Copy(x) \/ FirstByte(x) \/ DeliverStream(x)
               \/ Hangup(x) \/ Teardown(x) \/ Deadline(x)
        PROVE  FALSE
    BY <1>7 DEF AcceptRelayStream, Copy, FirstByte, DeliverStream, Hangup, Teardown,
                CloseBoth, StitchEnds, IdleTimeout, Deadline, CloseStream,
                FirstByteDeadline, LateFirstByte, dialVars
  <1>8. ASSUME UNCHANGED vars PROVE FALSE
    BY <1>8 DEF vars, dialVars
  <1>9. ASSUME NEW l \in Links, HandleRelayOpen(l)
        PROVE  Head(ctl[l]).circuit = c
    BY <1>0, <1>9 DEF HandleRelayOpen
  <1>10. QED
    BY StepCases, <1>1, <1>2, <1>3, <1>4, <1>5, <1>6, <1>7, <1>8, <1>9 DEF Dials

(* A frame that stays in flight stays right. *)
LEMMA FrameKept ==
    ASSUME RelayInv, [Next]_vars, NEW l \in Links, NEW f \in Frames, FrameOK(l, f),
           \A k \in Links : HandleRelayOpen(k) /\ f.type = "RelayOpen"
                                => Head(ctl[k]).circuit # f.circuit
    PROVE  FrameOK(l, f)'
  <1>1. f.circuit \in Circuits
    BY FrameFacts
  <1>2. /\ via'[f.circuit] = via[f.circuit] /\ via[f.circuit] # None
        /\ owner'[f.circuit] = owner[f.circuit]
    BY <1>1, TreeGrows DEF FrameOK
  <1>3. f.type = "RelayOpen" => pc'[f.circuit] = "idle"
    BY <1>1, IdleSteps DEF FrameOK
  <1>4. f.type = "RelayAccept" /\ f.success => Kept(f.circuit)'
    BY <1>1, KeptStep DEF FrameOK
  <1>5. QED
    BY <1>2, <1>3, <1>4 DEF FrameOK

(* Both parts of InFlight, for the next state of one control stream. *)
LEMMA SameStream ==
    ASSUME RelayInv, [Next]_vars, NEW l \in Links, ctl'[l] = ctl[l],
           \A k \in Links : ~HandleRelayOpen(k)
    PROVE  Distinct(ctl'[l]) /\ \A f \in Frames : In(f, ctl'[l]) => FrameOK(l, f)'
  BY FrameKept DEF RelayInv, InFlight

LEMMA SentStream ==
    ASSUME RelayInv, [Next]_vars, \A k \in Links : ~HandleRelayOpen(k),
           NEW l \in Links, NEW f \in Frames, Transmit(l, f), FrameOK(l, f)',
           \A k \in Links : \A g \in Frames :
                In(g, ctl[k]) /\ f.type = "RelayOpen" => g.circuit # f.circuit,
           NEW k \in Links
    PROVE  Distinct(ctl'[k]) /\ \A g \in Frames : In(g, ctl'[k]) => FrameOK(k, g)'
  <1>1. TypeOK /\ InFlight
    BY DEF RelayInv
  <1>2. CASE ctl'[k] = ctl[k]
    BY <1>2, SameStream
  <1>3. CASE k = l /\ ctl'[k] = Append(ctl[k], f)
    <2>. DEFINE s == ctl[k]
                t == ctl'[k]
    <2>1. s \in Seq(Frames) /\ Distinct(s) /\ Len(s) \in Nat
      BY <1>1, SeqFacts DEF TypeOK, InFlight
    <2>2. /\ Len(t) = Len(s) + 1 /\ t[Len(s) + 1] = f
          /\ \A i \in 1..Len(s) : t[i] = s[i] /\ s[i] \in Frames
      BY <1>3, <2>1, SeqFacts
    <2>3. \A g \in Frames : In(g, s) => FrameOK(k, g)'
      BY <1>1, FrameKept DEF InFlight
    <2>4. \A i \in 1..Len(s) : f.type = "RelayOpen" => s[i].circuit # f.circuit
      BY <2>2 DEF In
    <2>. HIDE DEF s, t
    <2>5. \A i \in 1..Len(t) : i \in 1..Len(s) \/ i = Len(s) + 1
      BY <2>1, <2>2
    <2>6. Distinct(t)
      <3>1. SUFFICES ASSUME NEW i \in 1..Len(t), NEW j \in 1..Len(t),
                            t[i].type = "RelayOpen", t[j].type = "RelayOpen",
                            t[i].circuit = t[j].circuit
                     PROVE  i = j
        BY DEF Distinct
      <3>2. CASE i \in 1..Len(s) /\ j \in 1..Len(s)
        BY <2>1, <2>2, <3>1, <3>2 DEF Distinct
      <3>3. CASE i \in 1..Len(s) /\ j = Len(s) + 1
        BY <2>2, <2>4, <3>1, <3>3
      <3>4. CASE j \in 1..Len(s) /\ i = Len(s) + 1
        BY <2>2, <2>4, <3>1, <3>4
      <3>5. QED
        BY <2>5, <3>2, <3>3, <3>4
    <2>7. \A g \in Frames : In(g, t) => In(g, s) \/ g = f
      BY <2>2, <2>5 DEF In
    <2>8. QED
      BY <1>3, <2>3, <2>6, <2>7 DEF t
  <1>4. QED
    BY <1>1, <1>2, <1>3 DEF Transmit, TypeOK

(* The frames that remain when the first one is taken. *)
LEMMA TailFacts ==
    ASSUME NEW s \in Seq(Frames), s # <<>>, Distinct(s)
    PROVE  /\ Distinct(Tail(s))
           /\ \A f \in Frames : In(f, Tail(s)) => In(f, s)
           /\ Head(s) \in Frames /\ In(Head(s), s)
           /\ \A f \in Frames :
                In(f, Tail(s)) /\ f.type = "RelayOpen" /\ Head(s).type = "RelayOpen"
                    => f.circuit # Head(s).circuit
  <1>1. /\ Len(s) \in Nat /\ Head(s) \in Frames /\ Head(s) = s[1] /\ 1 \in 1..Len(s)
        /\ Len(Tail(s)) = Len(s) - 1
        /\ \A i \in 1..Len(Tail(s)) : i + 1 \in 1..Len(s) /\ Tail(s)[i] = s[i + 1]
    BY SeqFacts
  <1>2. Distinct(Tail(s))
    <2>1. SUFFICES ASSUME NEW i \in 1..Len(Tail(s)), NEW j \in 1..Len(Tail(s)),
                          Tail(s)[i].type = "RelayOpen", Tail(s)[j].type = "RelayOpen",
                          Tail(s)[i].circuit = Tail(s)[j].circuit
                   PROVE  i = j
      BY DEF Distinct
    <2>2. i + 1 = j + 1
      BY <1>1, <2>1 DEF Distinct
    <2>3. QED
      BY <1>1, <2>2
  <1>3. \A f \in Frames : In(f, Tail(s)) => In(f, s)
    BY <1>1 DEF In
  <1>4. In(Head(s), s)
    BY <1>1 DEF In
  <1>5. ASSUME NEW f \in Frames, In(f, Tail(s)), f.type = "RelayOpen",
               Head(s).type = "RelayOpen", f.circuit = Head(s).circuit
        PROVE  FALSE
    <2>1. PICK i \in 1..Len(Tail(s)) : Tail(s)[i] = f
      BY <1>5 DEF In
    <2>2. i + 1 = 1
      BY <1>1, <1>5, <2>1 DEF Distinct
    <2>3. QED
      BY <2>2, <1>1
  <1>6. QED
    BY <1>1, <1>2, <1>3, <1>4, <1>5

LEMMA InFlightStep == RelayInv /\ [Next]_vars => InFlight'
  <1>. SUFFICES ASSUME RelayInv, [Next]_vars, NEW k \in Links
                PROVE  Distinct(ctl'[k]) /\ \A f \in Frames : In(f, ctl'[k]) => FrameOK(k, f)'
    BY DEF InFlight
  <1>. DEFINE Goal == Distinct(ctl'[k]) /\ \A f \in Frames : In(f, ctl'[k]) => FrameOK(k, f)'
              NoOpen == \A l \in Links : ~HandleRelayOpen(l)
  <1>a. TypeOK /\ InFlight /\ Started /\ Fresh /\ Grants
    BY DEF RelayInv
  <1>b. ctl[k] \in Seq(Frames) /\ Distinct(ctl[k])
    BY <1>a DEF TypeOK, InFlight
  <1>1. CASE ctl' = ctl /\ NoOpen
    BY <1>1, SameStream
  <1>2. ASSUME NEW x \in Dials, DialRelay(x), NoOpen PROVE Goal
    <2>1. PICK h \in RelayHops(x), c \in Circuits : RelayStep(x, h, c)
      BY <1>2, DialRelayPick
    <2>2. <<At(x), h>> \in Links /\ target[x] \in Nodes /\ pc[x] # "idle"
      BY <1>a, <2>1, HopFacts DEF RelayStep
    <2>. DEFINE f == OpenFrame(c, target[x])
                l == <<At(x), h>>
    <2>3. f \in Frames /\ f.circuit = c /\ f.type = "RelayOpen" /\ f.target = target[x]
      BY <2>2, FrameFacts DEF OpenFrame
    <2>4. /\ via'[c] = l /\ l # None /\ pc'[c] = "idle" /\ owner'[c] = owner[x]
          /\ owner[x] \in Calls /\ target[x] = Target[owner[x]]
      <3>1. c \in Dials /\ pc[c] = "idle" /\ pc[x] = "dialing"
        BY <1>a, <2>1 DEF RelayStep, Fresh, Dials
      <3>2. pc'[c] = "idle" /\ owner'[c] = owner[x]
        BY <1>a, <2>1, <3>1 DEF RelayStep, TypeOK
      <3>3. via'[c] = l /\ l # None
        BY <1>a, <2>1, <2>2, NoneFacts DEF RelayStep, TypeOK
      <3>4. owner[x] \in Calls /\ target[x] = Target[owner[x]]
        BY <1>a, <2>2 DEF Started
      <3>5. QED
        BY <3>2, <3>3, <3>4
    <2>5. \A j \in Links : \A g \in Frames : In(g, ctl[j]) => g.circuit # c
      BY <1>a, <2>1 DEF InFlight, FrameOK, RelayStep
    <2>6. Transmit(l, f)
      BY <2>1 DEF RelayStep
    <2>7. PICK g \in Frames : g = f
      BY <2>3
    <2>. HIDE DEF f, l
    <2>8. PICK m \in Links : m = l
      BY <2>2 DEF l
    <2>9. FrameOK(m, g)'
      BY <2>3, <2>4, <2>7, <2>8 DEF FrameOK
    <2>10. QED
      BY <1>2, <2>3, <2>5, <2>6, <2>7, <2>8, <2>9, SentStream
  <1>3. ASSUME NEW c \in Circuits, SendAccept(c), NoOpen PROVE Goal
    <2>1. pc[c] \in {"stored", "failed"} /\ via[c] \in Links
      BY <1>3, <1>a DEF SendAccept, Started, TypeOK, Dials
    <2>2. PICK m \in Links : m = Back(via[c])
      BY <2>1, NoneFacts
    <2>3. PICK g \in Frames : g = AcceptFrame(c, pc[c] = "stored")
      BY FrameFacts
    <2>4. g.circuit = c /\ g.type = "RelayAccept" /\ (g.success => pc[c] = "stored")
      BY <2>3 DEF AcceptFrame
    <2>5. via'[c] # None
      BY <2>1, TreeGrows, NoneFacts
    <2>6. g.success => Kept(c)'
      BY <1>a, <2>4, KeptStep DEF Grants
    <2>7. FrameOK(m, g)'
      BY <2>4, <2>5, <2>6 DEF FrameOK
    <2>8. Transmit(m, g)
      BY <1>3, <2>2, <2>3 DEF SendAccept
    <2>9. QED
      BY <1>3, <2>4, <2>7, <2>8, SentStream
  <1>4. ASSUME NEW l \in Links, HandleRelayOpen(l) PROVE Goal
    <2>. DEFINE h == Head(ctl[l])
    <2>1. /\ ctl[l] \in Seq(Frames) /\ ctl[l] # <<>> /\ Distinct(ctl[l])
          /\ h.type = "RelayOpen" /\ ctl' = [ctl EXCEPT ![l] = Tail(@)]
      BY <1>4, <1>a DEF HandleRelayOpen, Received, TypeOK, InFlight
    <2>2. /\ Distinct(Tail(ctl[l])) /\ h \in Frames /\ In(h, ctl[l])
          /\ \A f \in Frames : In(f, Tail(ctl[l])) => In(f, ctl[l])
          /\ \A f \in Frames : In(f, Tail(ctl[l])) /\ f.type = "RelayOpen"
                => f.circuit # h.circuit
      BY <2>1, TailFacts
    <2>3. FrameOK(l, h)
      BY <1>a, <2>2 DEF InFlight
    <2>4. \A f \in Frames : In(f, ctl'[k]) /\ f.type = "RelayOpen" => f.circuit # h.circuit
      <3>1. CASE k = l
        BY <1>a, <2>1, <2>2, <3>1 DEF TypeOK
      <3>2. CASE k # l
        <4>1. ctl'[k] = ctl[k]
          BY <1>a, <2>1, <3>2 DEF TypeOK
        <4>2. QED
          BY <1>a, <2>1, <2>3, <3>2, <4>1 DEF InFlight, FrameOK
      <3>3. QED
        BY <3>1, <3>2
    <2>5. \A f \in Frames : In(f, ctl'[k]) => In(f, ctl[k])
      BY <1>a, <2>1, <2>2 DEF TypeOK
    <2>6. Distinct(ctl'[k])
      BY <1>a, <1>b, <2>1, <2>2 DEF TypeOK
    <2>7. \A m \in Links : HandleRelayOpen(m) => Head(ctl[m]).circuit = h.circuit
      <3>1. SUFFICES ASSUME NEW m \in Links, HandleRelayOpen(m)
                     PROVE  Head(ctl[m]).circuit = h.circuit
        OBVIOUS
      <3>2. PICK g \in Frames : g = Head(ctl[m]) /\ FrameOK(m, g) /\ g.type = "RelayOpen"
        BY <1>a, <3>1, HeadFacts DEF HandleRelayOpen, Received
      <3>3. /\ g.circuit \in Circuits /\ g.circuit \in Dials
            /\ pc' = [pc EXCEPT ![g.circuit] = "dialing"] /\ pc[g.circuit] = "idle"
        BY <3>1, <3>2, FrameFacts DEF HandleRelayOpen, FrameOK, Dials
      <3>4. /\ h.circuit \in Circuits /\ h.circuit \in Dials
            /\ pc' = [pc EXCEPT ![h.circuit] = "dialing"] /\ pc[h.circuit] = "idle"
        BY <1>4, <2>1, <2>2, <2>3, FrameFacts DEF HandleRelayOpen, FrameOK, Dials
      <3>. HIDE DEF h
      <3>5. QED
        BY <1>a, <3>2, <3>3, <3>4 DEF TypeOK
    <2>. HIDE DEF h
    <2>8. QED
      BY <1>a, <2>4, <2>5, <2>6, <2>7, FrameKept DEF InFlight
  <1>5. ASSUME NEW l \in Links, HandleRelayAccept(l), NoOpen PROVE Goal
    <2>1. /\ ctl[l] \in Seq(Frames) /\ ctl[l] # <<>> /\ Distinct(ctl[l])
          /\ ctl' = [ctl EXCEPT ![l] = Tail(@)]
      BY <1>5, <1>a DEF HandleRelayAccept, Received, TypeOK, InFlight
    <2>2. /\ Distinct(Tail(ctl[l]))
          /\ \A f \in Frames : In(f, Tail(ctl[l])) => In(f, ctl[l])
      BY <2>1, TailFacts
    <2>3. \A f \in Frames : In(f, ctl'[k]) => In(f, ctl[k])
      BY <1>a, <2>1, <2>2 DEF TypeOK
    <2>4. Distinct(ctl'[k])
      BY <1>a, <1>b, <2>1, <2>2 DEF TypeOK
    <2>5. QED
      BY <1>a, <1>5, <2>3, <2>4, FrameKept DEF InFlight
  <1>6. ASSUME NEW l \in Links, Break(l), NoOpen PROVE Goal
    <2>1. ctl'[k] = ctl[k] \/ ctl'[k] = <<>>
      BY <1>6 DEF Break
    <2>2. Distinct(<<>>) /\ \A f \in Frames : ~In(f, <<>>)
      BY DEF Distinct, In
    <2>3. QED
      BY <1>6, <2>1, <2>2, SameStream
  <1>. DEFINE Quiet == ctl' = ctl
  <1>7. ASSUME NEW x \in Dials,
               StartCall(x) \/ DialDirect(x) \/ DialProgress(x) \/ RelayReturn(x)
        PROVE  Quiet
    BY <1>7 DEF StartCall, DialDirect, DialProgress, DialFails, DialRefused, CtxOver,
                RelayReturn, OpenRelayStream, RelayFails, CtxDone, ReturnFrom
  <1>8. ASSUME NEW x \in Dials,
               \/ AcceptRelayStream(x) \/ Copy(x) \/ FirstByte(x) \/ DeliverStream(x)
               \/ Hangup(x) \/ Teardown(x) \/ Deadline(x)
        PROVE  Quiet
    BY <1>8 DEF AcceptRelayStream, Copy, FirstByte, DeliverStream, Hangup, Teardown,
                CloseBoth, StitchEnds, IdleTimeout, Deadline, CloseStream,
                FirstByteDeadline, LateFirstByte
  <1>9. ASSUME NEW c \in Circuits, StorePending(c) \/ AcceptDropped(c) PROVE Quiet
    BY <1>9 DEF StorePending, AcceptDropped
  <1>10. ASSUME NEW l \in Links, PeerDeath(l) PROVE Quiet
    BY <1>10 DEF PeerDeath
  <1>11. ASSUME UNCHANGED vars PROVE Quiet
    BY <1>11 DEF vars
  <1>. HIDE DEF Goal, Quiet
  <1>12. CASE NoOpen
    <2>1. CASE Quiet
      BY <1>1, <1>12, <2>1 DEF Quiet, Goal
    <2>2. Goal
      BY StepCases, <1>2, <1>3, <1>5, <1>6, <1>7, <1>8, <1>9, <1>10, <1>11, <1>12, <2>1
         DEF Dials, Answer, Goal
    <2>3. QED
      BY <2>2 DEF Goal
  <1>13. CASE ~NoOpen
    BY <1>4, <1>13 DEF Goal
  <1>14. QED
    BY <1>12, <1>13

-----------------------------------------------------------------------------
(* Grants and streams. *)
LEMMA GrantsInit == Init => Grants
  BY DEF Init, Grants, Dials

(* Only a RelayAccept frame tells a dialer that its circuit is ready. *)
LEMMA NewOk ==
    ASSUME RelayInv, [Next]_vars, NEW c \in Circuits, waiter[c] # "ok",
           waiter'[c] = "ok"
    PROVE  Kept(c)
  <1>. USE DEF RelayInv, TypeOK
  <1>1. ASSUME NEW x \in Dials, StartCall(x) \/ DialDirect(x) \/ DialProgress(x)
        PROVE  FALSE
    BY <1>1 DEF StartCall, DialDirect, DialProgress, DialFails, DialRefused, CtxOver
  <1>2. ASSUME NEW x \in Dials, DialRelay(x) PROVE FALSE
    <2>1. PICK h \in RelayHops(x), d \in Circuits : RelayStep(x, h, d)
      BY <1>2, DialRelayPick
    <2>2. QED
      BY <2>1 DEF RelayStep
  <1>3. ASSUME NEW x \in Dials, RelayReturn(x) PROVE FALSE
    BY <1>3 DEF RelayReturn, OpenRelayStream, RelayFails, CtxDone, ReturnFrom
  <1>4. ASSUME NEW d \in Circuits, StorePending(d) \/ Answer(d) PROVE FALSE
    BY <1>4 DEF StorePending, Answer, SendAccept, AcceptDropped
  <1>5. ASSUME NEW l \in Links, HandleRelayOpen(l) \/ Break(l) \/ PeerDeath(l)
        PROVE  FALSE
    BY <1>5 DEF HandleRelayOpen, Break, PeerDeath, dialVars
  <1>6. ASSUME NEW x \in Dials,
               \/ AcceptRelayStream(x) \/ Copy(x) \/ FirstByte(x) \/ DeliverStream(x)
               \/ Hangup(x) \/ Teardown(x) \/ Deadline(x)
        PROVE  FALSE
    BY <1>6 DEF AcceptRelayStream, Copy, FirstByte, DeliverStream, Hangup, Teardown,
                CloseBoth, StitchEnds, IdleTimeout, Deadline, CloseStream,
                FirstByteDeadline, LateFirstByte, dialVars
  <1>7. ASSUME UNCHANGED vars PROVE FALSE
    BY <1>7 DEF vars, dialVars
  <1>8. ASSUME NEW l \in Links, HandleRelayAccept(l) PROVE Kept(c)
    <2>1. PICK f \in Frames : f = Head(ctl[l]) /\ FrameOK(l, f) /\ f.type = "RelayAccept"
      BY <1>8, HeadFacts DEF HandleRelayAccept, Received
    <2>2. f.circuit = c /\ Verdict(f) = "ok"
      BY <1>8, <2>1 DEF HandleRelayAccept
    <2>3. f.success
      BY <2>2 DEF Verdict
    <2>4. QED
      BY <2>1, <2>2, <2>3 DEF FrameOK
  <1>9. QED
    BY StepCases, <1>1, <1>2, <1>3, <1>4, <1>5, <1>6, <1>7, <1>8 DEF Dials

(* A handler is past the map only after StorePending. *)
LEMMA NewStored ==
    ASSUME RelayInv, [Next]_vars, NEW c \in Circuits, pc[c] # "stored",
           pc'[c] = "stored"
    PROVE  StorePending(c)
  <1>. USE NoneFacts DEF RelayInv, TypeOK
  <1>0. c \in Dials
    BY DEF Dials
  <1>1. ASSUME NEW x \in Dials, StartCall(x) \/ DialDirect(x) \/ DialProgress(x)
        PROVE  FALSE
    BY <1>0, <1>1 DEF StartCall, DialDirect, DialProgress, DialFails, DialRefused,
                      CtxOver
  <1>2. ASSUME NEW x \in Dials, DialRelay(x) PROVE FALSE
    <2>1. PICK h \in RelayHops(x), d \in Circuits : RelayStep(x, h, d)
      BY <1>2, DialRelayPick
    <2>2. QED
      BY <1>0, <2>1 DEF RelayStep
  <1>3. ASSUME NEW x \in Dials, RelayReturn(x) PROVE FALSE
    BY <1>0, <1>3 DEF RelayReturn, OpenRelayStream, RelayFails, CtxDone, ReturnFrom
  <1>4. ASSUME NEW d \in Circuits, Answer(d) PROVE FALSE
    BY <1>0, <1>4 DEF Answer, SendAccept, AcceptDropped
  <1>5. ASSUME NEW l \in Links,
               HandleRelayOpen(l) \/ HandleRelayAccept(l) \/ Break(l) \/ PeerDeath(l)
        PROVE  FALSE
    BY <1>0, <1>5 DEF HandleRelayOpen, HandleRelayAccept, Break, PeerDeath, dialVars
  <1>6. ASSUME NEW x \in Dials,
               \/ AcceptRelayStream(x) \/ Copy(x) \/ FirstByte(x) \/ DeliverStream(x)
               \/ Hangup(x) \/ Teardown(x) \/ Deadline(x)
        PROVE  FALSE
    BY <1>6 DEF AcceptRelayStream, Copy, FirstByte, DeliverStream, Hangup, Teardown,
                CloseBoth, StitchEnds, IdleTimeout, Deadline, CloseStream,
                FirstByteDeadline, LateFirstByte, dialVars
  <1>7. ASSUME UNCHANGED vars PROVE FALSE
    BY <1>7 DEF vars, dialVars
  <1>8. ASSUME NEW d \in Circuits, StorePending(d) PROVE d = c
    BY <1>0, <1>8 DEF StorePending
  <1>9. QED
    BY StepCases, <1>1, <1>2, <1>3, <1>4, <1>5, <1>6, <1>7, <1>8 DEF Dials

(* Streams do not vanish, and a new one is direct or was granted. *)
LEMMA StreamSteps ==
    ASSUME RelayInv, [Next]_vars, NEW x \in Dials
    PROVE  /\ stream[x] # "none" => stream'[x] # "none"
           /\ stream[x] = "none" /\ stream'[x] # "none" =>
                relay'[x] = relay[x] /\ (relay[x] # None => waiter[relay[x]] = "ok")
  <1>. DEFINE Goal == /\ stream[x] # "none" => stream'[x] # "none"
                      /\ stream[x] = "none" /\ stream'[x] # "none" =>
                           relay'[x] = relay[x]
                           /\ (relay[x] # None => waiter[relay[x]] = "ok")
  <1>. USE NoneFacts DEF RelayInv, TypeOK
  <1>1. ASSUME NEW y \in Dials, StartCall(y) \/ DialRelay(y) \/ DialProgress(y)
        PROVE  Goal
    BY <1>1 DEF StartCall, DialRelay, DialProgress, DialFails, DialRefused, CtxOver,
                streamVars
  <1>2. ASSUME NEW y \in Dials, DialDirect(y) PROVE Goal
    BY <1>2 DEF DialDirect, Started
  <1>3. ASSUME NEW y \in Dials, RelayReturn(y) PROVE Goal
    BY <1>3 DEF RelayReturn, OpenRelayStream, RelayFails, CtxDone, ReturnFrom, Answered
  <1>4. ASSUME NEW d \in Circuits, StorePending(d) \/ Answer(d) PROVE Goal
    BY <1>4 DEF StorePending, Answer, SendAccept, AcceptDropped, streamVars
  <1>5. ASSUME NEW l \in Links,
               HandleRelayOpen(l) \/ HandleRelayAccept(l) \/ PeerDeath(l)
        PROVE  Goal
    BY <1>5 DEF HandleRelayOpen, HandleRelayAccept, PeerDeath, streamVars
  <1>6. ASSUME NEW l \in Links, Break(l) PROVE Goal
    BY <1>6 DEF Break, dialVars
  <1>7. ASSUME NEW y \in Dials, Copy(y) \/ FirstByte(y) PROVE Goal
    BY <1>7 DEF Copy, FirstByte
  <1>8. ASSUME NEW y \in Dials,
               DeliverStream(y) \/ Hangup(y) \/ Deadline(y) PROVE Goal
    BY <1>8 DEF DeliverStream, Hangup,
                Deadline, CloseStream, FirstByteDeadline, LateFirstByte, dialVars
  <1>9. ASSUME NEW y \in Dials, AcceptRelayStream(y) PROVE Goal
    BY <1>9 DEF AcceptRelayStream, dialVars
  <1>10. ASSUME NEW y \in Dials, Teardown(y) PROVE Goal
    <2>1. stream[y] # "none" /\ stream[stitched[y]] # "none"
      BY <1>10 DEF Teardown, CloseBoth, StitchEnds, IdleTimeout, Stitches
    <2>2. QED
      BY <1>10, <2>1 DEF Teardown, CloseBoth, StitchEnds, IdleTimeout, dialVars
  <1>11. ASSUME UNCHANGED vars PROVE Goal
    BY <1>11 DEF vars, streamVars
  <1>12. Goal
    <2>. HIDE DEF Goal
    <2>1. QED
      BY StepCases, <1>1, <1>2, <1>3, <1>4, <1>5, <1>6, <1>7, <1>8, <1>9, <1>10, <1>11
         DEF Dials
  <1>13. QED
    BY <1>12

LEMMA GrantsStep == RelayInv /\ [Next]_vars => Grants'
  <1>. SUFFICES ASSUME RelayInv, [Next]_vars PROVE Grants'
    OBVIOUS
  <1>1. ASSUME NEW c \in Circuits, waiter'[c] = "ok" PROVE Kept(c)'
    <2>1. Kept(c)
      BY <1>1, NewOk DEF RelayInv, Grants
    <2>2. QED
      BY <2>1, KeptStep
  <1>2. ASSUME NEW c \in Circuits, pc'[c] = "stored" PROVE Kept(c)'
    <2>1. CASE pc[c] = "stored"
      BY <2>1, KeptStep DEF RelayInv, Grants
    <2>2. CASE pc[c] # "stored"
      <3>1. StorePending(c)
        BY <1>2, <2>2, NewStored
      <3>2. via[c] \in Links /\ via'[c] = via[c] /\ At(c) = via[c][2]
        BY <3>1, NoneFacts DEF StorePending, RelayInv, Started, TypeOK, At, Dials
      <3>3. c \in pending'[At(c)] /\ At(c) \in Nodes
        BY <3>1, <3>2, NoneFacts DEF StorePending, RelayInv, TypeOK
      <3>4. QED
        BY <3>2, <3>3, NoneFacts DEF Kept
    <2>3. QED
      BY <2>1, <2>2
  <1>3. ASSUME NEW x \in Dials, stream'[x] # "none", relay'[x] # None
        PROVE  Kept(relay'[x])
    <2>1. CASE stream[x] = "none"
      BY <1>3, <2>1, StreamSteps DEF RelayInv, Grants, TypeOK
    <2>2. CASE stream[x] # "none"
      <3>1. pc[x] \notin {"idle", "dialing"}
        BY <2>2 DEF RelayInv, Started
      <3>2. relay'[x] = relay[x]
        <4>1. ASSUME NEW y \in Dials, DialRelay(y) PROVE relay'[x] = relay[x]
          <5>1. PICK h \in RelayHops(y), d \in Circuits : RelayStep(y, h, d)
            BY <4>1, DialRelayPick
          <5>2. QED
            BY <3>1, <5>1 DEF RelayStep, RelayInv, TypeOK
        <4>2. QED
          BY <4>1, TreeSteps DEF StartCall, TreeKept
      <3>3. QED
        BY <1>3, <2>2, <3>2 DEF RelayInv, Grants
    <2>3. QED
      BY <2>1, <2>2
  <1>4. ASSUME NEW x \in Dials, stream'[x] # "none", relay'[x] # None
        PROVE  Kept(relay[x])'
    <2>1. PICK c : c = relay'[x]
      OBVIOUS
    <2>2. c \in Circuits
      BY <1>4, <2>1, TypeStep DEF RelayInv, TypeOK
    <2>3. Kept(c)
      BY <1>3, <1>4, <2>1
    <2>4. Kept(c)'
      BY <2>2, <2>3, KeptStep
    <2>5. QED
      BY <2>1, <2>4 DEF Kept
  <1>5. QED
    BY <1>1, <1>2, <1>4 DEF Grants

-----------------------------------------------------------------------------
(* Stitched streams and the data on them. *)
LEMMA StitchesInit == Init => Stitches
  BY DEF Init, Stitches, Dials

(* Who writes to a stream: its call, or the Stitch in front of it. *)
LEMMA ByteSteps ==
    ASSUME [Next]_vars
    PROVE  \/ \E x \in Calls : FirstByte(x)
           \/ \E x \in Dials : Copy(x)
           \/ bytes' = bytes
  <1>. DEFINE Quiet == bytes' = bytes
  <1>1. ASSUME NEW x \in Dials,
               StartCall(x) \/ DialDirect(x) \/ DialRelay(x) \/ DialProgress(x)
        PROVE  Quiet
    BY <1>1 DEF StartCall, DialDirect, DialRelay, DialProgress, DialFails,
                DialRefused, CtxOver, streamVars
  <1>2. ASSUME NEW x \in Dials, RelayReturn(x) PROVE Quiet
    BY <1>2 DEF RelayReturn, OpenRelayStream, RelayFails, CtxDone, ReturnFrom
  <1>3. ASSUME NEW l \in Links,
               HandleRelayOpen(l) \/ HandleRelayAccept(l) \/ Break(l) \/ PeerDeath(l)
        PROVE  Quiet
    BY <1>3 DEF HandleRelayOpen, HandleRelayAccept, Break, PeerDeath, streamVars
  <1>4. ASSUME NEW c \in Circuits, StorePending(c) \/ Answer(c) PROVE Quiet
    BY <1>4 DEF StorePending, Answer, SendAccept, AcceptDropped, streamVars
  <1>5. ASSUME NEW x \in Dials,
               \/ AcceptRelayStream(x) \/ DeliverStream(x) \/ Hangup(x)
               \/ Teardown(x) \/ Deadline(x)
        PROVE  Quiet
    BY <1>5 DEF AcceptRelayStream, DeliverStream, Hangup, Teardown, CloseBoth,
                StitchEnds, IdleTimeout, Deadline, CloseStream, FirstByteDeadline,
                LateFirstByte
  <1>6. ASSUME UNCHANGED vars PROVE Quiet
    BY <1>6 DEF vars, streamVars
  <1>. HIDE DEF Quiet
  <1>7. (\E x \in Calls : FirstByte(x)) \/ (\E x \in Dials : Copy(x)) \/ Quiet
    BY StepCases, <1>1, <1>2, <1>3, <1>4, <1>5, <1>6 DEF Dials
  <1>8. QED
    BY <1>7 DEF Quiet

(* The data on a stream never turns from one call's into another's. *)
LEMMA BytesKept ==
    ASSUME RelayInv, [Next]_vars, NEW x \in Dials, bytes[x] # None
    PROVE  bytes'[x] = bytes[x] /\ owner'[x] = owner[x]
  <1>. USE NoneFacts DEF RelayInv, TypeOK
  <1>1. bytes'[x] = bytes[x]
    BY ByteSteps DEF FirstByte, Copy
  <1>2. bytes[x] = owner[x] /\ owner[x] # None
    BY DEF Stitches
  <1>3. CASE x \in Circuits
    BY <1>1, <1>2, <1>3, TreeGrows DEF Fresh
  <1>4. CASE x \in Calls
    <2>1. owner[x] = x
      BY <1>2, <1>4 DEF Chain
    <2>2. ASSUME NEW y \in Calls, StartCall(y) PROVE owner'[x] = owner[x]
      BY <2>1, <2>2 DEF StartCall, Dials
    <2>3. ASSUME NEW y \in Dials, DialRelay(y) PROVE owner'[x] = owner[x]
      <3>1. PICK h \in RelayHops(y), d \in Circuits : RelayStep(y, h, d)
        BY <2>3, DialRelayPick
      <3>2. QED
        BY <1>4, <3>1 DEF RelayStep, Dials
    <2>4. QED
      BY <1>1, <2>2, <2>3, TreeSteps DEF TreeKept
  <1>5. QED
    BY <1>3, <1>4 DEF Dials

(* A stream is delivered only at the end of its call's chain. *)
LEMMA NewDelivery ==
    ASSUME RelayInv, [Next]_vars, NEW x \in Dials, stream[x] # "delivered",
           stream'[x] = "delivered"
    PROVE  DeliverStream(x)
  <1>. USE DEF RelayInv, TypeOK
  <1>1. ASSUME NEW y \in Dials,
               StartCall(y) \/ DialDirect(y) \/ DialRelay(y) \/ DialProgress(y)
        PROVE  FALSE
    BY <1>1 DEF StartCall, DialDirect, DialRelay, DialProgress, DialFails,
                DialRefused, CtxOver, streamVars
  <1>2. ASSUME NEW y \in Dials, RelayReturn(y) PROVE FALSE
    BY <1>2 DEF RelayReturn, OpenRelayStream, RelayFails, CtxDone
  <1>3. ASSUME NEW l \in Links, HandleRelayOpen(l) \/ HandleRelayAccept(l) \/ PeerDeath(l)
        PROVE  FALSE
    BY <1>3 DEF HandleRelayOpen, HandleRelayAccept, PeerDeath, streamVars
  <1>4. ASSUME NEW l \in Links, Break(l) PROVE FALSE
    BY <1>4 DEF Break
  <1>5. ASSUME NEW c \in Circuits, StorePending(c) \/ Answer(c) PROVE FALSE
    BY <1>5 DEF StorePending, Answer, SendAccept, AcceptDropped, streamVars
  <1>6. ASSUME NEW y \in Dials, AcceptRelayStream(y) PROVE FALSE
    BY <1>6 DEF AcceptRelayStream
  <1>7. ASSUME NEW y \in Dials,
               Copy(y) \/ FirstByte(y) \/ Hangup(y) \/ Deadline(y)
        PROVE  FALSE
    BY <1>7 DEF Copy, FirstByte, Hangup,
                Deadline, CloseStream, FirstByteDeadline, LateFirstByte
  <1>8. ASSUME NEW y \in Dials, Teardown(y) PROVE FALSE
    BY <1>8 DEF Teardown, CloseBoth, StitchEnds, IdleTimeout
  <1>9. ASSUME UNCHANGED vars PROVE FALSE
    BY <1>9 DEF vars, streamVars
  <1>10. ASSUME NEW y \in Dials, DeliverStream(y) PROVE y = x
    BY <1>10 DEF DeliverStream
  <1>11. QED
    BY StepCases, <1>1, <1>2, <1>3, <1>4, <1>5, <1>6, <1>7, <1>8, <1>9, <1>10 DEF Dials

LEMMA StitchesStep == RelayInv /\ [Next]_vars => Stitches'
  <1>. SUFFICES ASSUME RelayInv, [Next]_vars PROVE Stitches'
    OBVIOUS
  <1>. USE NoneFacts DEF RelayInv, TypeOK
  <1>1. ASSUME NEW n \in Nodes, NEW c \in pending'[n] PROVE stream'[c] # "none"
    <2>1. c \in pending[n] => c \in Dials /\ stream'[c] # "none"
      BY StreamSteps DEF Stitches, Dials
    <2>2. ASSUME NEW d \in Circuits, StorePending(d) PROVE stream'[c] # "none"
      <3>1. d \in Dials /\ stream[d] # "none" /\ stream' = stream
        BY <2>2 DEF StorePending, Started, Dials
      <3>2. c \in pending[n] \/ c = d
        BY <1>1, <2>2 DEF StorePending
      <3>3. QED
        BY <2>1, <3>1, <3>2
    <2>3. ASSUME NEW x \in Dials, AcceptRelayStream(x) PROVE c \in pending[n]
      BY <1>1, <2>3 DEF AcceptRelayStream
    <2>4. QED
      BY <1>1, <2>1, <2>2, <2>3, MapSteps DEF MapKept
  <1>2. ASSUME NEW x \in Dials, stitched'[x] # None
        PROVE  /\ stitched'[x] = relay'[x] /\ stream'[x] # "none"
               /\ stream'[stitched'[x]] # "none"
    <2>1. CASE stitched'[x] = stitched[x]
      <3>1. /\ stitched[x] = relay[x] /\ stream[x] # "none"
            /\ stream[stitched[x]] # "none" /\ stitched[x] \in Dials
        BY <1>2, <2>1 DEF Stitches, Dials
      <3>2. relay'[x] = relay[x] /\ stream'[x] # "none" /\ stream'[stitched[x]] # "none"
        BY <1>2, <2>1, <3>1, TreeGrows, StreamSteps
      <3>3. QED
        BY <2>1, <3>1, <3>2
    <2>2. ASSUME NEW y \in Dials, AcceptRelayStream(y), stitched'[x] # stitched[x]
          PROVE  /\ stitched'[x] = relay'[x] /\ stream'[x] # "none"
                 /\ stream'[stitched'[x]] # "none"
      <3>1. PICK c \in Lookup(Session(y)[2], relay[y]) :
              /\ pending' = [pending EXCEPT ![Session(y)[2]] = @ \ {c}]
              /\ stitched' = [stitched EXCEPT ![y] = c]
              /\ stream' = stream
        BY <2>2 DEF AcceptRelayStream
      <3>2. /\ x = y /\ stitched'[x] = c /\ c = relay[x] /\ stream[x] # "none"
            /\ relay' = relay
        BY <2>2, <3>1 DEF AcceptRelayStream, Lookup, dialVars
      <3>3. relay[x] # None
        BY <2>2, <3>2 DEF AcceptRelayStream, IsRelayed
      <3>4. Session(y)[2] \in Nodes
        BY <3>2, <3>3 DEF Session, Chain
      <3>5. stream[c] # "none"
        BY <3>1, <3>4 DEF Lookup, Stitches
      <3>6. QED
        BY <3>1, <3>2, <3>5
    <2>3. ASSUME NEW d \in Circuits, StorePending(d) PROVE stitched'[x] = stitched[x]
      BY <2>3 DEF StorePending
    <2>4. QED
      BY <2>1, <2>2, <2>3, MapSteps DEF MapKept
  <1>3. ASSUME NEW x \in Dials, bytes'[x] # None PROVE bytes'[x] = owner'[x]
    <2>1. CASE bytes[x] # None
      BY <2>1, BytesKept DEF Stitches
    <2>2. ASSUME bytes[x] = None, NEW y \in Calls, FirstByte(y) PROVE bytes'[x] = owner'[x]
      <3>1. x = y /\ bytes'[x] = x /\ pc[x] = "dialed" /\ owner' = owner /\ x \in Calls
        BY <1>3, <2>2 DEF FirstByte, dialVars
      <3>2. owner[x] = x
        BY <3>1 DEF Started, Chain
      <3>3. QED
        BY <3>1, <3>2
    <2>3. ASSUME bytes[x] = None, NEW y \in Dials, Copy(y) PROVE bytes'[x] = owner'[x]
      <3>1. x = stitched[y] /\ bytes'[x] = bytes[y] /\ bytes[y] # None /\ owner' = owner
        BY <1>3, <2>3 DEF Copy, dialVars, Dials
      <3>2. bytes[y] = owner[y] /\ x = relay[y] /\ relay[y] # None
        BY <2>3, <3>1 DEF Stitches, Copy
      <3>3. QED
        BY <3>1, <3>2 DEF Chain
    <2>4. QED
      BY <1>3, <2>1, <2>2, <2>3, ByteSteps
  <1>4. ASSUME NEW x \in Dials, stream'[x] = "delivered"
        PROVE  relay'[x] = None /\ bytes'[x] # None
    <2>1. CASE stream[x] = "delivered"
      <3>1. relay[x] = None /\ bytes[x] # None /\ pc[x] \notin {"idle", "dialing"}
        BY <2>1 DEF Stitches, Started
      <3>2. ASSUME NEW y \in Dials, DialRelay(y) PROVE relay'[x] = relay[x]
        <4>1. PICK h \in RelayHops(y), d \in Circuits : RelayStep(y, h, d)
          BY <3>2, DialRelayPick
        <4>2. QED
          BY <3>1, <4>1 DEF RelayStep
      <3>3. relay'[x] = relay[x]
        BY <3>2, TreeSteps DEF StartCall, TreeKept
      <3>4. QED
        BY <3>1, <3>3, BytesKept
    <2>2. CASE stream[x] # "delivered"
      <3>1. DeliverStream(x)
        BY <1>4, <2>2, NewDelivery
      <3>2. QED
        BY <3>1 DEF DeliverStream, IsRelayed, dialVars
    <2>3. QED
      BY <2>1, <2>2
  <1>5. QED
    BY <1>1, <1>2, <1>3, <1>4 DEF Stitches

-----------------------------------------------------------------------------
LEMMA RelayInvInit == Init => RelayInv
  BY TypeInit, StartedInit, ChainInit, FreshInit, InFlightInit, GrantsInit, StitchesInit
     DEF RelayInv

LEMMA RelayInvStep == RelayInv /\ [Next]_vars => RelayInv'
  BY TypeStep, StartedStep, ChainStep, FreshStep, InFlightStep, GrantsStep, StitchesStep
     DEF RelayInv

(* An open stream whose circuit is kept, and which is not stitched yet, finds  *)
(* the connection at the hop it leads to: only its own stream has that circuit.*)
LEMMA RelayInvKnown == RelayInv => NoUnknownCircuit
  <1>. SUFFICES ASSUME RelayInv, NEW x \in Dials, stream[x] = "open", IsRelayed(x),
                       stitched[x] = None
                PROVE  relay[x] \in pending[Session(x)[2]]
    BY DEF NoUnknownCircuit
  <1>1. relay[x] \in Circuits /\ relay[x] # None /\ Session(x) = via[relay[x]]
    BY DEF IsRelayed, RelayInv, TypeOK, Session
  <1>2. Kept(relay[x])
    BY <1>1 DEF RelayInv, Grants
  <1>3. ~ \E y \in Dials : relay[y] = relay[x] /\ stitched[y] = relay[x]
    BY <1>1 DEF RelayInv, Chain
  <1>4. QED
    BY <1>1, <1>2, <1>3 DEF Kept

(* The data on a stream is its owner's, the target of a dial is its owner's, *)
(* and a call's chain has one end.                                           *)
LEMMA RelayInvTarget == RelayInv => BytesReachTheirTarget
  <1>. SUFFICES ASSUME RelayInv PROVE BytesReachTheirTarget
    OBVIOUS
  <1>1. ASSUME NEW x \in Dials, stream[x] = "delivered"
        PROVE  /\ relay[x] = None /\ bytes[x] = owner[x] /\ owner[x] # None
               /\ target[x] = Target[bytes[x]]
    <2>1. relay[x] = None /\ bytes[x] # None /\ bytes[x] = owner[x]
      BY <1>1 DEF RelayInv, Stitches
    <2>2. pc[x] # "idle"
      BY <1>1 DEF RelayInv, Started
    <2>3. QED
      BY <2>1, <2>2 DEF RelayInv, Started
  <1>2. ASSUME NEW x \in Dials, NEW y \in Dials, stream[x] = "delivered",
               stream[y] = "delivered", bytes[x] = bytes[y]
        PROVE  x = y
    BY <1>1, <1>2 DEF RelayInv, Chain
  <1>3. QED
    BY <1>1, <1>2 DEF BytesReachTheirTarget

(* Every state of the relay protocol is of its type, whatever the network. *)
THEOREM TypeCorrect == Spec => []TypeOK
  <1>1. RelayInv => TypeOK
    BY DEF RelayInv
  <1>2. QED
    BY <1>1, RelayInvInit, RelayInvStep, PTL DEF Spec

(* handleRelayOpenFrame stores the connection before it answers, and         *)
(* acceptDataStreams never meets an unknown circuit: for any network, any    *)
(* number of concurrent calls, lost frames, dead sessions and answers that   *)
(* arrive after the caller gave up.                                          *)
THEOREM CircuitsAreKnown == Spec => []NoUnknownCircuit
  BY RelayInvKnown, RelayInvInit, RelayInvStep, PTL DEF Spec

(* However many hops stitch streams together by circuit ID, what comes out   *)
(* at a node is the data of one call that wanted that node, and it comes out *)
(* once, whatever the routing tables answer and whatever breaks.             *)
THEOREM DataReachesItsTarget == Spec => []BytesReachTheirTarget
  BY RelayInvTarget, RelayInvInit, RelayInvStep, PTL DEF Spec

=============================================================================
