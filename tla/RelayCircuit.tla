---------------------------- MODULE RelayCircuit ----------------------------
(***************************************************************************)
(* Multi-hop streams (pkg/mesh/api/connect.go and control.go): GrpcDialer  *)
(* of a node that is not connected to its target asks the next hop with a  *)
(* RelayOpen frame, the next hop dials on in its own control loop, keeps   *)
(* the connection in pendingCircuits and answers RelayAccept; the dialer   *)
(* then opens a stream that starts with the circuit's ID, and the next hop *)
(* stitches it to the pending connection.                                  *)
(*                                                                         *)
(* A dial is named by what it is for: a call of the application, or the    *)
(* circuit whose RelayOpen frame a control loop is handling. A control     *)
(* stream or session is a pair <<from, to>>; the control loop that reads   *)
(* it is the one of node to for peer from.                                 *)
(***************************************************************************)
EXTENDS Naturals, Sequences, FiniteSets

CONSTANTS
    Nodes,
    Links,        \* pairs <<from, to>>, both directions of every connection
    NextHop,      \* NextHop[n][t]: what BestRoute(t) of n may answer
    Calls,        \* calls of GrpcDialer by the application
    Caller,       \* call -> node
    Target,       \* call -> node
    MaxCircuits,  \* bound: circuit IDs that uuid.New returns
    MaxFaults,    \* bound: broken sessions, full queues, expired timers
    None

Circuits == 1..MaxCircuits
Dials == Calls \cup Circuits

ASSUME RelayAssumption ==
    /\ Links \subseteq Nodes \X Nodes
    /\ \A l \in Links : <<l[2], l[1]>> \in Links
    /\ NextHop \in [Nodes -> [Nodes -> SUBSET Nodes]]
    /\ Caller \in [Calls -> Nodes] /\ Target \in [Calls -> Nodes]
    /\ MaxCircuits \in Nat /\ MaxFaults \in Nat
    /\ Calls \cap Circuits = {}
    /\ None \notin Nodes \cup Links \cup Dials

VARIABLES
    peers,     \* the links of the peer maps
    up,        \* the links whose session is alive
    ctl,       \* link -> control frames on their way
    pc,        \* dial -> where GrpcDialer, or the handler around it, is
    target,    \* dial -> the node it wants
    relay,     \* dial -> the circuit it asked its next hop for, if any
    via,       \* circuit -> the link between its dialer and the next hop
    waiter,    \* circuit -> its channel in relayWaiters
    pending,   \* node -> the keys of pendingCircuits
    stream,    \* dial -> the stream that GrpcDialer returned
    stitched,  \* dial -> the circuit that its stream was stitched to
    bytes,     \* dial -> the call whose data the stream carries
    owner,     \* dial -> the call it is made for (history)
    ended,     \* the calls whose context is over or that hung up (history)
    faults

dialVars == <<pc, target, relay, via, waiter, owner>>
netVars == <<peers, up, faults, ended>>
streamVars == <<pending, stream, stitched, bytes>>
vars == <<dialVars, netVars, streamVars, ctl>>

OpenFrame(c, t) == [type |-> "RelayOpen", circuit |-> c, target |-> t]
AcceptFrame(c, ok) == [type |-> "RelayAccept", circuit |-> c, success |-> ok]

DialStates == {"idle", "dialing", "waiting", "dialed", "stored", "failed", "done"}
InHandler == {"dialing", "waiting", "dialed", "stored", "failed"}

Init ==
    /\ peers = Links /\ up = Links
    /\ ctl = [l \in Links |-> <<>>]
    /\ pc = [x \in Dials |-> "idle"]
    /\ target = [x \in Dials |-> None]
    /\ relay = [x \in Dials |-> None]
    /\ via = [c \in Circuits |-> None]
    /\ waiter = [c \in Circuits |-> "absent"]
    /\ pending = [n \in Nodes |-> {}]
    /\ stream = [x \in Dials |-> "none"]
    /\ stitched = [x \in Dials |-> None]
    /\ bytes = [x \in Dials |-> None]
    /\ owner = [x \in Dials |-> None]
    /\ ended = {}
    /\ faults = 0

Back(l) == <<l[2], l[1]>>

(* The node that dials for x. *)
At(x) == IF x \in Calls THEN Caller[x] ELSE via[x][2]

Fault == faults < MaxFaults /\ faults' = faults + 1

(* The control loop that reads l is inside handleRelayOpenFrame. *)
Busy(l) == \E c \in Circuits : via[c] = l /\ pc[c] \in InHandler

-----------------------------------------------------------------------------
(***************************************************************************)
(* GrpcDialer, grpcDialerFallback and dialRelayCircuit                     *)
(***************************************************************************)

(* The application calls GrpcDialer. *)
StartCall(x) ==
    /\ pc[x] = "idle"
    /\ pc' = [pc EXCEPT ![x] = "dialing"]
    /\ target' = [target EXCEPT ![x] = Target[x]]
    /\ owner' = [owner EXCEPT ![x] = x]
    /\ UNCHANGED <<relay, via, waiter, netVars, streamVars, ctl>>

Direct(x) == <<At(x), target[x]>>

(* A direct peer whose session opens a stream. *)
DialDirect(x) ==
    /\ pc[x] = "dialing" /\ Direct(x) \in peers \cap up
    /\ pc' = [pc EXCEPT ![x] = "dialed"]
    /\ stream' = [stream EXCEPT ![x] = "open"]
    /\ UNCHANGED <<target, relay, via, waiter, owner, netVars, pending, stitched, bytes, ctl>>

(* The next hops of a relay: the target is no peer, or its session is dead. *)
RelayHops(x) ==
    {h \in NextHop[At(x)][target[x]] : <<At(x), h>> \in peers /\ h # target[x]
                                       /\ Direct(x) \notin peers \cap up}

Unused == {c \in Circuits : via[c] = None}

(* A frame queued on a session that is already dead is lost. *)
Transmit(l, f) == ctl' = [ctl EXCEPT ![l] = IF l \in up THEN Append(@, f) ELSE @]

(* The waiter is registered under a fresh ID before RelayOpen is sent. *)
DialRelay(x) ==
    /\ pc[x] = "dialing"
    /\ \E h \in RelayHops(x), c \in Unused :
        /\ \A d \in Unused : c <= d
        /\ pc' = [pc EXCEPT ![x] = "waiting"]
        /\ relay' = [relay EXCEPT ![x] = c]
        /\ via' = [via EXCEPT ![c] = <<At(x), h>>]
        /\ owner' = [owner EXCEPT ![c] = owner[x]]
        /\ waiter' = [waiter EXCEPT ![c] = "empty"]
        /\ Transmit(<<At(x), h>>, OpenFrame(c, target[x]))
    /\ UNCHANGED <<target, netVars, streamVars>>

(* No route, a next hop that is not connected or has a dead session. *)
DialFails(x) ==
    /\ pc[x] = "dialing" /\ Direct(x) \notin peers \cap up /\ RelayHops(x) = {}
    /\ pc' = [pc EXCEPT ![x] = "failed"]
    /\ UNCHANGED <<target, relay, via, waiter, owner, netVars, streamVars, ctl>>

(* sendControl refuses the frame: the next hop's queue is full. *)
DialRefused(x) ==
    /\ pc[x] = "dialing" /\ RelayHops(x) # {}
    /\ Fault
    /\ pc' = [pc EXCEPT ![x] = "failed"]
    /\ UNCHANGED <<target, relay, via, waiter, owner, peers, up, ended, streamVars, ctl>>

(* GrpcDialer finds that the context of the call is already over. *)
CtxOver(x) ==
    /\ pc[x] = "dialing"
    /\ pc' = [pc EXCEPT ![x] = "failed"]
    /\ ended' = ended \cup {x}
    /\ UNCHANGED <<target, relay, via, waiter, owner, peers, up, faults, streamVars, ctl>>

Answered(x, value) == pc[x] = "waiting" /\ waiter[relay[x]] = value

(* dialRelayCircuit returns; its deferred function deletes the waiter. *)
ReturnFrom(x, state) ==
    /\ pc' = [pc EXCEPT ![x] = state]
    /\ waiter' = [waiter EXCEPT ![relay[x]] = "absent"]
    /\ UNCHANGED <<target, relay, via, owner, peers, up, faults, pending, stitched, bytes, ctl>>

(* Accepted: a stream to the next hop, with the circuit's ID in front. *)
OpenRelayStream(x) ==
    /\ Answered(x, "ok") /\ via[relay[x]] \in up
    /\ stream' = [stream EXCEPT ![x] = "open"] /\ ended' = ended
    /\ ReturnFrom(x, "dialed")

(* Rejected, or the session died meanwhile. *)
RelayFails(x) ==
    /\ Answered(x, "error") \/ (Answered(x, "ok") /\ via[relay[x]] \notin up)
    /\ stream' = stream /\ ended' = ended
    /\ ReturnFrom(x, "failed")

(* ctx.Done(): only a call's context ends, handlers use context.Background. *)
CtxDone(x) ==
    /\ x \in Calls /\ pc[x] = "waiting"
    /\ stream' = stream /\ ended' = ended \cup {x}
    /\ ReturnFrom(x, "failed")

DialStep(x) ==
    DialDirect(x) \/ DialRelay(x) \/ DialFails(x) \/ OpenRelayStream(x) \/ RelayFails(x)

-----------------------------------------------------------------------------
(***************************************************************************)
(* The control loop                                                        *)
(***************************************************************************)
Received(l, type) ==
    l \in up /\ ~Busy(l) /\ ctl[l] # <<>> /\ Head(ctl[l]).type = type

(* handleRelayOpenFrame calls GrpcDialer and blocks the loop until it      *)
(* returns.                                                                *)
HandleRelayOpen(l) ==
    /\ Received(l, "RelayOpen")
    /\ LET f == Head(ctl[l]) IN
        /\ pc' = [pc EXCEPT ![f.circuit] = "dialing"]
        /\ target' = [target EXCEPT ![f.circuit] = f.target]
    /\ ctl' = [ctl EXCEPT ![l] = Tail(@)]
    /\ UNCHANGED <<relay, via, waiter, owner, netVars, streamVars>>

(* ... and keeps the connection for the stream that will ask for it. *)
StorePending(c) ==
    /\ pc[c] = "dialed"
    /\ pending' = [pending EXCEPT ![At(c)] = @ \cup {c}]
    /\ pc' = [pc EXCEPT ![c] = "stored"]
    /\ UNCHANGED <<target, relay, via, waiter, owner, netVars, stream, stitched, bytes, ctl>>

SendAccept_WrongWay(c) ==
    /\ pc[c] \in {"stored", "failed"}
    /\ Transmit(via[c], AcceptFrame(c, pc[c] = "stored"))
    /\ pc' = [pc EXCEPT ![c] = "done"]
    /\ UNCHANGED <<target, relay, via, waiter, owner, netVars, streamVars>>

(* ... and answers. *)
SendAccept(c) ==
    /\ pc[c] \in {"stored", "failed"}
    /\ Transmit(Back(via[c]), AcceptFrame(c, pc[c] = "stored"))
    /\ pc' = [pc EXCEPT ![c] = "done"]
    /\ UNCHANGED <<target, relay, via, waiter, owner, netVars, streamVars>>

(* The answer is dropped on a full queue. *)
AcceptDropped(c) ==
    /\ pc[c] \in {"stored", "failed"}
    /\ Fault
    /\ pc' = [pc EXCEPT ![c] = "done"]
    /\ UNCHANGED <<target, relay, via, waiter, owner, peers, up, ended, streamVars, ctl>>

Verdict_AlwaysOk(f) == "ok"

(* What handleRelayAcceptFrame puts into the channel it finds. The channel *)
(* is in the map of the node that dialled, has one slot and is not waited  *)
(* for.                                                                    *)
Verdict(f) == IF f.success THEN "ok" ELSE "error"

HandleRelayAccept(l) ==
    /\ Received(l, "RelayAccept")
    /\ LET f == Head(ctl[l]) IN
        waiter' = [waiter EXCEPT ![f.circuit] =
                    IF @ = "empty" /\ via[f.circuit][1] = l[2] THEN Verdict(f) ELSE @]
    /\ ctl' = [ctl EXCEPT ![l] = Tail(@)]
    /\ UNCHANGED <<pc, target, relay, via, owner, netVars, streamVars>>

HandlerStep(c) == DialStep(c) \/ StorePending(c) \/ SendAccept(c)

ControlStep(l) == HandleRelayOpen(l) \/ HandleRelayAccept(l)

-----------------------------------------------------------------------------
(***************************************************************************)
(* Streams: acceptDataStreams and Stitch                                   *)
(***************************************************************************)
IsRelayed(x) == stream[x] # "none" /\ relay[x] # None

(* The session a stream runs on. *)
Session(x) == IF relay[x] # None THEN via[relay[x]] ELSE Direct(x)

Lookup_Any(n, c) == pending[n]

(* The key looked up for a stream with circuit ID c at node n. *)
Lookup(n, c) == pending[n] \cap {c}

(* A stream with a circuit ID arrives: unknown circuits are closed, a      *)
(* known one is taken out of the map and stitched.                         *)
AcceptRelayStream(x) ==
    /\ stream[x] = "open" /\ IsRelayed(x) /\ stitched[x] = None
    /\ LET n == Session(x)[2]
           found == Lookup(n, relay[x])
       IN \/ /\ found = {}
             /\ stream' = [stream EXCEPT ![x] = "closed"]
             /\ UNCHANGED <<pending, stitched>>
          \/ \E c \in found :
             /\ pending' = [pending EXCEPT ![n] = @ \ {c}]
             /\ stitched' = [stitched EXCEPT ![x] = c]
             /\ stream' = stream
    /\ UNCHANGED <<dialVars, netVars, bytes, ctl>>

(* The application writes to the stream it was given. *)
FirstByte(x) ==
    /\ pc[x] = "dialed" /\ stream[x] = "open" /\ bytes[x] = None
    /\ bytes' = [bytes EXCEPT ![x] = x]
    /\ UNCHANGED <<dialVars, netVars, pending, stream, stitched, ctl>>

(* Stitch copies from x's stream to the connection of the circuit. *)
Copy(x) ==
    /\ stitched[x] # None /\ bytes[x] # None /\ stream[x] = "open"
    /\ stream[stitched[x]] = "open" /\ bytes[stitched[x]] = None
    /\ bytes' = [bytes EXCEPT ![stitched[x]] = bytes[x]]
    /\ UNCHANGED <<dialVars, netVars, pending, stream, stitched, ctl>>

(* The target reads a first byte that is not MagicRelay: Deliver. *)
DeliverStream(x) ==
    /\ stream[x] = "open" /\ ~IsRelayed(x) /\ bytes[x] # None
    /\ stream' = [stream EXCEPT ![x] = "delivered"]
    /\ UNCHANGED <<dialVars, netVars, pending, stitched, bytes, ctl>>

CloseStream(x) ==
    /\ stream' = [stream EXCEPT ![x] = "closed"]
    /\ UNCHANGED <<dialVars, peers, up, ended, pending, stitched, bytes, ctl>>

FirstByteDeadline_Never(x) == FALSE

(* ... or its read deadline expires, because the call is over and no byte  *)
(* will come.                                                              *)
FirstByteDeadline(x) ==
    /\ stream[x] = "open" /\ ~IsRelayed(x) /\ bytes[x] = None
    /\ pc[owner[x]] = "failed" \/ stream[owner[x]] = "closed"
    /\ faults' = faults
    /\ CloseStream(x)

(* The mesh is slow: a first byte or a circuit ID misses the deadline. *)
LateFirstByte(x) ==
    /\ stream[x] = "open" /\ stitched[x] = None
    /\ IsRelayed(x) \/ bytes[x] = None
    /\ Fault
    /\ CloseStream(x)

(* The application closes its connection. *)
Hangup(x) ==
    /\ stream[x] \in {"open", "delivered"} /\ bytes[x] # None
    /\ stream' = [stream EXCEPT ![x] = "closed"]
    /\ ended' = ended \cup {x}
    /\ UNCHANGED <<dialVars, peers, up, faults, pending, stitched, bytes, ctl>>

CloseBoth(x) ==
    /\ {stream[x], stream[stitched[x]]} # {"closed"}
    /\ stream' = [stream EXCEPT ![x] = "closed", ![stitched[x]] = "closed"]
    /\ UNCHANGED <<dialVars, peers, up, ended, pending, stitched, bytes, ctl>>

(* Stitch returns: a stream that ends closes the one it is stitched to. *)
StitchEnds(x) ==
    /\ stitched[x] # None /\ "closed" \in {stream[x], stream[stitched[x]]}
    /\ CloseBoth(x)
    /\ faults' = faults

(* The watchdog closes a circuit on which nothing has moved for too long. *)
IdleTimeout(x) == stitched[x] # None /\ CloseBoth(x) /\ Fault

StreamStep(x) ==
    \/ AcceptRelayStream(x) \/ (x \in Calls /\ FirstByte(x)) \/ Copy(x)
    \/ DeliverStream(x) \/ StitchEnds(x)

-----------------------------------------------------------------------------
(* A session breaks, with its frames and streams. *)
Break(l) ==
    /\ l \in up
    /\ Fault
    /\ up' = up \ {l, Back(l)}
    /\ ctl' = [k \in Links |-> IF k \in {l, Back(l)} THEN <<>> ELSE ctl[k]]
    /\ stream' = [x \in Dials |->
                    IF stream[x] # "none" /\ Session(x) \in {l, Back(l)}
                    THEN "closed" ELSE stream[x]]
    /\ UNCHANGED <<dialVars, peers, ended, pending, stitched, bytes>>

(* handlePeerDeath, at one end. *)
PeerDeath(l) ==
    /\ l \in peers \ up
    /\ peers' = peers \ {l}
    /\ UNCHANGED <<dialVars, up, faults, ended, streamVars, ctl>>

Next ==
    \/ \E x \in Calls : \/ StartCall(x) \/ FirstByte(x) \/ Hangup(x)
                        \/ CtxOver(x) \/ CtxDone(x)
    \/ \E x \in Dials : \/ DialStep(x) \/ DialRefused(x) \/ AcceptRelayStream(x)
                        \/ Copy(x) \/ DeliverStream(x) \/ StitchEnds(x)
                        \/ FirstByteDeadline(x) \/ LateFirstByte(x) \/ IdleTimeout(x)
    \/ \E c \in Circuits : \/ StorePending(c) \/ SendAccept(c) \/ AcceptDropped(c)
    \/ \E l \in Links : ControlStep(l) \/ Break(l) \/ PeerDeath(l)

Spec == Init /\ [][Next]_vars

(***************************************************************************)
(* Goroutines that can run do run, and the target's read deadline fires.   *)
(* Nothing is assumed of sessions, of Hangup or of a call's context.       *)
(***************************************************************************)
RelayFairness ==
    /\ \A x \in Calls : WF_vars(DialStep(x))
    /\ \A x \in Dials : WF_vars(StreamStep(x))
    /\ \A c \in Circuits : WF_vars(HandlerStep(c)) /\ WF_vars(FirstByteDeadline(c))
    /\ \A l \in Links : WF_vars(ControlStep(l)) /\ WF_vars(PeerDeath(l))

FairSpec == Spec /\ RelayFairness

-----------------------------------------------------------------------------
(***************************************************************************)
(* Properties                                                              *)
(***************************************************************************)
Frames == [type : {"RelayOpen"}, circuit : Circuits, target : Nodes]
          \cup [type : {"RelayAccept"}, circuit : Circuits, success : BOOLEAN]

(* Type correctness. *)
TypeOK ==
    /\ peers \subseteq Links /\ up \subseteq Links
    /\ ctl \in [Links -> Seq(Frames)]
    /\ pc \in [Dials -> DialStates]
    /\ target \in [Dials -> Nodes \cup {None}]
    /\ relay \in [Dials -> Circuits \cup {None}]
    /\ via \in [Circuits -> Links \cup {None}]
    /\ waiter \in [Circuits -> {"absent", "empty", "ok", "error"}]
    /\ pending \in [Nodes -> SUBSET Circuits]
    /\ stream \in [Dials -> {"none", "open", "delivered", "closed"}]
    /\ stitched \in [Dials -> Circuits \cup {None}]
    /\ bytes \in [Dials -> Calls \cup {None}]
    /\ owner \in [Dials -> Calls \cup {None}]
    /\ ended \subseteq Dials
    /\ faults \in 0..MaxFaults

(* A stream that asks for a circuit finds it: the entry is in the map      *)
(* before RelayAccept is sent, and only its own stream takes it out.       *)
NoUnknownCircuit ==
    \A x \in Dials :
        stream[x] = "open" /\ IsRelayed(x) /\ stitched[x] = None
            => relay[x] \in pending[Session(x)[2]]

(* Data comes out where its call wanted it: the chain of streams that the  *)
(* hops stitched together by circuit ID ends at the call's target, and two *)
(* streams that are delivered never carry the data of the same call.       *)
BytesReachTheirTarget ==
    /\ \A x \in Dials : stream[x] = "delivered" => target[x] = Target[bytes[x]]
    /\ \A x, y \in Dials :
        stream[x] = "delivered" /\ stream[y] = "delivered" /\ bytes[x] = bytes[y]
            => x = y

(* If no session breaks, no queue is full and no timer expires, and calls *)
(* do not cross, the data of every call comes out at its target, over      *)
(* however many hops, unless the call itself gives up: no hop refuses it,  *)
(* loses its circuit or closes its stream (connect.go, control.go).        *)
CallsGetThrough ==
    \A x \in Calls :
        pc[x] = "dialing" ~> \/ faults > 0 \/ x \in ended
                             \/ \E y \in Dials :
                                   bytes[y] = x /\ stream[y] = "delivered" /\ target[y] = Target[x]

(* When a call has failed or hung up, every stream made for it is closed   *)
(* by the node it leads to, even if the hop that opened it keeps it in     *)
(* pendingCircuits for ever: the target's read deadline closes the last    *)
(* one, and every Stitch on the way passes the end on.                     *)
AbandonedStreamsClose ==
    \A c \in Circuits :
        (stream[c] = "open" /\ (pc[owner[c]] = "failed" \/ stream[owner[c]] = "closed"))
            ~> stream[c] = "closed"

(***************************************************************************)
(* What a comment says of handleRelayOpenFrame (control.go:530): it may    *)
(* dial without a deadline because GrpcDialer has timeouts of its own, so  *)
(* the control loop always comes back.                                     *)
(***************************************************************************)
ControlLoopReturns ==
    \A l \in Links : Busy(l) ~> ~Busy(l)
=============================================================================
