------------------------------ MODULE Membrane ------------------------------
(***************************************************************************)
(* The accepting side of pkg/mesh/membrane and the listeners above it. A   *)
(* peer dials a control and a data connection; each passes the mTLS        *)
(* handshake (mtls.go), PendingPairs (pair.go) joins the two by the peer's *)
(* certificate and the token of the dial. Peers dial again before a dial   *)
(* is done, and connections arrive in any order. meshListener (api/grpc.go)*)
(* hands streams to the gRPC server. ZstdConn (zstd.go) compresses what is *)
(* written and is closed by another goroutine.                             *)
(***************************************************************************)
EXTENDS Integers, Sequences, FiniteSets, Functions

CONSTANTS
    DialCert,     \* dial -> the certificate it is made with:
                  \* [cn, lifetime, chain, usage], cn "" if it has none
    MaxLifetime,  \* MaxCertLifetime
    PairTimeout,
    MaxPairTime,  \* bound of the clock
    MeshStreams,  \* streams stitched to the gRPC listener
    ListenerCap,  \* capacity of meshListener.incoming (64)
    Writers       \* goroutines that write to a ZstdConn

ASSUME MembraneAssumption ==
    /\ PairTimeout \in Nat /\ MaxPairTime \in Nat /\ ListenerCap \in Nat /\ MaxLifetime \in Nat
    /\ \A d \in DOMAIN DialCert : DialCert[d].lifetime \in Nat

VARIABLES
    arrived,     \* connections that passed the handshake or were refused: <<dial, plane>>
    refused,     \* connections closed by the handshake
    pairs,       \* pending: peer -> [token, conn, created]
    joined,      \* PairResults: [control, data], in order
    pairErrors,  \* data connections CompleteData returned an error for
    pairTime,
    incoming, listenerClosed, delivering, accepted, dropped,  \* meshListener
    zstdState,   \* per writer: "idle", "writing" with writeMu, "done", "failed"
    zstdClosed, rawClosed, closer  \* the flag, the socket, and the goroutine that closes

pairVars == <<arrived, refused, pairs, joined, pairErrors, pairTime>>
listenerVars == <<incoming, listenerClosed, delivering, accepted, dropped>>
zstdVars == <<zstdState, zstdClosed, rawClosed, closer>>
membraneVars == <<pairVars, listenerVars, zstdVars>>

Dials == DOMAIN DialCert

MembraneInit ==
    /\ arrived = {} /\ refused = {} /\ pairs = << >> /\ joined = << >> /\ pairErrors = {}
    /\ pairTime = 0
    /\ incoming = << >> /\ listenerClosed = FALSE /\ delivering = {} /\ accepted = << >>
    /\ dropped = {}
    /\ zstdState = [w \in Writers |-> "idle"] /\ zstdClosed = FALSE /\ rawClosed = FALSE
    /\ closer = "idle"

-----------------------------------------------------------------------------
\* verifyCertChain: a name, a bounded lifetime, a chain to the CA and the
\* usage of the side that presents it.
verifyCertChain(cert, usage) ==
    /\ cert.cn # ""
    /\ cert.lifetime <= MaxLifetime
    /\ cert.chain /\ usage \in cert.usage

\* HandshakeServer closes the socket of a peer it refuses.
HandshakeServer(d, plane) ==
    /\ <<d, plane>> \notin arrived
    /\ arrived' = arrived \cup {<<d, plane>>}
    /\ refused' = IF verifyCertChain(DialCert[d], "client") THEN refused
                  ELSE refused \cup {<<d, plane>>}

\* The dial's number stands for its random token, which the data connection
\* repeats. A later control connection of the peer replaces the earlier.
RegisterControl(d) ==
    /\ HandshakeServer(d, "control")
    /\ pairs' = IF <<d, "control">> \in refused' THEN pairs
                ELSE [p \in DOMAIN pairs \cup {DialCert[d].cn} |->
                        IF p = DialCert[d].cn
                        THEN [token |-> d, conn |-> d, created |-> pairTime] ELSE pairs[p]]
    /\ UNCHANGED <<joined, pairErrors, pairTime, listenerVars, zstdVars>>

PairExpired(p) == pairTime - pairs[p].created > PairTimeout

\* CompleteData: the pending entry of the peer, unless it expired; with the
\* right token it is used up.
CompleteData(d) ==
    /\ HandshakeServer(d, "data")
    /\ LET p == DialCert[d].cn
           known == <<d, "data">> \notin refused' /\ p \in DOMAIN pairs
           ok == known /\ ~PairExpired(p) /\ pairs[p].token = d
       IN /\ pairs' = IF ok \/ (known /\ PairExpired(p)) THEN Restrict(pairs, DOMAIN pairs \ {p})
                      ELSE pairs
          /\ joined' = IF ok THEN Append(joined, [control |-> pairs[p].conn, data |-> d]) ELSE joined
          /\ pairErrors' = IF ok THEN pairErrors ELSE pairErrors \cup {d}
    /\ UNCHANGED <<pairTime, listenerVars, zstdVars>>

\* The ticker of cleanupLoop.
purgeExpired ==
    /\ \E p \in DOMAIN pairs : PairExpired(p)
    /\ pairs' = Restrict(pairs, {p \in DOMAIN pairs : ~PairExpired(p)})
    /\ UNCHANGED <<arrived, refused, joined, pairErrors, pairTime, listenerVars, zstdVars>>

PairTick ==
    /\ pairTime < MaxPairTime /\ pairTime' = pairTime + 1
    /\ UNCHANGED <<arrived, refused, pairs, joined, pairErrors, listenerVars, zstdVars>>

-----------------------------------------------------------------------------
\* meshListener: Deliver waits while the channel is full; when both cases of a
\* select are ready, either is taken.
DeliverCall(s) ==
    /\ s \notin delivering \cup Range(incoming) \cup Range(accepted) \cup dropped
    /\ delivering' = delivering \cup {s}
    /\ UNCHANGED <<pairVars, incoming, listenerClosed, accepted, dropped, zstdVars>>

Deliver(s) ==
    /\ s \in delivering
    /\ \/ Len(incoming) < ListenerCap /\ incoming' = Append(incoming, s) /\ UNCHANGED dropped
       \/ listenerClosed /\ dropped' = dropped \cup {s} /\ UNCHANGED incoming
    /\ delivering' = delivering \ {s}
    /\ UNCHANGED <<pairVars, listenerClosed, accepted, zstdVars>>

\* The gRPC server's accept loop; it stops at the error of a closed listener.
Accept ==
    /\ incoming # << >>
    /\ accepted' = Append(accepted, Head(incoming)) /\ incoming' = Tail(incoming)
    /\ UNCHANGED <<pairVars, listenerClosed, delivering, dropped, zstdVars>>

ListenerClose ==
    /\ ~listenerClosed /\ listenerClosed' = TRUE
    /\ UNCHANGED <<pairVars, incoming, delivering, accepted, dropped, zstdVars>>

-----------------------------------------------------------------------------
\* ZstdConn: Write and Close take writeMu.
WriteLocked == closer = "closing" \/ \E w \in Writers : zstdState[w] = "writing"

ZstdWrite(w) ==
    /\ zstdState[w] = "idle" /\ ~WriteLocked
    /\ zstdState' = [zstdState EXCEPT ![w] = IF zstdClosed THEN "failed" ELSE "writing"]
    /\ UNCHANGED <<pairVars, listenerVars, zstdClosed, rawClosed, closer>>

\* The socket takes the compressed frame once the peer reads; it fails when
\* the socket is closed.
ZstdFlush(w) ==
    /\ zstdState[w] = "writing"
    /\ zstdState' = [zstdState EXCEPT ![w] = IF rawClosed THEN "failed" ELSE "done"]
    /\ UNCHANGED <<pairVars, listenerVars, zstdClosed, rawClosed, closer>>

ZstdCloseCall ==
    /\ closer = "idle" /\ closer' = "waiting"
    /\ UNCHANGED <<pairVars, listenerVars, zstdState, zstdClosed, rawClosed>>
ZstdLock ==
    /\ closer = "waiting" /\ ~WriteLocked
    /\ closer' = "closing" /\ zstdClosed' = TRUE
    /\ UNCHANGED <<pairVars, listenerVars, zstdState, rawClosed>>
ZstdClose ==
    /\ closer = "closing" /\ rawClosed' = TRUE /\ closer' = "returned"
    /\ UNCHANGED <<pairVars, listenerVars, zstdState, zstdClosed>>

-----------------------------------------------------------------------------
PairNext ==
    \/ \E d \in Dials : RegisterControl(d) \/ CompleteData(d)
    \/ purgeExpired \/ PairTick
ListenerNext ==
    \/ \E s \in MeshStreams : DeliverCall(s) \/ Deliver(s)
    \/ Accept \/ ListenerClose
ZstdNext ==
    \/ \E w \in Writers : ZstdWrite(w) \/ ZstdFlush(w)
    \/ ZstdCloseCall \/ ZstdLock \/ ZstdClose

-----------------------------------------------------------------------------
\* Whatever order the connections of several dials arrive in, a pair joins the
\* two connections of one dial, of a peer whose certificate was verified, and
\* no connection is in two pairs (pair.go 75-121, mtls.go 126-171). A stream
\* given to the gRPC listener is accepted, still queued or, only after Close,
\* closed: never two of these, and never lost while the listener is open
\* (grpc.go 39-72). No write is under way in a compressed connection, and
\* none that had begun has failed, when Close closes the socket (zstd.go
\* 40-100).
ConnectionsMeetOnce ==
    /\ \A n \in 1..Len(joined) :
         /\ joined[n].control = joined[n].data
         /\ verifyCertChain(DialCert[joined[n].data], "client")
         /\ \A m \in 1..Len(joined) : m # n => joined[m].control # joined[n].control
    /\ \A n \in 1..Len(joined) : joined[n].data \notin pairErrors
    /\ dropped # {} => listenerClosed
    /\ dropped \cap (Range(accepted) \cup Range(incoming)) = {}
    /\ Len(accepted) + Len(incoming) = Cardinality(Range(accepted) \cup Range(incoming))
    /\ Len(incoming) <= ListenerCap
    /\ rawClosed => \A w \in Writers : zstdState[w] # "writing"
=============================================================================
