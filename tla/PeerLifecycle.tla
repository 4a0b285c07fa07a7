--------------------------- MODULE PeerLifecycle ---------------------------
(***************************************************************************)
(* The connection lifecycle of ONE mesh node (pkg/mesh/api): AddPeer, the  *)
(* two goroutines that notice a dead session (startControlLoop and         *)
(* acceptDataStreams), handlePeerDeath, the reconnect loop and Close.      *)
(*                                                                         *)
(* Every goroutine step between two lock acquisitions is an action of its  *)
(* own, so the interleavings that peerManager.mu, GradientTable.mu and the *)
(* atomic flag reconnectLoop.running permit are the ones explored here.    *)
(* A member of Conns is one peerConn object; it is used at most once, as   *)
(* the program allocates a new peerConn for every connection.              *)
(***************************************************************************)
EXTENDS Naturals, FiniteSets

CONSTANTS
    NodeIDs,      \* identities of remote nodes (TLS certificate common names)
    Conns,        \* peerConn objects
    Loops,        \* goroutines that may execute reconnectLoop.run
    Targets,      \* hosts of resolver.AllDialTargets(); those that are no identity never answer
    MaxAttempts,  \* ReconnectPolicy.MaxAttempts; 0 means unlimited rounds
    MaxRound,     \* bound: rounds are counted up to here and then saturate
    HasTimeout,   \* ReconnectPolicy.Timeout > 0
    None

ASSUME ConstantsAssumption ==
    /\ IsFiniteSet(NodeIDs)
    /\ MaxAttempts \in Nat
    /\ MaxRound \in Nat \ {0}
    /\ MaxAttempts <= MaxRound
    /\ HasTimeout \in BOOLEAN
    /\ None \notin Conns
    /\ None \notin NodeIDs

VARIABLES
    owner,       \* peerConn.nodeID
    addPc,       \* how far AddPeer got with the connection
    broken,      \* the yamux session / control stream is unusable
    ctl,         \* the control-loop goroutine of the connection
    accepting,   \* the acceptDataStreams goroutine is running
    deathPc,     \* how far handlePeerDeath got; "none": deathOnce not fired
    remaining,   \* handlePeerDeath's local variable
    peers,       \* peerManager.peers
    routes,      \* next hops that own at least one gradient path entry
    running,     \* reconnectLoop.running
    loopPc,      \* program counter of each run() goroutine
    todo,        \* targets run() has not tried in this round
    round,       \* run()'s round counter
    dialed,      \* the connection run() is dialing
    expired,     \* run()'s context deadline has passed
    closePc,     \* Node.Close
    isolated     \* OnIsolated has been fired since the last peerManager.Add

connVars == <<owner, addPc, accepting>>
deathVars == <<deathPc, remaining>>
loopVars == <<running, loopPc, todo, round, dialed, expired>>
vars == <<connVars, broken, ctl, deathVars, peers, routes, loopVars, closePc,
          isolated>>

AddStates == {"free", "added", "routed", "reading", "done"}
CtlStates == {"off", "reading", "gossip", "exited"}
DeathStates == {"none", "spawned", "removed", "counted", "purged", "closed",
                "done"}
LoopStates == {"idle", "top", "try", "dialing", "backoff", "exit"}

(***************************************************************************)
(* NewNode: no connection, an empty table, no reconnect loop.              *)
(***************************************************************************)
Init ==
    /\ owner = [c \in Conns |-> None]
    /\ addPc = [c \in Conns |-> "free"]
    /\ broken = [c \in Conns |-> FALSE]
    /\ ctl = [c \in Conns |-> "off"]
    /\ accepting = [c \in Conns |-> FALSE]
    /\ deathPc = [c \in Conns |-> "none"]
    /\ remaining = [c \in Conns |-> 0]
    /\ peers = [id \in NodeIDs |-> None]
    /\ routes = {}
    /\ running = FALSE
    /\ loopPc = [l \in Loops |-> "idle"]
    /\ todo = [l \in Loops |-> {}]
    /\ round = [l \in Loops |-> 0]
    /\ dialed = [l \in Loops |-> None]
    /\ expired = [l \in Loops |-> FALSE]
    /\ closePc = "open"
    /\ isolated = FALSE

-----------------------------------------------------------------------------
(* peerManager.Count, and the map being empty. *)
Count == Cardinality({id \in NodeIDs : peers[id] # None})

NoPeers == \A id \in NodeIDs : peers[id] = None

(***************************************************************************)
(* AddPeer, first half: the mTLS handshake and the yamux session are up    *)
(* (a failed handshake changes nothing) and peerManager.Add stores the     *)
(* connection under the peer's identity, replacing what was there.         *)
(***************************************************************************)
Register(c, id) ==
    /\ addPc[c] = "free"
    /\ addPc' = [addPc EXCEPT ![c] = "added"]
    /\ owner' = [owner EXCEPT ![c] = id]
    /\ peers' = [peers EXCEPT ![id] = c]
    /\ isolated' = FALSE
    /\ UNCHANGED <<accepting, broken, ctl, deathVars, routes, closePc>>

(* acceptLoop: go AddPeer. A connection accepted before Close is registered *)
(* even when the node's context is cancelled during the handshake.         *)
AcceptPeer(c, id) == Register(c, id) /\ UNCHANGED loopVars

(* initPeerControlPlane: gradient.AddDirectNeighbor. *)
AddDirectNeighbor(c) ==
    /\ addPc[c] = "added"
    /\ addPc' = [addPc EXCEPT ![c] = "routed"]
    /\ routes' = routes \cup {owner[c]}
    /\ UNCHANGED <<owner, accepting, broken, ctl, deathVars, peers,
                   loopVars, closePc, isolated>>

(* initPeerControlPlane: startControlLoop. *)
StartControlLoop(c) ==
    /\ addPc[c] = "routed"
    /\ addPc' = [addPc EXCEPT ![c] = "reading"]
    /\ ctl' = [ctl EXCEPT ![c] = "reading"]
    /\ UNCHANGED <<owner, accepting, broken, deathVars, peers,
                   routes, loopVars, closePc, isolated>>

(* AddPeer, the rest: go acceptDataStreams, peerConnected, return nil. *)
FinishAddPeer(c) ==
    /\ addPc[c] = "reading"
    /\ addPc' = [addPc EXCEPT ![c] = "done"]
    /\ accepting' = [accepting EXCEPT ![c] = TRUE]
    /\ UNCHANGED <<owner, broken, ctl, deathVars, peers, routes,
                   loopVars, closePc, isolated>>

(* The transport dies: remote hang-up, keepalive timeout, write failure. *)
Break(c) ==
    /\ addPc[c] # "free" /\ ~broken[c]
    /\ broken' = [broken EXCEPT ![c] = TRUE]
    /\ UNCHANGED <<connVars, ctl, deathVars, peers, routes, loopVars, closePc,
                   isolated>>

-----------------------------------------------------------------------------
(***************************************************************************)
(* The control loop of a connection reads a gossip frame and, in a second  *)
(* step (ProcessGossip takes the table's lock after ReadFrame returned),   *)
(* records routes whose next hop is the sender (an empty vector has none). *)
(***************************************************************************)
ReadGossip(c) ==
    /\ ctl[c] = "reading" /\ ~broken[c]
    /\ ctl' = [ctl EXCEPT ![c] = "gossip"]
    /\ UNCHANGED <<connVars, broken, deathVars, peers, routes, loopVars,
                   closePc, isolated>>

HandleGossipFrame(c) ==
    /\ ctl[c] = "gossip"
    /\ ctl' = [ctl EXCEPT ![c] = "reading"]
    /\ routes' \in {routes, routes \cup {owner[c]}}
    /\ UNCHANGED <<connVars, broken, deathVars, peers, loopVars, closePc,
                   isolated>>

PurgeStale_Never(id) == FALSE /\ UNCHANGED vars

(* sendGossipToAll's gradient.PurgeStale: a next hop whose entries are all  *)
(* older than three gossip intervals leaves the table.                     *)
PurgeStale(id) ==
    /\ id \in routes
    /\ routes' = routes \ {id}
    /\ UNCHANGED <<connVars, broken, ctl, deathVars, peers, loopVars, closePc,
                   isolated>>

-----------------------------------------------------------------------------
DeathOnceDo_Skip(c) == UNCHANGED deathPc

(* deathOnce.Do(func() { go n.handlePeerDeath(pc) }). *)
DeathOnceDo(c) ==
    deathPc' = IF deathPc[c] = "none" THEN [deathPc EXCEPT ![c] = "spawned"]
               ELSE deathPc

(* ReadFrame fails: the control loop exits and reports the death. *)
ControlLoopError(c) ==
    /\ ctl[c] = "reading" /\ broken[c]
    /\ ctl' = [ctl EXCEPT ![c] = "exited"]
    /\ DeathOnceDo(c)
    /\ UNCHANGED <<connVars, broken, remaining, peers, routes, loopVars,
                   closePc, isolated>>

(* session.Accept fails: acceptDataStreams exits and reports the death. *)
AcceptStreamsError(c) ==
    /\ accepting[c] /\ broken[c]
    /\ accepting' = [accepting EXCEPT ![c] = FALSE]
    /\ DeathOnceDo(c)
    /\ UNCHANGED <<owner, addPc, broken, ctl, remaining, peers, routes,
                   loopVars, closePc, isolated>>

(***************************************************************************)
(* handlePeerDeath, one action per lock it takes.                          *)
(***************************************************************************)
DeathRemove_KeepsEntry(c) ==
    /\ deathPc[c] = "spawned"
    /\ deathPc' = [deathPc EXCEPT ![c] = "removed"]
    /\ UNCHANGED <<connVars, broken, ctl, remaining, peers, routes, loopVars,
                   closePc, isolated>>

(* closeDead(), then peers.Remove(pc.nodeID): by identity, whichever       *)
(* connection is stored there.                                             *)
DeathRemove(c) ==
    /\ deathPc[c] = "spawned"
    /\ deathPc' = [deathPc EXCEPT ![c] = "removed"]
    /\ peers' = [peers EXCEPT ![owner[c]] = None]
    /\ UNCHANGED <<connVars, broken, ctl, remaining, routes, loopVars, closePc,
                   isolated>>

(* remaining := n.peers.Count() *)
DeathCount(c) ==
    /\ deathPc[c] = "removed"
    /\ deathPc' = [deathPc EXCEPT ![c] = "counted"]
    /\ remaining' = [remaining EXCEPT ![c] = Count]
    /\ UNCHANGED <<connVars, broken, ctl, peers, routes, loopVars, closePc,
                   isolated>>

(* n.gradient.RemoveNeighbor(pc.nodeID) *)
DeathPurge(c) ==
    /\ deathPc[c] = "counted"
    /\ deathPc' = [deathPc EXCEPT ![c] = "purged"]
    /\ routes' = routes \ {owner[c]}
    /\ UNCHANGED <<connVars, broken, ctl, remaining, peers, loopVars, closePc,
                   isolated>>

(* session.Close, stopWriter, controlConn.Close. *)
DeathClose(c) ==
    /\ deathPc[c] = "purged"
    /\ deathPc' = [deathPc EXCEPT ![c] = "closed"]
    /\ broken' = [broken EXCEPT ![c] = TRUE]
    /\ UNCHANGED <<connVars, ctl, remaining, peers, routes, loopVars, closePc,
                   isolated>>

-----------------------------------------------------------------------------
(* A fresh run() goroutine. *)
SpawnRun(l) ==
    /\ loopPc[l] = "idle"
    /\ running' = TRUE
    /\ loopPc' = [loopPc EXCEPT ![l] = "top"]
    /\ UNCHANGED <<todo, round, dialed, expired>>

StartReconnectLoop_NoCAS == \E l \in Loops : SpawnRun(l)

(* reconnectLoop.Start: CompareAndSwap(false, true), then go run(n.ctx). *)
StartReconnectLoop ==
    IF running THEN UNCHANGED loopVars
    ELSE \E l \in Loops : SpawnRun(l)

DeathNotify_OnlyIfNotReconnecting(c) ==
    /\ deathPc[c] = "closed"
    /\ deathPc' = [deathPc EXCEPT ![c] = "done"]
    /\ remaining' = [remaining EXCEPT ![c] = 0]
    /\ IF remaining[c] = 0 /\ ~running
       THEN isolated' = TRUE /\ StartReconnectLoop
       ELSE UNCHANGED <<isolated, loopVars>>
    /\ UNCHANGED <<connVars, broken, ctl, peers, routes, closePc>>

(* OnPeerLost; if remaining == 0, OnIsolated and reconnLoop.Start. *)
DeathNotify(c) ==
    /\ deathPc[c] = "closed"
    /\ deathPc' = [deathPc EXCEPT ![c] = "done"]
    /\ remaining' = [remaining EXCEPT ![c] = 0]
    /\ IF remaining[c] = 0
       THEN isolated' = TRUE /\ StartReconnectLoop
       ELSE UNCHANGED <<isolated, loopVars>>
    /\ UNCHANGED <<connVars, broken, ctl, peers, routes, closePc>>

-----------------------------------------------------------------------------
(***************************************************************************)
(* reconnectLoop.run. ctx is the node's context with the policy's timeout. *)
(* (The check "no targets and round >= MaxAttempts" at the head of a round *)
(* never fires: the check at the end of the previous round came first.)    *)
(***************************************************************************)
CtxDone(l) == expired[l] \/ closePc = "cancelled"

unchangedByLoop == <<broken, ctl, deathVars, routes, closePc>>

(* <-ctx.Done() in any of run's selects: return without a callback. *)
LoopCancelled(l) ==
    /\ loopPc[l] \in {"top", "try", "backoff"}
    /\ loopPc[l] = "try" => todo[l] # {}
    /\ CtxDone(l)
    /\ loopPc' = [loopPc EXCEPT ![l] = "exit"]
    /\ UNCHANGED <<unchangedByLoop, connVars, peers, running, todo, round,
                   dialed, expired, isolated>>

(* A new round: collect the dial targets. *)
LoopRound(l) ==
    /\ loopPc[l] = "top" /\ ~CtxDone(l)
    /\ loopPc' = [loopPc EXCEPT ![l] = "try"]
    /\ todo' = [todo EXCEPT ![l] = Targets]
    /\ UNCHANGED <<unchangedByLoop, connVars, peers, running, round, dialed,
                   expired, isolated>>

(* rl.dial fails (dial error, handshake error, or the target is us). *)
LoopDialFails(l, t) ==
    /\ loopPc[l] = "try" /\ ~CtxDone(l)
    /\ t \in todo[l]
    /\ todo' = [todo EXCEPT ![l] = @ \ {t}]
    /\ UNCHANGED <<unchangedByLoop, connVars, peers, running, loopPc, round,
                   dialed, expired, isolated>>

(* rl.dial reaches the target: run() is inside AddPeer from here on. (Dial *)
(* and handshake get ctx: a deadline during either makes the dial fail.)   *)
LoopDial(l, t, c) ==
    /\ loopPc[l] = "try" /\ ~CtxDone(l)
    /\ t \in todo[l]
    /\ Register(c, t)
    /\ loopPc' = [loopPc EXCEPT ![l] = "dialing"]
    /\ dialed' = [dialed EXCEPT ![l] = c]
    /\ UNCHANGED <<running, todo, round, expired>>

(* AddPeer returned nil: OnReconnected, return. *)
LoopReconnected(l) ==
    /\ loopPc[l] = "dialing"
    /\ addPc[dialed[l]] = "done"
    /\ loopPc' = [loopPc EXCEPT ![l] = "exit"]
    /\ UNCHANGED <<unchangedByLoop, connVars, peers, running, todo, round,
                   dialed, expired, isolated>>

NextRound(r) == IF r < MaxRound THEN r + 1 ELSE r

LoopRoundFailed_ForgetsRound(l) ==
    /\ loopPc[l] = "try" /\ todo[l] = {}
    /\ loopPc' = [loopPc EXCEPT ![l] = "backoff"]
    /\ UNCHANGED <<unchangedByLoop, connVars, peers, running, todo, round,
                   dialed, expired, isolated>>

(* All targets failed: count the round, then give up (OnOrphaned) or back  *)
(* off.                                                                    *)
LoopRoundFailed(l) ==
    /\ loopPc[l] = "try" /\ todo[l] = {}
    /\ round' = [round EXCEPT ![l] = NextRound(@)]
    /\ loopPc' = [loopPc EXCEPT ![l] =
                     IF MaxAttempts > 0 /\ NextRound(round[l]) >= MaxAttempts
                     THEN "exit" ELSE "backoff"]
    /\ UNCHANGED <<unchangedByLoop, connVars, peers, running, todo, dialed,
                   expired, isolated>>

(* <-time.After(delay) *)
LoopBackoffOver(l) ==
    /\ loopPc[l] = "backoff"
    /\ loopPc' = [loopPc EXCEPT ![l] = "top"]
    /\ UNCHANGED <<unchangedByLoop, connVars, peers, running, todo, round,
                   dialed, expired, isolated>>

(* The deferred rl.running.Store(false); the goroutine's locals die. *)
LoopExit(l) ==
    /\ loopPc[l] = "exit"
    /\ loopPc' = [loopPc EXCEPT ![l] = "idle"]
    /\ running' = FALSE
    /\ todo' = [todo EXCEPT ![l] = {}]
    /\ round' = [round EXCEPT ![l] = 0]
    /\ dialed' = [dialed EXCEPT ![l] = None]
    /\ expired' = [expired EXCEPT ![l] = FALSE]
    /\ UNCHANGED <<unchangedByLoop, connVars, peers, isolated>>

(* The context deadline of context.WithTimeout(ctx, policy.Timeout). *)
LoopTimeout(l) ==
    /\ HasTimeout
    /\ loopPc[l] \in {"top", "try", "dialing", "backoff"} /\ ~expired[l]
    /\ expired' = [expired EXCEPT ![l] = TRUE]
    /\ UNCHANGED <<unchangedByLoop, connVars, peers, running, loopPc, todo,
                   round, dialed, isolated>>

-----------------------------------------------------------------------------
(* Node.Close: reconnLoop.Stop() ... *)
CloseStop ==
    /\ closePc = "open"
    /\ closePc' = "stopping"
    /\ running' = FALSE
    /\ UNCHANGED <<connVars, broken, ctl, deathVars, peers, routes, loopPc,
                   todo, round, dialed, expired, isolated>>

(* ... then n.cancel() and grpcLis.Close(). *)
CloseCancel ==
    /\ closePc = "stopping"
    /\ closePc' = "cancelled"
    /\ UNCHANGED <<connVars, broken, ctl, deathVars, peers, routes, loopVars,
                   isolated>>

-----------------------------------------------------------------------------
(* The goroutines: the caller of AddPeer, the two readers of a connection, *)
(* handlePeerDeath and run().                                              *)
AddStep(c) ==
    AddDirectNeighbor(c) \/ StartControlLoop(c) \/ FinishAddPeer(c)

ControlStep(c) == HandleGossipFrame(c) \/ ControlLoopError(c)

DeathStep(c) ==
    \/ DeathRemove(c) \/ DeathCount(c) \/ DeathPurge(c) \/ DeathClose(c)
    \/ DeathNotify(c)

LoopStep(l) ==
    \/ LoopCancelled(l) \/ LoopRound(l) \/ LoopReconnected(l)
    \/ LoopRoundFailed(l) \/ LoopBackoffOver(l) \/ LoopExit(l)
    \/ \E t \in Targets : LoopDialFails(l, t)
    \/ \E t \in NodeIDs, c \in Conns : LoopDial(l, t, c)

Next ==
    \/ \E c \in Conns :
        \/ \E id \in NodeIDs : AcceptPeer(c, id)
        \/ AddStep(c) \/ Break(c) \/ ReadGossip(c) \/ ControlStep(c)
        \/ AcceptStreamsError(c) \/ DeathStep(c)
    \/ \E id \in NodeIDs : PurgeStale(id)
    \/ \E l \in Loops : LoopStep(l) \/ LoopTimeout(l)
    \/ CloseStop \/ CloseCancel

Spec == Init /\ [][Next]_vars

(* Nobody can refresh the routes through id: no control loop reads from it. *)
Silent(id) == \A c \in Conns : owner[c] = id => ctl[c] \in {"off", "exited"}

(***************************************************************************)
(* Goroutines that can run do run (the Go scheduler is fair), and the      *)
(* gossip ticker purges what nobody refreshes. Nothing is assumed of the   *)
(* network, of inbound peers or of Close.                                  *)
(***************************************************************************)
Fairness ==
    /\ \A c \in Conns : /\ WF_vars(AddStep(c))
                       /\ WF_vars(ControlStep(c))
                       /\ WF_vars(AcceptStreamsError(c))
                       /\ WF_vars(DeathStep(c))
    /\ \A l \in Loops : WF_vars(LoopStep(l))
    /\ \A id \in NodeIDs : WF_vars(Silent(id) /\ PurgeStale(id))

FairSpec == Spec /\ Fairness

-----------------------------------------------------------------------------
(***************************************************************************)
(* Properties                                                              *)
(***************************************************************************)

(* Type correctness. *)
TypeOK ==
    /\ owner \in [Conns -> NodeIDs \cup {None}]
    /\ addPc \in [Conns -> AddStates]
    /\ broken \in [Conns -> BOOLEAN]
    /\ ctl \in [Conns -> CtlStates]
    /\ accepting \in [Conns -> BOOLEAN]
    /\ deathPc \in [Conns -> DeathStates]
    /\ remaining \in [Conns -> Nat]
    /\ peers \in [NodeIDs -> Conns \cup {None}]
    /\ routes \in SUBSET NodeIDs
    /\ running \in BOOLEAN
    /\ loopPc \in [Loops -> LoopStates]
    /\ todo \in [Loops -> SUBSET Targets]
    /\ round \in [Loops -> 0..MaxRound]
    /\ dialed \in [Loops -> Conns \cup {None}]
    /\ expired \in [Loops -> BOOLEAN]
    /\ closePc \in {"open", "stopping", "cancelled"}
    /\ isolated \in BOOLEAN

(* Once handlePeerDeath has passed peers.Remove for a connection, that     *)
(* connection is never again the one GrpcDialer or a broadcast would find  *)
(* in the peer manager, however it races with AddPeer of other connections.*)
NoDeadPeerRegistered ==
    \A id \in NodeIDs, c \in Conns :
        peers[id] = c => deathPc[c] \in {"none", "spawned"}

(* No handlePeerDeath is between two of its steps. *)
Quiet == \A c \in Conns : deathPc[c] \in {"none", "done"}

(* When several peers die at the same time every handlePeerDeath removes   *)
(* its own entry before it counts, so the isolation of the node is never   *)
(* missed: with no cleanup pending and an empty peer map, OnIsolated has   *)
(* been fired after the last peer was added.                               *)
NoMissedIsolation ==
    (Quiet /\ NoPeers /\ \E c \in Conns : addPc[c] # "free") => isolated

(* reconnectLoop.Start is called by concurrent handlePeerDeath goroutines; *)
(* until Close calls Stop at most one run() goroutine exists.              *)
AtMostOneLoop ==
    closePc = "open" =>
        \A l, m \in Loops : loopPc[l] # "idle" /\ loopPc[m] # "idle" => l = m

(* Every connection that breaks is eventually reported through OnPeerLost, *)
(* whichever of its two goroutines notices first.                          *)
BrokenPeerIsReported ==
    \A c \in Conns : broken[c] ~> deathPc[c] = "done"

(* A gossip frame read before the peer died may be processed after         *)
(* handlePeerDeath removed the peer's routes; the periodic purge still     *)
(* gets rid of them once the peer has no connection left.                  *)
DeadPeerLeavesTable ==
    \A id \in NodeIDs :
        (\E c \in Conns : owner[c] = id /\ broken[c])
            ~> (id \notin routes \/ \E c \in Conns : owner[c] = id /\ ~broken[c])

(* With a bounded number of attempts the reconnect loop ends: it never     *)
(* dials for ever and its running flag never stays set.                    *)
ReconnectLoopEnds == running ~> ~running

-----------------------------------------------------------------------------
(***************************************************************************)
(* A statement of the documentation that the code does not meet.           *)
(***************************************************************************)

(* health.go on OnIsolated: "The reconnect loop (if enabled) will start    *)
(* automatically after this fires." With unlimited attempts and no timeout *)
(* the loop ends only by reconnecting, so a node that is isolated with no  *)
(* cleanup pending is still trying.                                        *)
IsolatedNodeReconnects ==
    (Quiet /\ NoPeers /\ isolated /\ closePc = "open") => running
=============================================================================
