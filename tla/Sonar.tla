------------------------------- MODULE Sonar --------------------------------
(***************************************************************************)
(* Broadcast capability discovery (pkg/mesh/routing/sonar.go and the       *)
(* WhoHas/IHave handlers of pkg/mesh/api/control.go) on a fixed graph of   *)
(* connections: Node.Sonar floods a WhoHas frame with a hop budget, every  *)
(* node answers and forwards the first copy it sees, and an IHave answer   *)
(* travels back along the gradient table to the collector of the query.    *)
(***************************************************************************)
EXTENDS Naturals, Sequences, FiniteSets

CONSTANTS
    SonarNodes,
    SonarLinks,      \* pairs <<from, to>>: the control streams
    Queries,      \* calls of Node.Sonar
    Callers,    \* nodes Sonar is called on
    Capabilities,
    Holders,    \* capability -> the nodes whose manifest has it
    ReturnHop,    \* ReturnHop[n][o]: next hops of n's best routes to o
    MaxHops,    \* MaxSonarHops
    BufferSize, \* capacity of a collector's results channel
    MaxDrops,   \* bound: frames dropped on a full write queue
    NoCall

ASSUME SonarAssumption ==
    /\ SonarLinks \subseteq SonarNodes \X SonarNodes
    /\ Callers \subseteq SonarNodes
    /\ Holders \in [Capabilities -> SUBSET SonarNodes]
    /\ ReturnHop \in [SonarNodes -> [SonarNodes -> SUBSET SonarNodes]]
    /\ MaxHops \in Nat /\ BufferSize \in Nat /\ MaxDrops \in Nat
    /\ NoCall \notin Queries \cup SonarLinks \cup Capabilities
    /\ IsFiniteSet(Queries) /\ IsFiniteSet(SonarLinks)

VARIABLES
    uuidCounter,  \* per node
    seen,         \* node -> the fresh part of its seen set
    collectors,   \* uuid -> the call whose collector is registered
    phase,        \* call -> "idle", "created", "collecting", "done"
    uuid,         \* call -> the UUID of its WhoHas frame
    wanted,       \* call -> the capability it looks for
    buffer,       \* call -> the collector's results channel
    results,      \* call -> what Collect has gathered
    net,          \* link -> the frames on their way
    drops

callVars == <<uuidCounter, collectors, phase, uuid, wanted>>
sonarVars == <<callVars, seen, buffer, results, net, drops>>

NoUUID == <<NoCall, 0>>
UUIDs == SonarNodes \X (1..Cardinality(Queries))

WhoHasFrame(u, cap, hops) ==
    [type |-> "WhoHas", uuid |-> u, capability |-> cap, maxHops |-> hops]
IHaveFrame(u, n) == [type |-> "IHave", uuid |-> u, nodeID |-> n]

(* OriginNode of either frame: the prefix of the UUID. *)
Origin(f) == f.uuid[1]

SonarInit ==
    /\ uuidCounter = [n \in SonarNodes |-> 0]
    /\ seen = [n \in SonarNodes |-> {}]
    /\ collectors = [u \in UUIDs |-> NoCall]
    /\ phase = [c \in Queries |-> "idle"]
    /\ uuid = [c \in Queries |-> NoUUID]
    /\ wanted = [c \in Queries |-> NoCall]
    /\ buffer = [c \in Queries |-> <<>>]
    /\ results = [c \in Queries |-> <<>>]
    /\ net = [l \in SonarLinks |-> <<>>]
    /\ drops = 0

-----------------------------------------------------------------------------
(***************************************************************************)
(* sendControl on each link of DOMAIN out: some of the frames find the     *)
(* queue of their peer full and are lost. in is the link whose first frame *)
(* has been read, or NoCall.                                               *)
(***************************************************************************)
sendControl(in, out) ==
    LET rest(l) == IF l = in THEN Tail(net[l]) ELSE net[l] IN
    \E lost \in SUBSET DOMAIN out :
        /\ drops + Cardinality(lost) <= MaxDrops
        /\ drops' = drops + Cardinality(lost)
        /\ net' = [l \in SonarLinks |->
                      IF l \in DOMAIN out \ lost THEN Append(rest(l), out[l])
                      ELSE rest(l)]

Nothing == <<>>
LinksOf(n) == {l \in SonarLinks : l[1] = n}

(* "nodeID:counter" *)
generateUUID(n) == <<n, uuidCounter[n] + 1>>

(* CreateWhoHas and StartCollection. *)
StartQuery(c, n, cap) ==
    LET u == generateUUID(n)
    IN  /\ phase[c] = "idle"
        /\ phase' = [phase EXCEPT ![c] = "created"]
        /\ uuidCounter' = [uuidCounter EXCEPT ![n] = @ + 1]
        /\ uuid' = [uuid EXCEPT ![c] = u]
        /\ wanted' = [wanted EXCEPT ![c] = cap]
        /\ collectors' = [collectors EXCEPT ![u] = c]
        /\ UNCHANGED <<seen, buffer, results, net, drops>>

(* broadcastAll *)
BroadcastAll(c) ==
    LET frame == WhoHasFrame(uuid[c], wanted[c], MaxHops) IN
    /\ phase[c] = "created"
    /\ phase' = [phase EXCEPT ![c] = "collecting"]
    /\ sendControl(NoCall, [l \in LinksOf(uuid[c][1]) |-> frame])
    /\ UNCHANGED <<uuidCounter, collectors, uuid, wanted, seen, buffer, results>>

(* Collect receives from the channel. *)
Collect(c) ==
    /\ phase[c] = "collecting" /\ buffer[c] # <<>>
    /\ results' = [results EXCEPT ![c] = Append(@, Head(buffer[c]))]
    /\ buffer' = [buffer EXCEPT ![c] = Tail(@)]
    /\ UNCHANGED <<callVars, seen, net, drops>>

(* Collect returns on ctx.Done(), whatever the channel still holds, and    *)
(* the deferred StopCollection runs.                                       *)
StopCollection(c) ==
    /\ phase[c] = "collecting"
    /\ phase' = [phase EXCEPT ![c] = "done"]
    /\ buffer' = [buffer EXCEPT ![c] = <<>>]
    /\ collectors' = [collectors EXCEPT ![uuid[c]] = NoCall]
    /\ UNCHANGED <<uuidCounter, uuid, wanted, seen, results, net, drops>>

-----------------------------------------------------------------------------
FirstSeen_NoOriginCheck(n, f) == f.uuid \notin seen[n]
FirstSeen_NoDedup(n, f) == Origin(f) # n

(* Not our own frame, and ProcessWhoHas reports firstSeen. *)
FirstSeen(n, f) == Origin(f) # n /\ f.uuid \notin seen[n]

(* ProcessWhoHas: HasCapability, so answer the peer the frame came from. *)
Answer(l, f) ==
    IF l[2] \in Holders[f.capability]
    THEN {<<l[2], l[1]>>} ELSE {}

ForwardTo_IgnoresBudget(l, f) == LinksOf(l[2]) \ {<<l[2], l[1]>>}

ForwardTo_OffByOne(l, f) ==
    IF f.maxHops <= 1 THEN {} ELSE LinksOf(l[2]) \ {<<l[2], l[1]>>}

(* broadcastExcept the sender, while the hop budget lasts. *)
ForwardTo(l, f) ==
    IF f.maxHops = 0 THEN {} ELSE LinksOf(l[2]) \ {<<l[2], l[1]>>}

(* MaxHops - 1 is unsigned: it would wrap at 0 (here to the largest budget, *)
(* for 2^32 - 1); ForwardTo keeps it from being sent.                      *)
NextBudget(h) == (h + MaxHops) % (MaxHops + 1)

(***************************************************************************)
(* handleWhoHasFrame: the control loop of l[2] for peer l[1]. The test and *)
(* the insertion into the seen set are one critical section.               *)
(***************************************************************************)
HandleWhoHas(l) ==
    /\ net[l] # <<>> /\ Head(net[l]).type = "WhoHas"
    /\ LET f == Head(net[l])
           n == l[2]
       IN  IF FirstSeen(n, f)
           THEN /\ seen' = [seen EXCEPT ![n] = @ \cup {f.uuid}]
                /\ sendControl(l, [k \in Answer(l, f) \cup ForwardTo(l, f) |->
                      IF k \in Answer(l, f) THEN IHaveFrame(f.uuid, n)
                      ELSE WhoHasFrame(f.uuid, f.capability, NextBudget(f.maxHops))])
           ELSE /\ sendControl(l, Nothing)
                /\ UNCHANGED seen
    /\ UNCHANGED <<callVars, buffer, results>>

(* DeliverResponse: a collector of this node waits and has room. *)
Deliverable(n, f) ==
    /\ f.uuid[1] = n
    /\ collectors[f.uuid] # NoCall
    /\ Len(buffer[collectors[f.uuid]]) < BufferSize

(* handleIHaveFrame: deliver, or forward along a best route to the origin, *)
(* or drop when there is none.                                             *)
HandleIHave(l) ==
    /\ net[l] # <<>> /\ Head(net[l]).type = "IHave"
    /\ LET f == Head(net[l])
           n == l[2]
           hops == ReturnHop[n][Origin(f)]
       IN  IF Deliverable(n, f)
           THEN /\ buffer' = [buffer EXCEPT ![collectors[f.uuid]] = Append(@, f.nodeID)]
                /\ sendControl(l, Nothing)
           ELSE /\ IF hops = {} THEN sendControl(l, Nothing)
                   ELSE \E h \in hops : sendControl(l, [k \in {<<n, h>>} \cap SonarLinks |-> f])
                /\ UNCHANGED buffer
    /\ UNCHANGED <<callVars, seen, results>>

(***************************************************************************)
(* A seen entry outlives its TTL. DefaultSonarTimeout is a third of        *)
(* defaultSeenTTL, so the query has returned by then.                      *)
(***************************************************************************)
Expire(n, u) ==
    /\ u \in seen[n]
    /\ collectors[u] = NoCall
    /\ seen' = [seen EXCEPT ![n] = @ \ {u}]
    /\ UNCHANGED <<callVars, buffer, results, net, drops>>

HandleFrame(l) == HandleWhoHas(l) \/ HandleIHave(l)

SonarNext ==
    \/ \E c \in Queries :
        \/ \E n \in Callers, cap \in Capabilities : StartQuery(c, n, cap)
        \/ BroadcastAll(c) \/ Collect(c) \/ StopCollection(c)
    \/ \E l \in SonarLinks : HandleFrame(l)
    \/ \E n \in SonarNodes, u \in UUIDs : Expire(n, u)

SonarSpec == SonarInit /\ [][SonarNext]_sonarVars

(* Control loops, the broadcast and Collect make progress; nothing is      *)
(* assumed of when a query's context ends or an entry expires.             *)
SonarFairness ==
    /\ \A c \in Queries : WF_sonarVars(BroadcastAll(c)) /\ WF_sonarVars(Collect(c))
    /\ \A l \in SonarLinks : WF_sonarVars(HandleFrame(l))

SonarFairSpec == SonarSpec /\ SonarFairness

-----------------------------------------------------------------------------
(***************************************************************************)
(* Properties                                                              *)
(***************************************************************************)
SonarFrames == [type : {"WhoHas"}, uuid : UUIDs, capability : Capabilities,
           maxHops : 0..MaxHops]
          \cup [type : {"IHave"}, uuid : UUIDs, nodeID : SonarNodes]

(* Type correctness; the remaining hop budget never wraps below zero. *)
SonarTypeOK ==
    /\ uuidCounter \in [SonarNodes -> 0..Cardinality(Queries)]
    /\ seen \in [SonarNodes -> SUBSET UUIDs]
    /\ collectors \in [UUIDs -> Queries \cup {NoCall}]
    /\ phase \in [Queries -> {"idle", "created", "collecting", "done"}]
    /\ uuid \in [Queries -> UUIDs \cup {NoUUID}]
    /\ wanted \in [Queries -> Capabilities \cup {NoCall}]
    /\ buffer \in [Queries -> Seq(SonarNodes)]
    /\ results \in [Queries -> Seq(SonarNodes)]
    /\ net \in [SonarLinks -> Seq(SonarFrames)]
    /\ drops \in 0..MaxDrops

Elements(s) == {s[i] : i \in 1..Len(s)}

(* Whom a call may find: the holders, but never the asking node itself. *)
Others(c) ==
    IF wanted[c] = NoCall THEN {} ELSE Holders[wanted[c]] \ {uuid[c][1]}

(* Answers that arrive late, over other nodes or for another query never   *)
(* mislead: Sonar returns nodes that have the capability it asked for, and *)
(* never the asking node, whose own frames bounce back to it on a cycle.   *)
AnswersAreTrue ==
    \A c \in Queries : Elements(results[c]) \subseteq Others(c)

(* Copies of a WhoHas arrive over several paths, and concurrently at the   *)
(* same node; Sonar still returns every node at most once.                 *)
NoDuplicateAnswers ==
    \A c \in Queries : \A i, j \in 1..Len(results[c]) :
        results[c][i] = results[c][j] => i = j

(* ShouldForward's comment: the hop budget terminates a flood even when    *)
(* the seen sets forget it. No frame circulates for ever.                  *)
FloodEnds == <>[](\A l \in SonarLinks : net[l] = <<>>)

(* A query that is not cut short finds every holder, unless a frame was    *)
(* dropped. (The hop budget covers every simple path of the graph, and the *)
(* collector has room for every holder.)                                   *)
QueryFindsHolders ==
    \A c \in Queries :
        phase[c] = "collecting" ~>
            \/ phase[c] = "done" \/ drops > 0
            \/ Elements(results[c]) = Others(c)
=============================================================================
