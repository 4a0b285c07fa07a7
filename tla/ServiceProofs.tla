---------------------------- MODULE ServiceProofs ----------------------------
(***************************************************************************)
(* Proofs about the services of a node and of the gateway, each on its own *)
(* and for any number of calls, nodes, credentials, workers and threads:   *)
(* what call_tool answers (Requests), what an install leaves behind        *)
(* (Deployment), whom a delegated credential reaches                       *)
(* (CredentialDelegation), what a scan of threads counts (ThreadScan), and *)
(* which peers a node keeps and reconnects to (PeerLifecycle).             *)
(***************************************************************************)
EXTENDS Requests, Deployment, CredentialDelegation, ThreadScan,
        PeerLifecycle, FiniteSetTheorems, WellFoundedInduction, TLAPS

(***************************************************************************)
(* Requests                                                                *)
(***************************************************************************)
AllInputs == UNION {Inputs[r] : r \in MCPCalls}
ArgSets == {i.args : i \in AllInputs} \cup {<<>>}
Results == [ok : BOOLEAN, node : Servers \cup {""}, args : ArgSets, finished : Nat]
Entries == [hash : {<<>>} \cup {<<a>> : a \in ArgSets}, res : Results, expires : Nat]

ReqRecords ==
    [pc : {"idle", "discover", "invoke", "done"}, tool : ToolNames \cup {""},
     to : {i.to : i \in AllInputs} \cup {""}, args : ArgSets, start : Nat,
     matched : SUBSET Servers, answer : {"none", "error", "results"}]
InvRecords == [pc : {"none", "serve", "execute", "reply", "returned"}, res : Results]

ReqTypes ==
    /\ rclock \in Nat /\ up \subseteq ToolNodes
    /\ index \in [ToolNames -> SUBSET ToolNodes]
    /\ req \in [MCPCalls -> ReqRecords]
    /\ inv \in [MCPCalls -> [Servers -> InvRecords]]
    /\ cachedTool \in [Servers -> [ToolNames -> Entries]]

(* A cache entry is the result of its own tool on its own node for the     *)
(* arguments it is kept under.                                             *)
EntryIsSound(n, t, e) ==
    e.hash # <<>> =>
        /\ e.hash = <<e.res.args>> /\ e.res.ok /\ e.res.node = n /\ n \in Holders[t]
        /\ e.expires = e.res.finished + CacheTTL

CacheInv == \A n \in Servers : \A t \in ToolNames : EntryIsSound(n, t, cachedTool[n][t])

(* res answers the call q at node n. *)
Answers(q, n, res) ==
    res.ok => /\ res.node = n /\ n \in Holders[q.tool] /\ res.args = q.args
              /\ res.finished >= q.start \/ res.finished + CacheTTL > q.start

CallIsSound(now, q, iv) ==
    /\ q.start <= now
    /\ q.pc \in {"idle", "discover"} => \A n \in Servers : iv[n].pc = "none"
    /\ q.pc = "discover" \/ (\E n \in Servers : iv[n].pc # "none") \/ q.pc = "invoke"
         => q.tool \in ToolNames /\ ~BadArguments(q.args)
    /\ \A n \in Servers : /\ iv[n].pc = "execute" => n \in Holders[q.tool]
                          /\ iv[n].pc \in {"reply", "returned"} => Answers(q, n, iv[n].res)
    /\ q.answer = "results" =>
         q.pc = "done" /\ \A n \in q.matched : iv[n].pc = "returned"

(* The inductive invariant: caches are sound, and so is every result that  *)
(* is on its way back.                                                     *)
ReqInv ==
    /\ ReqTypes /\ CacheInv
    /\ \A r \in MCPCalls : CallIsSound(rclock, req[r], inv[r])

LEMMA RequestTypes ==
    /\ NoResult \in Results /\ NoEntry \in Entries
    /\ \A n \in Servers : \A t : EntryIsSound(n, t, NoEntry)
    /\ \A q, n : Answers(q, n, NoResult)
<1>1. NoResult \in Results
  BY DEF NoResult, Results, ArgSets
<1>2. QED
  BY <1>1 DEF NoEntry, Entries, EntryIsSound, Answers, NoResult

LEMMA ReqInitInv == RequestsInit => ReqInv
<1> SUFFICES ASSUME RequestsInit PROVE ReqInv
  OBVIOUS
<1>1. ReqTypes
  <2>1. index \in [ToolNames -> SUBSET ToolNodes]
    BY RequestsAssumption DEF RequestsInit
  <2>2. inv \in [MCPCalls -> [Servers -> InvRecords]]
    BY RequestTypes DEF RequestsInit, InvRecords
  <2>3. cachedTool \in [Servers -> [ToolNames -> Entries]]
    BY RequestTypes DEF RequestsInit
  <2>4. QED
    BY <2>1, <2>2, <2>3 DEF RequestsInit, ReqTypes, ReqRecords, ArgSets
<1>2. CacheInv
  BY RequestTypes DEF CacheInv, RequestsInit
<1>3. \A r \in MCPCalls : CallIsSound(rclock, req[r], inv[r])
  <2>1. ASSUME NEW r \in MCPCalls, NEW n \in Servers
        PROVE  inv[r][n].pc = "none" /\ inv[r][n].res = NoResult
    BY DEF RequestsInit
  <2>2. ASSUME NEW r \in MCPCalls
        PROVE  req[r].pc = "idle" /\ req[r].start = 0 /\ req[r].answer = "none" /\ rclock = 0
    BY DEF RequestsInit
  <2>3. QED
    BY <2>1, <2>2, RequestTypes DEF CallIsSound
<1>4. QED
  BY <1>1, <1>2, <1>3 DEF ReqInv

(* Only call r moves: the others need no look. *)
LEMMA OneCallMoves ==
    ASSUME ReqInv, NEW r \in MCPCalls, ReqTypes', CacheInv', rclock' = rclock,
           \A s \in MCPCalls : s # r => req'[s] = req[s] /\ inv'[s] = inv[s],
           CallIsSound(rclock, req'[r], inv'[r])
    PROVE  ReqInv'
<1>1. \A s \in MCPCalls : CallIsSound(rclock', req'[s], inv'[s])
  BY DEF ReqInv
<1>2. QED
  BY <1>1 DEF ReqInv

LEMMA CallArrives ==
    ASSUME ReqInv, NEW r \in MCPCalls, NEW i \in Inputs[r],
           handleCallTool(r, i.tool, i.to, i.args)
    PROVE  ReqInv'
<1>1. /\ req[r].pc = "idle" /\ rclock' = rclock /\ index' = index /\ up' = up
      /\ inv' = inv /\ cachedTool' = cachedTool
  BY DEF handleCallTool
<1>2. /\ i.tool \in ToolNames /\ i.args \in ArgSets /\ i.to \in {j.to : j \in AllInputs}
  BY RequestsAssumption DEF ArgSets, AllInputs
<1> DEFINE direct == IF i.to = "" THEN Holders[i.tool] \cap {"gateway"} ELSE Servers \cap {i.to}
           begun == [tool |-> i.tool, to |-> i.to, args |-> i.args, start |-> rclock,
                    matched |-> direct, answer |-> "none",
                    pc |-> IF direct = {} THEN "discover" ELSE "invoke"]
           q == req'[r]
<1>3. req' = [req EXCEPT ![r] =
             IF BadArguments(i.args)
             THEN [begun EXCEPT !.pc = "done", !.matched = {}, !.answer = "error"] ELSE begun]
  BY DEF handleCallTool
<1>4. /\ q \in ReqRecords
      /\ q.tool = i.tool /\ q.args = i.args /\ q.start = rclock /\ q.answer # "results"
      /\ q.pc = "done" \/ (q.pc \in {"discover", "invoke"} /\ ~BadArguments(i.args))
      /\ \A s \in MCPCalls : s # r => req'[s] = req[s]
  <2>1. rclock \in Nat /\ DOMAIN req = MCPCalls /\ direct \subseteq Servers
    BY DEF ReqInv, ReqTypes, Servers
  <2> HIDE DEF direct
  <2>2. QED
    BY <1>2, <1>3, <2>1 DEF ReqRecords
<1>5. ReqTypes'
  <2>1. req' = [s \in MCPCalls |-> req'[s]]
    BY <1>3 DEF ReqInv, ReqTypes
  <2>2. \A s \in MCPCalls : req'[s] \in ReqRecords
    BY <1>4 DEF ReqInv, ReqTypes
  <2>3. QED
    BY <1>1, <2>1, <2>2 DEF ReqInv, ReqTypes
<1>6. CacheInv'
  BY <1>1 DEF ReqInv, CacheInv
<1>7. CallIsSound(rclock, q, inv[r])
  <2>1. \A n \in Servers : inv[r][n].pc = "none"
    BY <1>1 DEF ReqInv, CallIsSound
  <2>2. rclock \in Nat
    BY DEF ReqInv, ReqTypes
  <2>3. QED
    BY <1>2, <1>4, <2>1, <2>2 DEF CallIsSound
<1>8. QED
  BY <1>1, <1>4, <1>5, <1>6, <1>7, OneCallMoves

LEMMA CallRouted ==
    ASSUME ReqInv, NEW r \in MCPCalls, NEW answers \in SUBSET up, NEW first \in ToolNodes,
           Route(r, answers, first)
    PROVE  ReqInv'
<1> DEFINE q == req'[r]
<1>1. /\ req[r].pc = "discover" /\ rclock' = rclock /\ index' = index /\ up' = up
      /\ inv' = inv /\ cachedTool' = cachedTool
  BY DEF Route
<1>2. req[r] \in ReqRecords /\ req[r].tool \in ToolNames /\ ~BadArguments(req[r].args)
  BY <1>1 DEF ReqInv, ReqTypes, CallIsSound
<1>3. DiscoverTool(req[r].tool, answers) \subseteq ToolNodes /\ ToolNodes \subseteq Servers
  BY <1>2 DEF ReqInv, ReqTypes, DiscoverTool, Servers
<1>4. \/ req' = [req EXCEPT ![r].pc = "done", ![r].answer = "error"]
      \/ \E match \in SUBSET Servers :
            req' = [req EXCEPT ![r].pc = "invoke", ![r].matched = match]
  BY <1>3 DEF Route, Answer
<1>5. /\ q \in ReqRecords /\ q.tool = req[r].tool /\ q.args = req[r].args
      /\ q.start = req[r].start /\ q.pc \in {"invoke", "done"}
      /\ q.answer = "results" => req[r].answer = "results"
      /\ \A s \in MCPCalls : s # r => req'[s] = req[s]
      /\ req' = [s \in MCPCalls |-> req'[s]]
  <2>1. req \in [MCPCalls -> ReqRecords]
    BY DEF ReqInv, ReqTypes
  <2>2. CASE req' = [req EXCEPT ![r].pc = "done", ![r].answer = "error"]
    BY <1>2, <2>1, <2>2 DEF ReqRecords
  <2>3. ASSUME NEW match \in SUBSET Servers,
               req' = [req EXCEPT ![r].pc = "invoke", ![r].matched = match]
        PROVE  <1>5
    BY <1>2, <2>1, <2>3 DEF ReqRecords
  <2>4. QED
    BY <1>4, <2>2, <2>3
<1>6. ReqTypes'
  <2>1. \A s \in MCPCalls : req'[s] \in ReqRecords
    BY <1>5 DEF ReqInv, ReqTypes
  <2>2. QED
    BY <1>1, <1>5, <2>1 DEF ReqInv, ReqTypes
<1>7. CacheInv'
  BY <1>1 DEF ReqInv, CacheInv
<1>8. CallIsSound(rclock, q, inv[r])
  BY <1>1, <1>2, <1>5 DEF CallIsSound, ReqInv
<1>9. QED
  BY <1>1, <1>5, <1>6, <1>7, <1>8, OneCallMoves

(* What SetInv does to the invocations. *)
LEMMA OneInvocation ==
    ASSUME ReqInv, NEW r \in MCPCalls, NEW n \in Servers, NEW res \in Results,
           NEW pc \in {"none", "serve", "execute", "reply", "returned"}, SetInv(r, n, pc, res)
    PROVE  /\ inv' \in [MCPCalls -> [Servers -> InvRecords]]
           /\ \A s \in MCPCalls : s # r => inv'[s] = inv[s]
           /\ \A m \in Servers : m # n => inv'[r][m] = inv[r][m]
           /\ inv'[r][n].pc = pc /\ inv'[r][n].res = res
<1>1. [pc |-> pc, res |-> res] \in InvRecords
  BY DEF InvRecords
<1>2. inv \in [MCPCalls -> [Servers -> InvRecords]]
  BY DEF ReqInv, ReqTypes
<1> HIDE DEF InvRecords
<1>3. inv' = [inv EXCEPT ![r][n] = [pc |-> pc, res |-> res]]
  BY DEF SetInv
<1> DEFINE v == [pc |-> pc, res |-> res]
<1>4. v \in InvRecords /\ inv' = [inv EXCEPT ![r][n] = v] /\ v.pc = pc /\ v.res = res
  BY <1>1, <1>3
<1> HIDE DEF v
<1>5. QED
  BY <1>2, <1>4

(* The steps of one goroutine: only its own entry moves, and the result it *)
(* carries answers its call.                                               *)
LEMMA InvocationStep ==
    ASSUME ReqInv, NEW r \in MCPCalls, NEW n \in Servers, NEW res \in Results,
           NEW pc \in {"serve", "execute", "reply", "returned"}, SetInv(r, n, pc, res),
           req' = req, rclock' = rclock, index' = index, up' = up,
           cachedTool' \in [Servers -> [ToolNames -> Entries]], CacheInv',
           inv[r][n].pc # "returned",
           req[r].pc = "invoke" \/ inv[r][n].pc # "none",
           req[r].answer # "results" \/ n \notin req[r].matched,
           pc = "execute" => n \in Holders[req[r].tool],
           pc \in {"reply", "returned"} => Answers(req[r], n, res)
    PROVE  ReqInv'
<1>1. /\ inv' \in [MCPCalls -> [Servers -> InvRecords]]
      /\ \A s \in MCPCalls : s # r => inv'[s] = inv[s]
      /\ \A m \in Servers : m # n => inv'[r][m] = inv[r][m]
      /\ inv'[r][n].pc = pc /\ inv'[r][n].res = res
  BY OneInvocation
<1>2. ReqTypes'
  BY <1>1 DEF ReqInv, ReqTypes
<1>3. CallIsSound(rclock, req[r], inv[r])
  BY DEF ReqInv
<1>4. CallIsSound(rclock, req[r], inv'[r])
  <2>1. req[r].pc \notin {"idle", "discover"} /\ req[r].tool \in ToolNames /\ ~BadArguments(req[r].args)
    BY <1>3 DEF CallIsSound
  <2>2. \A m \in Servers : /\ inv'[r][m].pc = "execute" => m \in Holders[req[r].tool]
                           /\ inv'[r][m].pc \in {"reply", "returned"} => Answers(req[r], m, inv'[r][m].res)
    BY <1>1, <1>3 DEF CallIsSound
  <2>3. req[r].matched \subseteq Servers
    BY DEF ReqInv, ReqTypes, ReqRecords
  <2>4. req[r].answer = "results" =>
          req[r].pc = "done" /\ \A m \in req[r].matched : inv'[r][m].pc = "returned"
    BY <1>1, <1>3, <2>3 DEF CallIsSound
  <2>5. QED
    BY <1>3, <2>1, <2>2, <2>4 DEF CallIsSound
<1>5. QED
  BY <1>1, <1>2, <1>4, OneCallMoves

LEMMA CallInvokes ==
    ASSUME ReqInv, NEW r \in MCPCalls, NEW n \in Servers, InvokeRemote(r, n)
    PROVE  ReqInv'
<1>1. /\ req[r].pc = "invoke" /\ inv[r][n].pc = "none" /\ req' = req /\ rclock' = rclock
      /\ index' = index /\ up' = up /\ cachedTool' = cachedTool
      /\ SetInv(r, n, "serve", NoResult) \/ SetInv(r, n, "returned", NoResult)
  BY DEF InvokeRemote
<1>2. /\ cachedTool' \in [Servers -> [ToolNames -> Entries]] /\ CacheInv'
      /\ req[r].answer # "results"
  BY <1>1 DEF ReqInv, ReqTypes, CacheInv, CallIsSound
<1>3. CASE SetInv(r, n, "serve", NoResult)
  BY <1>1, <1>2, <1>3, RequestTypes, InvocationStep
<1>4. CASE SetInv(r, n, "returned", NoResult)
  BY <1>1, <1>2, <1>4, RequestTypes, InvocationStep
<1>5. QED
  BY <1>1, <1>3, <1>4

LEMMA CallServed ==
    ASSUME ReqInv, NEW r \in MCPCalls, NEW n \in Servers, Serve(r, n)
    PROVE  ReqInv'
<1> DEFINE t == req[r].tool
           e == cachedTool[n][t]
<1>1. /\ inv[r][n].pc = "serve" /\ req' = req /\ rclock' = rclock
      /\ index' = index /\ up' = up /\ cachedTool' = cachedTool
      /\ \/ n \notin Holders[t] /\ SetInv(r, n, "reply", NoResult)
         \/ n \in Holders[t] /\ ResultCacheHit(n, t, req[r].args) /\ SetInv(r, n, "reply", e.res)
         \/ n \in Holders[t] /\ SetInv(r, n, "execute", NoResult)
  BY DEF Serve
<1>2. /\ cachedTool' \in [Servers -> [ToolNames -> Entries]] /\ CacheInv'
      /\ req[r].answer # "results" \/ n \notin req[r].matched
      /\ t \in ToolNames /\ req[r].start <= rclock /\ req[r] \in ReqRecords /\ rclock \in Nat
  BY <1>1 DEF ReqInv, ReqTypes, CacheInv, CallIsSound
<1>3. CASE SetInv(r, n, "reply", NoResult)
  BY <1>1, <1>2, <1>3, RequestTypes, InvocationStep
<1>4. CASE n \in Holders[t] /\ ResultCacheHit(n, t, req[r].args) /\ SetInv(r, n, "reply", e.res)
  <2>1. e \in Entries /\ EntryIsSound(n, t, e)
    BY <1>2 DEF ReqInv, ReqTypes, CacheInv
  <2>2. e.res \in Results
    BY <2>1 DEF Entries
  <2>3. Answers(req[r], n, e.res)
    <3>1. e.hash = <<req[r].args>> /\ rclock < e.expires
      BY <1>4 DEF ResultCacheHit
    <3>2. e.hash = <<e.res.args>> /\ e.res.node = n /\ e.expires = e.res.finished + CacheTTL
      BY <2>1, <3>1 DEF EntryIsSound
    <3>3. e.res.args = req[r].args
      BY <3>1, <3>2
    <3>4. e.res.finished \in Nat /\ req[r].start \in Nat
      BY <1>2, <2>2 DEF Results, ReqRecords
    <3>5. CacheTTL \in Nat
      BY RequestsAssumption
    <3>6. e.res.finished + CacheTTL > req[r].start
      <4> DEFINE f == e.res.finished
                 s == req[r].start
      <4>1. f \in Nat /\ s \in Nat /\ rclock \in Nat /\ s <= rclock /\ rclock < f + CacheTTL
        BY <1>2, <3>1, <3>2, <3>4
      <4> HIDE DEF f, s
      <4>2. f + CacheTTL > s
        BY <3>5, <4>1
      <4>3. QED
        BY <4>2 DEF f, s
    <3>7. QED
      BY <1>4, <3>2, <3>3, <3>6 DEF Answers
  <2>4. QED
    BY <1>1, <1>2, <1>4, <2>2, <2>3, InvocationStep
<1>5. CASE n \in Holders[t] /\ SetInv(r, n, "execute", NoResult)
  BY <1>1, <1>2, <1>5, RequestTypes, InvocationStep
<1>6. QED
  BY <1>1, <1>3, <1>4, <1>5

LEMMA CallExecuted ==
    ASSUME ReqInv, NEW r \in MCPCalls, NEW n \in Servers,
           NEW status \in {"ok", "degraded", "failed"}, Executed(r, n, status)
    PROVE  ReqInv'
<1> DEFINE t == req[r].tool
           res == [ok |-> TRUE, node |-> n, args |-> req[r].args, finished |-> rclock]
           e == [hash |-> <<req[r].args>>, res |-> res, expires |-> rclock + CacheTTL]
<1>1. /\ inv[r][n].pc = "execute" /\ req' = req /\ rclock' = rclock
      /\ index' = index /\ up' = up
      /\ SetInv(r, n, "reply", NoResult) \/ SetInv(r, n, "reply", res)
      /\ cachedTool' = [cachedTool EXCEPT ![n][t] = e] \/ cachedTool' = cachedTool
  BY DEF Executed
<1>2. /\ req[r].answer # "results" \/ n \notin req[r].matched
      /\ t \in ToolNames /\ req[r].start <= rclock /\ req[r] \in ReqRecords
      /\ n \in Holders[t] /\ rclock \in Nat
  BY <1>1 DEF ReqInv, ReqTypes, CallIsSound
<1>3. res \in Results /\ Answers(req[r], n, res)
  <2>1. req[r].args \in ArgSets /\ req[r].start \in Nat
    BY <1>2 DEF ReqRecords
  <2>2. QED
    BY <1>2, <2>1 DEF Results, Answers
<1>4. e \in Entries /\ EntryIsSound(n, t, e)
  <2>1. req[r].args \in ArgSets /\ rclock + CacheTTL \in Nat
    <3>1. CacheTTL \in Nat
      BY RequestsAssumption
    <3>2. req[r].args \in ArgSets
      BY <1>2 DEF ReqRecords
    <3>3. rclock + CacheTTL \in Nat
      BY <1>2, <3>1
    <3>4. QED
      BY <3>2, <3>3
  <2>3. res.ok /\ res.node = n /\ res.args = req[r].args /\ res.finished = rclock
    OBVIOUS
  <2> HIDE DEF res
  <2>2. e \in Entries
    <3>1. <<req[r].args>> \in {<<>>} \cup {<<a>> : a \in ArgSets}
      BY <2>1
    <3>2. QED
      BY <1>3, <2>1, <3>1 DEF Entries
  <2>4. QED
    BY <1>2, <2>2, <2>3 DEF EntryIsSound
<1>5. cachedTool' \in [Servers -> [ToolNames -> Entries]] /\ CacheInv'
  <2>1. cachedTool \in [Servers -> [ToolNames -> Entries]] /\ CacheInv
    BY DEF ReqInv, ReqTypes
  <2>2. CASE cachedTool' = cachedTool
    BY <2>1, <2>2 DEF CacheInv
  <2>3. CASE cachedTool' = [cachedTool EXCEPT ![n][t] = e]
    <3> HIDE DEF e
    <3>1. cachedTool' \in [Servers -> [ToolNames -> Entries]]
      BY <1>2, <1>4, <2>1, <2>3
    <3>2. \A m \in Servers : \A u \in ToolNames :
             cachedTool'[m][u] = IF m = n /\ u = t THEN e ELSE cachedTool[m][u]
      BY <1>2, <2>1, <2>3
    <3>3. QED
      BY <1>4, <2>1, <3>1, <3>2 DEF CacheInv
  <2>4. QED
    BY <1>1, <2>2, <2>3
<1>6. CASE SetInv(r, n, "reply", NoResult)
  BY <1>1, <1>2, <1>5, <1>6, RequestTypes, InvocationStep
<1>7. CASE SetInv(r, n, "reply", res)
  BY <1>1, <1>2, <1>3, <1>5, <1>7, InvocationStep
<1>8. QED
  BY <1>1, <1>6, <1>7

LEMMA CallReplied ==
    ASSUME ReqInv, NEW r \in MCPCalls, NEW n \in Servers, NEW tooLarge \in BOOLEAN,
           Reply(r, n, tooLarge)
    PROVE  ReqInv'
<1>1. /\ inv[r][n].pc = "reply" /\ req' = req /\ rclock' = rclock
      /\ index' = index /\ up' = up /\ cachedTool' = cachedTool
      /\ SetInv(r, n, "returned", NoResult) \/ SetInv(r, n, "returned", inv[r][n].res)
  BY DEF Reply
<1>2. /\ cachedTool' \in [Servers -> [ToolNames -> Entries]] /\ CacheInv'
      /\ req[r].answer # "results" \/ n \notin req[r].matched
      /\ inv[r][n] \in InvRecords /\ Answers(req[r], n, inv[r][n].res)
  BY <1>1 DEF ReqInv, ReqTypes, CacheInv, CallIsSound
<1>3. inv[r][n].res \in Results
  BY <1>2 DEF InvRecords
<1>4. CASE SetInv(r, n, "returned", NoResult)
  BY <1>1, <1>2, <1>4, RequestTypes, InvocationStep
<1>5. CASE SetInv(r, n, "returned", inv[r][n].res)
  BY <1>1, <1>2, <1>3, <1>5, InvocationStep
<1>6. QED
  BY <1>1, <1>4, <1>5

LEMMA CallEnds ==
    ASSUME ReqInv, NEW r \in MCPCalls, WaitAll(r)
    PROVE  ReqInv'
<1> DEFINE q == req'[r]
<1>1. /\ req[r].pc = "invoke" /\ \A n \in req[r].matched : inv[r][n].pc = "returned"
      /\ rclock' = rclock /\ index' = index /\ up' = up /\ inv' = inv /\ cachedTool' = cachedTool
      /\ req' = [req EXCEPT ![r].pc = "done", ![r].answer = "results"]
  BY DEF WaitAll, Answer
<1>2. req \in [MCPCalls -> ReqRecords]
  BY DEF ReqInv, ReqTypes
<1>3. /\ q \in ReqRecords /\ q.tool = req[r].tool /\ q.args = req[r].args
      /\ q.start = req[r].start /\ q.pc = "done" /\ q.matched = req[r].matched
      /\ \A s \in MCPCalls : s # r => req'[s] = req[s]
      /\ req' = [s \in MCPCalls |-> req'[s]]
  BY <1>1, <1>2 DEF ReqRecords
<1>4. ReqTypes'
  <2>1. \A s \in MCPCalls : req'[s] \in ReqRecords
    BY <1>2, <1>3
  <2>2. QED
    BY <1>1, <1>3, <2>1 DEF ReqInv, ReqTypes
<1>5. CacheInv'
  BY <1>1 DEF ReqInv, CacheInv
<1>6. CallIsSound(rclock, q, inv[r])
  <2>1. CallIsSound(rclock, req[r], inv[r])
    BY DEF ReqInv
  <2>2. \A n \in Servers : Answers(req[r], n, inv[r][n].res) => Answers(q, n, inv[r][n].res)
    BY <1>3 DEF Answers
  <2>3. QED
    BY <1>1, <1>3, <2>1, <2>2 DEF CallIsSound
<1>7. QED
  BY <1>1, <1>3, <1>4, <1>5, <1>6, OneCallMoves

LEMMA CallsSeeNodeFail ==
    ASSUME ReqInv, NEW n \in ToolNodes, NodeFails(n)
    PROVE  ReqInv'
<1> DEFINE lost == [pc |-> "returned", res |-> NoResult]
<1>1. /\ rclock' = rclock /\ index' = index /\ up' = up \ {n} /\ req' = req
      /\ inv' = [r \in MCPCalls |-> [inv[r] EXCEPT ![n] =
                   IF inv[r][n].pc \in {"serve", "execute", "reply"} THEN lost ELSE inv[r][n]]]
      /\ cachedTool' = [cachedTool EXCEPT ![n] = [t \in ToolNames |-> NoEntry]]
  BY DEF NodeFails
<1>2. /\ n \in Servers /\ lost \in InvRecords /\ inv \in [MCPCalls -> [Servers -> InvRecords]]
      /\ cachedTool \in [Servers -> [ToolNames -> Entries]] /\ CacheInv
  BY RequestTypes DEF Servers, InvRecords, ReqInv, ReqTypes
<1>3. lost.pc = "returned" /\ lost.res = NoResult
  OBVIOUS
<1> HIDE DEF lost
<1>4. \A r \in MCPCalls : \A m \in Servers :
        /\ inv'[r] \in [Servers -> InvRecords]
        /\ m # n => inv'[r][m] = inv[r][m]
        /\ inv'[r][n] = lost \/ inv'[r][n] = inv[r][n]
        /\ inv[r][n].pc \in {"none", "returned"} => inv'[r][n] = inv[r][n]
  BY <1>1, <1>2
<1>5. ReqTypes'
  <2>1. inv' \in [MCPCalls -> [Servers -> InvRecords]]
    BY <1>1, <1>4, <1>2
  <2>2. cachedTool' \in [Servers -> [ToolNames -> Entries]]
    BY <1>1, <1>2, RequestTypes
  <2>3. QED
    BY <1>1, <2>1, <2>2 DEF ReqInv, ReqTypes
<1>6. CacheInv'
  <2>1. \A m \in Servers : \A t \in ToolNames :
           cachedTool'[m][t] = IF m = n THEN NoEntry ELSE cachedTool[m][t]
    BY <1>1, <1>2
  <2>2. QED
    BY <1>2, <2>1, RequestTypes DEF CacheInv
<1>7. ASSUME NEW r \in MCPCalls PROVE CallIsSound(rclock, req[r], inv'[r])
  <2>1. CallIsSound(rclock, req[r], inv[r]) /\ req[r].matched \subseteq Servers
    BY DEF ReqInv, ReqTypes, ReqRecords
  <2>2. \A m \in Servers : \/ inv'[r][m] = inv[r][m]
                           \/ inv'[r][m] = lost /\ inv[r][m].pc \notin {"none", "returned"}
    BY <1>4
  <2>3. QED
    BY <1>3, <2>1, <2>2, RequestTypes DEF CallIsSound
<1>8. QED
  BY <1>1, <1>5, <1>6, <1>7 DEF ReqInv

LEMMA CallsSeeRest ==
    ASSUME ReqInv,
           \/ \E n \in ToolNodes : NodeStarts(n)
           \/ \E t \in ToolNames, nodes \in SUBSET ToolNodes : IndexChanges(t, nodes)
           \/ ClockTicks
           \/ UNCHANGED requestVars
    PROVE  ReqInv'
<1>1. req' = req /\ inv' = inv /\ cachedTool' = cachedTool /\ (rclock' = rclock \/ rclock' = rclock + 1)
  BY DEF NodeStarts, IndexChanges, ClockTicks, requestVars
<1>2. up' \subseteq ToolNodes /\ index' \in [ToolNames -> SUBSET ToolNodes]
  BY DEF NodeStarts, IndexChanges, ClockTicks, requestVars, ReqInv, ReqTypes
<1>3. ReqTypes' /\ CacheInv'
  BY <1>1, <1>2 DEF ReqInv, ReqTypes, CacheInv
<1>4. ASSUME NEW r \in MCPCalls PROVE CallIsSound(rclock', req[r], inv[r])
  <2>1. CallIsSound(rclock, req[r], inv[r]) /\ rclock \in Nat /\ req[r].start \in Nat
    BY DEF ReqInv, ReqTypes, ReqRecords
  <2>2. req[r].start <= rclock'
    BY <1>1, <2>1 DEF CallIsSound
  <2>3. QED
    BY <2>1, <2>2 DEF CallIsSound
<1>5. QED
  BY <1>1, <1>3, <1>4 DEF ReqInv

LEMMA ReqInvIsSound == ReqInv => RequestsAreSound
<1> SUFFICES ASSUME ReqInv PROVE RequestsAreSound
  OBVIOUS
<1>1. ResultsAnswerTheCall
  <2>1. ASSUME NEW r \in MCPCalls, req[r].answer = "results", NEW n \in req[r].matched
        PROVE  inv[r][n].pc = "returned" /\ Answers(req[r], n, inv[r][n].res)
    <3>1. CallIsSound(rclock, req[r], inv[r]) /\ n \in Servers
      BY DEF ReqInv, ReqTypes, ReqRecords
    <3>2. QED
      BY <2>1, <3>1 DEF CallIsSound
  <2>2. QED
    BY <2>1 DEF ResultsAnswerTheCall, Answers
<1>2. OnlyDeclaredArguments
  <2>1. ASSUME NEW r \in MCPCalls, NEW n \in Servers, inv[r][n].pc = "execute"
        PROVE  ~BadArguments(req[r].args)
    BY <2>1 DEF ReqInv, CallIsSound
  <2>2. QED
    BY <2>1 DEF OnlyDeclaredArguments, BadArguments, ArgPresent
<1>3. QED
  BY <1>1, <1>2 DEF RequestsAreSound

(* What call_tool answers is what the nodes it named computed for these    *)
(* arguments, recently enough, and no tool runs with arguments it does not *)
(* declare: for any number of concurrent calls, nodes, tools and failures  *)
(* (callgateway.go, registry.go, server.go).                               *)
THEOREM RequestsStaySound == RequestsSpec => []RequestsAreSound
<1>1. RequestsInit => ReqInv
  BY ReqInitInv
<1>2. ReqInv /\ [RequestsNext]_requestVars => ReqInv'
  <2> SUFFICES ASSUME ReqInv, [RequestsNext]_requestVars PROVE ReqInv'
    OBVIOUS
  <2>1. ASSUME NEW r \in MCPCalls, NEW i \in Inputs[r], handleCallTool(r, i.tool, i.to, i.args)
        PROVE  ReqInv'
    BY <2>1, CallArrives
  <2>2. ASSUME NEW r \in MCPCalls, Work(r) PROVE ReqInv'
    BY <2>2, CallRouted, CallInvokes, CallServed, CallExecuted, CallReplied, CallEnds DEF Work
  <2>3. ASSUME NEW n \in ToolNodes, NodeFails(n) PROVE ReqInv'
    BY <2>3, CallsSeeNodeFail
  <2>4. QED
    BY <2>1, <2>2, <2>3, CallsSeeRest DEF RequestsNext
<1>3. QED
  BY <1>1, <1>2, ReqInvIsSound, PTL DEF RequestsSpec

(***************************************************************************)
(* CredentialDelegation                                                    *)
(***************************************************************************)
VaultEntries == [pattern : VaultPatterns, cred : Creds]
CredRequests == [call : Calls, at : Nat]
GrantRecords == [call : Calls, issued : Nat, cred : Creds, expires : Int]
CallRecords == [pc : {"idle", "waiting", "done", "cancelled"}, cred : Creds \cup {NoCred}, age : Int]

(* Entries of a vault that st accounts for; requests made by time now;     *)
(* grants that st accounts for and that no clock makes last longer.        *)
StoredEntries(st) == {e \in VaultEntries : <<e.pattern, e.cred>> \in st}
PastRequests(now) == {q \in CredRequests : q.at <= now}
IsFor(st, c, cred) == \E entry \in st : HostOf[c] \in entry[1].hosts /\ entry[2] = cred
GoodGrants(st) ==
    {g \in GrantRecords : IsFor(st, g.call, g.cred) /\ g.expires - g.issued <= GrantTTL + SkewWindow}

CredTypes ==
    /\ wallClock \in Nat /\ offset \in [Peers -> Int]
    /\ vault \in [Peers -> Seq(StoredEntries(stored))]
    /\ requests \in [Peers -> Seq(PastRequests(wallClock))]
    /\ grants \in [Peers -> Seq(GoodGrants(stored))]
    /\ resultCh \in [Calls -> Seq(GoodGrants(stored))]
    /\ call \in [Calls -> CallRecords]

OnePattern(entries) ==
    \A i, j \in DOMAIN entries : entries[i].pattern = entries[j].pattern => i = j

CallIsServed(st, c, rec) ==
    rec.pc = "done" => IsFor(st, c, rec.cred) /\ rec.age <= GrantTTL + SkewWindow

(* The inductive invariant: a grant is good from the moment it is sealed,  *)
(* whichever channel it reaches.                                           *)
CredInv ==
    /\ CredTypes
    /\ \A p \in Peers : OnePattern(vault[p])
    /\ \A c \in Calls : CallIsServed(stored, c, call[c])

LEMMA SeqMono ==
    ASSUME NEW S, NEW T, S \subseteq T
    PROVE  Seq(S) \subseteq Seq(T)
<1>1. ASSUME NEW s \in Seq(S) PROVE s \in Seq(T)
  <2>1. s \in [1..Len(s) -> T] /\ Len(s) \in Nat
    OBVIOUS
  <2>2. QED
    BY <2>1
<1>2. QED
  BY <1>1

LEMMA CredInitInv == CredInit => CredInv
<1> SUFFICES ASSUME CredInit PROVE CredInv
  OBVIOUS
<1>1. \A S : <<>> \in Seq(S)
  OBVIOUS
<1>2. offset \in [Peers -> Int]
  BY DelegationAssumption DEF CredInit
<1>3. call \in [Calls -> CallRecords] /\ \A c \in Calls : call[c].pc = "idle"
  BY DEF CredInit, CallRecords
<1>4. CredTypes
  BY <1>1, <1>2, <1>3 DEF CredInit, CredTypes
<1>5. QED
  BY <1>3, <1>4 DEF CredInit, CredInv, OnePattern, CallIsServed

(* Every set of naturals that is not empty has a least member. *)
LEMMA LeastMember ==
    ASSUME NEW S, S \subseteq Nat, S # {}
    PROVE  \E x \in S : \A y \in S : x <= y
<1> DEFINE less == OpToRel(<, Nat)
<1>1. \A x, y \in Nat : y < x => <<y, x>> \in less
  BY DEF OpToRel
<1>2. IsWellFoundedOn(less, Nat)
  BY NatLessThanWellFounded
<1> HIDE DEF less
<1>3. PICK x \in S : \A y \in S : ~(<<y, x>> \in less)
  BY <1>2, WFMin
<1>4. ASSUME NEW y \in S PROVE x <= y
  <2>1. x \in Nat /\ y \in Nat
    OBVIOUS
  <2>2. ~(y < x)
    BY <1>1, <1>3, <2>1
  <2>3. QED
    BY <2>1, <2>2
<1>5. QED
  BY <1>4

(* Match always has a best entry among its candidates: by the least prefix *)
(* of the vault that would have none.                                      *)
LEMMA HostMatchIsCandidate ==
    ASSUME NEW entries \in Seq(VaultEntries), NEW host, Candidates(entries, host) # {}
    PROVE  HostMatch(entries, host) \in Candidates(entries, host)
<1> DEFINE C == Candidates(entries, host)
           rate(i) == patternSpecificity(entries[i].pattern)
           beats(i, j) == rate(i) > rate(j) \/ (rate(i) = rate(j) /\ i <= j)
           has(k) == \E i \in C : i <= k
           best(k) == \E i \in C : i <= k /\ \A j \in C : j <= k => beats(i, j)
           bad == {k \in Nat : has(k) /\ ~best(k)}
<1>1. C \subseteq 1..Len(entries) /\ Len(entries) \in Nat
  BY DEF Candidates
<1>2. \A i \in C : rate(i) \in Int
  <2>1. ASSUME NEW i \in C PROVE entries[i].pattern \in VaultPatterns
    <3>1. i \in 1..Len(entries)
      BY <1>1
    <3>2. entries[i] \in VaultEntries
      BY <3>1
    <3>3. QED
      BY <3>2 DEF VaultEntries
  <2>2. ASSUME NEW pt \in VaultPatterns PROVE patternSpecificity(pt) \in Int
    BY DelegationAssumption DEF patternSpecificity
  <2>3. QED
    BY <2>1, <2>2
<1> HIDE DEF C, rate
<1>3. ASSUME bad # {} PROVE FALSE
  <2>1. PICK k \in bad : \A m \in bad : k <= m
    BY <1>3, LeastMember
  <2>2. k \in Nat /\ k # 0
    BY <1>1, <2>1
  <2>3. k - 1 \in Nat /\ k - 1 \notin bad
    BY <2>1, <2>2
  <2>4. CASE k \notin C
    <3>1. \A i \in C : i <= k <=> i <= k - 1
      BY <1>1, <2>2, <2>4
    <3>2. QED
      BY <2>1, <2>3, <3>1
  <2>5. CASE k \in C /\ ~has(k - 1)
    <3>1. \A j \in C : j <= k => j = k
      BY <1>1, <2>2, <2>5
    <3>2. best(k)
      BY <1>1, <1>2, <2>2, <2>5, <3>1
    <3>3. QED
      BY <2>1, <3>2
  <2>6. CASE k \in C /\ has(k - 1)
    <3>1. PICK i \in C : i <= k - 1 /\ \A j \in C : j <= k - 1 => beats(i, j)
      BY <2>3, <2>6
    <3>2. \A j \in C : j <= k => j <= k - 1 \/ j = k
      BY <1>1, <2>2
    <3>3. i <= k /\ i \in Int /\ k \in Int
      BY <1>1, <2>2, <3>1
    <3>4. CASE rate(k) > rate(i)
      <4>1. ASSUME NEW j \in C, j <= k PROVE beats(k, j)
        <5>1. CASE j = k
          BY <1>2, <3>3, <5>1
        <5>2. CASE j <= k - 1
          <6>1. rate(i) >= rate(j)
            BY <1>2, <3>1, <5>2
          <6>2. QED
            BY <1>2, <2>6, <3>4, <6>1
        <5>3. QED
          BY <3>2, <4>1, <5>1, <5>2
      <4>2. QED
        BY <2>1, <2>6, <3>3, <4>1
    <3>5. CASE ~(rate(k) > rate(i))
      <4>1. beats(i, k)
        BY <1>2, <2>6, <3>3, <3>5
      <4>2. \A j \in C : j <= k => beats(i, j)
        BY <3>1, <3>2, <4>1
      <4>3. QED
        BY <2>1, <3>3, <4>2
    <3>6. QED
      BY <3>4, <3>5
  <2>7. QED
    BY <2>4, <2>5, <2>6
<1>4. best(Len(entries))
  <2>1. has(Len(entries))
    BY <1>1 DEF C
  <2>2. QED
    BY <1>1, <1>3, <2>1
<1>5. PICK i \in C : \A j \in C : beats(i, j)
  BY <1>1, <1>4
<1>6. QED
  BY <1>5 DEF HostMatch, C, rate

LEMMA CredentialStored ==
    ASSUME CredInv, NEW p \in Peers, NEW pt \in VaultPatterns, NEW cred \in Creds, Store(p, pt, cred)
    PROVE  CredInv'
<1>1. /\ wallClock' = wallClock /\ offset' = offset /\ call' = call /\ resultCh' = resultCh
      /\ requests' = requests /\ grants' = grants /\ stored' = stored \cup {<<pt, cred>>}
      /\ vault' = [vault EXCEPT ![p] =
                   IF \E i \in DOMAIN vault[p] : vault[p][i].pattern = pt
                   THEN [i \in DOMAIN vault[p] |-> IF vault[p][i].pattern = pt
                                                   THEN [vault[p][i] EXCEPT !.cred = cred] ELSE vault[p][i]]
                   ELSE Append(vault[p], [pattern |-> pt, cred |-> cred])]
  BY DEF Store
<1> DEFINE new == [pattern |-> pt, cred |-> cred]
           old == vault[p]
           S == StoredEntries(stored')
<1>2. new \in S /\ new.pattern = pt /\ StoredEntries(stored) \subseteq S
  BY <1>1 DEF StoredEntries, VaultEntries
<1>3. GoodGrants(stored) \subseteq GoodGrants(stored')
      /\ \A c, x : IsFor(stored, c, x) => IsFor(stored', c, x)
  BY <1>1 DEF GoodGrants, IsFor
<1>4. \A e \in VaultEntries : e.pattern = pt => [e EXCEPT !.cred = cred] = new
  BY DEF VaultEntries
<1>5. old \in Seq(StoredEntries(stored)) /\ old \in Seq(S) /\ OnePattern(old)
  BY <1>2, SeqMono DEF CredInv, CredTypes
<1>6. \A i \in DOMAIN old : old[i] \in VaultEntries /\ old[i] \in S
  BY <1>5 DEF StoredEntries
<1> HIDE DEF new, S
<1>7. vault'[p] \in Seq(S) /\ OnePattern(vault'[p])
  <2>1. CASE \E i \in DOMAIN old : old[i].pattern = pt
    <3> DEFINE upd == [i \in 1..Len(old) |-> IF old[i].pattern = pt THEN new ELSE old[i]]
    <3>1. vault'[p] = upd /\ DOMAIN old = 1..Len(old) /\ Len(old) \in Nat
      <4>1. DOMAIN old = 1..Len(old) /\ Len(old) \in Nat
        BY <1>5
      <4>2. vault \in [Peers -> Seq(StoredEntries(stored))]
        BY DEF CredInv, CredTypes
      <4>3. vault'[p] = [i \in DOMAIN old |-> IF old[i].pattern = pt
                                              THEN [old[i] EXCEPT !.cred = cred] ELSE old[i]]
        BY <1>1, <2>1, <4>2
      <4>4. \A i \in 1..Len(old) : (IF old[i].pattern = pt THEN [old[i] EXCEPT !.cred = cred] ELSE old[i])
                                  = (IF old[i].pattern = pt THEN new ELSE old[i])
        BY <1>4, <1>6, <4>1
      <4>5. QED
        BY <4>1, <4>3, <4>4
    <3>2. upd \in [1..Len(old) -> S]
      BY <1>2, <1>6, <3>1
    <3>3. upd \in Seq(S)
      BY <3>1, <3>2
    <3>4. \A i \in DOMAIN old : upd[i].pattern = old[i].pattern
      BY <1>2, <3>1
    <3>5. DOMAIN upd = DOMAIN old
      BY <3>1
    <3> HIDE DEF upd
    <3>6. OnePattern(upd)
      BY <1>5, <3>4, <3>5 DEF OnePattern
    <3>7. QED
      BY <3>1, <3>3, <3>6
  <2>2. CASE ~\E i \in DOMAIN old : old[i].pattern = pt
    <3>1. vault'[p] = Append(old, new)
      BY <1>1, <2>2 DEF CredInv, CredTypes, new
    <3>2. Append(old, new) \in Seq(S)
      BY <1>2, <1>5
    <3>3. /\ DOMAIN Append(old, new) = 1..(Len(old) + 1) /\ Len(old) \in Nat
          /\ \A i \in 1..(Len(old) + 1) :
               Append(old, new)[i] = IF i = Len(old) + 1 THEN new ELSE old[i]
          /\ DOMAIN old = 1..Len(old)
      BY <1>5
    <3>4. OnePattern(Append(old, new))
      BY <1>2, <1>5, <2>2, <3>3 DEF OnePattern
    <3>5. QED
      BY <3>1, <3>2, <3>4
  <2>3. QED
    BY <2>1, <2>2
<1>8. vault' \in [Peers -> Seq(S)] /\ \A m \in Peers : OnePattern(vault'[m])
  <2>1. \A m \in Peers : m # p => vault'[m] = vault[m]
    BY <1>1 DEF CredInv, CredTypes
  <2>2. \A m \in Peers : vault'[m] \in Seq(S) /\ OnePattern(vault'[m])
    BY <1>2, <1>7, <2>1, SeqMono DEF CredInv, CredTypes
  <2>3. vault' = [m \in Peers |-> vault'[m]]
    BY <1>1 DEF CredInv, CredTypes
  <2>4. QED
    BY <2>2, <2>3
<1>9. Seq(GoodGrants(stored)) \subseteq Seq(GoodGrants(stored'))
  BY <1>3, SeqMono
<1>10. CredTypes'
  BY <1>1, <1>8, <1>9 DEF CredInv, CredTypes, S
<1>11. \A c \in Calls : CallIsServed(stored', c, call'[c])
  BY <1>1, <1>3 DEF CredInv, CallIsServed
<1>12. QED
  BY <1>8, <1>10, <1>11 DEF CredInv

LEMMA CredentialRequested ==
    ASSUME CredInv, NEW c \in Calls, NEW lost \in SUBSET Peers, RequestCredential(c, lost)
    PROVE  CredInv'
<1>1. /\ wallClock' = wallClock /\ offset' = offset /\ vault' = vault /\ resultCh' = resultCh
      /\ grants' = grants /\ stored' = stored /\ call' = [call EXCEPT ![c].pc = "waiting"]
      /\ requests' = [p \in Peers |-> IF p \in lost THEN requests[p]
                                      ELSE Append(requests[p], [call |-> c, at |-> wallClock])]
  BY DEF RequestCredential
<1>2. [call |-> c, at |-> wallClock] \in PastRequests(wallClock)
  BY DEF PastRequests, CredRequests, CredInv, CredTypes
<1>3. requests' \in [Peers -> Seq(PastRequests(wallClock))]
  BY <1>1, <1>2 DEF CredInv, CredTypes
<1>4. /\ call' \in [Calls -> CallRecords]
      /\ \A d \in Calls : d # c => call'[d] = call[d]
      /\ call'[c].pc = "waiting"
  BY <1>1 DEF CredInv, CredTypes, CallRecords
<1>5. QED
  BY <1>1, <1>3, <1>4 DEF CredInv, CredTypes, CallIsServed

LEMMA CredentialReceived ==
    ASSUME CredInv, NEW c \in Calls, Receive(c)
    PROVE  CredInv'
<1> DEFINE g == Head(resultCh[c])
           rec == [pc |-> "done", cred |-> g.cred, age |-> wallClock - g.issued]
<1>1. /\ wallClock' = wallClock /\ offset' = offset /\ vault' = vault /\ requests' = requests
      /\ grants' = grants /\ stored' = stored /\ resultCh[c] # <<>>
      /\ resultCh' = [resultCh EXCEPT ![c] = <<>>]
      /\ call' = call \/ (UnsealGrantWithNonce(c, g) /\ call' = [call EXCEPT ![c] = rec])
  BY DEF Receive
<1>2. g \in GoodGrants(stored)
  BY <1>1 DEF CredInv, CredTypes
<1>3. resultCh' \in [Calls -> Seq(GoodGrants(stored))]
  BY <1>1 DEF CredInv, CredTypes
<1>4. /\ call' \in [Calls -> CallRecords]
      /\ \A d \in Calls : CallIsServed(stored, d, call'[d])
  <2>1. CASE call' = call
    BY <2>1 DEF CredInv, CredTypes
  <2>2. CASE UnsealGrantWithNonce(c, g) /\ call' = [call EXCEPT ![c] = rec]
    <3>1. /\ g \in GrantRecords /\ IsFor(stored, g.call, g.cred)
          /\ g.expires - g.issued <= GrantTTL + SkewWindow
      BY <1>2 DEF GoodGrants
    <3>2. g.call = c /\ wallClock <= g.expires /\ wallClock \in Nat
      BY <2>2 DEF UnsealGrantWithNonce, CredInv, CredTypes
    <3>3. g.issued \in Nat /\ g.expires \in Int /\ g.cred \in Creds
      BY <3>1 DEF GrantRecords
    <3>4. rec \in CallRecords
      BY <3>2, <3>3 DEF CallRecords
    <3>5. rec.age <= GrantTTL + SkewWindow
      <4>1. GrantTTL \in Nat /\ SkewWindow \in Nat
        BY DelegationAssumption
      <4>2. QED
        BY <3>1, <3>2, <3>3, <4>1
    <3>6. CallIsServed(stored, c, rec)
      BY <3>1, <3>2, <3>5 DEF CallIsServed
    <3> HIDE DEF rec
    <3>7. call \in [Calls -> CallRecords] /\ \A d \in Calls : CallIsServed(stored, d, call[d])
      BY DEF CredInv, CredTypes
    <3>8. QED
      BY <2>2, <3>4, <3>6, <3>7
  <2>3. QED
    BY <1>1, <2>1, <2>2
<1>5. QED
  BY <1>1, <1>3, <1>4 DEF CredInv, CredTypes

LEMMA CredentialCancelled ==
    ASSUME CredInv, NEW c \in Calls, Cancel(c)
    PROVE  CredInv'
<1>1. /\ UNCHANGED <<wallClock, offset, vault, resultCh, requests, grants, stored>>
      /\ call' = [call EXCEPT ![c].pc = "cancelled"]
  BY DEF Cancel
<1>2. /\ call' \in [Calls -> CallRecords]
      /\ \A d \in Calls : d # c => call'[d] = call[d]
      /\ call'[c].pc = "cancelled"
  BY <1>1 DEF CredInv, CredTypes, CallRecords
<1>3. QED
  BY <1>1, <1>2 DEF CredInv, CredTypes, CallIsServed

LEMMA GrantArrives ==
    ASSUME CredInv, NEW p \in Peers, handleCredentialGrantFrame(p)
    PROVE  CredInv'
<1> DEFINE g == Head(grants[p])
<1>1. /\ UNCHANGED <<wallClock, offset, vault, call, requests, stored>> /\ grants[p] # <<>>
      /\ resultCh' = [c \in Calls |-> IF call[c].pc = "waiting" /\ resultCh[c] = <<>>
                                      THEN <<g>> ELSE resultCh[c]]
      /\ grants' = [grants EXCEPT ![p] = Tail(grants[p])]
  BY DEF handleCredentialGrantFrame
<1>2. g \in GoodGrants(stored)
  BY <1>1 DEF CredInv, CredTypes
<1> HIDE DEF g
<1>3. <<g>> \in Seq(GoodGrants(stored))
  BY <1>2
<1>4. resultCh' \in [Calls -> Seq(GoodGrants(stored))]
  BY <1>1, <1>3 DEF CredInv, CredTypes
<1>5. grants' \in [Peers -> Seq(GoodGrants(stored))]
  BY <1>1 DEF CredInv, CredTypes
<1>6. QED
  BY <1>1, <1>4, <1>5 DEF CredInv, CredTypes

LEMMA GrantSealed ==
    ASSUME CredInv, NEW p \in Peers, NEW lost \in BOOLEAN, handleCredentialRequestFrame(p, lost)
    PROVE  CredInv'
<1> DEFINE rq == Head(requests[p])
           host == HostOf[rq.call]
           g == [call |-> rq.call, issued |-> wallClock,
                 cred |-> vault[p][HostMatch(vault[p], host)].cred,
                 expires |-> wallClock + offset[p] + GrantTTL]
<1>1. /\ UNCHANGED <<wallClock, offset, vault, call, resultCh, stored>> /\ requests[p] # <<>>
      /\ requests' = [requests EXCEPT ![p] = Tail(requests[p])]
      /\ \/ grants' = grants
         \/ /\ validateRequest(p, rq) /\ Candidates(vault[p], host) # {}
            /\ grants' = [grants EXCEPT ![p] = Append(grants[p], g)]
  BY DEF handleCredentialRequestFrame
<1>2. rq \in PastRequests(wallClock)
  BY <1>1 DEF CredInv, CredTypes
<1>3. requests' \in [Peers -> Seq(PastRequests(wallClock))]
  BY <1>1 DEF CredInv, CredTypes
<1>4. ASSUME validateRequest(p, rq), Candidates(vault[p], host) # {}
      PROVE  g \in GoodGrants(stored)
  <2> DEFINE v == vault[p]
             i == HostMatch(v, host)
  <2>1. v \in Seq(StoredEntries(stored)) /\ v \in Seq(VaultEntries)
    <3>1. StoredEntries(stored) \subseteq VaultEntries
      BY DEF StoredEntries
    <3>2. QED
      BY <3>1, SeqMono DEF CredInv, CredTypes
  <2>2. i \in Candidates(v, host)
    BY <1>4, <2>1, HostMatchIsCandidate
  <2> HIDE DEF i
  <2>3. i \in DOMAIN v /\ host \in v[i].pattern.hosts
    BY <2>2 DEF Candidates
  <2>4. v[i] \in StoredEntries(stored)
    BY <2>1, <2>3
  <2>5. <<v[i].pattern, v[i].cred>> \in stored /\ v[i].cred \in Creds
    BY <2>4 DEF StoredEntries, VaultEntries
  <2>6. IsFor(stored, rq.call, v[i].cred)
    BY <2>3, <2>5 DEF IsFor
  <2>7. /\ rq.call \in Calls /\ rq.at \in Nat /\ rq.at <= wallClock /\ wallClock \in Nat
        /\ offset[p] \in Int /\ GrantTTL \in Nat /\ SkewWindow \in Nat
    BY <1>2, DelegationAssumption DEF PastRequests, CredRequests, CredInv, CredTypes
  <2>8. offset[p] <= SkewWindow
    BY <1>4, <2>7 DEF validateRequest
  <2>9. g = [call |-> rq.call, issued |-> wallClock, cred |-> v[i].cred,
             expires |-> wallClock + offset[p] + GrantTTL]
    BY DEF i
  <2>10. g \in GrantRecords /\ g.expires - g.issued <= GrantTTL + SkewWindow
    BY <2>5, <2>7, <2>8, <2>9 DEF GrantRecords
  <2>11. QED
    BY <2>6, <2>9, <2>10 DEF GoodGrants
<1> HIDE DEF g
<1>5. grants' \in [Peers -> Seq(GoodGrants(stored))]
  <2>1. grants \in [Peers -> Seq(GoodGrants(stored))]
    BY DEF CredInv, CredTypes
  <2>2. ASSUME g \in GoodGrants(stored) PROVE Append(grants[p], g) \in Seq(GoodGrants(stored))
    BY <2>1, <2>2
  <2>3. CASE grants' = grants
    BY <2>1, <2>3
  <2>4. CASE validateRequest(p, rq) /\ Candidates(vault[p], host) # {}
             /\ grants' = [grants EXCEPT ![p] = Append(grants[p], g)]
    <3>1. Append(grants[p], g) \in Seq(GoodGrants(stored))
      BY <1>4, <2>2, <2>4
    <3>2. QED
      BY <2>1, <2>4, <3>1
  <2>5. QED
    BY <1>1, <2>3, <2>4
<1>6. QED
  BY <1>1, <1>3, <1>5 DEF CredInv, CredTypes

LEMMA CredentialTime ==
    ASSUME CredInv, CredTick \/ UNCHANGED credVars
    PROVE  CredInv'
<1>1. /\ UNCHANGED <<offset, vault, call, resultCh, requests, grants, stored>>
      /\ wallClock' = wallClock \/ wallClock' = wallClock + 1
  BY DEF CredTick, credVars
<1>2. wallClock' \in Nat /\ PastRequests(wallClock) \subseteq PastRequests(wallClock')
  BY <1>1 DEF CredInv, CredTypes, PastRequests, CredRequests
<1>3. requests' \in [Peers -> Seq(PastRequests(wallClock'))]
  BY <1>1, <1>2, SeqMono DEF CredInv, CredTypes
<1>4. QED
  BY <1>1, <1>2, <1>3 DEF CredInv, CredTypes

(* A delegated credential is one stored for a pattern of the host its call *)
(* asked for, and no older than the grant's life plus the skew window: for *)
(* any number of concurrent calls, peers, patterns and clocks              *)
(* (control.go, credential.go, vault.go).                                  *)
THEOREM CredentialsStayWithTheirCall == CredSpec => []CredentialsReachOnlyTheirCall
<1>1. CredInit => CredInv
  BY CredInitInv
<1>2. CredInv /\ [CredNext]_credVars => CredInv'
  BY CredentialStored, CredentialRequested, CredentialReceived, CredentialCancelled,
     GrantArrives, GrantSealed, CredentialTime DEF CredNext
<1>3. CredInv => CredentialsReachOnlyTheirCall
  BY DEF CredInv, OnePattern, CallIsServed, IsFor, CredentialsReachOnlyTheirCall,
         CredentialIsForTheCaller, CredentialIsFresh
<1>4. QED
  BY <1>1, <1>2, <1>3, PTL DEF CredSpec

(***************************************************************************)
(* Deployment                                                              *)
(***************************************************************************)
(* What is left of a list of operations: its last Len(s) members. *)
Rest(s, ops) ==
    Len(s) <= Len(ops) /\ \A i \in 1..Len(s) : s[i] = ops[Len(ops) - Len(s) + i]

Left(k) == Len(jobs[k])

OpNames == {"read_own", "read_update", "read_end", "tmp_begin", "tmp_end", "rename", "sftp_begin",
            "sftp_end", "mv", "ident_begin", "ident_end", "save_config", "write_unit", "remove_unit",
            "daemon-reload", "enable", "disable", "start", "restart", "stop", "kill", "remove_opt",
            "ack", "reconnect"}

UploadRecords ==
    [step : {"idle", "sending", "waiting", "uploaded", "gave_up", "done"},
     sent : Nat, got : Nat, open : BOOLEAN, eof : BOOLEAN]
Places == {"none", "tmp", "bin", "gone"}

(* What a job may install: where a gateway is active, also what it has     *)
(* read too early or shares with another writer.                           *)
Installable == {OwnVersion} \cup (IF scenario = "operator" THEN {} ELSE {Short, Mixed})

DeployTypes ==
    /\ scenario \in {"operator", "gateway", "both"}
    /\ copied \in [Kinds -> Int] /\ file \in [Kinds -> Places]
    /\ {unit, loaded, enabled, starting, overlap, hole, spoiled} \subseteq BOOLEAN
    /\ upload \in UploadRecords /\ crashes \in Nat
    /\ jobs \in [Kinds -> Seq(OpNames)]

(* Every job is what is left of its list, and only the operator's or only  *)
(* the gateway's exist where the other is not active.                      *)
JobsInv ==
    /\ Rest(jobs["install"], InstallModeOps) /\ Rest(jobs["ssh_upgrade"], upgradeRemoteNode)
    /\ \A k \in Upgrades : Rest(jobs[k], nodeUpgradeOps)
    /\ Rest(jobs["uninstall"], DetachedUninstallOps)
    /\ Left("service") <= 1 /\ (Left("service") = 1 => jobs["service"][1] \in {"stop", "restart", "start"})
    /\ Left("install") = 0 \/ Left("ssh_upgrade") = 0
    /\ scenario = "operator" => \A k \in Upgrades : Left(k) = 0
    /\ scenario = "gateway" => cli = "idle" /\ \A k \in Kinds \ Upgrades : Left(k) = 0

(* What the files and the memory of the copies may hold. *)
FilesInv ==
    /\ tmp \in {0, Cut} \cup Installable /\ update \in {0} \cup Installable
    /\ bin \in {0, OwnVersion - 1, Lost} \cup Installable /\ (bin = Lost => crashes > 0)
    /\ \A k \in Kinds :
         /\ copied[k] \in {0} \cup Installable
         /\ At(k, {"read_end", "tmp_begin", "tmp_end"}) => copied[k] \in Installable
    /\ Left("ssh_upgrade") = 9 => bin \in {0} \cup Installable
    /\ hole => scenario # "operator"

(* A file that is being written for the first time has one job at it, which *)
(* has not finished writing: so nobody renames it.                          *)
CutInv ==
    tmp = Cut => \A i \in Kinds : Replaces(i) =>
        /\ At(i, {"tmp_end", "sftp_end"}) /\ file[i] = "tmp"
        /\ \A j \in Kinds : Replaces(j) => j = i

(* Without a fault of an upload: an upload that ended is complete, and     *)
(* nobody reads the file while it is open.                                 *)
UploadInv ==
    /\ \A k \in Upgrades : At(k, {"read_update", "read_end"}) => update = OwnVersion /\ ~upload.open
    /\ upload.step # "gave_up" /\ upload.got <= upload.sent /\ upload.sent <= UploadChunks
    /\ upload.step \in {"idle", "done"} => ~upload.open
    /\ upload.step = "sending" => upload.open /\ ~upload.eof
    /\ upload.eof => upload.sent = UploadChunks
    /\ upload.got = UploadChunks => update = OwnVersion
    /\ upload.step = "waiting" /\ ~upload.open => update = OwnVersion
    /\ upload.step = "uploaded" => ~upload.open /\ update = OwnVersion

SpoilInv ==
    ~spoiled => bin # Short /\ tmp # Short /\ (\A k \in Kinds : copied[k] # Short) /\ UploadInv

(* Without overlapping commands: what the operations done so far have      *)
(* achieved is still there.                                                *)
ProgressInv ==
    /\ cli \in {"running", "acked"} => Left("uninstall") = 0 /\ Left("service") = 0
    /\ Left("install") > 0 \/ Left("ssh_upgrade") > 0 => cli = "running"
    /\ Left("uninstall") = 0 \/ Left("service") = 0
    /\ proc # 0 => ident = "ok" \/ Left("install") = 11
    /\ Left("uninstall") \in 1..5 => proc = 0 /\ ~starting /\ \A k \in Upgrades : Left(k) = 0
    /\ Left("install") \in 1..10 \/ Left("ssh_upgrade") > 0 => ident = "ok"
    /\ Left("ssh_upgrade") \in 1..9 => bin \in Installable
    /\ \A k \in {"install", "ssh_upgrade"} :
         /\ Left(k) \in 1..5 => bin \in Installable
         /\ Left(k) \in 1..4 => unit
         /\ Left(k) \in 1..3 => loaded
         /\ Left(k) \in 1..2 => enabled
    /\ cli = "acked" => /\ bin \in Installable /\ ident = "ok" /\ unit /\ loaded /\ enabled
                        /\ Left("install") = 0 /\ Left("ssh_upgrade") = 0

DeployInv == DeployTypes /\ JobsInv /\ FilesInv /\ CutInv /\ SpoilInv /\ (~overlap => ProgressInv)

LEMMA RestFacts ==
    ASSUME NEW ops \in Seq(OpNames), NEW s \in Seq(OpNames), Rest(s, ops)
    PROVE  /\ Len(s) \in 0..Len(ops)
           /\ s # <<>> => /\ Len(s) > 0 /\ Head(s) = ops[Len(ops) - Len(s) + 1]
                          /\ Tail(s) \in Seq(OpNames) /\ Len(Tail(s)) = Len(s) - 1
                          /\ Rest(Tail(s), ops)
<1>1. Len(s) \in 0..Len(ops) /\ Len(ops) \in Nat
  BY DEF Rest
<1>2. ASSUME s # <<>>
      PROVE  /\ Len(s) > 0 /\ Head(s) = ops[Len(ops) - Len(s) + 1]
             /\ Tail(s) \in Seq(OpNames) /\ Len(Tail(s)) = Len(s) - 1
             /\ Rest(Tail(s), ops)
  <2>1. Len(s) > 0 /\ Head(s) = s[1] /\ Tail(s) \in Seq(OpNames) /\ Len(Tail(s)) = Len(s) - 1
    BY <1>2
  <2>2. Head(s) = ops[Len(ops) - Len(s) + 1]
    BY <1>1, <2>1 DEF Rest
  <2>3. ASSUME NEW i \in 1..Len(Tail(s))
        PROVE  Tail(s)[i] = ops[Len(ops) - Len(Tail(s)) + i]
    <3>1. Tail(s)[i] = s[i + 1] /\ i + 1 \in 1..Len(s)
      BY <1>1, <2>1
    <3>2. s[i + 1] = ops[Len(ops) - Len(s) + (i + 1)]
      BY <3>1 DEF Rest
    <3>3. Len(ops) - Len(s) + (i + 1) = Len(ops) - Len(Tail(s)) + i
      BY <1>1, <2>1
    <3>4. QED
      BY <3>1, <3>2, <3>3
  <2>4. Rest(Tail(s), ops)
    BY <1>1, <2>1, <2>3 DEF Rest
  <2>5. QED
    BY <2>1, <2>2, <2>4
<1>3. QED
  BY <1>1, <1>2

LEMMA RestEnds ==
    ASSUME NEW ops \in Seq(OpNames)
    PROVE  Rest(<<>>, ops) /\ Rest(ops, ops)
  BY DEF Rest

(* The lists, operation by operation. *)
LEMMA SelfInstallTable ==
    /\ SelfInstallOps \in Seq(OpNames) /\ Len(SelfInstallOps) = 8
    /\ SelfInstallOps[1] = "read_own" /\ SelfInstallOps[2] = "tmp_begin"
    /\ SelfInstallOps[3] = "tmp_end" /\ SelfInstallOps[4] = "rename"
    /\ SelfInstallOps[5] = "write_unit" /\ SelfInstallOps[6] = "daemon-reload"
    /\ SelfInstallOps[7] = "enable" /\ SelfInstallOps[8] = "restart"
  BY DEF SelfInstallOps, CopyOps, OpNames

LEMMA InstallTable ==
    /\ InstallModeOps \in Seq(OpNames) /\ Len(InstallModeOps) = 12
    /\ InstallModeOps[1] = "ident_begin" /\ InstallModeOps[2] = "ident_end"
    /\ InstallModeOps[3] = "save_config" /\ InstallModeOps[4] = "read_own"
    /\ InstallModeOps[5] = "tmp_begin" /\ InstallModeOps[6] = "tmp_end"
    /\ InstallModeOps[7] = "rename" /\ InstallModeOps[8] = "write_unit"
    /\ InstallModeOps[9] = "daemon-reload" /\ InstallModeOps[10] = "enable"
    /\ InstallModeOps[11] = "restart" /\ InstallModeOps[12] = "ack"
<1>1. /\ <<"ident_begin", "ident_end", "save_config">> \in Seq(OpNames)
      /\ SelfInstallOps \in Seq(OpNames) /\ <<"ack">> \in Seq(OpNames)
  BY SelfInstallTable DEF OpNames
<1>2. InstallModeOps \in Seq(OpNames)
  <2>1. \A a, b, c \in Seq(OpNames) : a \o b \o c \in Seq(OpNames)
    OBVIOUS
  <2>2. QED
    BY <1>1, <2>1 DEF InstallModeOps
<1>3. Len(InstallModeOps) = 12
  BY DEF InstallModeOps, SelfInstallOps, CopyOps
<1>4. QED
  BY <1>2, <1>3 DEF InstallModeOps, SelfInstallOps, CopyOps

LEMMA SSHUpgradeTable ==
    /\ upgradeRemoteNode \in Seq(OpNames) /\ Len(upgradeRemoteNode) = 12
    /\ upgradeRemoteNode[1] = "sftp_begin" /\ upgradeRemoteNode[2] = "sftp_end"
    /\ upgradeRemoteNode[3] = "mv" /\ upgradeRemoteNode[4] = "read_own"
    /\ upgradeRemoteNode[5] = "tmp_begin" /\ upgradeRemoteNode[6] = "tmp_end"
    /\ upgradeRemoteNode[7] = "rename" /\ upgradeRemoteNode[8] = "write_unit"
    /\ upgradeRemoteNode[9] = "daemon-reload" /\ upgradeRemoteNode[10] = "enable"
    /\ upgradeRemoteNode[11] = "restart" /\ upgradeRemoteNode[12] = "reconnect"
<1>1. /\ <<"sftp_begin", "sftp_end", "mv">> \in Seq(OpNames)
      /\ SelfInstallOps \in Seq(OpNames) /\ <<"reconnect">> \in Seq(OpNames)
  BY SelfInstallTable DEF OpNames
<1>2. upgradeRemoteNode \in Seq(OpNames)
  <2>1. \A a, b, c \in Seq(OpNames) : a \o b \o c \in Seq(OpNames)
    OBVIOUS
  <2>2. QED
    BY <1>1, <2>1 DEF upgradeRemoteNode
<1>3. Len(upgradeRemoteNode) = 12
  BY DEF upgradeRemoteNode, SelfInstallOps, CopyOps
<1>4. QED
  BY <1>2, <1>3 DEF upgradeRemoteNode, SelfInstallOps, CopyOps

LEMMA UpgradeTable ==
    /\ nodeUpgradeOps \in Seq(OpNames) /\ Len(nodeUpgradeOps) = 7
    /\ nodeUpgradeOps[1] = "read_update" /\ nodeUpgradeOps[2] = "read_end"
    /\ nodeUpgradeOps[3] = "tmp_begin" /\ nodeUpgradeOps[4] = "tmp_end"
    /\ nodeUpgradeOps[5] = "rename" /\ nodeUpgradeOps[6] = "daemon-reload"
    /\ nodeUpgradeOps[7] = "restart"
<1>1. /\ <<"read_update">> \in Seq(OpNames) /\ CopyOps("read_end") \in Seq(OpNames)
      /\ <<"daemon-reload", "restart">> \in Seq(OpNames)
  BY DEF CopyOps, OpNames
<1>2. nodeUpgradeOps \in Seq(OpNames)
  <2>1. \A a, b, c \in Seq(OpNames) : a \o b \o c \in Seq(OpNames)
    OBVIOUS
  <2>2. QED
    BY <1>1, <2>1 DEF nodeUpgradeOps
<1>3. Len(nodeUpgradeOps) = 7
  BY DEF nodeUpgradeOps, CopyOps
<1>4. QED
  BY <1>2, <1>3 DEF nodeUpgradeOps, CopyOps

LEMMA UninstallTable ==
    /\ DetachedUninstallOps \in Seq(OpNames) /\ Len(DetachedUninstallOps) = 6
    /\ DetachedUninstallOps[1] = "stop" /\ DetachedUninstallOps[2] = "disable"
    /\ DetachedUninstallOps[3] = "remove_unit" /\ DetachedUninstallOps[4] = "daemon-reload"
    /\ DetachedUninstallOps[5] = "kill" /\ DetachedUninstallOps[6] = "remove_opt"
  BY DEF DetachedUninstallOps, OpNames

LEMMA NextOfInstall ==
    ASSUME DeployTypes, JobsInv, Busy("install")
    PROVE  LET op == Head(jobs["install"])
               n == Left("install")
           IN  /\ n \in 1..12 /\ Tail(jobs["install"]) \in Seq(OpNames)
               /\ Len(Tail(jobs["install"])) = n - 1 /\ Rest(Tail(jobs["install"]), InstallModeOps)
               /\ (n = 12 => op = "ident_begin") /\ (n = 11 => op = "ident_end")
               /\ (n = 10 => op = "save_config") /\ (n = 9 => op = "read_own")
               /\ (n = 8 => op = "tmp_begin") /\ (n = 7 => op = "tmp_end")
               /\ (n = 6 => op = "rename") /\ (n = 5 => op = "write_unit")
               /\ (n = 4 => op = "daemon-reload") /\ (n = 3 => op = "enable")
               /\ (n = 2 => op = "restart") /\ (n = 1 => op = "ack")
<1> DEFINE s == jobs["install"]
<1>1. s \in Seq(OpNames) /\ s # <<>> /\ Rest(s, InstallModeOps) /\ Left("install") = Len(s)
  BY DEF DeployTypes, JobsInv, Busy, Kinds, Upgrades, Left
<1> HIDE DEF s
<1>2. InstallModeOps \in Seq(OpNames)
  BY InstallTable
<1>3. /\ Len(s) \in 0..Len(InstallModeOps) /\ Len(s) > 0
      /\ Head(s) = InstallModeOps[Len(InstallModeOps) - Len(s) + 1]
      /\ Tail(s) \in Seq(OpNames) /\ Len(Tail(s)) = Len(s) - 1 /\ Rest(Tail(s), InstallModeOps)
  BY <1>1, <1>2, RestFacts
<1> DEFINE m == Len(s)
           N == Len(InstallModeOps)
           rest == Len(Tail(s))
           hd == Head(s)
<1>4. N = 12 /\ m \in 0..N /\ m > 0 /\ hd = InstallModeOps[N - m + 1] /\ rest = m - 1
  BY <1>3, InstallTable
<1> HIDE DEF m, N, rest, hd
<1>5. /\ m \in 1..12 /\ hd = InstallModeOps[13 - m] /\ rest = m - 1
  BY <1>4
<1>6. \A i \in 1..12 : m = i => hd = InstallModeOps[13 - i]
  BY <1>5
<1>7. /\ (m = 12 => hd = "ident_begin") /\ (m = 11 => hd = "ident_end")
      /\ (m = 10 => hd = "save_config") /\ (m = 9 => hd = "read_own")
      /\ (m = 8 => hd = "tmp_begin") /\ (m = 7 => hd = "tmp_end")
      /\ (m = 6 => hd = "rename") /\ (m = 5 => hd = "write_unit")
      /\ (m = 4 => hd = "daemon-reload") /\ (m = 3 => hd = "enable")
      /\ (m = 2 => hd = "restart") /\ (m = 1 => hd = "ack")
  BY <1>6, InstallTable
<1>8. Left("install") = m /\ Left("install") \in 1..12 /\ Len(Tail(s)) = m - 1 /\ m = Len(s)
  BY <1>1, <1>5 DEF m, rest
<1>9. QED
  BY <1>3, <1>7, <1>8, Zenon DEF s, hd

LEMMA NextOfSSHUpgrade ==
    ASSUME DeployTypes, JobsInv, Busy("ssh_upgrade")
    PROVE  LET op == Head(jobs["ssh_upgrade"])
               n == Left("ssh_upgrade")
           IN  /\ n \in 1..12 /\ Tail(jobs["ssh_upgrade"]) \in Seq(OpNames)
               /\ Len(Tail(jobs["ssh_upgrade"])) = n - 1 /\ Rest(Tail(jobs["ssh_upgrade"]), upgradeRemoteNode)
               /\ (n = 12 => op = "sftp_begin") /\ (n = 11 => op = "sftp_end")
               /\ (n = 10 => op = "mv") /\ (n = 9 => op = "read_own")
               /\ (n = 8 => op = "tmp_begin") /\ (n = 7 => op = "tmp_end")
               /\ (n = 6 => op = "rename") /\ (n = 5 => op = "write_unit")
               /\ (n = 4 => op = "daemon-reload") /\ (n = 3 => op = "enable")
               /\ (n = 2 => op = "restart") /\ (n = 1 => op = "reconnect")
<1> DEFINE s == jobs["ssh_upgrade"]
<1>1. s \in Seq(OpNames) /\ s # <<>> /\ Rest(s, upgradeRemoteNode) /\ Left("ssh_upgrade") = Len(s)
  BY DEF DeployTypes, JobsInv, Busy, Kinds, Upgrades, Left
<1> HIDE DEF s
<1>2. upgradeRemoteNode \in Seq(OpNames)
  BY SSHUpgradeTable
<1>3. /\ Len(s) \in 0..Len(upgradeRemoteNode) /\ Len(s) > 0
      /\ Head(s) = upgradeRemoteNode[Len(upgradeRemoteNode) - Len(s) + 1]
      /\ Tail(s) \in Seq(OpNames) /\ Len(Tail(s)) = Len(s) - 1 /\ Rest(Tail(s), upgradeRemoteNode)
  BY <1>1, <1>2, RestFacts
<1> DEFINE m == Len(s)
           N == Len(upgradeRemoteNode)
           rest == Len(Tail(s))
           hd == Head(s)
<1>4. N = 12 /\ m \in 0..N /\ m > 0 /\ hd = upgradeRemoteNode[N - m + 1] /\ rest = m - 1
  BY <1>3, SSHUpgradeTable
<1> HIDE DEF m, N, rest, hd
<1>5. /\ m \in 1..12 /\ hd = upgradeRemoteNode[13 - m] /\ rest = m - 1
  BY <1>4
<1>6. \A i \in 1..12 : m = i => hd = upgradeRemoteNode[13 - i]
  BY <1>5
<1>7. /\ (m = 12 => hd = "sftp_begin") /\ (m = 11 => hd = "sftp_end")
      /\ (m = 10 => hd = "mv") /\ (m = 9 => hd = "read_own")
      /\ (m = 8 => hd = "tmp_begin") /\ (m = 7 => hd = "tmp_end")
      /\ (m = 6 => hd = "rename") /\ (m = 5 => hd = "write_unit")
      /\ (m = 4 => hd = "daemon-reload") /\ (m = 3 => hd = "enable")
      /\ (m = 2 => hd = "restart") /\ (m = 1 => hd = "reconnect")
  BY <1>6, SSHUpgradeTable
<1>8. Left("ssh_upgrade") = m /\ Left("ssh_upgrade") \in 1..12 /\ Len(Tail(s)) = m - 1 /\ m = Len(s)
  BY <1>1, <1>5 DEF m, rest
<1>9. QED
  BY <1>3, <1>7, <1>8, Zenon DEF s, hd

LEMMA NextOfUpgrade ==
    ASSUME DeployTypes, JobsInv, NEW k \in Upgrades, Busy(k)
    PROVE  LET op == Head(jobs[k])
               n == Left(k)
           IN  /\ n \in 1..7 /\ Tail(jobs[k]) \in Seq(OpNames)
               /\ Len(Tail(jobs[k])) = n - 1 /\ Rest(Tail(jobs[k]), nodeUpgradeOps)
               /\ (n = 7 => op = "read_update") /\ (n = 6 => op = "read_end")
               /\ (n = 5 => op = "tmp_begin") /\ (n = 4 => op = "tmp_end")
               /\ (n = 3 => op = "rename") /\ (n = 2 => op = "daemon-reload")
               /\ (n = 1 => op = "restart")
<1> DEFINE s == jobs[k]
<1>1. s \in Seq(OpNames) /\ s # <<>> /\ Rest(s, nodeUpgradeOps) /\ Left(k) = Len(s)
  BY DEF DeployTypes, JobsInv, Busy, Kinds, Upgrades, Left
<1> HIDE DEF s
<1>2. nodeUpgradeOps \in Seq(OpNames)
  BY UpgradeTable
<1>3. /\ Len(s) \in 0..Len(nodeUpgradeOps) /\ Len(s) > 0
      /\ Head(s) = nodeUpgradeOps[Len(nodeUpgradeOps) - Len(s) + 1]
      /\ Tail(s) \in Seq(OpNames) /\ Len(Tail(s)) = Len(s) - 1 /\ Rest(Tail(s), nodeUpgradeOps)
  BY <1>1, <1>2, RestFacts
<1> DEFINE m == Len(s)
           N == Len(nodeUpgradeOps)
           rest == Len(Tail(s))
           hd == Head(s)
<1>4. N = 7 /\ m \in 0..N /\ m > 0 /\ hd = nodeUpgradeOps[N - m + 1] /\ rest = m - 1
  BY <1>3, UpgradeTable
<1> HIDE DEF m, N, rest, hd
<1>5. /\ m \in 1..7 /\ hd = nodeUpgradeOps[8 - m] /\ rest = m - 1
  BY <1>4
<1>6. \A i \in 1..7 : m = i => hd = nodeUpgradeOps[8 - i]
  BY <1>5
<1>7. /\ (m = 7 => hd = "read_update") /\ (m = 6 => hd = "read_end")
      /\ (m = 5 => hd = "tmp_begin") /\ (m = 4 => hd = "tmp_end")
      /\ (m = 3 => hd = "rename") /\ (m = 2 => hd = "daemon-reload")
      /\ (m = 1 => hd = "restart")
  BY <1>6, UpgradeTable
<1>8. Left(k) = m /\ Left(k) \in 1..7 /\ Len(Tail(s)) = m - 1 /\ m = Len(s)
  BY <1>1, <1>5 DEF m, rest
<1>9. QED
  BY <1>3, <1>7, <1>8, Zenon DEF s, hd

LEMMA NextOfUninstall ==
    ASSUME DeployTypes, JobsInv, Busy("uninstall")
    PROVE  LET op == Head(jobs["uninstall"])
               n == Left("uninstall")
           IN  /\ n \in 1..6 /\ Tail(jobs["uninstall"]) \in Seq(OpNames)
               /\ Len(Tail(jobs["uninstall"])) = n - 1 /\ Rest(Tail(jobs["uninstall"]), DetachedUninstallOps)
               /\ (n = 6 => op = "stop") /\ (n = 5 => op = "disable")
               /\ (n = 4 => op = "remove_unit") /\ (n = 3 => op = "daemon-reload")
               /\ (n = 2 => op = "kill") /\ (n = 1 => op = "remove_opt")
<1> DEFINE s == jobs["uninstall"]
<1>1. s \in Seq(OpNames) /\ s # <<>> /\ Rest(s, DetachedUninstallOps) /\ Left("uninstall") = Len(s)
  BY DEF DeployTypes, JobsInv, Busy, Kinds, Upgrades, Left
<1> HIDE DEF s
<1>2. DetachedUninstallOps \in Seq(OpNames)
  BY UninstallTable
<1>3. /\ Len(s) \in 0..Len(DetachedUninstallOps) /\ Len(s) > 0
      /\ Head(s) = DetachedUninstallOps[Len(DetachedUninstallOps) - Len(s) + 1]
      /\ Tail(s) \in Seq(OpNames) /\ Len(Tail(s)) = Len(s) - 1 /\ Rest(Tail(s), DetachedUninstallOps)
  BY <1>1, <1>2, RestFacts
<1> DEFINE m == Len(s)
           N == Len(DetachedUninstallOps)
           rest == Len(Tail(s))
           hd == Head(s)
<1>4. N = 6 /\ m \in 0..N /\ m > 0 /\ hd = DetachedUninstallOps[N - m + 1] /\ rest = m - 1
  BY <1>3, UninstallTable
<1> HIDE DEF m, N, rest, hd
<1>5. /\ m \in 1..6 /\ hd = DetachedUninstallOps[7 - m] /\ rest = m - 1
  BY <1>4
<1>6. \A i \in 1..6 : m = i => hd = DetachedUninstallOps[7 - i]
  BY <1>5
<1>7. /\ (m = 6 => hd = "stop") /\ (m = 5 => hd = "disable")
      /\ (m = 4 => hd = "remove_unit") /\ (m = 3 => hd = "daemon-reload")
      /\ (m = 2 => hd = "kill") /\ (m = 1 => hd = "remove_opt")
  BY <1>6, UninstallTable
<1>8. Left("uninstall") = m /\ Left("uninstall") \in 1..6 /\ Len(Tail(s)) = m - 1 /\ m = Len(s)
  BY <1>1, <1>5 DEF m, rest
<1>9. QED
  BY <1>3, <1>7, <1>8, Zenon DEF s, hd

LEMMA EmptyJob ==
    ASSUME DeployTypes, NEW k \in Kinds
    PROVE  Left(k) \in Nat /\ (Left(k) = 0 <=> jobs[k] = <<>>) /\ (Busy(k) <=> Left(k) > 0)
<1>1. jobs[k] \in Seq(OpNames)
  BY DEF DeployTypes
<1>2. ASSUME NEW s \in Seq(OpNames) PROVE Len(s) \in Nat /\ (s = <<>> => Len(s) = 0)
  OBVIOUS
<1>3. ASSUME NEW s \in Seq(OpNames), s # <<>> PROVE Len(s) > 0
  BY <1>3
<1>4. Left(k) \in Nat /\ (jobs[k] = <<>> => Left(k) = 0) /\ (jobs[k] # <<>> => Left(k) > 0)
  BY <1>1, <1>2, <1>3 DEF Left
<1>5. QED
  BY <1>4 DEF Busy

LEMMA NextOfService ==
    ASSUME DeployTypes, JobsInv, Busy("service")
    PROVE  Left("service") = 1 /\ Head(jobs["service"]) \in {"stop", "restart", "start"}
<1>1. Left("service") = 1
  <2>1. Left("service") > 0 /\ Left("service") \in Nat
    BY EmptyJob DEF Kinds
  <2>2. QED
    BY <2>1 DEF JobsInv
<1>2. jobs["service"] \in Seq(OpNames) /\ jobs["service"] # <<>>
  BY DEF DeployTypes, Busy, Kinds
<1>3. Head(jobs["service"]) = jobs["service"][1]
  BY <1>2
<1>4. QED
  BY <1>1, <1>3 DEF JobsInv

(* Which operations follow each other in the lists that write files. *)
Follows(op, next) ==
    /\ next = "tmp_begin" => op \in {"read_own", "read_end"}
    /\ next = "read_end" => op = "read_update"
    /\ next = "tmp_end" <=> op = "tmp_begin"
    /\ next = "sftp_end" <=> op = "sftp_begin"
    /\ next = "rename" => op = "tmp_end"
    /\ next = "mv" => op = "sftp_end"
    /\ next # "read_update"
InOrder(ops) ==
    /\ \A i \in 1..(Len(ops) - 1) : Follows(ops[i], ops[i + 1])
    /\ Len(ops) > 0 /\ ops[Len(ops)] \notin {"tmp_begin", "sftp_begin"}

LEMMA ListsAreInOrder ==
    InOrder(InstallModeOps) /\ InOrder(upgradeRemoteNode) /\ InOrder(nodeUpgradeOps)
    /\ InOrder(DetachedUninstallOps)
<1>1. InOrder(InstallModeOps)
  <2>1. \A i \in 1..11 : Follows(InstallModeOps[i], InstallModeOps[i + 1])
    BY InstallTable DEF Follows
  <2>2. QED
    BY <2>1, InstallTable DEF InOrder
<1>2. InOrder(upgradeRemoteNode)
  <2>1. \A i \in 1..11 : Follows(upgradeRemoteNode[i], upgradeRemoteNode[i + 1])
    BY SSHUpgradeTable DEF Follows
  <2>2. QED
    BY <2>1, SSHUpgradeTable DEF InOrder
<1>3. InOrder(nodeUpgradeOps)
  <2>1. \A i \in 1..6 : Follows(nodeUpgradeOps[i], nodeUpgradeOps[i + 1])
    BY UpgradeTable DEF Follows
  <2>2. QED
    BY <2>1, UpgradeTable DEF InOrder
<1>4. InOrder(DetachedUninstallOps)
  <2>1. \A i \in 1..5 : Follows(DetachedUninstallOps[i], DetachedUninstallOps[i + 1])
    BY UninstallTable DEF Follows
  <2>2. QED
    BY <2>1, UninstallTable DEF InOrder
<1>5. QED
  BY <1>1, <1>2, <1>3, <1>4

LEMMA RestFollows ==
    ASSUME NEW ops \in Seq(OpNames), InOrder(ops), NEW s \in Seq(OpNames), s # <<>>, Rest(s, ops)
    PROVE  /\ Tail(s) # <<>> => Follows(Head(s), Head(Tail(s)))
           /\ Tail(s) = <<>> => Head(s) \notin {"tmp_begin", "sftp_begin"}
<1> DEFINE t == Tail(s)
           i == Len(ops) - Len(s) + 1
<1>0. Len(ops) \in Nat /\ Len(s) \in Nat
  OBVIOUS
<1>1. /\ Len(s) \in 0..Len(ops) /\ Len(s) > 0 /\ Head(s) = ops[i] /\ t \in Seq(OpNames)
      /\ Len(t) = Len(s) - 1 /\ Rest(t, ops)
  BY RestFacts
<1> HIDE DEF t
<1>2. ASSUME t # <<>> PROVE Follows(Head(s), Head(t))
  <2>1. Len(t) > 0 /\ Head(t) = ops[Len(ops) - Len(t) + 1]
    BY <1>1, <1>2, RestFacts
  <2>2. /\ i \in 1..(Len(ops) - 1) /\ Len(ops) - Len(t) + 1 = i + 1
    BY <1>0, <1>1, <2>1
  <2>3. Head(t) = ops[i + 1]
    BY <2>1, <2>2
  <2>4. QED
    BY <1>1, <2>2, <2>3 DEF InOrder
<1>3. ASSUME t = <<>> PROVE Head(s) \notin {"tmp_begin", "sftp_begin"}
  <2>1. Len(t) = 0
    BY <1>3
  <2>0. Len(s) = 1
    BY <1>0, <1>1, <2>1
  <2>2. i = Len(ops)
    BY <1>0, <2>0
  <2> HIDE DEF i
  <2>3. Head(s) = ops[Len(ops)]
    BY <1>1, <2>2
  <2>4. QED
    BY <2>3 DEF InOrder
<1>4. QED
  BY <1>2, <1>3 DEF t

LEMMA NextFollows ==
    ASSUME DeployTypes, JobsInv, NEW k \in Kinds, Busy(k)
    PROVE  LET op == Head(jobs[k])
               t == Tail(jobs[k])
           IN  /\ t # <<>> => Follows(op, Head(t))
               /\ t = <<>> => op \notin {"tmp_begin", "sftp_begin"}
<1> DEFINE s == jobs[k]
<1>1. s \in Seq(OpNames) /\ s # <<>>
  BY DEF DeployTypes, Busy
<1>2. CASE k = "service"
  <2>1. Len(s) = 1 /\ Head(s) \in {"stop", "restart", "start"}
    BY <1>2, NextOfService DEF Left
  <2>2. Tail(s) = <<>>
    <3>1. Tail(s) \in Seq(OpNames) /\ Len(Tail(s)) = 0
      BY <1>1, <2>1
    <3>2. ASSUME NEW t \in Seq(OpNames), t # <<>> PROVE Len(t) # 0
      BY <3>2
    <3>3. QED
      BY <3>1, <3>2
  <2>3. QED
    BY <2>1, <2>2
<1>3. CASE k # "service"
  <2>1. PICK ops \in {InstallModeOps, upgradeRemoteNode, nodeUpgradeOps, DetachedUninstallOps} : Rest(s, ops)
    BY <1>3 DEF JobsInv, Kinds, Upgrades
  <2>2. ops \in Seq(OpNames) /\ InOrder(ops)
    BY ListsAreInOrder, InstallTable, SSHUpgradeTable, UpgradeTable, UninstallTable
  <2>3. QED
    BY <1>1, <2>1, <2>2, RestFollows
<1>4. QED
  BY <1>2, <1>3

(* Who may be at which operation. *)
LEMMA WhoIsAt ==
    ASSUME DeployTypes, JobsInv, NEW k \in Kinds, Busy(k)
    PROVE  LET op == Head(jobs[k])
           IN  /\ op \in {"stop", "kill"} => k \in {"uninstall", "service"}
               /\ op \in {"ack", "reconnect"} => k \in {"install", "ssh_upgrade"}
               /\ op \in {"read_update", "read_end"} => k \in Upgrades
               /\ op \in {"tmp_begin", "tmp_end", "rename", "sftp_begin", "sftp_end", "mv"} =>
                      k \in {"install", "ssh_upgrade"} \cup Upgrades
               /\ op = "remove_opt" => k = "uninstall"
               /\ op = "read_own" /\ k = "ssh_upgrade" => Left(k) = 9
               /\ Left(k) = 10 /\ k = "ssh_upgrade" => op = "mv"
<1>1. CASE k = "install"
  <2> DEFINE op == Head(jobs["install"])
  <2>1. op \in {"ident_begin", "ident_end", "save_config", "read_own", "tmp_begin", "tmp_end",
                "rename", "write_unit", "daemon-reload", "enable", "restart", "ack"}
    BY <1>1, NextOfInstall
  <2> HIDE DEF op
  <2>2. op \notin {"stop", "kill", "read_update", "read_end", "remove_opt"}
    BY <2>1
  <2>3. QED
    BY <1>1, <2>2 DEF op
<1>2. CASE k = "ssh_upgrade"
  <2> DEFINE op == Head(jobs["ssh_upgrade"])
             n == Left("ssh_upgrade")
  <2>1. /\ n \in 1..12
        /\ (n = 12 => op = "sftp_begin") /\ (n = 11 => op = "sftp_end")
        /\ (n = 10 => op = "mv") /\ (n = 9 => op = "read_own")
        /\ (n = 8 => op = "tmp_begin") /\ (n = 7 => op = "tmp_end")
        /\ (n = 6 => op = "rename") /\ (n = 5 => op = "write_unit")
        /\ (n = 4 => op = "daemon-reload") /\ (n = 3 => op = "enable")
        /\ (n = 2 => op = "restart") /\ (n = 1 => op = "reconnect")
    BY <1>2, NextOfSSHUpgrade
  <2> HIDE DEF op, n
  <2>2. /\ op \notin {"stop", "kill", "read_update", "read_end", "remove_opt"}
        /\ op = "read_own" => n = 9
        /\ n = 10 => op = "mv"
    BY <2>1
  <2>3. QED
    BY <1>2, <2>2 DEF op, n
<1>3. CASE k \in Upgrades
  <2>1. k \notin {"install", "ssh_upgrade", "uninstall", "service"}
    BY <1>3 DEF Upgrades
  <2>2. QED
    BY <1>3, <2>1, NextOfUpgrade
<1>4. CASE k = "uninstall"
  BY <1>4, NextOfUninstall
<1>5. CASE k = "service"
  BY <1>5, NextOfService
<1>6. QED
  BY <1>1, <1>2, <1>3, <1>4, <1>5 DEF Kinds

(* Where only the operator is active, one job at a time touches the files. *)
LEMMA OneWriter ==
    ASSUME DeployTypes, JobsInv, scenario = "operator", NEW j \in Kinds, NEW k \in Kinds,
           At(j, {"tmp_begin", "tmp_end", "rename", "sftp_begin", "sftp_end", "mv"}),
           At(k, {"tmp_begin", "tmp_end", "rename", "sftp_begin", "sftp_end", "mv"})
    PROVE  j = k
<1>1. /\ j \in {"install", "ssh_upgrade"} \cup Upgrades /\ k \in {"install", "ssh_upgrade"} \cup Upgrades
      /\ Left(j) > 0 /\ Left(k) > 0
  BY WhoIsAt, EmptyJob DEF At
<1>2. QED
  BY <1>1 DEF JobsInv

LEMMA EmptyLists ==
    /\ Rest(<<>>, InstallModeOps) /\ Rest(<<>>, upgradeRemoteNode)
    /\ Rest(<<>>, nodeUpgradeOps) /\ Rest(<<>>, DetachedUninstallOps)
    /\ Rest(InstallModeOps, InstallModeOps) /\ Rest(upgradeRemoteNode, upgradeRemoteNode)
    /\ Rest(nodeUpgradeOps, nodeUpgradeOps) /\ Rest(DetachedUninstallOps, DetachedUninstallOps)
  BY RestEnds, InstallTable, SSHUpgradeTable, UpgradeTable, UninstallTable

LEMMA InstallableFacts ==
    /\ OwnVersion \in Installable /\ Installable \subseteq {OwnVersion, Short, Mixed}
    /\ scenario # "operator" => Short \in Installable /\ Mixed \in Installable
    /\ OwnVersion \in Int /\ OwnVersion > 0
    /\ Cut \in Int /\ Short \in Int /\ Mixed \in Int /\ Lost \in Int
    /\ Cut < 0 /\ Short < 0 /\ Mixed < 0 /\ Lost < 0
    /\ Cut # Short /\ Cut # Mixed /\ Cut # Lost /\ Short # Mixed /\ Short # Lost /\ Mixed # Lost
  BY DeploymentAssumption DEF Installable, Cut, Short, Mixed, Lost

(* A job that has done its next operation. *)
OpDone(k, op) ==
    /\ Busy(k) /\ op = Head(jobs[k]) /\ Succeeds(k, op) /\ Effect(k, op)
    /\ jobs' = [j \in Kinds |-> IF Dies(op, j) THEN <<>> ELSE IF j = k THEN Tail(jobs[k]) ELSE jobs[j]]
    /\ file' = [j \in Kinds |-> IF Dies(op, j) THEN "none" ELSE FileAfter(k, op, j)]
    /\ UNCHANGED <<scenario, overlap, commands, crashes, uploads, uploadFaults>>

(* It leaves every other job where it is, or ends it with the daemon. *)
LEMMA JobAdvances ==
    ASSUME DeployTypes, JobsInv, NEW k \in Kinds, NEW op, OpDone(k, op)
    PROVE  /\ jobs' \in [Kinds -> Seq(OpNames)] /\ JobsInv'
           /\ jobs'[k] = Tail(jobs[k]) /\ Left(k)' = Left(k) - 1 /\ ~Dies(op, k)
           /\ \A j \in Kinds : j # k => /\ jobs'[j] = IF Dies(op, j) THEN <<>> ELSE jobs[j]
                                        /\ Left(j)' = IF Dies(op, j) THEN 0 ELSE Left(j)
<1>0. Busy(k) /\ op = Head(jobs[k]) /\ Effect(k, op) /\ scenario' = scenario
  BY DEF OpDone
<1>1. /\ Tail(jobs[k]) \in Seq(OpNames) /\ Len(Tail(jobs[k])) = Left(k) - 1 /\ Left(k) > 0
      /\ Left(k) = Len(jobs[k])
  <2>1. jobs[k] \in Seq(OpNames) /\ jobs[k] # <<>> /\ Left(k) = Len(jobs[k])
    BY <1>0 DEF DeployTypes, Busy, Left
  <2>2. QED
    BY <2>1
<1>2. ~Dies(op, k)
  BY <1>0, WhoIsAt DEF Dies, DaemonEnds, Upgrades
<1>3. /\ jobs'[k] = Tail(jobs[k])
      /\ \A j \in Kinds : j # k => jobs'[j] = IF Dies(op, j) THEN <<>> ELSE jobs[j]
  BY <1>2 DEF OpDone
<1>4. jobs' \in [Kinds -> Seq(OpNames)]
  <2>1. jobs' = [j \in Kinds |-> jobs'[j]]
    BY DEF OpDone
  <2>2. ASSUME NEW j \in Kinds PROVE jobs'[j] \in Seq(OpNames)
    <3>1. <<>> \in Seq(OpNames) /\ jobs[j] \in Seq(OpNames)
      BY DEF DeployTypes
    <3>2. QED
      BY <1>1, <1>3, <3>1
  <2>3. QED
    BY <2>1, <2>2
<1>5. /\ Left(k)' = Left(k) - 1
      /\ \A j \in Kinds : j # k => Left(j)' = IF Dies(op, j) THEN 0 ELSE Left(j)
  BY <1>1, <1>3 DEF Left
<1>6. \A j \in Kinds : Left(j)' <= Left(j) /\ Left(j) \in Nat /\ Left(j)' \in Nat
  BY <1>1, <1>5, EmptyJob
<1>7. /\ Rest(jobs'["install"], InstallModeOps) /\ Rest(jobs'["ssh_upgrade"], upgradeRemoteNode)
      /\ \A u \in Upgrades : Rest(jobs'[u], nodeUpgradeOps)
      /\ Rest(jobs'["uninstall"], DetachedUninstallOps)
      /\ Left("service")' <= 1
      /\ Left("service")' = 1 => jobs'["service"][1] \in {"stop", "restart", "start"}
  <2>1. /\ {"install", "ssh_upgrade", "uninstall", "service"} \subseteq Kinds /\ Upgrades \subseteq Kinds
        /\ \A j \in {"install", "ssh_upgrade", "uninstall", "service"} : ~Dies(op, j)
    BY DEF Kinds, Upgrades, Dies
  <2>2. Rest(jobs'["install"], InstallModeOps)
    BY <1>0, <1>3, <2>1, NextOfInstall DEF JobsInv
  <2>3. Rest(jobs'["ssh_upgrade"], upgradeRemoteNode)
    BY <1>0, <1>3, <2>1, NextOfSSHUpgrade DEF JobsInv
  <2>4. ASSUME NEW u \in Upgrades PROVE Rest(jobs'[u], nodeUpgradeOps)
    <3>1. CASE u = k
      BY <1>0, <1>3, <3>1, NextOfUpgrade
    <3>2. CASE u # k
      BY <1>3, <2>1, <3>2, EmptyLists DEF JobsInv
    <3>3. QED
      BY <3>1, <3>2
  <2>5. Rest(jobs'["uninstall"], DetachedUninstallOps)
    BY <1>0, <1>3, <2>1, NextOfUninstall DEF JobsInv
  <2>6. /\ Left("service")' <= 1
        /\ Left("service")' = 1 => jobs'["service"][1] \in {"stop", "restart", "start"}
    <3>1. CASE k = "service"
      BY <1>0, <1>5, <3>1, NextOfService
    <3>2. CASE k # "service"
      BY <1>3, <1>5, <2>1, <3>2 DEF JobsInv
    <3>3. QED
      BY <3>1, <3>2
  <2>7. QED
    BY <2>2, <2>3, <2>4, <2>5, <2>6
<1>8. JobsInv'
  <2>1. \A j \in Kinds : Left(j) = 0 => Left(j)' = 0
    BY <1>6
  <2>2. scenario = "gateway" => cli' = cli
    <3>1. ASSUME scenario = "gateway" PROVE op \notin {"ack", "reconnect"}
      <4>1. k \in Upgrades
        BY <1>1, <3>1 DEF JobsInv
      <4>2. QED
        BY <1>0, <4>1, WhoIsAt DEF Upgrades
    <3>2. QED
      BY <1>0, <3>1 DEF Effect
  <2>3. Upgrades \subseteq Kinds /\ {"install", "ssh_upgrade"} \subseteq Kinds
    BY DEF Kinds
  <2>4. QED
    BY <1>0, <1>7, <2>1, <2>2, <2>3 DEF JobsInv
<1>9. QED
  BY <1>2, <1>3, <1>4, <1>5, <1>8

(* Who is at an operation after the step was at it before, or is the job   *)
(* that has moved on.                                                      *)
LEMMA AtBefore ==
    ASSUME DeployTypes, JobsInv, NEW k \in Kinds, NEW op, OpDone(k, op), NEW j \in Kinds, j # k,
           jobs'[j] # <<>>
    PROVE  jobs'[j] = jobs[j] /\ Busy(j) /\ ~Dies(op, j)
  BY JobAdvances DEF Busy

LEMMA AtNext ==
    ASSUME DeployTypes, JobsInv, NEW k \in Kinds, NEW op, OpDone(k, op)
    PROVE  /\ jobs'[k] # <<>> => Follows(op, Head(jobs'[k]))
           /\ jobs'[k] = <<>> => op \notin {"tmp_begin", "sftp_begin"}
<1>1. Busy(k) /\ op = Head(jobs[k]) /\ jobs'[k] = Tail(jobs[k])
  BY JobAdvances DEF OpDone
<1>2. QED
  BY <1>1, NextFollows

LEMMA CutOfUpload ==
    ASSUME upload \in UploadRecords
    PROVE  /\ UploadCut \in UploadRecords /\ ~UploadCut.open
           /\ ~upload.open => UploadCut = upload
  BY DEF UploadCut, UploadRecords

LEMMA EffectTypes ==
    ASSUME DeployTypes, JobsInv, FilesInv, NEW k \in Kinds, NEW op, OpDone(k, op)
    PROVE  DeployTypes'
<1>1. Effect(k, op) /\ UNCHANGED <<scenario, overlap, crashes>>
  BY DEF OpDone
<1>2. update \in Int /\ bin \in Int
  BY InstallableFacts DEF FilesInv
<1>3. copied' \in [Kinds -> Int]
  <2>1. ReadBy(k, op) \in Int
    BY <1>2, InstallableFacts DEF ReadBy
  <2>2. InMemory(k, op) \in Int
    BY <2>1 DEF DeployTypes, InMemory
  <2>3. QED
    BY <1>1, <2>2 DEF DeployTypes, Effect
<1>4. file' \in [Kinds -> Places]
  <2>1. \A j \in Kinds : FileAfter(k, op, j) \in Places
    BY DEF FileAfter, Moved, Places, DeployTypes
  <2>2. QED
    BY <2>1 DEF OpDone, Places
<1>5. /\ unit' \in BOOLEAN /\ loaded' \in BOOLEAN /\ enabled' \in BOOLEAN /\ starting' \in BOOLEAN
      /\ hole' \in BOOLEAN /\ spoiled' \in BOOLEAN
  BY <1>1 DEF DeployTypes, Effect
<1>6. upload' \in UploadRecords
  BY <1>1, CutOfUpload DEF DeployTypes, Effect
<1>7. jobs' \in [Kinds -> Seq(OpNames)]
  BY JobAdvances
<1>8. QED
  BY <1>1, <1>3, <1>4, <1>5, <1>6, <1>7 DEF DeployTypes

LEMMA EffectFlags ==
    ASSUME DeployTypes, NEW k, NEW op, Effect(k, op)
    PROVE  /\ op = "write_unit" => unit'
           /\ unit /\ op # "remove_unit" => unit'
           /\ op = "enable" => enabled'
           /\ enabled /\ op # "disable" => enabled'
           /\ starting' => op \in {"restart", "start"} \/ (starting /\ op # "stop")
<1>1. /\ unit' = (op = "write_unit" \/ (unit /\ op # "remove_unit"))
      /\ enabled' = (op = "enable" \/ (enabled /\ op # "disable"))
      /\ starting' = (op \in {"restart", "start"} \/ (starting /\ op # "stop"))
  BY DEF Effect
<1>2. QED
  BY <1>1, Zenon

LEMMA NoUploadFacts ==
    NoUpload \in UploadRecords /\ NoUpload.step = "idle" /\ ~NoUpload.open /\ ~NoUpload.eof
    /\ NoUpload.sent = 0 /\ NoUpload.got = 0
  BY DEF NoUpload, UploadRecords

(* What an operation leaves in the files and in memory. *)
LEMMA FilesAdvance ==
    ASSUME DeployTypes, JobsInv, FilesInv, CutInv, NEW k \in Kinds, NEW op, OpDone(k, op)
    PROVE  /\ FilesInv' /\ CutInv' /\ Installable' = Installable
           /\ op \in {"rename", "mv"} => bin' \in Installable
           /\ bin \in Installable /\ op # "remove_opt" => bin' \in Installable
           /\ bin' \in {0, bin} \cup Installable
<1>1. /\ Busy(k) /\ op = Head(jobs[k]) /\ Succeeds(k, op) /\ Effect(k, op)
      /\ UNCHANGED <<scenario, crashes>>
      /\ \A j \in Kinds : file'[j] = IF Dies(op, j) THEN "none" ELSE FileAfter(k, op, j)
      /\ \A j \in Kinds : copied'[j] = IF Dies(op, j) THEN 0 ELSE IF j = k THEN InMemory(k, op)
                                       ELSE copied[j]
  BY DEF OpDone, Effect
<1>2. Installable' = Installable
  BY <1>1 DEF Installable
<1>3. op \in {"tmp_end", "sftp_end", "rename", "mv"} => Replaces(k)
  BY <1>1 DEF Replaces, At
<1>4. op \in {"tmp_begin", "sftp_begin"} => Truncated(k) \in {Cut} \cup Installable
  <2>1. ASSUME op \in {"tmp_begin", "sftp_begin"}, NEW j \in Kinds, j # k, Replaces(j)
        PROVE  scenario # "operator"
    <3>1. /\ At(k, {"tmp_begin", "tmp_end", "rename", "sftp_begin", "sftp_end", "mv"})
          /\ At(j, {"tmp_begin", "tmp_end", "rename", "sftp_begin", "sftp_end", "mv"})
      BY <1>1, <2>1 DEF At, Replaces
    <3>2. QED
      BY <2>1, <3>1, OneWriter
  <2>2. QED
    BY <2>1, InstallableFacts DEF Truncated
<1>5. ASSUME op \in {"tmp_end", "sftp_end"}, NEW old PROVE Written(k, op, old) \in Installable
  <2>1. op = "tmp_end" => copied[k] \in Installable
    BY <1>1 DEF FilesInv, At
  <2>2. hole => Mixed \in Installable
    BY InstallableFacts DEF FilesInv
  <2>3. QED
    BY <1>5, <2>1, <2>2, InstallableFacts DEF Written
<1>6. op \in {"rename", "mv"} => tmp \in Installable
  <2>1. ASSUME op \in {"rename", "mv"} PROVE tmp # 0 /\ tmp # Cut
    <3>1. tmp # 0
      BY <1>1, <2>1 DEF Succeeds
    <3>2. ~At(k, {"tmp_end", "sftp_end"})
      BY <1>1, <2>1 DEF At
    <3>3. QED
      BY <1>3, <2>1, <3>1, <3>2 DEF CutInv
  <2>2. QED
    BY <2>1 DEF FilesInv
<1>7. /\ tmp' \in {0, Cut} \cup Installable
      /\ tmp' = Cut => op \in {"tmp_begin", "sftp_begin"} \/ (tmp = Cut /\ ~WritesTo(k, op, "tmp"))
      /\ op \in {"rename", "mv", "remove_opt"} => tmp' = 0
  <2>1. WritesTo(k, op, "tmp") => Written(k, op, tmp) \in Installable
    BY <1>5 DEF WritesTo
  <2>2. tmp' = IF op \in {"tmp_begin", "sftp_begin"} THEN Truncated(k)
               ELSE IF WritesTo(k, op, "tmp") THEN Written(k, op, tmp)
               ELSE IF op \in {"rename", "mv", "remove_opt"} THEN 0 ELSE tmp
    BY <1>1 DEF Effect
  <2>3. Cut \notin Installable /\ Cut # 0
    BY InstallableFacts
  <2>4. op \in {"rename", "mv", "remove_opt"} => ~WritesTo(k, op, "tmp")
    BY DEF WritesTo
  <2>5. tmp \in {0, Cut} \cup Installable
    BY DEF FilesInv
  <2>6. QED
    BY <1>4, <2>1, <2>2, <2>3, <2>4, <2>5
<1>8. /\ op \in {"rename", "mv"} => bin' \in Installable
      /\ bin \in Installable /\ op # "remove_opt" => bin' \in Installable
      /\ bin' \in {0, bin} \cup Installable
  <2>1. WritesTo(k, op, "bin") => Written(k, op, bin) \in Installable
    BY <1>5 DEF WritesTo
  <2>2. bin' = IF op \in {"rename", "mv"} THEN tmp ELSE IF op = "remove_opt" THEN 0
               ELSE IF WritesTo(k, op, "bin") THEN Written(k, op, bin) ELSE bin
    BY <1>1 DEF Effect
  <2>3. QED
    BY <1>6, <2>1, <2>2
<1>9. update' = update /\ update \in {0} \cup Installable
  BY <1>1 DEF Effect, FilesInv
<1>10. op \in {"read_update", "read_own"} => ReadBy(k, op) \in Installable
  <2>1. CASE op = "read_update"
    BY <1>1, <1>9, <2>1 DEF Succeeds, ReadBy
  <2>2. CASE op = "read_own" /\ k = "ssh_upgrade"
    <3>1. bin \in {0} \cup Installable /\ bin > 0
      BY <1>1, <2>2, WhoIsAt DEF Succeeds, FilesInv
    <3>2. QED
      BY <2>2, <3>1, InstallableFacts DEF ReadBy
  <2>3. CASE op = "read_own" /\ k # "ssh_upgrade"
    BY <2>3, InstallableFacts DEF ReadBy
  <2>4. QED
    BY <2>1, <2>2, <2>3
<1>11. ASSUME NEW j \in Kinds
       PROVE  /\ copied'[j] \in {0} \cup Installable
              /\ At(j, {"read_end", "tmp_begin", "tmp_end"})' => copied'[j] \in Installable
  <2>1. CASE j = k
    <3>1. ~Dies(op, k)
      BY JobAdvances
    <3>2. copied'[k] = InMemory(k, op)
      BY <1>1, <3>1
    <3>3. op \in {"read_end", "tmp_begin"} => copied[k] \in Installable
      BY <1>1 DEF FilesInv, At
    <3>4. op \in {"read_update", "read_own", "read_end", "tmp_begin"} => copied'[k] \in Installable
      BY <1>10, <3>2, <3>3 DEF InMemory
    <3>5. op \notin {"read_update", "read_own", "read_end", "tmp_begin"} => copied'[k] = 0
      BY <3>2 DEF InMemory
    <3>6. At(k, {"read_end", "tmp_begin", "tmp_end"})' =>
              op \in {"read_update", "read_own", "read_end", "tmp_begin"}
      BY AtNext DEF At, Busy, Follows
    <3>7. QED
      BY <2>1, <3>4, <3>5, <3>6
  <2>2. CASE j # k
    <3>1. copied'[j] \in {0, copied[j]}
      BY <1>1, <2>2
    <3>2. ASSUME At(j, {"read_end", "tmp_begin", "tmp_end"})'
          PROVE  copied'[j] = copied[j] /\ At(j, {"read_end", "tmp_begin", "tmp_end"})
      <4>1. jobs'[j] = jobs[j] /\ Busy(j) /\ ~Dies(op, j)
        BY <2>2, <3>2, AtBefore DEF At, Busy
      <4>2. QED
        BY <1>1, <2>2, <3>2, <4>1 DEF At, Busy
    <3>3. QED
      BY <3>1, <3>2 DEF FilesInv
  <2>3. QED
    BY <2>1, <2>2
<1>12. (Left("ssh_upgrade") = 9)' => bin' \in {0} \cup Installable
  <2>1. "ssh_upgrade" \in Kinds /\ Left("ssh_upgrade") \in Nat
    BY EmptyJob DEF Kinds
  <2>2. CASE k = "ssh_upgrade"
    <3>1. (Left("ssh_upgrade") = 9)' => Left("ssh_upgrade") = 10
      BY <2>1, <2>2, JobAdvances
    <3>2. Left("ssh_upgrade") = 10 => op = "mv"
      BY <1>1, <2>2, WhoIsAt
    <3>3. QED
      BY <1>8, <3>1, <3>2
  <2>3. CASE k # "ssh_upgrade"
    <3>1. (Left("ssh_upgrade") = 9)' => Left("ssh_upgrade") = 9
      BY <2>1, <2>3, JobAdvances
    <3>2. QED
      BY <1>8, <3>1 DEF FilesInv
  <2>4. QED
    BY <2>2, <2>3
<1>13. hole' => scenario # "operator"
  <2>1. ASSUME op = "tmp_begin", k # "ssh_upgrade", At("ssh_upgrade", {"sftp_end"})
        PROVE  scenario # "operator"
    <3>1. /\ At(k, {"tmp_begin", "tmp_end", "rename", "sftp_begin", "sftp_end", "mv"})
          /\ At("ssh_upgrade", {"tmp_begin", "tmp_end", "rename", "sftp_begin", "sftp_end", "mv"})
          /\ "ssh_upgrade" \in Kinds
      BY <1>1, <2>1 DEF At, Kinds
    <3>2. QED
      BY <2>1, <3>1, OneWriter
  <2>2. hole => scenario # "operator"
    BY DEF FilesInv
  <2>3. QED
    BY <1>1, <2>1, <2>2 DEF Effect
<1>14. FilesInv'
  <2>1. bin' \in {0, OwnVersion - 1, Lost} \cup Installable
    BY <1>8 DEF FilesInv
  <2>2. bin' = Lost => crashes > 0
    BY <1>8, InstallableFacts DEF FilesInv
  <2>3. QED
    BY <1>1, <1>2, <1>7, <1>9, <1>11, <1>12, <1>13, <2>1, <2>2 DEF FilesInv
<1>15. CutInv'
  <2> SUFFICES ASSUME tmp' = Cut, NEW i \in Kinds, Replaces(i)'
               PROVE  /\ At(i, {"tmp_end", "sftp_end"})' /\ file'[i] = "tmp"
                      /\ \A j \in Kinds : Replaces(j)' => j = i
    BY DEF CutInv
  <2>1. op \notin {"rename", "mv", "remove_opt"}
    BY <1>7, InstallableFacts
  <2>2. \A j \in Kinds : Replaces(j)' /\ j # k =>
            /\ Replaces(j) /\ At(j, {"tmp_end", "sftp_end"})' = At(j, {"tmp_end", "sftp_end"})
            /\ file'[j] = file[j]
    <3>1. ASSUME NEW j \in Kinds, Replaces(j)', j # k PROVE jobs'[j] = jobs[j] /\ file'[j] = file[j]
      <4>1. jobs'[j] = jobs[j] /\ ~Dies(op, j)
        BY <3>1, AtBefore DEF Replaces, At, Busy
      <4>2. QED
        BY <1>1, <2>1, <3>1, <4>1 DEF FileAfter
    <3>2. QED
      BY <3>1 DEF Replaces, At, Busy
  <2>3. CASE op \in {"tmp_begin", "sftp_begin"}
    <3>1. \A j \in Kinds : Replaces(j) => j = k
      <4>1. Truncated(k) = Cut
        BY <1>1, <2>3 DEF Effect
      <4>2. QED
        BY <4>1, InstallableFacts DEF Truncated
    <3>2. At(k, {"tmp_end", "sftp_end"})'
      BY <2>3, AtNext DEF At, Busy, Follows
    <3>3. file'[k] = "tmp"
      BY <1>1, <2>3, JobAdvances DEF FileAfter
    <3>4. QED
      BY <2>2, <3>1, <3>2, <3>3
  <2>4. CASE op \notin {"tmp_begin", "sftp_begin"}
    <3>1. tmp = Cut /\ ~WritesTo(k, op, "tmp")
      BY <1>7, <2>4
    <3>2. op \notin {"tmp_end", "sftp_end"}
      BY <1>3, <3>1 DEF CutInv, WritesTo
    <3>3. ~Replaces(k)'
      BY <2>4, <3>2, AtNext DEF Replaces, At, Busy, Follows
    <3>4. QED
      BY <2>2, <3>1, <3>3 DEF CutInv
  <2>5. QED
    BY <2>3, <2>4
<1>16. QED
  BY <1>2, <1>8, <1>14, <1>15

(* What an operation leaves of an unspoiled upload. *)
LEMMA UploadAdvances ==
    ASSUME DeployTypes, JobsInv, SpoilInv, NEW k \in Kinds, NEW op, OpDone(k, op)
    PROVE  SpoilInv'
<1> SUFFICES ASSUME ~spoiled' PROVE bin' # Short /\ tmp' # Short /\ (\A j \in Kinds : copied'[j] # Short) /\ UploadInv'
  BY DEF SpoilInv
<1>1. /\ Busy(k) /\ op = Head(jobs[k]) /\ Effect(k, op)
      /\ \A j \in Kinds : copied'[j] = IF Dies(op, j) THEN 0 ELSE IF j = k THEN InMemory(k, op)
                                       ELSE copied[j]
  BY DEF OpDone, Effect
<1>2. ~spoiled /\ (DaemonEnds(op) => ~upload.open)
  BY <1>1 DEF Effect, DeployTypes
<1>3. bin # Short /\ tmp # Short /\ (\A j \in Kinds : copied[j] # Short) /\ UploadInv
  BY <1>2 DEF SpoilInv
<1>4. /\ \A old : old # Short => Written(k, op, old) # Short
      /\ Truncated(k) # Short /\ 0 # Short
  BY <1>3, InstallableFacts DEF Written, Truncated
<1>5. bin' # Short
  BY <1>1, <1>3, <1>4 DEF Effect
<1>6. tmp' # Short
  BY <1>1, <1>3, <1>4 DEF Effect
<1>7. ASSUME NEW j \in Kinds PROVE copied'[j] # Short
  <2>1. op = "read_update" => update # Short
    <3>1. op = "read_update" => k \in Upgrades /\ At(k, {"read_update", "read_end"})
      BY <1>1, WhoIsAt DEF At
    <3>2. QED
      BY <1>3, <3>1, InstallableFacts DEF UploadInv
  <2>2. ReadBy(k, op) # Short
    BY <1>3, <2>1, InstallableFacts DEF ReadBy
  <2>3. InMemory(k, op) # Short
    BY <1>3, <1>4, <2>2 DEF InMemory
  <2>4. QED
    BY <1>1, <1>3, <1>4, <2>3
<1>8. upload' = upload /\ update' = update
  BY <1>1, <1>2, CutOfUpload DEF Effect, DeployTypes
<1>9. ASSUME NEW u \in Upgrades, At(u, {"read_update", "read_end"})'
      PROVE  At(u, {"read_update", "read_end"})
  <2>1. u \in Kinds
    BY DEF Kinds
  <2>2. CASE u = k
    BY <1>1, <1>9, <2>2, AtNext DEF At, Busy, Follows
  <2>3. CASE u # k
    BY <1>9, <2>1, <2>3, AtBefore DEF At, Busy
  <2>4. QED
    BY <2>2, <2>3
<1>10. UploadInv'
  BY <1>3, <1>8, <1>9 DEF UploadInv
<1>11. QED
  BY <1>5, <1>6, <1>7, <1>10

LEMMA InstallProgresses ==
    ASSUME DeployInv, ~overlap, NEW op, OpDone("install", op)
    PROVE  ProgressInv'
<1> DEFINE n == Left("install")
<1>0. DeployTypes /\ JobsInv /\ FilesInv /\ CutInv /\ ProgressInv /\ "install" \in Kinds
  BY DEF DeployInv, Kinds
<1>1. /\ n \in 1..12 /\ Left("install")' = n - 1
      /\ (n = 12 => op = "ident_begin") /\ (n = 11 => op = "ident_end")
      /\ (n = 10 => op = "save_config") /\ (n = 9 => op = "read_own")
      /\ (n = 8 => op = "tmp_begin") /\ (n = 7 => op = "tmp_end")
      /\ (n = 6 => op = "rename") /\ (n = 5 => op = "write_unit")
      /\ (n = 4 => op = "daemon-reload") /\ (n = 3 => op = "enable")
      /\ (n = 2 => op = "restart") /\ (n = 1 => op = "ack")
  BY <1>0, NextOfInstall, JobAdvances DEF OpDone
<1>2. /\ Left("ssh_upgrade")' = Left("ssh_upgrade") /\ Left("uninstall")' = Left("uninstall")
      /\ Left("service")' = Left("service")
  BY <1>0, JobAdvances DEF Dies, Kinds, Upgrades
<1>3. Left("ssh_upgrade") = 0
  BY <1>0, <1>1 DEF JobsInv
<1>4. /\ op = "write_unit" => unit'
      /\ unit /\ op # "remove_unit" => unit'
      /\ op = "enable" => enabled'
      /\ enabled /\ op # "disable" => enabled'
  BY <1>0, EffectFlags DEF OpDone
<1>5. cli = "running" /\ Left("uninstall") = 0 /\ Left("service") = 0
  BY <1>0, <1>1 DEF ProgressInv
<1>6. Effect("install", op) /\ Installable' = Installable
  BY <1>0, FilesAdvance DEF OpDone
<1>7. n - 1 \in 0..5 => bin' \in Installable
  <2>1. n = 6 => bin' \in Installable
    BY <1>0, <1>1, FilesAdvance
  <2>2. n \in 1..5 => bin \in Installable /\ op # "remove_opt"
    BY <1>0, <1>1 DEF ProgressInv
  <2>3. QED
    BY <1>0, <1>1, <2>1, <2>2, FilesAdvance
<1> HIDE DEF n
<1>8. (n = 1 => cli' = "acked") /\ (n # 1 => cli' = "running")
  BY <1>1, <1>5, <1>6 DEF Effect
<1>9. n - 1 \in 1..10 \/ n = 1 => ident' = "ok"
  BY <1>0, <1>1, <1>6 DEF Effect, ProgressInv, n
<1>10. proc' # 0 => ident' = "ok" \/ n - 1 = 11
  BY <1>0, <1>1, <1>6 DEF Effect, DaemonEnds, ProgressInv, n
<1>11. n - 1 \in 0..4 => unit'
  BY <1>0, <1>1, <1>4 DEF ProgressInv, n
<1>12. n - 1 \in 0..3 => loaded'
  BY <1>0, <1>1, <1>6 DEF Effect, ProgressInv, n
<1>13. n - 1 \in 0..2 => enabled'
  BY <1>0, <1>1, <1>4 DEF ProgressInv, n
<1>14. QED
  BY <1>1, <1>2, <1>3, <1>5, <1>6, <1>7, <1>8, <1>9, <1>10, <1>11, <1>12, <1>13 DEF ProgressInv

LEMMA SSHUpgradeProgresses ==
    ASSUME DeployInv, ~overlap, NEW op, OpDone("ssh_upgrade", op)
    PROVE  ProgressInv'
<1> DEFINE n == Left("ssh_upgrade")
<1>0. DeployTypes /\ JobsInv /\ FilesInv /\ CutInv /\ ProgressInv /\ "ssh_upgrade" \in Kinds
  BY DEF DeployInv, Kinds
<1>1. /\ n \in 1..12 /\ Left("ssh_upgrade")' = n - 1
      /\ (n = 12 => op = "sftp_begin") /\ (n = 11 => op = "sftp_end")
      /\ (n = 10 => op = "mv") /\ (n = 9 => op = "read_own")
      /\ (n = 8 => op = "tmp_begin") /\ (n = 7 => op = "tmp_end")
      /\ (n = 6 => op = "rename") /\ (n = 5 => op = "write_unit")
      /\ (n = 4 => op = "daemon-reload") /\ (n = 3 => op = "enable")
      /\ (n = 2 => op = "restart") /\ (n = 1 => op = "reconnect")
  BY <1>0, NextOfSSHUpgrade, JobAdvances DEF OpDone
<1>2. /\ Left("install")' = Left("install") /\ Left("uninstall")' = Left("uninstall")
      /\ Left("service")' = Left("service")
  BY <1>0, JobAdvances DEF Dies, Kinds, Upgrades
<1>3. Left("install") = 0
  BY <1>0, <1>1 DEF JobsInv
<1>4. /\ op = "write_unit" => unit'
      /\ unit /\ op # "remove_unit" => unit'
      /\ op = "enable" => enabled'
      /\ enabled /\ op # "disable" => enabled'
  BY <1>0, EffectFlags DEF OpDone
<1>5. cli = "running" /\ Left("uninstall") = 0 /\ Left("service") = 0 /\ ident = "ok"
  BY <1>0, <1>1 DEF ProgressInv
<1>6. Effect("ssh_upgrade", op) /\ Installable' = Installable
  BY <1>0, FilesAdvance DEF OpDone
<1>7. n - 1 \in 0..9 => bin' \in Installable
  <2>1. n = 10 => bin' \in Installable
    BY <1>0, <1>1, FilesAdvance
  <2>2. n \in 1..9 => bin \in Installable
    BY <1>0 DEF ProgressInv
  <2>3. op # "remove_opt"
    BY <1>0, WhoIsAt DEF OpDone
  <2>4. QED
    BY <1>0, <1>1, <2>1, <2>2, <2>3, FilesAdvance
<1> HIDE DEF n
<1>8. (n = 1 => cli' = "acked") /\ (n # 1 => cli' = "running")
  BY <1>1, <1>5, <1>6 DEF Effect
<1>9. ident' = "ok"
  BY <1>1, <1>5, <1>6 DEF Effect
<1>10. n - 1 \in 0..4 => unit'
  BY <1>0, <1>1, <1>4 DEF ProgressInv, n
<1>11. n - 1 \in 0..3 => loaded'
  BY <1>0, <1>1, <1>6 DEF Effect, ProgressInv, n
<1>12. n - 1 \in 0..2 => enabled'
  BY <1>0, <1>1, <1>4 DEF ProgressInv, n
<1>13. QED
  BY <1>1, <1>2, <1>3, <1>5, <1>6, <1>7, <1>8, <1>9, <1>10, <1>11, <1>12 DEF ProgressInv

(* An automatic upgrade may replace the binary by another it may install,  *)
(* and disturbs nothing else of the operator's.                            *)
LEMMA UpgradeProgresses ==
    ASSUME DeployInv, ~overlap, NEW k \in Upgrades, NEW op, OpDone(k, op)
    PROVE  ProgressInv'
<1>0. DeployTypes /\ JobsInv /\ FilesInv /\ CutInv /\ ProgressInv /\ k \in Kinds
  BY DEF DeployInv, Kinds
<1>1. /\ Left(k) \in 1..7 /\ Left(k)' = Left(k) - 1
      /\ op \in {"read_update", "read_end", "tmp_begin", "tmp_end", "rename", "daemon-reload", "restart"}
  BY <1>0, NextOfUpgrade, JobAdvances DEF OpDone
<1>2. /\ Left("install")' = Left("install") /\ Left("ssh_upgrade")' = Left("ssh_upgrade")
      /\ Left("uninstall")' = Left("uninstall") /\ Left("service")' = Left("service")
      /\ \A u \in Upgrades : Left(u) = 0 => Left(u)' = 0
  BY <1>0, <1>1, JobAdvances DEF Dies, Kinds, Upgrades
<1>3. /\ ident' = ident /\ proc' = proc /\ cli' = cli
      /\ (unit => unit') /\ (enabled => enabled') /\ (unit /\ loaded => loaded')
      /\ (bin \in Installable => bin' \in Installable)
      /\ Installable' = Installable
  <2>1. /\ ident' = ident /\ proc' = proc /\ cli' = cli /\ (unit /\ loaded => loaded')
    BY <1>1 DEF OpDone, Effect, DaemonEnds
  <2>2. (unit => unit') /\ (enabled => enabled')
    BY <1>0, <1>1, EffectFlags DEF OpDone
  <2>3. QED
    BY <1>0, <1>1, <2>1, <2>2, FilesAdvance
<1>4. Left("uninstall") \notin 1..5
  BY <1>0, <1>1 DEF ProgressInv
<1>5. \A j \in {"install", "ssh_upgrade"} :
        /\ (Left(j)' \in 1..5 => bin' \in Installable)
        /\ (Left(j)' \in 1..4 => unit')
        /\ (Left(j)' \in 1..3 => loaded')
        /\ (Left(j)' \in 1..2 => enabled')
  <2> TAKE j \in {"install", "ssh_upgrade"}
  <2>1. /\ Left(j) \in 1..5 => bin \in Installable
        /\ Left(j) \in 1..4 => unit
        /\ Left(j) \in 1..3 => loaded
        /\ Left(j) \in 1..2 => enabled
    BY <1>0 DEF ProgressInv
  <2>2. Left(j)' = Left(j)
    BY <1>2
  <2>3. Left(j) \in 1..3 => unit /\ loaded
    BY <2>1
  <2>4. QED
    BY <1>3, <2>1, <2>2, <2>3
<1>6. /\ cli \in {"running", "acked"} => Left("uninstall") = 0 /\ Left("service") = 0
      /\ (Left("install") > 0 \/ Left("ssh_upgrade") > 0 => cli = "running")
      /\ (Left("uninstall") = 0 \/ Left("service") = 0)
      /\ (proc # 0 => ident = "ok" \/ Left("install") = 11)
      /\ (Left("install") \in 1..10 \/ Left("ssh_upgrade") > 0 => ident = "ok")
      /\ (Left("ssh_upgrade") \in 1..9 => bin \in Installable)
      /\ (cli = "acked" => /\ bin \in Installable /\ ident = "ok" /\ unit /\ loaded /\ enabled
                           /\ Left("install") = 0 /\ Left("ssh_upgrade") = 0)
  BY <1>0 DEF ProgressInv
<1>7. QED
  BY <1>2, <1>3, <1>4, <1>5, <1>6 DEF ProgressInv

LEMMA UninstallProgresses ==
    ASSUME DeployInv, ~overlap, NEW op, OpDone("uninstall", op)
    PROVE  ProgressInv'
<1> DEFINE n == Left("uninstall")
<1>0. DeployTypes /\ JobsInv /\ FilesInv /\ CutInv /\ ProgressInv /\ "uninstall" \in Kinds
  BY DEF DeployInv, Kinds
<1>1. /\ n \in 1..6 /\ Left("uninstall")' = n - 1
      /\ (n = 6 => op = "stop") /\ (n = 5 => op = "disable")
      /\ (n = 4 => op = "remove_unit") /\ (n = 3 => op = "daemon-reload")
      /\ (n = 2 => op = "kill") /\ (n = 1 => op = "remove_opt")
  BY <1>0, NextOfUninstall, JobAdvances DEF OpDone
<1>2. /\ Left("install")' = Left("install") /\ Left("ssh_upgrade")' = Left("ssh_upgrade")
      /\ Left("service")' = Left("service")
      /\ \A u \in Upgrades : Left(u)' = IF op \in {"stop", "kill"} THEN 0 ELSE Left(u)
  BY <1>0, JobAdvances DEF Dies, DaemonEnds, Kinds, Upgrades
<1>3. /\ cli \notin {"running", "acked"} /\ Left("install") = 0 /\ Left("ssh_upgrade") = 0
      /\ Left("service") = 0
  <2>1. Left("install") \in Nat /\ Left("ssh_upgrade") \in Nat
    BY <1>0, EmptyJob DEF Kinds
  <2>2. QED
    BY <1>0, <1>1, <2>1 DEF ProgressInv
<1>4. Effect("uninstall", op)
  BY DEF OpDone
<1> HIDE DEF n
<1>5. cli' = cli
  BY <1>1, <1>4 DEF Effect
<1>6. proc' = 0 /\ \A u \in Upgrades : Left(u)' = 0
  BY <1>0, <1>1, <1>2, <1>4 DEF ProgressInv, Effect, DaemonEnds, n
<1>7. ~starting'
  <2>1. starting' => op \in {"restart", "start"} \/ (starting /\ op # "stop")
    BY <1>0, <1>4, EffectFlags
  <2>2. QED
    BY <1>0, <1>1, <2>1 DEF ProgressInv, n
<1>8. QED
  BY <1>2, <1>3, <1>5, <1>6, <1>7 DEF ProgressInv

LEMMA ServiceProgresses ==
    ASSUME DeployInv, ~overlap, NEW op, OpDone("service", op)
    PROVE  ProgressInv'
<1>0. DeployTypes /\ JobsInv /\ FilesInv /\ CutInv /\ ProgressInv /\ "service" \in Kinds
  BY DEF DeployInv, Kinds
<1>1. Left("service") = 1 /\ Left("service")' = 0 /\ op \in {"stop", "restart", "start"}
  BY <1>0, NextOfService, JobAdvances DEF OpDone
<1>2. /\ Left("install")' = Left("install") /\ Left("ssh_upgrade")' = Left("ssh_upgrade")
      /\ Left("uninstall")' = Left("uninstall")
  BY <1>0, JobAdvances DEF Dies, Kinds, Upgrades
<1>3. /\ cli \notin {"running", "acked"} /\ Left("install") = 0 /\ Left("ssh_upgrade") = 0
      /\ Left("uninstall") = 0
  <2>1. Left("install") \in Nat /\ Left("ssh_upgrade") \in Nat
    BY <1>0, EmptyJob DEF Kinds
  <2>2. QED
    BY <1>0, <1>1, <2>1 DEF ProgressInv
<1>4. (proc' = 0 \/ proc' = proc) /\ ident' = ident /\ cli' = cli
  BY <1>1 DEF OpDone, Effect
<1>5. QED
  BY <1>0, <1>1, <1>2, <1>3, <1>4 DEF ProgressInv

LEMMA OpSucceeds ==
    ASSUME DeployInv, NEW k \in Kinds, NEW op, OpDone(k, op)
    PROVE  DeployInv'
<1>1. DeployTypes /\ JobsInv /\ FilesInv /\ CutInv /\ SpoilInv
  BY DEF DeployInv
<1>2. DeployTypes' /\ JobsInv' /\ FilesInv' /\ CutInv' /\ SpoilInv'
  BY <1>1, EffectTypes, JobAdvances, FilesAdvance, UploadAdvances
<1>3. ASSUME ~overlap' PROVE ProgressInv'
  <2>1. ~overlap
    BY <1>3 DEF OpDone
  <2>2. QED
    BY <2>1, InstallProgresses, SSHUpgradeProgresses, UpgradeProgresses, UninstallProgresses,
       ServiceProgresses DEF Kinds
<1>4. QED
  BY <1>2, <1>3 DEF DeployInv

LEMMA DeployInitInv == DeployInit => DeployInv
<1> SUFFICES ASSUME DeployInit PROVE DeployInv
  OBVIOUS
<1>1. \A k \in Kinds : jobs[k] = <<>> /\ Left(k) = 0 /\ copied[k] = 0 /\ ~Busy(k)
  BY DEF DeployInit, Left, Busy
<1>2. /\ bin \in {0, OwnVersion - 1} /\ (proc # 0 => ident = "ok")
      /\ tmp = 0 /\ update = 0 /\ upload = NoUpload /\ hole = FALSE /\ spoiled = FALSE
  BY DEF DeployInit
<1>3. DeployTypes
  <2>1. <<>> \in Seq(OpNames)
    OBVIOUS
  <2>2. jobs \in [Kinds -> Seq(OpNames)] /\ copied \in [Kinds -> Int] /\ file \in [Kinds -> Places]
    BY <2>1 DEF DeployInit, Places
  <2>3. scenario \in {"operator", "gateway", "both"}
    BY DeploymentAssumption DEF DeployInit
  <2>4. {unit, loaded, enabled, starting, overlap, hole, spoiled} \subseteq BOOLEAN /\ crashes \in Nat
    BY DEF DeployInit
  <2>5. QED
    BY <1>2, <2>2, <2>3, <2>4, NoUploadFacts DEF DeployTypes
<1>4. JobsInv
  BY <1>1, EmptyLists DEF JobsInv, DeployInit, Kinds, Upgrades
<1>5. FilesInv /\ CutInv
  BY <1>1, <1>2, InstallableFacts DEF FilesInv, CutInv, At, Kinds
<1>6. SpoilInv
  <2>1. UploadChunks \in Nat /\ UploadChunks # 0
    BY DeploymentAssumption
  <2>2. UploadInv
    <3>1. \A u \in Upgrades : ~At(u, {"read_update", "read_end"})
      BY <1>1 DEF At, Kinds
    <3>2. QED
      BY <1>2, <2>1, <3>1, NoUploadFacts DEF UploadInv
  <2>3. QED
    BY <1>1, <1>2, <2>2, InstallableFacts DEF SpoilInv
<1>7. ProgressInv
  <2>1. /\ cli = "idle" /\ Left("install") = 0 /\ Left("ssh_upgrade") = 0
        /\ Left("uninstall") = 0 /\ Left("service") = 0
    BY <1>1 DEF DeployInit, Kinds
  <2>2. QED
    BY <1>2, <2>1 DEF ProgressInv
<1>8. QED
  BY <1>3, <1>4, <1>5, <1>6, <1>7 DEF DeployInv

(* Jobs that end leave the others where they are. *)
LEMMA JobsEnd ==
    ASSUME DeployTypes, JobsInv, NEW D,
           jobs' = [j \in Kinds |-> IF j \in D THEN <<>> ELSE jobs[j]],
           scenario' = scenario,
           scenario = "gateway" => cli' = cli
    PROVE  /\ jobs' \in [Kinds -> Seq(OpNames)] /\ JobsInv'
           /\ \A j \in Kinds : Left(j)' = IF j \in D THEN 0 ELSE Left(j)
           /\ \A j \in Kinds : \A ops : At(j, ops)' => At(j, ops) /\ j \notin D
<1>1. \A j \in Kinds : jobs'[j] = IF j \in D THEN <<>> ELSE jobs[j]
  OBVIOUS
<1>2. \A j \in Kinds : Left(j)' = IF j \in D THEN 0 ELSE Left(j)
  BY <1>1 DEF Left
<1>3. jobs' \in [Kinds -> Seq(OpNames)]
  <2>1. <<>> \in Seq(OpNames)
    OBVIOUS
  <2>2. QED
    BY <2>1 DEF DeployTypes
<1>4. /\ Rest(jobs'["install"], InstallModeOps) /\ Rest(jobs'["ssh_upgrade"], upgradeRemoteNode)
      /\ Rest(jobs'["uninstall"], DetachedUninstallOps)
      /\ \A u \in Upgrades : Rest(jobs'[u], nodeUpgradeOps)
  BY <1>1, EmptyLists DEF JobsInv, Kinds, Upgrades
<1>5. /\ Left("service")' <= 1
      /\ Left("service")' = 1 => jobs'["service"][1] \in {"stop", "restart", "start"}
  BY <1>1, <1>2 DEF JobsInv, Kinds
<1>6. \A j \in Kinds : Left(j) = 0 => Left(j)' = 0
  BY <1>2
<1>7. JobsInv'
  BY <1>4, <1>5, <1>6 DEF JobsInv, Kinds, Upgrades
<1>8. \A j \in Kinds : \A ops : At(j, ops)' => At(j, ops) /\ j \notin D
  BY <1>1 DEF At, Busy
<1>9. QED
  BY <1>2, <1>3, <1>7, <1>8

(* Nor do they touch a file.                                               *)
LEMMA FilesKept ==
    ASSUME DeployInv, NEW D,
           jobs' = [j \in Kinds |-> IF j \in D THEN <<>> ELSE jobs[j]],
           copied' = [j \in Kinds |-> IF j \in D THEN 0 ELSE copied[j]],
           file' = [j \in Kinds |-> IF j \in D THEN "none" ELSE file[j]],
           UNCHANGED <<scenario, bin, tmp, update, unit, loaded, enabled, hole, overlap, crashes>>,
           starting' \in BOOLEAN, spoiled' \in BOOLEAN, upload' \in UploadRecords,
           ~spoiled' => ~spoiled /\ upload' = upload,
           scenario = "gateway" => cli' = cli
    PROVE  DeployTypes' /\ JobsInv' /\ FilesInv' /\ CutInv' /\ SpoilInv'
<1>0. DeployTypes /\ JobsInv /\ FilesInv /\ CutInv /\ SpoilInv
  BY DEF DeployInv
<1>1. /\ jobs' \in [Kinds -> Seq(OpNames)] /\ JobsInv'
      /\ \A j \in Kinds : Left(j)' = IF j \in D THEN 0 ELSE Left(j)
      /\ \A j \in Kinds : \A ops : At(j, ops)' => At(j, ops) /\ j \notin D
  BY <1>0, JobsEnd
<1>2. \A j \in Kinds : /\ copied'[j] = IF j \in D THEN 0 ELSE copied[j]
                       /\ file'[j] = IF j \in D THEN "none" ELSE file[j]
  OBVIOUS
<1>3. DeployTypes'
  <2>1. copied' \in [Kinds -> Int] /\ file' \in [Kinds -> Places]
    BY <1>0 DEF DeployTypes, Places
  <2>2. QED
    BY <1>0, <1>1, <2>1 DEF DeployTypes
<1>4. Installable' = Installable
  BY DEF Installable
<1>5. FilesInv'
  <2>1. ASSUME NEW j \in Kinds
        PROVE  /\ copied'[j] \in {0} \cup Installable
               /\ At(j, {"read_end", "tmp_begin", "tmp_end"})' => copied'[j] \in Installable
    BY <1>0, <1>1, <1>2 DEF FilesInv
  <2>2. Left("ssh_upgrade")' = 9 => Left("ssh_upgrade") = 9
    BY <1>1 DEF Kinds
  <2>3. QED
    BY <1>0, <1>4, <2>1, <2>2 DEF FilesInv
<1>6. CutInv'
  <2>1. \A j \in Kinds : Replaces(j)' => Replaces(j) /\ j \notin D
    BY <1>1 DEF Replaces
  <2>2. \A j \in Kinds : j \notin D => jobs'[j] = jobs[j]
    OBVIOUS
  <2>3. \A j \in Kinds : j \notin D /\ At(j, {"tmp_end", "sftp_end"}) => At(j, {"tmp_end", "sftp_end"})'
    BY <2>2 DEF At, Busy
  <2>4. QED
    BY <1>0, <1>2, <2>1, <2>3 DEF CutInv
<1>7. SpoilInv'
  <2> SUFFICES ASSUME ~spoiled'
               PROVE  bin' # Short /\ tmp' # Short /\ (\A j \in Kinds : copied'[j] # Short) /\ UploadInv'
    BY DEF SpoilInv
  <2>1. /\ bin # Short /\ tmp # Short /\ (\A j \in Kinds : copied[j] # Short) /\ UploadInv
        /\ upload' = upload
    BY <1>0 DEF SpoilInv
  <2>2. \A u \in Upgrades : At(u, {"read_update", "read_end"})' => At(u, {"read_update", "read_end"})
    BY <1>1 DEF Kinds
  <2>3. UploadInv'
    BY <2>1, <2>2 DEF UploadInv
  <2>4. \A j \in Kinds : copied'[j] # Short
    BY <1>2, <2>1, InstallableFacts
  <2>5. QED
    BY <2>1, <2>3, <2>4
<1>8. QED
  BY <1>1, <1>3, <1>5, <1>6, <1>7

LEMMA OpFails ==
    ASSUME DeployInv, NEW k \in Kinds, Busy(k), ~Succeeds(k, Head(jobs[k])),
           jobs' = [jobs EXCEPT ![k] = <<>>],
           file' = [file EXCEPT ![k] = "none"], copied' = [copied EXCEPT ![k] = 0],
           cli' = IF k \in {"install", "ssh_upgrade"} THEN "failed" ELSE cli,
           UNCHANGED <<hostVars, hole, upload, spoiled>>,
           UNCHANGED <<scenario, overlap, crashes>>
    PROVE  DeployInv'
<1>1. Left(k) > 0 /\ \A j \in Kinds : Left(j) \in Nat
  BY EmptyJob DEF DeployInv
<1>2. scenario = "gateway" => cli' = cli
  BY <1>1 DEF DeployInv, JobsInv, Upgrades
<1>3. /\ jobs' = [j \in Kinds |-> IF j \in {k} THEN <<>> ELSE jobs[j]]
      /\ copied' = [j \in Kinds |-> IF j \in {k} THEN 0 ELSE copied[j]]
      /\ file' = [j \in Kinds |-> IF j \in {k} THEN "none" ELSE file[j]]
  BY DEF DeployInv, DeployTypes
<1>4. UNCHANGED <<bin, tmp, update, ident, unit, loaded, enabled, starting, proc>>
  BY DEF hostVars
<1>5. DeployTypes' /\ JobsInv' /\ FilesInv' /\ CutInv' /\ SpoilInv'
  <2>1. starting' \in BOOLEAN /\ spoiled' \in BOOLEAN /\ upload' \in UploadRecords
    BY <1>4 DEF DeployInv, DeployTypes
  <2> DEFINE D == {k}
  <2>2. /\ jobs' = [j \in Kinds |-> IF j \in D THEN <<>> ELSE jobs[j]]
        /\ copied' = [j \in Kinds |-> IF j \in D THEN 0 ELSE copied[j]]
        /\ file' = [j \in Kinds |-> IF j \in D THEN "none" ELSE file[j]]
    BY <1>3
  <2> HIDE DEF D
  <2>3. QED
    BY <1>2, <1>4, <2>1, <2>2, FilesKept
<1>6. Left(k)' = 0 /\ \A j \in Kinds : j # k => Left(j)' = Left(j)
  BY <1>3 DEF Left
<1>7. ASSUME ~overlap PROVE ProgressInv'
  <2>1. ProgressInv /\ Installable' = Installable
    BY <1>7 DEF DeployInv, Installable
  <2>2. k = "install" => Left("install") # 11
    <3>1. ASSUME k = "install", Left("install") = 11 PROVE FALSE
      <4>1. Head(jobs["install"]) = "ident_end"
        BY <3>1, NextOfInstall DEF DeployInv
      <4>2. Succeeds("install", "ident_end")
        BY DEF Succeeds
      <4>3. QED
        BY <3>1, <4>1, <4>2
    <3>2. QED
      BY <3>1
  <2>3. \A u \in Upgrades : Left(u) = 0 => Left(u)' = 0
    BY <1>6 DEF Kinds
  <2>4. CASE k \in {"install", "ssh_upgrade"}
    <3>1. cli' = "failed" /\ Left("install")' = 0 /\ Left("ssh_upgrade")' = 0
      BY <1>1, <1>6, <2>4 DEF DeployInv, JobsInv, Kinds
    <3>2. Left("uninstall")' = Left("uninstall") /\ Left("service")' = Left("service")
      BY <1>6, <2>4 DEF Kinds
    <3>3. proc # 0 => ident = "ok"
      BY <1>1, <2>1, <2>2, <2>4 DEF ProgressInv, DeployInv, JobsInv
    <3>4. QED
      BY <1>4, <2>1, <2>3, <3>1, <3>2, <3>3 DEF ProgressInv
  <2>5. CASE k \notin {"install", "ssh_upgrade"}
    <3>1. cli' = cli /\ Left("install")' = Left("install") /\ Left("ssh_upgrade")' = Left("ssh_upgrade")
      BY <1>6, <2>5 DEF Kinds
    <3>2. /\ Left("uninstall")' = 0 \/ Left("uninstall")' = Left("uninstall")
          /\ Left("service")' = 0 \/ Left("service")' = Left("service")
      BY <1>6 DEF Kinds
    <3>3. QED
      BY <1>4, <2>1, <2>3, <3>1, <3>2 DEF ProgressInv
  <2>6. QED
    BY <2>4, <2>5
<1>8. QED
  BY <1>5, <1>7 DEF DeployInv

LEMMA JobSteps ==
    ASSUME DeployInv, NEW k \in Kinds, ExecuteOp(k)
    PROVE  DeployInv'
<1> DEFINE op == Head(jobs[k])
<1>1. Busy(k) /\ UNCHANGED <<scenario, overlap, commands, crashes, uploads, uploadFaults>>
  BY DEF ExecuteOp
<1>2. CASE /\ Succeeds(k, op) /\ Effect(k, op)
           /\ jobs' = [j \in Kinds |-> IF Dies(op, j) THEN <<>>
                                       ELSE IF j = k THEN Tail(jobs[k]) ELSE jobs[j]]
           /\ file' = [j \in Kinds |-> IF Dies(op, j) THEN "none" ELSE FileAfter(k, op, j)]
  <2>1. OpDone(k, op)
    BY <1>1, <1>2 DEF OpDone
  <2> HIDE DEF op
  <2>2. QED
    BY <2>1, OpSucceeds
<1>3. CASE /\ ~Succeeds(k, op) /\ jobs' = [jobs EXCEPT ![k] = <<>>]
           /\ file' = [file EXCEPT ![k] = "none"] /\ copied' = [copied EXCEPT ![k] = 0]
           /\ cli' = IF k \in {"install", "ssh_upgrade"} THEN "failed" ELSE cli
           /\ UNCHANGED <<hostVars, hole, upload, spoiled>>
  BY <1>1, <1>3, OpFails
<1>4. QED
  BY <1>2, <1>3 DEF ExecuteOp

LEMMA SystemdStarts ==
    ASSUME DeployInv, ServiceStarts
    PROVE  DeployInv'
<1>1. /\ UNCHANGED <<scenario, bin, tmp, update, ident, unit, loaded, enabled, hole,
                     cli, overlap, crashes>>
      /\ starting /\ starting' = FALSE /\ proc' = Runs
      /\ upload' = UploadCut /\ spoiled' = (spoiled \/ upload.open)
  BY DEF ServiceStarts, cliVars
<1>2. /\ jobs' = [j \in Kinds |-> IF j \in Upgrades THEN <<>> ELSE jobs[j]]
      /\ copied' = [j \in Kinds |-> IF j \in Upgrades THEN 0 ELSE copied[j]]
      /\ file' = [j \in Kinds |-> IF j \in Upgrades THEN "none" ELSE file[j]]
  BY DEF ServiceStarts
<1>3. DeployTypes' /\ JobsInv' /\ FilesInv' /\ CutInv' /\ SpoilInv'
  <2>1. upload \in UploadRecords /\ spoiled \in BOOLEAN /\ upload.open \in BOOLEAN
    BY DEF DeployInv, DeployTypes, UploadRecords
  <2>2. upload' \in UploadRecords /\ spoiled' \in BOOLEAN /\ (~spoiled' => ~spoiled /\ upload' = upload)
    BY <1>1, <2>1, CutOfUpload
  <2>3. QED
    BY <1>1, <1>2, <2>2, FilesKept
<1>4. /\ Left("install")' = Left("install") /\ Left("ssh_upgrade")' = Left("ssh_upgrade")
      /\ Left("uninstall")' = Left("uninstall") /\ Left("service")' = Left("service")
      /\ \A u \in Upgrades : Left(u)' = 0
  BY <1>2 DEF Left, Kinds, Upgrades
<1>5. ASSUME ~overlap PROVE ProgressInv'
  <2>1. ProgressInv /\ Installable' = Installable
    BY <1>1, <1>5 DEF DeployInv, Installable
  <2>2. proc' # 0 => ident = "ok"
    BY <1>1 DEF Runs
  <2>3. Left("uninstall") \notin 1..5
    BY <1>1, <2>1 DEF ProgressInv
  <2>4. QED
    BY <1>1, <1>4, <2>1, <2>2, <2>3 DEF ProgressInv
<1>6. QED
  BY <1>1, <1>3, <1>5 DEF DeployInv

(* What a crash takes of the files is named: "Lost", and that it happened. *)
LEMMA HostCrashes ==
    ASSUME DeployInv, Crash
    PROVE  DeployInv'
<1>0. PICK lost \in SUBSET cached :
        /\ bin' = IF "bin" \in lost THEN Lost ELSE bin
        /\ ident' = IF "ident" \in lost THEN "torn" ELSE ident
        /\ unit' = (unit /\ "unit" \notin lost)
        /\ cli' = IF Busy("install") \/ Busy("ssh_upgrade") THEN "failed"
                  ELSE IF cli = "acked" /\ lost # {} THEN "lost" ELSE cli
  BY DEF Crash
<1>1. /\ UNCHANGED <<scenario, tmp, update, enabled, overlap, spoiled>>
      /\ copied' = [k \in Kinds |-> 0] /\ file' = [k \in Kinds |-> "none"] /\ hole' = FALSE
      /\ loaded' = unit' /\ proc' = 0 /\ crashes' = crashes + 1
      /\ starting' = (unit' /\ enabled) /\ upload' = NoUpload
  BY DEF Crash
<1>2. jobs' = [j \in Kinds |-> IF j \in Kinds THEN <<>> ELSE jobs[j]]
  BY DEF Crash
<1>3. scenario = "gateway" => cli' = cli
  <2>1. scenario = "gateway" => cli = "idle" /\ Left("install") = 0 /\ Left("ssh_upgrade") = 0
    BY DEF DeployInv, JobsInv, Kinds, Upgrades
  <2>2. QED
    BY <1>0, <2>1, EmptyJob DEF DeployInv, Kinds
<1>4. /\ jobs' \in [Kinds -> Seq(OpNames)] /\ JobsInv'
      /\ \A j \in Kinds : Left(j)' = IF j \in Kinds THEN 0 ELSE Left(j)
      /\ \A j \in Kinds : \A ops : At(j, ops)' => At(j, ops) /\ j \notin Kinds
  BY <1>1, <1>2, <1>3, JobsEnd DEF DeployInv
<1>5. /\ \A j \in Kinds : Left(j)' = 0 /\ copied'[j] = 0
      /\ \A j \in Kinds : \A ops : ~At(j, ops)'
  BY <1>1, <1>4
<1>6. DeployTypes'
  <2>1. copied' \in [Kinds -> Int] /\ file' \in [Kinds -> Places] /\ crashes' \in Nat
    BY <1>1 DEF Places, DeployInv, DeployTypes
  <2>2. unit' \in BOOLEAN /\ starting' \in BOOLEAN
    BY <1>0, <1>1
  <2>3. QED
    BY <1>1, <1>4, <2>1, <2>2, NoUploadFacts DEF DeployInv, DeployTypes
<1>7. Installable' = Installable
  BY <1>1 DEF Installable
<1>8. FilesInv'
  <2>1. crashes' > 0 /\ (bin' = bin \/ bin' = Lost) /\ Left("ssh_upgrade")' # 9
    BY <1>0, <1>1, <1>5 DEF DeployInv, DeployTypes, Kinds
  <2>2. QED
    BY <1>1, <1>5, <1>7, <2>1 DEF DeployInv, FilesInv
<1>9. CutInv'
  BY <1>5 DEF CutInv, Replaces
<1>10. SpoilInv'
  <2> SUFFICES ASSUME ~spoiled'
               PROVE  bin' # Short /\ tmp' # Short /\ (\A j \in Kinds : copied'[j] # Short) /\ UploadInv'
    BY DEF SpoilInv
  <2>1. bin # Short /\ tmp # Short
    BY <1>1 DEF DeployInv, SpoilInv
  <2>2. UploadInv'
    <3>1. UploadChunks \in Nat /\ UploadChunks # 0
      BY DeploymentAssumption
    <3>2. \A u \in Upgrades : ~At(u, {"read_update", "read_end"})'
      BY <1>5 DEF Kinds
    <3>3. QED
      BY <1>1, <3>1, <3>2, NoUploadFacts DEF UploadInv
  <2>3. QED
    BY <1>0, <1>1, <1>5, <2>1, <2>2, InstallableFacts
<1>11. ASSUME ~overlap PROVE ProgressInv'
  <2>1. ProgressInv
    BY <1>11 DEF DeployInv
  <2>2. cli' = "acked" => /\ cli = "acked" /\ bin' = bin /\ ident' = ident
                          /\ (unit => unit')
    <3>1. cli' = "acked" => cli = "acked" /\ lost = {}
      BY <1>0
    <3>2. lost = {} => bin' = bin /\ ident' = ident /\ unit' = (unit /\ "unit" \notin lost)
      BY <1>0
    <3>3. lost = {} => (unit => unit')
      BY <3>2
    <3>4. QED
      BY <3>1, <3>2, <3>3
  <2>3. /\ Left("install")' = 0 /\ Left("ssh_upgrade")' = 0
        /\ Left("uninstall")' = 0 /\ Left("service")' = 0
    BY <1>5 DEF Kinds
  <2>4. cli = "acked" => bin \in Installable /\ ident = "ok" /\ unit /\ loaded /\ enabled
    BY <2>1 DEF ProgressInv
  <2>5. cli' = "acked" => bin' \in Installable' /\ ident' = "ok" /\ unit' /\ loaded' /\ enabled'
    BY <1>1, <1>7, <2>2, <2>4
  <2>6. QED
    BY <1>1, <2>3, <2>5 DEF ProgressInv
<1>12. QED
  BY <1>1, <1>4, <1>6, <1>8, <1>9, <1>10, <1>11 DEF DeployInv

(* A job that begins is at no file yet. *)
LEMMA JobBegins ==
    ASSUME DeployInv, NEW k \in Kinds, NEW ops \in Seq(OpNames), ops # <<>>,
           Head(ops) \notin {"read_end", "tmp_begin", "tmp_end", "rename", "sftp_end", "mv"},
           k = "ssh_upgrade" => Len(ops) # 9,
           jobs' = [jobs EXCEPT ![k] = ops],
           UNCHANGED <<scenario, bin, tmp, update, copied, file, hole, crashes>>
    PROVE  /\ jobs'[k] = ops /\ \A j \in Kinds : j # k => jobs'[j] = jobs[j]
           /\ jobs' \in [Kinds -> Seq(OpNames)]
           /\ Left(k)' = Len(ops) /\ \A j \in Kinds : j # k => Left(j)' = Left(j)
           /\ FilesInv' /\ CutInv' /\ Installable' = Installable
<1>0. DeployTypes /\ FilesInv /\ CutInv
  BY DEF DeployInv
<1>1. /\ jobs'[k] = ops /\ \A j \in Kinds : j # k => jobs'[j] = jobs[j]
      /\ jobs' \in [Kinds -> Seq(OpNames)]
  BY <1>0 DEF DeployTypes
<1>2. Left(k)' = Len(ops) /\ \A j \in Kinds : j # k => Left(j)' = Left(j)
  BY <1>1 DEF Left
<1>3. Installable' = Installable
  BY DEF Installable
<1>4. \A j \in Kinds : \A o : At(j, o)' => (j # k /\ At(j, o)) \/ (j = k /\ Head(ops) \in o)
  BY <1>1 DEF At, Busy
<1>5. FilesInv'
  <2>1. \A j \in Kinds : At(j, {"read_end", "tmp_begin", "tmp_end"})' =>
                           At(j, {"read_end", "tmp_begin", "tmp_end"})
    BY <1>4
  <2>2. Left("ssh_upgrade")' = 9 => Left("ssh_upgrade") = 9
    BY <1>2 DEF Kinds
  <2>3. QED
    BY <1>0, <1>3, <2>1, <2>2 DEF FilesInv
<1>6. CutInv'
  <2>1. \A j \in Kinds : Replaces(j)' => Replaces(j) /\ j # k
    BY <1>4 DEF Replaces
  <2>2. \A j \in Kinds : j # k /\ At(j, {"tmp_end", "sftp_end"}) => At(j, {"tmp_end", "sftp_end"})'
    BY <1>1 DEF At, Busy
  <2>3. QED
    BY <1>0, <2>1, <2>2 DEF CutInv
<1>7. QED
  BY <1>1, <1>2, <1>3, <1>5, <1>6

(* A command of the operator: it touches no file, and only its own job. *)
LEMMA CommandGiven ==
    ASSUME DeployInv, Operator, NEW k \in Kinds, NEW ops \in Seq(OpNames),
           jobs' = [jobs EXCEPT ![k] = ops],
           k = "install" => ops = InstallModeOps,
           k = "ssh_upgrade" => ops = upgradeRemoteNode /\ proc # 0,
           k = "uninstall" => ops = DetachedUninstallOps /\ ~Busy(k),
           k = "service" => Len(ops) = 1 /\ ops[1] \in {"stop", "restart", "start"} /\ ~Busy(k),
           k \notin Upgrades,
           cli' = IF k \in {"install", "ssh_upgrade"} THEN "running" ELSE "idle"
    PROVE  DeployInv'
<1>1. /\ scenario # "gateway" /\ ~Busy("install") /\ ~Busy("ssh_upgrade")
      /\ UNCHANGED <<scenario, bin, tmp, update, ident, unit, loaded, enabled, starting, proc,
                     copied, file, hole, upload, spoiled, crashes>>
      /\ overlap' = (overlap \/ Busy("uninstall") \/ Busy("service"))
  BY DEF Operator, hostVars, uploadVars
<1>2. /\ k \in {"install", "ssh_upgrade"} => Len(ops) = 12 /\ ops[1] \in {"ident_begin", "sftp_begin"}
      /\ k = "uninstall" => Len(ops) = 6 /\ ops[1] = "stop"
      /\ k = "service" => Len(ops) = 1 /\ ops[1] \in {"stop", "restart", "start"}
      /\ k \in {"install", "ssh_upgrade", "uninstall", "service"}
  BY InstallTable, SSHUpgradeTable, UninstallTable DEF Kinds
<1>3. /\ ops # <<>> /\ Len(ops) \in {1, 6, 12}
      /\ Head(ops) \in {"ident_begin", "sftp_begin", "stop", "restart", "start"}
  <2>1. /\ Len(ops) \in {1, 6, 12}
        /\ ops[1] \in {"ident_begin", "sftp_begin", "stop", "restart", "start"}
    BY <1>2
  <2>2. QED
    BY <2>1
<1>4. /\ jobs'[k] = ops /\ \A j \in Kinds : j # k => jobs'[j] = jobs[j]
      /\ jobs' \in [Kinds -> Seq(OpNames)]
      /\ Left(k)' = Len(ops) /\ \A j \in Kinds : j # k => Left(j)' = Left(j)
      /\ FilesInv' /\ CutInv' /\ Installable' = Installable
  <2>1. Head(ops) \notin {"read_end", "tmp_begin", "tmp_end", "rename", "sftp_end", "mv"} 
    BY <1>3
  <2>2. k = "ssh_upgrade" => Len(ops) = 12
    BY <1>2
  <2>3. QED
    BY <1>1, <1>3, <2>1, <2>2, 12 # 9, JobBegins
<1>5. /\ Left("install") = 0 /\ Left("ssh_upgrade") = 0 /\ \A j \in Kinds : Left(j) \in Nat
  BY <1>1, EmptyJob DEF DeployInv, Kinds
<1>6. DeployTypes'
  <2>1. overlap' \in BOOLEAN
    BY <1>1 DEF Busy
  <2>2. QED
    BY <1>1, <1>4, <2>1 DEF DeployInv, DeployTypes
<1>7. JobsInv'
  <2>1. /\ Rest(jobs'["install"], InstallModeOps) /\ Rest(jobs'["ssh_upgrade"], upgradeRemoteNode)
        /\ Rest(jobs'["uninstall"], DetachedUninstallOps)
    BY <1>4, EmptyLists DEF DeployInv, JobsInv, Kinds
  <2>2. \A u \in Upgrades : jobs'[u] = jobs[u] /\ Left(u)' = Left(u)
    BY <1>4 DEF Kinds
  <2>3. /\ Left("service")' <= 1
        /\ Left("service")' = 1 => jobs'["service"][1] \in {"stop", "restart", "start"}
    BY <1>2, <1>4 DEF DeployInv, JobsInv, Kinds
  <2>4. (Left("install")' = 0 \/ Left("ssh_upgrade")' = 0)
    BY <1>4, <1>5 DEF Kinds
  <2>5. QED
    BY <1>1, <2>1, <2>2, <2>3, <2>4 DEF DeployInv, JobsInv
<1>8. SpoilInv'
  <2>1. \A u \in Upgrades : At(u, {"read_update", "read_end"})' => At(u, {"read_update", "read_end"})
    BY <1>4 DEF At, Busy, Kinds
  <2>2. ~spoiled => UploadInv'
    BY <1>1, <2>1 DEF DeployInv, SpoilInv, UploadInv
  <2>3. QED
    BY <1>1, <2>2 DEF DeployInv, SpoilInv
<1>9. ASSUME ~overlap' PROVE ProgressInv'
  <2>1. ~overlap /\ ~Busy("uninstall") /\ ~Busy("service")
    BY <1>1, <1>9 DEF Busy
  <2>2. ProgressInv /\ Left("uninstall") = 0 /\ Left("service") = 0
    BY <2>1, EmptyJob DEF DeployInv, Kinds
  <2>3. /\ Left("install")' \in {0, 12} /\ Left("ssh_upgrade")' \in {0, 12}
        /\ Left("uninstall")' \in {0, 6} /\ Left("service")' \in {0, 1}
        /\ Left("uninstall")' = 0 \/ Left("service")' = 0
        /\ k \in {"install", "ssh_upgrade"} => Left("uninstall")' = 0 /\ Left("service")' = 0
        /\ k \notin {"install", "ssh_upgrade"} => Left("install")' = 0 /\ Left("ssh_upgrade")' = 0
        /\ Left("ssh_upgrade")' # 0 => k = "ssh_upgrade"
    BY <1>2, <1>4, <1>5, <2>2 DEF Kinds
  <2>4. proc # 0 => ident = "ok"
    BY <1>5, <2>2 DEF ProgressInv
  <2>5. QED
    BY <1>1, <1>4, <2>3, <2>4 DEF ProgressInv
<1>10. QED
  BY <1>4, <1>6, <1>7, <1>8, <1>9 DEF DeployInv

(* A command that is refused changes nothing but what the CLI reports. *)
LEMMA CommandRefused ==
    ASSUME DeployInv, Operator, jobs' = jobs, cli' = "failed"
    PROVE  DeployInv'
<1>1. /\ scenario # "gateway" /\ ~Busy("install") /\ ~Busy("ssh_upgrade")
      /\ UNCHANGED <<scenario, bin, tmp, update, ident, unit, loaded, enabled, starting, proc,
                     copied, file, hole, upload, spoiled, crashes>>
      /\ overlap' = (overlap \/ Busy("uninstall") \/ Busy("service"))
  BY DEF Operator, hostVars, uploadVars
<1>2. /\ \A j \in Kinds : Left(j)' = Left(j)
      /\ \A j \in Kinds : \A o : At(j, o)' <=> At(j, o)
      /\ Installable' = Installable
  BY <1>1 DEF Left, At, Busy, Installable
<1>3. Left("install") = 0 /\ Left("ssh_upgrade") = 0
  BY <1>1, EmptyJob DEF DeployInv, Kinds
<1>4. DeployTypes'
  <2>1. overlap' \in BOOLEAN
    BY <1>1 DEF Busy
  <2>2. QED
    BY <1>1, <2>1 DEF DeployInv, DeployTypes
<1>5. JobsInv'
  BY <1>1, <1>2 DEF DeployInv, JobsInv, Kinds, Upgrades
<1>6. FilesInv' /\ CutInv'
  <2>1. FilesInv'
    BY <1>1, <1>2 DEF DeployInv, FilesInv, Kinds
  <2>2. CutInv'
    BY <1>1, <1>2 DEF DeployInv, CutInv, Replaces
  <2>3. QED
    BY <2>1, <2>2
<1>7. SpoilInv'
  BY <1>1, <1>2 DEF DeployInv, SpoilInv, UploadInv, Kinds
<1>8. ASSUME ~overlap' PROVE ProgressInv'
  <2>1. ~overlap
    BY <1>1, <1>8 DEF Busy
  <2>2. \A u \in Upgrades : Left(u)' = Left(u)
    BY <1>2 DEF Kinds
  <2>3. /\ Left("install")' = 0 /\ Left("ssh_upgrade")' = 0
        /\ Left("uninstall")' = Left("uninstall") /\ Left("service")' = Left("service")
    BY <1>2, <1>3 DEF Kinds
  <2>4. QED
    BY <1>1, <1>3, <2>1, <2>2, <2>3 DEF DeployInv, ProgressInv
<1>9. QED
  BY <1>4, <1>5, <1>6, <1>7, <1>8 DEF DeployInv

LEMMA OperatorSteps ==
    ASSUME DeployInv,
           \/ \E force, regenerateKeys \in BOOLEAN : deployAndConnect(force, regenerateKeys)
           \/ uninstallFleet
           \/ \E op \in {"stop", "restart", "start"} : Service(op)
    PROVE  DeployInv'
<1>1. ASSUME NEW force \in BOOLEAN, NEW regenerateKeys \in BOOLEAN, deployAndConnect(force, regenerateKeys)
      PROVE  DeployInv'
  <2>1. Operator /\ \/ jobs' = [jobs EXCEPT !["install"] = InstallModeOps] /\ cli' = "running"
                    \/ proc # 0 /\ jobs' = [jobs EXCEPT !["ssh_upgrade"] = upgradeRemoteNode]
                                /\ cli' = "running"
                    \/ jobs' = jobs /\ cli' = "failed"
    BY <1>1 DEF deployAndConnect
  <2>2. CASE jobs' = [jobs EXCEPT !["install"] = InstallModeOps] /\ cli' = "running"
    <3>1. "install" \in Kinds /\ "install" \notin Upgrades /\ InstallModeOps \in Seq(OpNames)
      BY InstallTable DEF Kinds, Upgrades
    <3>2. QED
      BY <2>1, <2>2, <3>1, CommandGiven
  <2>3. CASE proc # 0 /\ jobs' = [jobs EXCEPT !["ssh_upgrade"] = upgradeRemoteNode] /\ cli' = "running"
    <3>1. "ssh_upgrade" \in Kinds /\ "ssh_upgrade" \notin Upgrades /\ upgradeRemoteNode \in Seq(OpNames)
      BY SSHUpgradeTable DEF Kinds, Upgrades
    <3>2. QED
      BY <2>1, <2>3, <3>1, CommandGiven
  <2>4. CASE jobs' = jobs /\ cli' = "failed"
    BY <2>1, <2>4, CommandRefused
  <2>5. QED
    BY <2>1, <2>2, <2>3, <2>4
<1>2. ASSUME uninstallFleet PROVE DeployInv'
  <2>1. /\ Operator /\ ~Busy("uninstall") /\ cli' = "idle"
        /\ jobs' = [jobs EXCEPT !["uninstall"] = DetachedUninstallOps]
    BY <1>2 DEF uninstallFleet
  <2>2. "uninstall" \in Kinds /\ "uninstall" \notin Upgrades /\ DetachedUninstallOps \in Seq(OpNames)
    BY UninstallTable DEF Kinds, Upgrades
  <2>3. QED
    BY <2>1, <2>2, CommandGiven
<1>3. ASSUME NEW op \in {"stop", "restart", "start"}, Service(op) PROVE DeployInv'
  <2>1. Operator /\ ~Busy("service") /\ cli' = "idle" /\ jobs' = [jobs EXCEPT !["service"] = <<op>>]
    BY <1>3 DEF Service
  <2>2. /\ "service" \in Kinds /\ "service" \notin Upgrades /\ <<op>> \in Seq(OpNames)
        /\ Len(<<op>>) = 1 /\ <<op>>[1] \in {"stop", "restart", "start"}
    BY DEF Kinds, Upgrades, OpNames
  <2>3. QED
    BY <2>1, <2>2, CommandGiven
<1>4. QED
  BY <1>1, <1>2, <1>3

(* What no step of the gateway touches but node_upgrade: everything except *)
(* the update file, what is read of it, and the upload.                    *)
LEMMA GatewayFrame ==
    ASSUME DeployInv, GatewayStep, jobs' = jobs, upload' \in UploadRecords,
           update' \in {0} \cup Installable, copied' \in [Kinds -> Int],
           \A j \in Kinds : copied'[j] = copied[j] \/ copied'[j] = Short,
           spoiled' \in BOOLEAN,
           ~spoiled' => ~spoiled /\ copied' = copied /\ UploadInv'
    PROVE  DeployInv'
<1>1. /\ scenario # "operator"
      /\ UNCHANGED <<scenario, bin, tmp, ident, unit, loaded, enabled, starting, proc,
                     file, hole, cli, overlap, crashes>>
  BY DEF GatewayStep, cliVars
<1>2. /\ \A j \in Kinds : Left(j)' = Left(j)
      /\ \A j \in Kinds : \A o : At(j, o)' <=> At(j, o)
      /\ Installable' = Installable
  BY <1>1 DEF Left, At, Busy, Installable
<1>3. DeployTypes'
  BY <1>1 DEF DeployInv, DeployTypes
<1>4. JobsInv'
  BY <1>1, <1>2 DEF DeployInv, JobsInv, Kinds, Upgrades
<1>5. FilesInv'
  <2>1. Short \in Installable
    BY <1>1, InstallableFacts
  <2>2. Left("ssh_upgrade")' = Left("ssh_upgrade")
    BY <1>2 DEF Kinds
  <2>3. QED
    BY <1>1, <1>2, <2>1, <2>2 DEF DeployInv, FilesInv
<1>6. CutInv'
  BY <1>1, <1>2 DEF DeployInv, CutInv, Replaces
<1>7. SpoilInv'
  BY <1>1 DEF DeployInv, SpoilInv
<1>8. ~overlap' => ProgressInv'
  <2>1. \A u \in Upgrades : Left(u)' = Left(u)
    BY <1>2 DEF Kinds
  <2>2. /\ Left("install")' = Left("install") /\ Left("ssh_upgrade")' = Left("ssh_upgrade")
        /\ Left("uninstall")' = Left("uninstall") /\ Left("service")' = Left("service")
    BY <1>2 DEF Kinds
  <2>3. QED
    BY <1>1, <1>2, <2>1, <2>2 DEF DeployInv, ProgressInv
<1>9. QED
  BY <1>3, <1>4, <1>5, <1>6, <1>7, <1>8 DEF DeployInv

LEMMA GatewaySteps ==
    ASSUME DeployInv,
           \/ checkAndUpgradePeer \/ SendChunk \/ ReceiveChunk \/ ReceiveEnd
           \/ UploadReturns \/ UploadBreaks \/ Reconnected
    PROVE  DeployInv'
<1>1. /\ upload \in UploadRecords /\ update \in {0} \cup Installable /\ spoiled \in BOOLEAN
      /\ copied \in [Kinds -> Int] /\ UploadChunks \in Nat /\ UploadChunks # 0
      /\ upload.open \in BOOLEAN /\ upload.sent \in Nat /\ upload.got \in Nat
  BY DeploymentAssumption DEF DeployInv, DeployTypes, FilesInv, UploadRecords
<1>2. ~spoiled => UploadInv
  BY DEF DeployInv, SpoilInv
<1>3. jobs' = jobs => \A u : \A o : At(u, o)' <=> At(u, o)
  BY DEF At, Busy
<1>4. scenario # "operator" => Short \in Installable /\ OwnVersion \in Installable
  BY InstallableFacts
<1>5. CASE checkAndUpgradePeer
  <2>1. /\ GatewayStep /\ update' = Short /\ jobs' = jobs /\ scenario # "operator"
        /\ upload' = [NoUpload EXCEPT !.step = "sending", !.open = TRUE]
        /\ copied' = [k \in Kinds |-> IF At(k, {"read_end"}) THEN Short ELSE copied[k]]
        /\ spoiled' = (spoiled \/ \E k \in Upgrades : At(k, {"read_update", "read_end"}))
    BY <1>5 DEF checkAndUpgradePeer, GatewayStep
  <2>2. /\ upload' \in UploadRecords /\ upload'.step = "sending" /\ upload'.open /\ ~upload'.eof
        /\ upload'.sent = 0 /\ upload'.got = 0
    BY <2>1 DEF NoUpload, UploadRecords
  <2>3. copied' \in [Kinds -> Int] /\ spoiled' \in BOOLEAN
    BY <1>1, <2>1, InstallableFacts
  <2>4. ASSUME ~spoiled' PROVE ~spoiled /\ copied' = copied /\ UploadInv'
    <3>1. ~spoiled /\ \A u \in Upgrades : ~At(u, {"read_update", "read_end"})
      BY <2>1, <2>4
    <3>2. ASSUME NEW j \in Kinds PROVE ~At(j, {"read_end"})
      <4>1. j \notin Upgrades => ~At(j, {"read_end"})
        BY WhoIsAt DEF DeployInv, At
      <4>2. At(j, {"read_end"}) => At(j, {"read_update", "read_end"})
        BY DEF At
      <4>3. QED
        BY <3>1, <4>1, <4>2
    <3>3. copied' = copied
      BY <1>1, <2>1, <3>2
    <3>4. UploadInv'
      BY <1>1, <1>3, <2>1, <2>2, <3>1 DEF UploadInv
    <3>5. QED
      BY <3>1, <3>3, <3>4
  <2>5. /\ update' \in {0} \cup Installable
        /\ \A j \in Kinds : copied'[j] = copied[j] \/ copied'[j] = Short
    BY <1>4, <2>1
  <2>6. QED
    BY <2>1, <2>2, <2>3, <2>4, <2>5, GatewayFrame
<1>6. CASE SendChunk
  <2>1. /\ GatewayStep /\ upload.step = "sending" /\ update' = update /\ jobs' = jobs
        /\ copied' = copied /\ spoiled' = spoiled
        /\ upload' = IF upload.sent < UploadChunks THEN [upload EXCEPT !.sent = upload.sent + 1]
                     ELSE [upload EXCEPT !.step = "waiting", !.eof = TRUE]
    BY <1>6 DEF SendChunk
  <2>2. upload' \in UploadRecords
    <3>1. CASE upload.sent < UploadChunks
      BY <1>1, <2>1, <3>1 DEF UploadRecords
    <3>2. CASE ~(upload.sent < UploadChunks)
      <4>1. upload' = [upload EXCEPT !.step = "waiting", !.eof = TRUE]
        BY <2>1, <3>2
      <4>2. QED
        BY <1>1, <4>1 DEF UploadRecords
    <3>3. QED
      BY <3>1, <3>2
  <2>3. ASSUME ~spoiled PROVE UploadInv'
    <3>1. UploadInv /\ \A u : \A o : At(u, o)' <=> At(u, o)
      BY <1>2, <1>3, <2>1, <2>3
    <3>2. CASE upload.sent < UploadChunks
      <4>1. /\ upload'.sent = upload.sent + 1 /\ upload'.got = upload.got /\ upload'.step = upload.step
            /\ upload'.open = upload.open /\ upload'.eof = upload.eof
        BY <1>1, <2>1, <3>2 DEF UploadRecords
      <4>2. QED
        BY <1>1, <2>1, <3>1, <3>2, <4>1 DEF UploadInv
    <3>3. CASE ~(upload.sent < UploadChunks)
      <4>1. /\ upload'.sent = upload.sent /\ upload'.got = upload.got /\ upload'.step = "waiting"
            /\ upload'.open = upload.open /\ upload'.eof
        BY <1>1, <2>1, <3>3 DEF UploadRecords
      <4>2. QED
        BY <1>1, <2>1, <3>1, <3>3, <4>1 DEF UploadInv
    <3>4. QED
      BY <3>2, <3>3
  <2>4. QED
    BY <1>1, <2>1, <2>2, <2>3, GatewayFrame
<1>7. CASE ReceiveChunk
  <2>1. /\ GatewayStep /\ upload.open /\ upload.got < upload.sent /\ jobs' = jobs
        /\ copied' = copied /\ spoiled' = spoiled /\ scenario # "operator"
        /\ upload' = [upload EXCEPT !.got = upload.got + 1]
        /\ update' = IF upload.got + 1 = UploadChunks THEN OwnVersion ELSE Short
    BY <1>7 DEF ReceiveChunk, GatewayStep
  <2>2. upload' \in UploadRecords /\ update' \in {0} \cup Installable
    BY <1>1, <1>4, <2>1 DEF UploadRecords
  <2>3. ASSUME ~spoiled PROVE UploadInv'
    <3>1. UploadInv /\ \A u : \A o : At(u, o)' <=> At(u, o)
      BY <1>2, <1>3, <2>1, <2>3
    <3>2. /\ upload'.got = upload.got + 1 /\ upload'.sent = upload.sent /\ upload'.step = upload.step
          /\ upload'.open = upload.open /\ upload'.eof = upload.eof
      BY <1>1, <2>1 DEF UploadRecords
    <3>3. QED
      BY <1>1, <2>1, <3>1, <3>2 DEF UploadInv
  <2>4. QED
    BY <1>1, <2>1, <2>2, <2>3, GatewayFrame
<1>8. CASE ReceiveEnd
  <2>1. /\ GatewayStep /\ upload.open /\ upload.eof /\ upload.got = upload.sent /\ jobs' = jobs
        /\ copied' = copied /\ spoiled' = spoiled
        /\ update' = update /\ upload' = [upload EXCEPT !.open = FALSE]
    BY <1>8 DEF ReceiveEnd
  <2>2. upload' \in UploadRecords
    BY <1>1, <2>1 DEF UploadRecords
  <2>3. ASSUME ~spoiled PROVE UploadInv'
    BY <1>1, <1>2, <1>3, <2>1, <2>3 DEF UploadInv, UploadRecords
  <2>4. QED
    BY <1>1, <2>1, <2>2, <2>3, GatewayFrame
<1>9. CASE UploadReturns
  <2>1. /\ GatewayStep /\ upload.step = "waiting" /\ jobs' = jobs /\ update' = update
        /\ copied' = copied /\ spoiled' = (spoiled \/ upload.open)
        /\ \/ ~upload.open /\ upload' = [upload EXCEPT !.step = "uploaded"]
           \/ upload.open /\ upload' = [upload EXCEPT !.step = "gave_up"]
    BY <1>9 DEF UploadReturns
  <2>2. upload' \in UploadRecords /\ spoiled' \in BOOLEAN
    BY <1>1, <2>1 DEF UploadRecords
  <2>3. ASSUME ~spoiled' PROVE ~spoiled /\ UploadInv'
    BY <1>1, <1>2, <1>3, <2>1, <2>3 DEF UploadInv, UploadRecords
  <2>4. QED
    BY <1>1, <2>1, <2>2, <2>3, GatewayFrame
<1>10. CASE UploadBreaks
  <2>1. /\ GatewayStep /\ jobs' = jobs /\ update' = update /\ copied' = copied
        /\ upload' = UploadCut /\ spoiled' = TRUE
    BY <1>10 DEF UploadBreaks
  <2>2. QED
    BY <1>1, <2>1, CutOfUpload, GatewayFrame
<1>11. CASE Reconnected
  <2>1. /\ GatewayStep /\ jobs' = jobs /\ update' = update /\ copied' = copied
        /\ spoiled' = spoiled /\ upload' = NoUpload
    BY <1>11 DEF Reconnected
  <2>2. ASSUME ~spoiled PROVE UploadInv'
    BY <1>1, <1>2, <1>3, <2>1, <2>2, NoUploadFacts DEF UploadInv
  <2>3. QED
    BY <1>1, <2>1, <2>2, NoUploadFacts, GatewayFrame
<1>12. QED
  BY <1>5, <1>6, <1>7, <1>8, <1>9, <1>10, <1>11

LEMMA UpgradeInvoked ==
    ASSUME DeployInv, InvokeUpgrade
    PROVE  DeployInv'
<1>0. PICK k \in Upgrades : ~Busy(k) /\ jobs' = [jobs EXCEPT ![k] = nodeUpgradeOps]
  BY DEF InvokeUpgrade
<1>1. /\ scenario # "operator" /\ upload.step = "uploaded" /\ proc # 0
      /\ UNCHANGED <<scenario, bin, tmp, update, ident, unit, loaded, enabled, starting, proc,
                     copied, file, hole, spoiled, cli, overlap, crashes>>
      /\ upload' = [NoUpload EXCEPT !.step = "done"]
  BY DEF InvokeUpgrade, GatewayStep, cliVars
<1>2. /\ k \in Kinds /\ k # "ssh_upgrade" /\ nodeUpgradeOps \in Seq(OpNames) /\ nodeUpgradeOps # <<>>
      /\ Head(nodeUpgradeOps) = "read_update" /\ Len(nodeUpgradeOps) = 7
  BY UpgradeTable DEF Kinds, Upgrades
<1>3. /\ jobs'[k] = nodeUpgradeOps /\ \A j \in Kinds : j # k => jobs'[j] = jobs[j]
      /\ jobs' \in [Kinds -> Seq(OpNames)]
      /\ Left(k)' = 7 /\ \A j \in Kinds : j # k => Left(j)' = Left(j)
      /\ FilesInv' /\ CutInv' /\ Installable' = Installable
  BY <1>0, <1>1, <1>2, JobBegins
<1>4. /\ upload' \in UploadRecords /\ upload'.step = "done" /\ ~upload'.open /\ ~upload'.eof
      /\ upload'.sent = 0 /\ upload'.got = 0
  BY <1>1 DEF NoUpload, UploadRecords
<1>5. DeployTypes'
  BY <1>1, <1>3, <1>4 DEF DeployInv, DeployTypes
<1>6. k \notin {"install", "ssh_upgrade", "uninstall", "service"}
  BY DEF Upgrades
<1>7. /\ Left("install")' = Left("install") /\ Left("ssh_upgrade")' = Left("ssh_upgrade")
      /\ Left("uninstall")' = Left("uninstall") /\ Left("service")' = Left("service")
  BY <1>3, <1>6 DEF Kinds
<1>8. JobsInv'
  <2>1. /\ Rest(jobs'["install"], InstallModeOps) /\ Rest(jobs'["ssh_upgrade"], upgradeRemoteNode)
        /\ Rest(jobs'["uninstall"], DetachedUninstallOps)
        /\ jobs'["service"] = jobs["service"]
        /\ \A u \in Upgrades : Rest(jobs'[u], nodeUpgradeOps)
    BY <1>3, <1>6, EmptyLists DEF DeployInv, JobsInv, Kinds
  <2>2. scenario = "gateway" => \A j \in Kinds \ Upgrades : Left(j)' = 0
    BY <1>3 DEF DeployInv, JobsInv
  <2>3. QED
    BY <1>1, <1>7, <2>1, <2>2 DEF DeployInv, JobsInv
<1>9. SpoilInv'
  <2> SUFFICES ASSUME ~spoiled
               PROVE  bin' # Short /\ tmp' # Short /\ (\A j \in Kinds : copied'[j] # Short) /\ UploadInv'
    BY <1>1 DEF SpoilInv
  <2>1. /\ bin # Short /\ tmp # Short /\ (\A j \in Kinds : copied[j] # Short)
        /\ update = OwnVersion
    BY <1>1 DEF DeployInv, SpoilInv, UploadInv
  <2>2. UploadChunks \in Nat /\ UploadChunks # 0
    BY DeploymentAssumption
  <2>3. UploadInv'
    BY <1>1, <1>4, <2>1, <2>2 DEF UploadInv
  <2>4. QED
    BY <1>1, <2>1, <2>3
<1>10. ASSUME ~overlap PROVE ProgressInv'
  <2>1. ProgressInv
    BY <1>10 DEF DeployInv
  <2>2. Left("uninstall") \notin 1..5
    BY <1>1, <2>1 DEF ProgressInv
  <2>3. QED
    BY <1>1, <1>3, <1>7, <2>1, <2>2 DEF ProgressInv
<1>11. QED
  BY <1>1, <1>3, <1>5, <1>8, <1>9, <1>10 DEF DeployInv

LEMMA DeployStutters ==
    ASSUME DeployInv, UNCHANGED deployVars
    PROVE  DeployInv'
<1>1. UNCHANGED <<scenario, bin, tmp, update, ident, unit, loaded, enabled, starting, proc, jobs,
                  copied, file, hole, cli, overlap, upload, spoiled, crashes>>
  BY DEF deployVars, hostVars, jobVars, cliVars, uploadVars
<1>2. /\ \A j : Left(j)' = Left(j)
      /\ \A j : \A o : At(j, o)' <=> At(j, o)
      /\ Installable' = Installable
  BY <1>1 DEF Left, At, Busy, Installable
<1>3. DeployTypes' /\ JobsInv'
  BY <1>1, <1>2 DEF DeployInv, DeployTypes, JobsInv
<1>4. FilesInv' /\ CutInv'
  BY <1>1, <1>2 DEF DeployInv, FilesInv, CutInv, Replaces
<1>5. SpoilInv'
  BY <1>1, <1>2 DEF DeployInv, SpoilInv, UploadInv
<1>6. ~overlap => ProgressInv'
  BY <1>1, <1>2 DEF DeployInv, ProgressInv
<1>7. QED
  BY <1>1, <1>3, <1>4, <1>5, <1>6 DEF DeployInv

(* For any number of crashes, commands, uploads, faults and chunks: the     *)
(* installed binary is never a file that one job has begun to write; it is  *)
(* damaged only by an upload that ended early or overtook the copy, by two  *)
(* writers of the ".tmp" file where a gateway is active, or by a crash that *)
(* takes what nobody synced; and an acknowledged install is complete and    *)
(* stays so until the operator's next command or such a damage (ops.go,     *)
(* cli.go, upgrade.go, lifecycle.go).                                       *)
THEOREM InstallsStaySound == DeploySpec => []InstallsAreSound
<1>1. DeployInit => DeployInv
  BY DeployInitInv
<1>2. DeployInv /\ [DeployNext]_deployVars => DeployInv'
  <2> SUFFICES ASSUME DeployInv, [DeployNext]_deployVars PROVE DeployInv'
    OBVIOUS
  <2>1. ASSUME NEW k \in Kinds, ExecuteOp(k) PROVE DeployInv'
    BY <2>1, JobSteps
  <2>2. QED
    BY <2>1, SystemdStarts, HostCrashes, OperatorSteps, GatewaySteps, UpgradeInvoked, DeployStutters
       DEF DeployNext
<1>3. DeployInv => InstallsAreSound
  <2> SUFFICES ASSUME DeployInv PROVE InstallsAreSound
    OBVIOUS
  <2>1. InstalledBinaryIsWhole
    <3>1. /\ bin # Cut
          /\ bin = Mixed => Mixed \in Installable
          /\ bin = Lost => crashes > 0
      BY InstallableFacts DEF DeployInv, FilesInv
    <3>2. bin = Short => spoiled
      BY DEF DeployInv, SpoilInv
    <3>3. Mixed \in Installable => scenario # "operator"
      BY InstallableFacts DEF Installable
    <3>4. QED
      BY <3>1, <3>2, <3>3 DEF InstalledBinaryIsWhole
  <2>2. AckMeansInstalled
    BY DEF DeployInv, ProgressInv, AckMeansInstalled, Installable
  <2>3. QED
    BY <2>1, <2>2 DEF InstallsAreSound
<1>4. QED
  BY <1>1, <1>2, <1>3, PTL DEF DeploySpec

(***************************************************************************)
(* ThreadScan                                                              *)
(***************************************************************************)
ThreadSet == DOMAIN Threads
GroupOf(t) == <<Threads[t].wchan, Threads[t].comm>>
InSeq(s, t) == \E i \in DOMAIN s : s[i] = t
Distinct(s) == \A i, j \in DOMAIN s : s[i] = s[j] => i = j
ExampleRecords == [listed : Seq(ThreadSet), omitted : Nat]

ScanTypes ==
    /\ alive \subseteq ThreadSet /\ feeding \subseteq ThreadSet
    /\ tasksCh \in Seq(ThreadSet) /\ resultsCh \in Seq(ThreadSet) /\ counted \in Seq(ThreadSet)
    /\ worker \in [Workers -> ThreadSet \cup {Idle, Gone}]
    /\ examples \in [Groups -> ExampleRecords]

(* Where a thread is on its way through the pool. *)
Queued(t) == Threads[t].pid \in feed
Offered(t) == t \in feeding
InTasks(t) == InSeq(tasksCh, t)
InHand(t) == \E w \in Workers : worker[w] = t
InResults(t) == InSeq(resultsCh, t)
IsCounted(t) == InSeq(counted, t)

OnePlace(t) ==
    /\ Queued(t) => ~Offered(t) /\ ~InTasks(t) /\ ~InHand(t) /\ ~InResults(t) /\ ~IsCounted(t)
    /\ Offered(t) => ~InTasks(t) /\ ~InHand(t) /\ ~InResults(t) /\ ~IsCounted(t)
    /\ InTasks(t) => ~InHand(t) /\ ~InResults(t) /\ ~IsCounted(t)
    /\ InHand(t) => ~InResults(t) /\ ~IsCounted(t)
    /\ InResults(t) => ~IsCounted(t)

SomePlace(t) ==
    Queued(t) \/ Offered(t) \/ InTasks(t) \/ InHand(t) \/ InResults(t) \/ IsCounted(t)

(* No thread is in two places, and while the context lives no thread that  *)
(* still exists has dropped out.                                           *)
PlacesInv ==
    /\ \A t \in ThreadSet : OnePlace(t)
    /\ Distinct(tasksCh) /\ Distinct(resultsCh) /\ Distinct(counted)
    /\ \A v, w \in Workers : worker[v] = worker[w] /\ worker[v] \in ThreadSet => v = w
    /\ ~scanCancelled => \A t \in alive : SomePlace(t)

(* What is closed stays drained. *)
ClosedInv ==
    /\ taskClosed => feeding = {} /\ (~scanCancelled => feed = {})
    /\ \A w \in Workers : worker[w] = Gone /\ ~scanCancelled => taskClosed /\ tasksCh = <<>>
    /\ resultsClosed => \A w \in Workers : worker[w] = Gone
    /\ scanDone = "result" => \A t \in alive : IsCounted(t)

Members(s, g) == {i \in DOMAIN s : GroupOf(s[i]) = g}
GroupsInv ==
    \A g \in Groups : g[1] # "" =>
        examples[g].omitted + Len(examples[g].listed) = Cardinality(Members(counted, g))

MountInv ==
    /\ mountsLeft \subseteq DOMAIN Mounts /\ probe \in {""} \cup (DOMAIN Mounts \ mountsLeft)
    /\ DOMAIN probes = DOMAIN Mounts \ mountsLeft
    /\ DOMAIN mountReport = {m \in DOMAIN Mounts : m \notin mountsLeft /\ m # probe}
    /\ \A m \in DOMAIN mountReport : mountReport[m] = "ok" => probes[m] = "answered"

ScanInv == ScanTypes /\ PlacesInv /\ ClosedInv /\ GroupsInv /\ MountInv

LEMMA InAppend ==
    ASSUME NEW S, NEW s \in Seq(S), NEW x \in S
    PROVE  /\ Append(s, x) \in Seq(S)
           /\ \A t : InSeq(Append(s, x), t) <=> InSeq(s, t) \/ t = x
           /\ Distinct(s) /\ ~InSeq(s, x) => Distinct(Append(s, x))
<1>1. /\ Append(s, x) \in Seq(S) /\ Len(s) \in Nat /\ DOMAIN s = 1..Len(s)
      /\ DOMAIN Append(s, x) = 1..(Len(s) + 1)
      /\ \A i \in 1..(Len(s) + 1) : Append(s, x)[i] = IF i = Len(s) + 1 THEN x ELSE s[i]
  OBVIOUS
<1> DEFINE u == Append(s, x)
           n == Len(s)
<1> HIDE DEF u, n
<1>2. /\ n \in Nat /\ DOMAIN s = 1..n /\ DOMAIN u = 1..(n + 1)
      /\ \A i \in 1..(n + 1) : u[i] = IF i = n + 1 THEN x ELSE s[i]
  BY <1>1 DEF u, n
<1>3. ASSUME NEW t PROVE InSeq(u, t) <=> InSeq(s, t) \/ t = x
  <2>1. ASSUME InSeq(u, t) PROVE InSeq(s, t) \/ t = x
    BY <1>2, <2>1 DEF InSeq
  <2>2. ASSUME InSeq(s, t) PROVE InSeq(u, t)
    <3>1. PICK i \in 1..n : s[i] = t
      BY <1>2, <2>2 DEF InSeq
    <3>2. i \in 1..(n + 1) /\ i # n + 1
      BY <1>2
    <3>3. u[i] = t
      BY <1>2, <3>1, <3>2
    <3>4. QED
      BY <1>2, <3>2, <3>3 DEF InSeq
  <2>3. ASSUME t = x PROVE InSeq(u, t)
    <3>1. n + 1 \in 1..(n + 1)
      BY <1>2
    <3>2. u[n + 1] = t
      BY <1>2, <2>3, <3>1
    <3>3. QED
      BY <1>2, <3>1, <3>2 DEF InSeq
  <2>4. QED
    BY <2>1, <2>2, <2>3
<1>4. ASSUME Distinct(s), ~InSeq(s, x) PROVE Distinct(u)
  <2>1. ASSUME NEW i \in 1..(n + 1), NEW j \in 1..(n + 1), u[i] = u[j] PROVE i = j
    <3>1. CASE i = n + 1 /\ j # n + 1
      BY <1>2, <1>4, <2>1, <3>1 DEF InSeq
    <3>2. CASE j = n + 1 /\ i # n + 1
      BY <1>2, <1>4, <2>1, <3>2 DEF InSeq
    <3>3. CASE i # n + 1 /\ j # n + 1
      BY <1>2, <1>4, <2>1, <3>3 DEF Distinct
    <3>4. QED
      BY <3>1, <3>2, <3>3
  <2>2. QED
    BY <1>2, <2>1 DEF Distinct
<1>5. QED
  BY <1>1, <1>3, <1>4 DEF u

LEMMA InTail ==
    ASSUME NEW S, NEW s \in Seq(S), s # <<>>, Distinct(s)
    PROVE  /\ Tail(s) \in Seq(S) /\ Head(s) \in S /\ InSeq(s, Head(s))
           /\ \A t : InSeq(Tail(s), t) <=> InSeq(s, t) /\ t # Head(s)
           /\ Distinct(Tail(s))
<1>1. /\ Tail(s) \in Seq(S) /\ Head(s) \in S /\ Head(s) = s[1] /\ Len(s) \in Nat /\ Len(s) > 0
      /\ DOMAIN s = 1..Len(s) /\ Len(Tail(s)) = Len(s) - 1 /\ DOMAIN Tail(s) = 1..(Len(s) - 1)
      /\ \A i \in 1..(Len(s) - 1) : Tail(s)[i] = s[i + 1]
  OBVIOUS
<1> DEFINE u == Tail(s)
           n == Len(s)
           h == Head(s)
<1> HIDE DEF u, n, h
<1>2. /\ n \in Nat /\ n > 0 /\ DOMAIN s = 1..n /\ DOMAIN u = 1..(n - 1) /\ h = s[1]
      /\ \A i \in 1..(n - 1) : u[i] = s[i + 1]
  BY <1>1 DEF u, n, h
<1>3. InSeq(s, h)
  BY <1>2 DEF InSeq
<1>4. ASSUME NEW t PROVE InSeq(u, t) <=> InSeq(s, t) /\ t # h
  <2>1. ASSUME InSeq(u, t) PROVE InSeq(s, t) /\ t # h
    <3>1. PICK i \in 1..(n - 1) : u[i] = t
      BY <1>2, <2>1 DEF InSeq
    <3>2. i + 1 \in 1..n /\ s[i + 1] = t /\ i + 1 # 1 /\ 1 \in 1..n
      BY <1>2, <3>1
    <3>3. QED
      BY <1>2, <3>2 DEF InSeq, Distinct
  <2>2. ASSUME InSeq(s, t), t # h PROVE InSeq(u, t)
    <3>1. PICK i \in 1..n : s[i] = t
      BY <1>2, <2>2 DEF InSeq
    <3>2. i # 1 /\ i - 1 \in 1..(n - 1) /\ (i - 1) + 1 = i
      BY <1>2, <2>2, <3>1
    <3>3. u[i - 1] = t
      BY <1>2, <3>1, <3>2
    <3>4. QED
      BY <1>2, <3>2, <3>3 DEF InSeq
  <2>3. QED
    BY <2>1, <2>2
<1>5. Distinct(u)
  <2>1. ASSUME NEW i \in 1..(n - 1), NEW j \in 1..(n - 1), u[i] = u[j] PROVE i = j
    <3>1. i + 1 \in 1..n /\ j + 1 \in 1..n /\ s[i + 1] = s[j + 1]
      BY <1>2, <2>1
    <3>2. i + 1 = j + 1
      BY <1>2, <3>1 DEF Distinct
    <3>3. QED
      BY <1>2, <3>2
  <2>2. QED
    BY <1>2, <2>1 DEF Distinct
<1>6. QED
  BY <1>1, <1>3, <1>4, <1>5 DEF u, h

LEMMA ThreadsAreNoMarks == \A t \in ThreadSet : t # Idle /\ t # Gone
  BY ThreadScanAssumption DEF ThreadSet, Idle, Gone

LEMMA ScanInitInv == ScanInit => ScanInv
<1> SUFFICES ASSUME ScanInit PROVE ScanInv
  OBVIOUS
<1>1. \A S : <<>> \in Seq(S)
  OBVIOUS
<1>2. \A t : ~InSeq(<<>>, t)
  BY DEF InSeq
<1>3. Distinct(<<>>)
  BY DEF Distinct
<1>4. ScanTypes
  <2>1. examples \in [Groups -> ExampleRecords]
    BY <1>1 DEF ScanInit, ExampleRecords
  <2>2. QED
    BY <1>1, <2>1 DEF ScanInit, ScanTypes, ThreadSet
<1>5. PlacesInv
  <2>1. \A t \in ThreadSet : ~InHand(t) /\ Queued(t) /\ ~Offered(t)
    BY ThreadsAreNoMarks DEF ScanInit, InHand, Queued, Offered, ThreadSet
  <2>2. \A t : ~InTasks(t) /\ ~InResults(t) /\ ~IsCounted(t)
    BY <1>2 DEF ScanInit, InTasks, InResults, IsCounted
  <2>3. \A v \in Workers : worker[v] \notin ThreadSet
    BY ThreadsAreNoMarks DEF ScanInit
  <2>4. \A t \in ThreadSet : OnePlace(t) /\ SomePlace(t)
    BY <2>1, <2>2 DEF OnePlace, SomePlace
  <2>5. QED
    BY <1>3, <2>3, <2>4 DEF ScanInit, PlacesInv, ThreadSet
<1>6. ClosedInv
  BY DEF ScanInit, ClosedInv, Idle, Gone
<1>7. GroupsInv
  <2>1. ASSUME NEW g \in Groups
        PROVE  examples[g].omitted + Len(examples[g].listed) = Cardinality(Members(counted, g))
    <3>1. Members(counted, g) = {}
      <4>1. counted = <<>>
        BY DEF ScanInit
      <4>2. DOMAIN <<>> = {}
        OBVIOUS
      <4>3. QED
        BY <4>1, <4>2 DEF Members
    <3>2. examples[g].omitted = 0 /\ examples[g].listed = <<>>
      BY DEF ScanInit
    <3>3. Cardinality(Members(counted, g)) = 0
      BY <3>1, FS_EmptySet
    <3>4. Len(<<>>) = 0
      OBVIOUS
    <3>5. QED
      BY <3>2, <3>3, <3>4
  <2>2. QED
    BY <2>1 DEF GroupsInv
<1>8. MountInv
  <2>1. mountReport = <<>> /\ probes = <<>> /\ mountsLeft = DOMAIN Mounts /\ probe = ""
    BY DEF ScanInit
  <2>2. DOMAIN <<>> = {}
    OBVIOUS
  <2>3. DOMAIN mountReport = {} /\ DOMAIN probes = {}
    BY <2>1, <2>2
  <2>4. QED
    BY <2>1, <2>3 DEF MountInv
<1>9. QED
  BY <1>4, <1>5, <1>6, <1>7, <1>8 DEF ScanInv

(* What a step that does not touch it keeps. *)
LEMMA ScanFrames ==
    /\ UNCHANGED mountVars /\ MountInv => MountInv'
    /\ UNCHANGED <<counted, examples>> /\ GroupsInv => GroupsInv'
    /\ \A t : UNCHANGED feed => (Queued(t)' <=> Queued(t))
    /\ \A t : UNCHANGED feeding => (Offered(t)' <=> Offered(t))
    /\ \A t : UNCHANGED tasksCh => (InTasks(t)' <=> InTasks(t))
    /\ \A t : UNCHANGED worker => (InHand(t)' <=> InHand(t))
    /\ \A t : UNCHANGED resultsCh => (InResults(t)' <=> InResults(t))
    /\ \A t : UNCHANGED counted => (IsCounted(t)' <=> IsCounted(t))
  BY DEF mountVars, MountInv, GroupsInv, Queued, Offered, InTasks, InHand, InResults, IsCounted

LEMMA ProcessFed ==
    ASSUME ScanInv, FeedProcess
    PROVE  ScanInv'
<1>1. /\ ~taskClosed /\ feeding = {}
      /\ UNCHANGED <<alive, tasksCh, worker, resultsCh, resultsClosed, counted, examples,
                     scanDone, scanCancelled, mountVars>>
  BY DEF FeedProcess
<1>2. /\ \A t : (InTasks(t)' <=> InTasks(t)) /\ (InHand(t)' <=> InHand(t))
      /\ \A t : (InResults(t)' <=> InResults(t)) /\ (IsCounted(t)' <=> IsCounted(t))
      /\ MountInv' /\ GroupsInv'
  BY <1>1, ScanFrames DEF ScanInv
<1>3. CASE /\ ~scanCancelled /\ UNCHANGED taskClosed
           /\ \E p \in feed : /\ feed' = feed \ {p}
                              /\ feeding' = {t \in alive : Threads[t].pid = p}
  <2>1. PICK p \in feed : feed' = feed \ {p} /\ feeding' = {t \in alive : Threads[t].pid = p}
    BY <1>3
  <2>2. ScanTypes'
    BY <1>1, <2>1 DEF ScanInv, ScanTypes
  <2>3. ASSUME NEW t \in ThreadSet
        PROVE  /\ Queued(t)' <=> Queued(t) /\ Threads[t].pid # p
               /\ Offered(t)' <=> t \in alive /\ Threads[t].pid = p
               /\ Threads[t].pid = p => Queued(t)
               /\ OnePlace(t) /\ (t \in alive => SomePlace(t)) /\ ~Offered(t)
    BY <1>1, <1>3, <2>1 DEF Queued, Offered, ScanInv, PlacesInv
  <2>4. \A t \in ThreadSet : OnePlace(t)' /\ (t \in alive => SomePlace(t)')
    BY <1>2, <2>3 DEF OnePlace, SomePlace
  <2>5. PlacesInv'
    BY <1>1, <2>4 DEF ScanInv, PlacesInv, ScanTypes
  <2>6. ClosedInv'
    BY <1>1, <1>2, <1>3 DEF ScanInv, ClosedInv
  <2>7. QED
    BY <1>2, <2>2, <2>5, <2>6 DEF ScanInv
<1>4. CASE (scanCancelled \/ feed = {}) /\ taskClosed' = TRUE /\ UNCHANGED <<feed, feeding>>
  <2>1. \A t : (Queued(t)' <=> Queued(t)) /\ (Offered(t)' <=> Offered(t))
    BY <1>4, ScanFrames
  <2>2. ScanTypes'
    BY <1>1, <1>4 DEF ScanInv, ScanTypes
  <2>3. PlacesInv'
    BY <1>1, <1>2, <2>1 DEF ScanInv, PlacesInv, OnePlace, SomePlace
  <2>4. ClosedInv'
    BY <1>1, <1>2, <1>4 DEF ScanInv, ClosedInv
  <2>5. QED
    BY <1>2, <2>2, <2>3, <2>4 DEF ScanInv
<1>5. QED
  BY <1>3, <1>4 DEF FeedProcess

LEMMA ThreadFed ==
    ASSUME ScanInv, NEW u \in ThreadSet, FeedThread(u)
    PROVE  ScanInv'
<1>1. /\ u \in feeding /\ feeding' = feeding \ {u} /\ tasksCh' = Append(tasksCh, u)
      /\ UNCHANGED <<alive, feed, taskClosed, worker, resultsCh, resultsClosed, counted, examples,
                     scanDone, scanCancelled, mountVars>>
  BY DEF FeedThread
<1>2. /\ \A t : (Queued(t)' <=> Queued(t)) /\ (InHand(t)' <=> InHand(t))
      /\ \A t : (InResults(t)' <=> InResults(t)) /\ (IsCounted(t)' <=> IsCounted(t))
      /\ MountInv' /\ GroupsInv'
  BY <1>1, ScanFrames DEF ScanInv
<1>3. tasksCh \in Seq(ThreadSet) /\ Distinct(tasksCh) /\ Offered(u) /\ ~InTasks(u) /\ OnePlace(u)
  BY <1>1 DEF ScanInv, ScanTypes, PlacesInv, OnePlace, Offered
<1>4. /\ tasksCh' \in Seq(ThreadSet) /\ Distinct(tasksCh')
      /\ \A t : InTasks(t)' <=> InTasks(t) \/ t = u
  BY <1>1, <1>3, InAppend DEF InTasks
<1>5. \A t : Offered(t)' <=> Offered(t) /\ t # u
  BY <1>1 DEF Offered
<1>6. \A t \in ThreadSet : /\ OnePlace(t) => OnePlace(t)'
                           /\ SomePlace(t) => SomePlace(t)'
  BY <1>2, <1>3, <1>4, <1>5 DEF OnePlace, SomePlace
<1>7. ScanTypes'
  BY <1>1, <1>4 DEF ScanInv, ScanTypes
<1>8. PlacesInv'
  BY <1>1, <1>4, <1>6 DEF ScanInv, PlacesInv, ScanTypes
<1>9. ClosedInv'
  BY <1>1, <1>2 DEF ScanInv, ClosedInv
<1>10. QED
  BY <1>2, <1>7, <1>8, <1>9 DEF ScanInv

(* A worker that had nothing in hand takes x, or returns. *)
LEMMA WorkerTakes ==
    ASSUME ScanTypes, PlacesInv, NEW w \in Workers, worker[w] = Idle,
           NEW x \in ThreadSet \cup {Gone}, worker' = [worker EXCEPT ![w] = x]
    PROVE  /\ worker' \in [Workers -> ThreadSet \cup {Idle, Gone}]
           /\ \A v \in Workers : worker'[v] = IF v = w THEN x ELSE worker[v]
           /\ \A t \in ThreadSet : InHand(t)' <=> InHand(t) \/ t = x
<1>1. worker \in [Workers -> ThreadSet \cup {Idle, Gone}]
  BY DEF ScanTypes
<1>2. \A v \in Workers : worker'[v] = IF v = w THEN x ELSE worker[v]
  BY <1>1
<1>3. ASSUME NEW t \in ThreadSet PROVE InHand(t)' <=> InHand(t) \/ t = x
  BY <1>2, ThreadsAreNoMarks DEF InHand
<1>4. QED
  BY <1>1, <1>2, <1>3

LEMMA TaskTaken ==
    ASSUME ScanInv, NEW w \in Workers, TakeTask(w)
    PROVE  ScanInv'
<1>1. /\ worker[w] = Idle
      /\ UNCHANGED <<alive, feed, feeding, taskClosed, resultsCh, resultsClosed, counted, examples,
                     scanDone, scanCancelled, mountVars>>
  BY DEF TakeTask
<1>2. /\ \A t : (Queued(t)' <=> Queued(t)) /\ (Offered(t)' <=> Offered(t))
      /\ \A t : (InResults(t)' <=> InResults(t)) /\ (IsCounted(t)' <=> IsCounted(t))
      /\ MountInv' /\ GroupsInv'
  BY <1>1, ScanFrames DEF ScanInv
<1>3. ~resultsClosed /\ Idle # Gone
  BY <1>1 DEF ScanInv, ClosedInv, Idle, Gone
<1>4. CASE /\ tasksCh # <<>> /\ tasksCh' = Tail(tasksCh)
           /\ worker' = [worker EXCEPT ![w] = IF scanCancelled THEN Gone ELSE Head(tasksCh)]
  <2> DEFINE h == Head(tasksCh)
             x == IF scanCancelled THEN Gone ELSE h
  <2>1. /\ tasksCh' \in Seq(ThreadSet) /\ h \in ThreadSet /\ InTasks(h)
        /\ \A t : InTasks(t)' <=> InTasks(t) /\ t # h
        /\ Distinct(tasksCh')
    BY <1>4, InTail DEF ScanInv, ScanTypes, PlacesInv, InTasks
  <2> HIDE DEF h
  <2>2. /\ worker' \in [Workers -> ThreadSet \cup {Idle, Gone}]
        /\ \A v \in Workers : worker'[v] = IF v = w THEN x ELSE worker[v]
        /\ \A t \in ThreadSet : InHand(t)' <=> InHand(t) \/ t = x
    <3>1. x \in ThreadSet \cup {Gone} /\ worker' = [worker EXCEPT ![w] = x]
      BY <1>4, <2>1 DEF h
    <3> HIDE DEF x
    <3>2. QED
      BY <1>1, <3>1, WorkerTakes DEF ScanInv
  <2>3. OnePlace(h) /\ ~InHand(h)
    BY <2>1 DEF ScanInv, PlacesInv, OnePlace
  <2>4. \A t \in ThreadSet : OnePlace(t) => OnePlace(t)'
    BY <1>2, <2>1, <2>2, <2>3, ThreadsAreNoMarks DEF OnePlace
  <2>5. ~scanCancelled => \A t \in ThreadSet : SomePlace(t) => SomePlace(t)'
    BY <1>2, <2>1, <2>2 DEF SomePlace
  <2>6. \A u, v \in Workers : worker'[u] = worker'[v] /\ worker'[u] \in ThreadSet => u = v
    <3>1. \A v \in Workers : worker[v] # h
      BY <2>3 DEF InHand
    <3>2. \A u, v \in Workers : worker[u] = worker[v] /\ worker[u] \in ThreadSet => u = v
      BY DEF ScanInv, PlacesInv
    <3>3. QED
      BY <2>2, <3>1, <3>2, ThreadsAreNoMarks
  <2>7. ScanTypes'
    BY <1>1, <2>1, <2>2 DEF ScanInv, ScanTypes
  <2>8. PlacesInv'
    BY <1>1, <2>1, <2>4, <2>5, <2>6 DEF ScanInv, PlacesInv, ScanTypes
  <2>9. ClosedInv'
    <3>1. \A v \in Workers : ~scanCancelled => worker'[v] # Gone
      BY <1>4, <2>1, <2>2, ThreadsAreNoMarks DEF ScanInv, ClosedInv
    <3>2. QED
      BY <1>1, <1>2, <1>3, <3>1 DEF ScanInv, ClosedInv
  <2>10. QED
    BY <1>2, <2>7, <2>8, <2>9 DEF ScanInv
<1>5. CASE tasksCh = <<>> /\ taskClosed /\ worker' = [worker EXCEPT ![w] = Gone] /\ UNCHANGED tasksCh
  <2>1. /\ worker' \in [Workers -> ThreadSet \cup {Idle, Gone}]
        /\ \A v \in Workers : worker'[v] = IF v = w THEN Gone ELSE worker[v]
        /\ \A t \in ThreadSet : InHand(t)' <=> InHand(t) \/ t = Gone
    BY <1>1, <1>5, WorkerTakes DEF ScanInv
  <2>2. \A t : InTasks(t)' <=> InTasks(t)
    BY <1>5, ScanFrames
  <2>3. \A t \in ThreadSet : (OnePlace(t) => OnePlace(t)') /\ (SomePlace(t) => SomePlace(t)')
    BY <1>2, <2>1, <2>2, ThreadsAreNoMarks DEF OnePlace, SomePlace
  <2>4. \A u, v \in Workers : worker'[u] = worker'[v] /\ worker'[u] \in ThreadSet => u = v
    <3>1. \A u, v \in Workers : worker[u] = worker[v] /\ worker[u] \in ThreadSet => u = v
      BY DEF ScanInv, PlacesInv
    <3>2. QED
      BY <2>1, <3>1, ThreadsAreNoMarks
  <2>5. ScanTypes'
    BY <1>1, <1>5, <2>1 DEF ScanInv, ScanTypes
  <2>6. PlacesInv'
    BY <1>1, <1>5, <2>3, <2>4 DEF ScanInv, PlacesInv, ScanTypes
  <2>7. ClosedInv'
    BY <1>1, <1>2, <1>3, <1>5, <2>1 DEF ScanInv, ClosedInv
  <2>8. QED
    BY <1>2, <2>5, <2>6, <2>7 DEF ScanInv
<1>6. QED
  BY <1>4, <1>5 DEF TakeTask

LEMMA ThreadRead ==
    ASSUME ScanInv, NEW w \in Workers, ReadThread(w)
    PROVE  ScanInv'
<1> DEFINE x == worker[w]
<1>1. /\ x \notin {Idle, Gone} /\ worker' = [worker EXCEPT ![w] = Idle]
      /\ resultsCh' = IF x \in alive THEN Append(resultsCh, x) ELSE resultsCh
      /\ UNCHANGED <<alive, feed, feeding, tasksCh, taskClosed, resultsClosed, counted, examples,
                     scanDone, scanCancelled, mountVars>>
  BY DEF ReadThread
<1>2. /\ \A t : (Queued(t)' <=> Queued(t)) /\ (Offered(t)' <=> Offered(t))
      /\ \A t : (InTasks(t)' <=> InTasks(t)) /\ (IsCounted(t)' <=> IsCounted(t))
      /\ MountInv' /\ GroupsInv'
  BY <1>1, ScanFrames DEF ScanInv
<1>3. /\ worker \in [Workers -> ThreadSet \cup {Idle, Gone}] /\ x \in ThreadSet
      /\ \A u, v \in Workers : worker[u] = worker[v] /\ worker[u] \in ThreadSet => u = v
  BY <1>1 DEF ScanInv, ScanTypes, PlacesInv
<1>4. \A v \in Workers : worker'[v] = IF v = w THEN Idle ELSE worker[v]
  BY <1>1, <1>3
<1>5. \A t \in ThreadSet : InHand(t)' <=> InHand(t) /\ t # x
  BY <1>3, <1>4, ThreadsAreNoMarks DEF InHand
<1>6. InHand(x) /\ OnePlace(x) /\ ~InResults(x) /\ ~resultsClosed
  <2>1. InHand(x) /\ OnePlace(x) /\ ~resultsClosed
    BY <1>1, <1>3 DEF InHand, ScanInv, PlacesInv, ClosedInv
  <2>2. QED
    BY <2>1 DEF OnePlace
<1> HIDE DEF x
<1>7. /\ resultsCh' \in Seq(ThreadSet) /\ Distinct(resultsCh')
      /\ \A t : InResults(t)' <=> InResults(t) \/ (t = x /\ x \in alive)
  <2>1. resultsCh \in Seq(ThreadSet) /\ Distinct(resultsCh)
    BY DEF ScanInv, ScanTypes, PlacesInv
  <2>2. CASE x \in alive
    BY <1>1, <1>3, <1>6, <2>1, <2>2, InAppend DEF InResults
  <2>3. CASE x \notin alive
    BY <1>1, <2>1, <2>3 DEF InResults
  <2>4. QED
    BY <2>2, <2>3
<1>8. \A t \in ThreadSet : /\ OnePlace(t) => OnePlace(t)'
                           /\ t \in alive /\ SomePlace(t) => SomePlace(t)'
  BY <1>2, <1>5, <1>6, <1>7 DEF OnePlace, SomePlace
<1>9. \A u, v \in Workers : worker'[u] = worker'[v] /\ worker'[u] \in ThreadSet => u = v
  BY <1>3, <1>4, ThreadsAreNoMarks
<1>10. ScanTypes'
  <2>1. worker' \in [Workers -> ThreadSet \cup {Idle, Gone}]
    BY <1>1, <1>3
  <2>2. QED
    BY <1>1, <1>7, <2>1 DEF ScanInv, ScanTypes
<1>11. PlacesInv'
  BY <1>1, <1>7, <1>8, <1>9 DEF ScanInv, PlacesInv, ScanTypes
<1>12. ClosedInv'
  <2>1. \A v \in Workers : worker'[v] = Gone => worker[v] = Gone
    BY <1>4 DEF Idle, Gone
  <2>2. QED
    BY <1>1, <1>2, <1>6, <2>1 DEF ScanInv, ClosedInv
<1>13. QED
  BY <1>2, <1>10, <1>11, <1>12 DEF ScanInv

LEMMA ResultsClosed ==
    ASSUME ScanInv, CloseResults
    PROVE  ScanInv'
<1>1. /\ \A w \in Workers : worker[w] = Gone
      /\ UNCHANGED <<alive, feed, feeding, tasksCh, taskClosed, worker, resultsCh, counted,
                     examples, scanDone, scanCancelled, mountVars>>
  BY DEF CloseResults, AllWorkersDone
<1>2. /\ \A t : (Queued(t)' <=> Queued(t)) /\ (Offered(t)' <=> Offered(t))
      /\ \A t : (InTasks(t)' <=> InTasks(t)) /\ (InHand(t)' <=> InHand(t))
      /\ \A t : (InResults(t)' <=> InResults(t)) /\ (IsCounted(t)' <=> IsCounted(t))
      /\ MountInv' /\ GroupsInv'
  BY <1>1, ScanFrames DEF ScanInv
<1>3. ScanTypes'
  BY <1>1 DEF ScanInv, ScanTypes
<1>4. PlacesInv'
  BY <1>1, <1>2 DEF ScanInv, PlacesInv, OnePlace, SomePlace
<1>5. ClosedInv'
  BY <1>1, <1>2 DEF ScanInv, ClosedInv
<1>6. QED
  BY <1>2, <1>3, <1>4, <1>5 DEF ScanInv

(* A group gains the counted thread if it is the thread's own. *)
LEMMA MembersOfAppend ==
    ASSUME NEW s \in Seq(ThreadSet), NEW x \in ThreadSet, NEW g
    PROVE  Cardinality(Members(Append(s, x), g)) =
             Cardinality(Members(s, g)) + (IF GroupOf(x) = g THEN 1 ELSE 0)
           /\ Cardinality(Members(s, g)) \in Nat
<1>1. /\ Len(s) \in Nat /\ DOMAIN s = 1..Len(s) /\ DOMAIN Append(s, x) = 1..(Len(s) + 1)
      /\ \A i \in 1..(Len(s) + 1) : Append(s, x)[i] = IF i = Len(s) + 1 THEN x ELSE s[i]
  OBVIOUS
<1> DEFINE u == Append(s, x)
           n == Len(s)
<1> HIDE DEF u, n
<1>2. /\ n \in Nat /\ DOMAIN s = 1..n /\ DOMAIN u = 1..(n + 1)
      /\ \A i \in 1..(n + 1) : u[i] = IF i = n + 1 THEN x ELSE s[i]
  BY <1>1 DEF u, n
<1>3. IsFiniteSet(Members(s, g)) /\ n + 1 \notin Members(s, g)
  <2>1. Members(s, g) \subseteq 1..n
    BY <1>2 DEF Members
  <2>2. IsFiniteSet(1..n)
    BY <1>2, FS_Interval
  <2>3. n + 1 \notin 1..n
    BY <1>2
  <2>4. QED
    BY <2>1, <2>2, <2>3, FS_Subset
<1>4. Cardinality(Members(s, g)) \in Nat
  BY <1>3, FS_CardinalityType
<1>5. \A i \in 1..n : u[i] = s[i] /\ i \in 1..(n + 1)
  BY <1>2
<1>6. u[n + 1] = x /\ n + 1 \in 1..(n + 1) /\ \A i \in 1..(n + 1) : i \in 1..n \/ i = n + 1
  BY <1>2
<1>7. CASE GroupOf(x) = g
  <2>1. Members(u, g) = Members(s, g) \cup {n + 1}
    BY <1>2, <1>5, <1>6, <1>7 DEF Members
  <2>2. Cardinality(Members(u, g)) = Cardinality(Members(s, g)) + 1
    BY <1>3, <2>1, FS_AddElement
  <2>3. QED
    BY <1>4, <1>7, <2>2 DEF u
<1>8. CASE GroupOf(x) # g
  <2>1. Members(u, g) = Members(s, g)
    BY <1>2, <1>5, <1>6, <1>8 DEF Members
  <2>2. QED
    BY <1>4, <1>8, <2>1 DEF u
<1>9. QED
  BY <1>7, <1>8

LEMMA ThreadCounted ==
    ASSUME ScanInv, CountThread
    PROVE  ScanInv'
<1> DEFINE x == Head(resultsCh)
           g == GroupOf(x)
<1>1. /\ scanDone = "" /\ resultsCh # <<>> /\ resultsCh' = Tail(resultsCh)
      /\ counted' = Append(counted, x)
      /\ examples' = IF ~Blocked(x) THEN examples
                                    ELSE [examples EXCEPT ![g] = AddExample(@, x)]
      /\ UNCHANGED <<alive, feed, feeding, tasksCh, taskClosed, worker, resultsClosed,
                     scanDone, scanCancelled, mountVars>>
  BY DEF CountThread, GroupOf
<1>2. /\ \A t : (Queued(t)' <=> Queued(t)) /\ (Offered(t)' <=> Offered(t))
      /\ \A t : (InTasks(t)' <=> InTasks(t)) /\ (InHand(t)' <=> InHand(t))
      /\ MountInv'
  BY <1>1, ScanFrames DEF ScanInv
<1>3. /\ resultsCh' \in Seq(ThreadSet) /\ x \in ThreadSet /\ InResults(x)
      /\ \A t : InResults(t)' <=> InResults(t) /\ t # x
      /\ Distinct(resultsCh')
  BY <1>1, InTail DEF ScanInv, ScanTypes, PlacesInv, InResults
<1> HIDE DEF x
<1>4. OnePlace(x) /\ ~IsCounted(x)
  BY <1>3 DEF ScanInv, PlacesInv, OnePlace
<1>5. counted \in Seq(ThreadSet) /\ Distinct(counted) /\ examples \in [Groups -> ExampleRecords]
  BY DEF ScanInv, ScanTypes, PlacesInv
<1>6. /\ counted' \in Seq(ThreadSet) /\ Distinct(counted')
      /\ \A t : IsCounted(t)' <=> IsCounted(t) \/ t = x
  BY <1>1, <1>3, <1>4, <1>5, InAppend DEF IsCounted
<1>7. \A t \in ThreadSet : (OnePlace(t) => OnePlace(t)') /\ (SomePlace(t) => SomePlace(t)')
  BY <1>2, <1>3, <1>4, <1>6 DEF OnePlace, SomePlace
<1>8. g \in Groups
  BY <1>3 DEF GroupOf, Groups, ThreadSet
<1>9. Blocked(x) <=> g[1] # ""
  BY DEF Blocked, GroupOf
<1> DEFINE r == examples[g]
           more == AddExample(r, x)
<1>10. /\ r \in ExampleRecords /\ r.listed \in Seq(ThreadSet) /\ r.omitted \in Nat
       /\ r = [listed |-> r.listed, omitted |-> r.omitted]
  BY <1>5, <1>8 DEF ExampleRecords
<1>11. /\ more \in ExampleRecords
       /\ more.omitted + Len(more.listed) = r.omitted + Len(r.listed) + 1
  <2> HIDE DEF r
  <2>1. /\ Append(r.listed, x) \in Seq(ThreadSet) /\ Len(r.listed) \in Nat
        /\ Len(Append(r.listed, x)) = Len(r.listed) + 1
    BY <1>3, <1>10
  <2>2. CASE Len(r.listed) < MaxExamples
    <3>1. more = [listed |-> Append(r.listed, x), omitted |-> r.omitted]
      BY <1>10, <2>2 DEF ExampleRecords, AddExample
    <3> DEFINE l == Append(r.listed, x)
               k == r.omitted
               z == [listed |-> l, omitted |-> k]
    <3>2. l \in Seq(ThreadSet) /\ k \in Nat /\ Len(l) = Len(r.listed) + 1
      BY <1>10, <2>1
    <3> HIDE DEF l, k
    <3>3. z \in ExampleRecords /\ z.omitted = k /\ z.listed = l
      BY <3>2 DEF ExampleRecords
    <3>4. k + Len(l) = k + Len(r.listed) + 1
      BY <2>1, <3>2
    <3>5. QED
      BY <3>1, <3>3, <3>4 DEF l, k
  <2>3. CASE ~(Len(r.listed) < MaxExamples)
    <3>1. more = [listed |-> r.listed, omitted |-> r.omitted + 1]
      BY <1>10, <2>3 DEF ExampleRecords, AddExample
    <3> DEFINE l == r.listed
               k == r.omitted + 1
               z == [listed |-> l, omitted |-> k]
    <3>2. l \in Seq(ThreadSet) /\ k \in Nat
      BY <1>10
    <3>3. k + Len(l) = r.omitted + Len(r.listed) + 1
      BY <1>10, <2>1
    <3> HIDE DEF l, k
    <3>4. z \in ExampleRecords /\ z.omitted = k /\ z.listed = l
      BY <3>2 DEF ExampleRecords
    <3>5. QED
      BY <3>1, <3>3, <3>4 DEF l, k
  <2>4. QED
    BY <2>2, <2>3
<1>12. examples' = IF ~Blocked(x) THEN examples ELSE [examples EXCEPT ![g] = more]
  BY <1>1
<1> HIDE DEF more, g
<1>13. /\ examples' \in [Groups -> ExampleRecords]
       /\ \A k \in Groups : examples'[k] = IF k = g /\ Blocked(x) THEN more ELSE examples[k]
  BY <1>5, <1>8, <1>11, <1>12
<1>14. ScanTypes'
  BY <1>1, <1>3, <1>6, <1>13 DEF ScanInv, ScanTypes
<1>15. PlacesInv'
  BY <1>1, <1>3, <1>6, <1>7 DEF ScanInv, PlacesInv, ScanTypes
<1>16. ClosedInv'
  BY <1>1, <1>2 DEF ScanInv, ClosedInv
<1>17. GroupsInv'
  <2>1. ASSUME NEW k \in Groups, k[1] # ""
        PROVE  examples'[k].omitted + Len(examples'[k].listed) =
                 Cardinality(Members(counted', k))
    <3>1. examples[k].omitted + Len(examples[k].listed) = Cardinality(Members(counted, k))
      BY <2>1 DEF ScanInv, GroupsInv
    <3>2. Cardinality(Members(counted', k)) =
            Cardinality(Members(counted, k)) + (IF GroupOf(x) = k THEN 1 ELSE 0)
          /\ Cardinality(Members(counted, k)) \in Nat
      BY <1>1, <1>3, <1>5, MembersOfAppend
    <3>3. CASE k = g
      <4>1. examples'[k] = more /\ GroupOf(x) = k
        BY <1>9, <1>13, <2>1, <3>3 DEF g
      <4>2. QED
        BY <1>11, <3>1, <3>2, <3>3, <4>1
    <3>4. CASE k # g
      <4>1. examples'[k] = examples[k] /\ GroupOf(x) # k
        BY <1>13, <3>4 DEF g
      <4>2. QED
        BY <3>1, <3>2, <4>1
    <3>5. QED
      BY <3>3, <3>4
  <2>2. QED
    BY <2>1 DEF GroupsInv
<1>18. QED
  BY <1>2, <1>14, <1>15, <1>16, <1>17 DEF ScanInv

(* A result is returned only if no worker gave up: the last worker out     *)
(* found the closed channel empty, so every thread had gone through.       *)
LEMMA ScanReturns ==
    ASSUME ScanInv, GetThreadWchan
    PROVE  ScanInv'
<1>1. /\ resultsClosed /\ resultsCh = <<>>
      /\ scanDone' = IF scanCancelled THEN "error" ELSE "result"
      /\ UNCHANGED <<alive, feed, feeding, tasksCh, taskClosed, worker, resultsCh, resultsClosed,
                     counted, examples, scanCancelled, mountVars>>
  BY DEF GetThreadWchan
<1>2. /\ \A t : (Queued(t)' <=> Queued(t)) /\ (Offered(t)' <=> Offered(t))
      /\ \A t : (InTasks(t)' <=> InTasks(t)) /\ (InHand(t)' <=> InHand(t))
      /\ \A t : (InResults(t)' <=> InResults(t)) /\ (IsCounted(t)' <=> IsCounted(t))
      /\ MountInv' /\ GroupsInv'
  BY <1>1, ScanFrames DEF ScanInv
<1>3. ASSUME ~scanCancelled, NEW t \in alive PROVE IsCounted(t)
  <2>1. \A w \in Workers : worker[w] = Gone
    BY <1>1 DEF ScanInv, ClosedInv
  <2>2. taskClosed /\ tasksCh = <<>>
    BY <1>3, <2>1, ThreadScanAssumption DEF ScanInv, ClosedInv
  <2>3. feeding = {} /\ feed = {}
    BY <1>3, <2>2 DEF ScanInv, ClosedInv
  <2>4. \A u : ~InSeq(<<>>, u)
    BY DEF InSeq
  <2>5. t \in ThreadSet /\ SomePlace(t)
    BY <1>3 DEF ScanInv, ScanTypes, PlacesInv
  <2>6. ~InHand(t)
    BY <2>1, <2>5, ThreadsAreNoMarks DEF InHand
  <2>7. ~Queued(t) /\ ~Offered(t) /\ ~InTasks(t) /\ ~InResults(t)
    BY <1>1, <2>2, <2>3, <2>4 DEF Queued, Offered, InTasks, InResults
  <2>8. QED
    BY <2>5, <2>6, <2>7 DEF SomePlace
<1>4. ScanTypes'
  BY <1>1 DEF ScanInv, ScanTypes
<1>5. PlacesInv'
  BY <1>1, <1>2 DEF ScanInv, PlacesInv, OnePlace, SomePlace
<1>6. ClosedInv'
  BY <1>1, <1>2, <1>3 DEF ScanInv, ClosedInv
<1>7. QED
  BY <1>2, <1>4, <1>5, <1>6 DEF ScanInv

(* A thread that ends, and a context that ends, ask for less. *)
LEMMA ScanDisturbed ==
    ASSUME ScanInv,
           \/ \E t \in ThreadSet : ThreadExits(t)
           \/ CtxEnds
    PROVE  ScanInv'
<1>1. /\ alive' \subseteq alive /\ (scanCancelled => scanCancelled')
      /\ UNCHANGED <<feed, feeding, tasksCh, taskClosed, worker, resultsCh, resultsClosed,
                     counted, examples, scanDone, mountVars>>
  <2>1. ASSUME NEW t \in ThreadSet, ThreadExits(t)
        PROVE  /\ alive' \subseteq alive /\ UNCHANGED scanCancelled
               /\ UNCHANGED <<feed, feeding, tasksCh, taskClosed, worker, resultsCh, resultsClosed,
                              counted, examples, scanDone, mountVars>>
    BY <2>1 DEF ThreadExits
  <2>2. ASSUME CtxEnds
        PROVE  /\ alive' = alive /\ scanCancelled'
               /\ UNCHANGED <<feed, feeding, tasksCh, taskClosed, worker, resultsCh, resultsClosed,
                              counted, examples, scanDone, mountVars>>
    BY <2>2 DEF CtxEnds, threadVars, mountVars
  <2>3. QED
    BY <2>1, <2>2
<1>2. /\ \A t : (Queued(t)' <=> Queued(t)) /\ (Offered(t)' <=> Offered(t))
      /\ \A t : (InTasks(t)' <=> InTasks(t)) /\ (InHand(t)' <=> InHand(t))
      /\ \A t : (InResults(t)' <=> InResults(t)) /\ (IsCounted(t)' <=> IsCounted(t))
      /\ MountInv' /\ GroupsInv'
  BY <1>1, ScanFrames DEF ScanInv
<1>3. ScanTypes'
  BY <1>1 DEF ScanInv, ScanTypes
<1>4. PlacesInv'
  BY <1>1, <1>2 DEF ScanInv, PlacesInv, OnePlace, SomePlace
<1>5. ClosedInv'
  BY <1>1, <1>2 DEF ScanInv, ClosedInv
<1>6. QED
  BY <1>2, <1>3, <1>4, <1>5 DEF ScanInv

(* The mounts leave the threads alone, and the other way round. *)
LEMMA ThreadsKept ==
    ASSUME ScanInv, UNCHANGED <<threadVars, scanCancelled>>
    PROVE  ScanTypes' /\ PlacesInv' /\ ClosedInv' /\ GroupsInv'
<1>1. UNCHANGED <<alive, feed, feeding, tasksCh, taskClosed, worker, resultsCh, resultsClosed,
                  counted, examples, scanDone, scanCancelled>>
  BY DEF threadVars
<1>2. /\ \A t : (Queued(t)' <=> Queued(t)) /\ (Offered(t)' <=> Offered(t))
      /\ \A t : (InTasks(t)' <=> InTasks(t)) /\ (InHand(t)' <=> InHand(t))
      /\ \A t : (InResults(t)' <=> InResults(t)) /\ (IsCounted(t)' <=> IsCounted(t))
      /\ GroupsInv'
  BY <1>1, ScanFrames DEF ScanInv
<1>3. ScanTypes'
  BY <1>1 DEF ScanInv, ScanTypes
<1>4. PlacesInv'
  BY <1>1, <1>2 DEF ScanInv, PlacesInv, OnePlace, SomePlace
<1>5. ClosedInv'
  BY <1>1, <1>2 DEF ScanInv, ClosedInv
<1>6. QED
  BY <1>2, <1>3, <1>4, <1>5

LEMMA MountSteps ==
    ASSUME ScanInv,
           \/ \E m \in DOMAIN Mounts : NextMount(m) \/ StatfsReturns(m)
           \/ statfsWithTimeout \/ collectTmpfs
    PROVE  ScanInv'
<1>1. UNCHANGED <<threadVars, scanCancelled>>
  BY DEF NextMount, StatfsReturns, statfsWithTimeout, collectTmpfs
<1>2. MountInv
  BY DEF ScanInv
<1>3. "" \notin DOMAIN Mounts
  BY ThreadScanAssumption
<1>4. ASSUME NEW m \in DOMAIN Mounts, NextMount(m) PROVE MountInv'
  <2>1. /\ probe = "" /\ m \in mountsLeft /\ mountsLeft' = mountsLeft \ {m} /\ probe' = m
        /\ probes' = [x \in DOMAIN probes \cup {m} |-> IF x = m THEN "called" ELSE probes[x]]
        /\ UNCHANGED mountReport
    BY <1>4 DEF NextMount
  <2>2. DOMAIN probes' = DOMAIN probes \cup {m} /\ \A x \in DOMAIN probes : x # m => probes'[x] = probes[x]
    BY <2>1
  <2>3. DOMAIN probes' = DOMAIN Mounts \ mountsLeft'
    BY <1>2, <2>1, <2>2 DEF MountInv
  <2>4. DOMAIN mountReport' = {x \in DOMAIN Mounts : x \notin mountsLeft' /\ x # probe'}
    BY <1>2, <1>3, <2>1 DEF MountInv
  <2>5. ASSUME NEW x \in DOMAIN mountReport', mountReport'[x] = "ok" PROVE probes'[x] = "answered"
    BY <1>2, <2>1, <2>2, <2>5 DEF MountInv
  <2>6. mountsLeft' \subseteq DOMAIN Mounts /\ probe' \in {""} \cup (DOMAIN Mounts \ mountsLeft')
    BY <1>2, <2>1 DEF MountInv
  <2>7. QED
    BY <2>3, <2>4, <2>5, <2>6 DEF MountInv
<1>5. ASSUME NEW m \in DOMAIN Mounts, StatfsReturns(m) PROVE MountInv'
  <2>1. /\ m \in DOMAIN probes /\ probes[m] = "called" /\ UNCHANGED <<mountsLeft, probe, mountReport>>
        /\ probes' = [probes EXCEPT ![m] = IF Mounts[m] = "fails" THEN "failed" ELSE "answered"]
    BY <1>5 DEF StatfsReturns
  <2>2. DOMAIN probes' = DOMAIN probes /\ \A x \in DOMAIN probes : x # m => probes'[x] = probes[x]
    BY <2>1
  <2>3. QED
    BY <1>2, <2>1, <2>2 DEF MountInv
<1>6. ASSUME statfsWithTimeout PROVE MountInv'
  <2>1. PICK result \in {"ok", "hung"} :
          /\ result = "ok" => probes[probe] = "answered"
          /\ mountReport' = [m \in DOMAIN mountReport \cup {probe} |->
                               IF m = probe THEN result ELSE mountReport[m]]
    BY <1>6 DEF statfsWithTimeout
  <2>2. probe # "" /\ probe' = "" /\ UNCHANGED <<mountsLeft, probes>>
    BY <1>6 DEF statfsWithTimeout
  <2>3. /\ DOMAIN mountReport' = DOMAIN mountReport \cup {probe}
        /\ \A m \in DOMAIN mountReport' :
             mountReport'[m] = IF m = probe THEN result ELSE mountReport[m]
    BY <2>1
  <2>4. DOMAIN mountReport' = {m \in DOMAIN Mounts : m \notin mountsLeft' /\ m # probe'}
    BY <1>2, <1>3, <2>2, <2>3 DEF MountInv
  <2>5. \A m \in DOMAIN mountReport' : mountReport'[m] = "ok" => probes'[m] = "answered"
    BY <1>2, <2>1, <2>2, <2>3 DEF MountInv
  <2>6. QED
    BY <1>2, <2>2, <2>4, <2>5 DEF MountInv
<1>7. ASSUME collectTmpfs PROVE MountInv'
  BY <1>2, <1>7 DEF collectTmpfs, MountInv
<1>8. MountInv'
  BY <1>4, <1>5, <1>6, <1>7
<1>9. QED
  BY <1>1, <1>8, ThreadsKept DEF ScanInv

(* A scan that returns a result has counted each thread that was there     *)
(* from beginning to end exactly once, whatever the number of workers, the *)
(* capacity of the channels and the threads that ended meanwhile; a mount  *)
(* is reported as good only if statfs answered (wchan.go GetThreadWchan,   *)
(* mounts.go statfsWithTimeout).                                           *)
THEOREM ScansStayComplete == ScanSpec => []ScansAreComplete
<1>1. ScanInit => ScanInv
  BY ScanInitInv
<1>2. ASSUME ScanInv, [ThreadNext \/ MountNext]_scanVars PROVE ScanInv'
  <2>1. ASSUME NEW t \in DOMAIN Threads, FeedThread(t) PROVE ScanInv'
    BY <1>2, <2>1, ThreadFed DEF ThreadSet
  <2>2. ASSUME NEW w \in Workers, TakeTask(w) \/ ReadThread(w) PROVE ScanInv'
    BY <1>2, <2>2, TaskTaken, ThreadRead
  <2>3. CASE (\E t \in DOMAIN Threads : ThreadExits(t)) \/ CtxEnds
    BY <1>2, <2>3, ScanDisturbed DEF ThreadSet
  <2>4. CASE UNCHANGED scanVars
    <3>1. UNCHANGED <<threadVars, scanCancelled>> /\ UNCHANGED mountVars
      BY <2>4 DEF scanVars
    <3>2. QED
      BY <1>2, <3>1, ThreadsKept, ScanFrames DEF ScanInv
  <2>5. QED
    BY <1>2, <2>1, <2>2, <2>3, <2>4, ProcessFed, ResultsClosed, ThreadCounted, ScanReturns, MountSteps
       DEF ThreadNext, MountNext
<1>3. ASSUME ScanInv PROVE ScansAreComplete
  <2>1. ASSUME scanDone = "result", NEW t \in alive
        PROVE  Cardinality({i \in DOMAIN counted : counted[i] = t}) = 1
    <3>1. Distinct(counted) /\ InSeq(counted, t)
      BY <1>3, <2>1 DEF ScanInv, PlacesInv, ClosedInv, IsCounted
    <3>2. PICK j \in DOMAIN counted : counted[j] = t
      BY <3>1 DEF InSeq
    <3>3. {i \in DOMAIN counted : counted[i] = t} = {j}
      BY <3>1, <3>2 DEF Distinct
    <3>4. QED
      BY <3>3, FS_Singleton
  <2>2. ASSUME NEW g \in Groups, g[1] # ""
        PROVE  examples[g].omitted + Len(examples[g].listed) =
                 Cardinality({i \in DOMAIN counted : <<Threads[counted[i]].wchan,
                                                       Threads[counted[i]].comm>> = g})
    BY <1>3, <2>2 DEF ScanInv, GroupsInv, Members, GroupOf
  <2>3. QED
    BY <1>3, <2>1, <2>2 DEF ScanInv, MountInv, ScansAreComplete
<1>4. QED
  BY <1>1, <1>2, <1>3, PTL DEF ScanSpec

-----------------------------------------------------------------------------
(***************************************************************************)
(* PeerLifecycle, for every number of identities, connections and reconnect *)
(* goroutines and for every reconnect policy.                              *)
(***************************************************************************)

(***************************************************************************)
(* The inductive strengthening. A goroutine of a connection exists only    *)
(* after AddPeer started it, so the death of a connection is never ahead   *)
(* of its registration; the peer map stores a connection under its owner.  *)
(***************************************************************************)
GoroutinesStarted ==
    \A c \in Conns :
        /\ addPc[c] # "free" => owner[c] \in NodeIDs
        /\ ctl[c] # "off" => addPc[c] \in {"reading", "done"}
        /\ accepting[c] => addPc[c] = "done"
        /\ deathPc[c] # "none" => addPc[c] \in {"reading", "done"}

PeersAreOwned ==
    \A id \in NodeIDs, c \in Conns :
        peers[id] = c => owner[c] = id /\ addPc[c] # "free"

(* Somebody will still fire OnIsolated, or it has been fired. *)
IsolationPending ==
    \E c \in Conns :
        \/ deathPc[c] = "removed"
        \/ deathPc[c] \in {"counted", "purged", "closed"} /\ remaining[c] = 0

IsolationInv ==
    (NoPeers /\ \E c \in Conns : addPc[c] # "free")
        => isolated \/ IsolationPending

LoopInv ==
    closePc = "open" =>
        /\ \A l, m \in Loops : loopPc[l] # "idle" /\ loopPc[m] # "idle" => l = m
        /\ (\E l \in Loops : loopPc[l] # "idle") => running

ConnInv == TypeOK /\ GoroutinesStarted

USE DEF AddStates, CtlStates, DeathStates, LoopStates

-----------------------------------------------------------------------------
(* The number of registered peers is a natural number, and it is 0 exactly *)
(* when the peer map is empty: what handlePeerDeath's count relies on.     *)
LEMMA CountFacts == Count \in Nat /\ (NoPeers => Count = 0)
<1> DEFINE S == {id \in NodeIDs : peers[id] # None}
<1>1. IsFiniteSet(S)
  BY FS_Subset, ConstantsAssumption, S \subseteq NodeIDs
<1>2. Count \in Nat
  BY <1>1, FS_CardinalityType DEF Count
<1>3. NoPeers => S = {}
  BY DEF NoPeers
<1>4. NoPeers => Count = 0
  BY <1>3, FS_EmptySet DEF Count
<1>5. QED
  BY <1>2, <1>4

LEMMA ConnInvInit == Init => ConnInv
<1>1. 0 \in 0..MaxRound
  BY ConstantsAssumption
<1>2. Init => TypeOK
  <2> SUFFICES ASSUME Init PROVE TypeOK
    OBVIOUS
  <2>1. /\ owner \in [Conns -> NodeIDs \cup {None}]
        /\ addPc \in [Conns -> AddStates]
        /\ broken \in [Conns -> BOOLEAN]
        /\ ctl \in [Conns -> CtlStates]
        /\ accepting \in [Conns -> BOOLEAN]
    BY DEF Init
  <2>2. /\ deathPc \in [Conns -> DeathStates]
        /\ remaining \in [Conns -> Nat]
        /\ peers \in [NodeIDs -> Conns \cup {None}]
        /\ routes \in SUBSET NodeIDs
    BY DEF Init
  <2>3. /\ running \in BOOLEAN
        /\ loopPc \in [Loops -> LoopStates]
        /\ todo \in [Loops -> SUBSET Targets]
        /\ dialed \in [Loops -> Conns \cup {None}]
        /\ expired \in [Loops -> BOOLEAN]
    BY DEF Init
  <2>4. round \in [Loops -> 0..MaxRound]
    BY <1>1 DEF Init
  <2>5. QED
    BY <2>1, <2>2, <2>3, <2>4 DEF Init, TypeOK
<1>3. Init => GoroutinesStarted
  BY DEF Init, GoroutinesStarted
<1>4. QED
  BY <1>2, <1>3 DEF ConnInv

LEMMA ConnInvNext == ConnInv /\ [Next]_vars => ConnInv'
<1> SUFFICES ASSUME ConnInv, [Next]_vars PROVE ConnInv'
  OBVIOUS
<1> USE DEF ConnInv, TypeOK, GoroutinesStarted, connVars, deathVars, loopVars
<1>1. ASSUME NEW c \in Conns, NEW id \in NodeIDs, AcceptPeer(c, id) PROVE ConnInv'
  BY <1>1 DEF AcceptPeer, Register
<1>2. ASSUME NEW c \in Conns, AddDirectNeighbor(c) PROVE ConnInv'
  BY <1>2 DEF AddDirectNeighbor
<1>3. ASSUME NEW c \in Conns, StartControlLoop(c) PROVE ConnInv'
  BY <1>3 DEF StartControlLoop
<1>4. ASSUME NEW c \in Conns, FinishAddPeer(c) PROVE ConnInv'
  BY <1>4 DEF FinishAddPeer
<1>5. ASSUME NEW c \in Conns, Break(c) PROVE ConnInv'
  BY <1>5 DEF Break
<1>6. ASSUME NEW c \in Conns, ReadGossip(c) PROVE ConnInv'
  BY <1>6 DEF ReadGossip
<1>7. ASSUME NEW c \in Conns, HandleGossipFrame(c) PROVE ConnInv'
  BY <1>7 DEF HandleGossipFrame
<1>8. ASSUME NEW c \in Conns, ControlLoopError(c) PROVE ConnInv'
  BY <1>8 DEF ControlLoopError, DeathOnceDo
<1>9. ASSUME NEW c \in Conns, AcceptStreamsError(c) PROVE ConnInv'
  BY <1>9 DEF AcceptStreamsError, DeathOnceDo
<1>10. ASSUME NEW c \in Conns, DeathRemove(c) PROVE ConnInv'
  BY <1>10 DEF DeathRemove
<1>11. ASSUME NEW c \in Conns, DeathCount(c) PROVE ConnInv'
  BY <1>11, CountFacts DEF DeathCount
<1>12. ASSUME NEW c \in Conns, DeathPurge(c) PROVE ConnInv'
  BY <1>12 DEF DeathPurge
<1>13. ASSUME NEW c \in Conns, DeathClose(c) PROVE ConnInv'
  BY <1>13 DEF DeathClose
<1>14. ASSUME NEW c \in Conns, DeathNotify(c) PROVE ConnInv'
  <2>1. CASE StartReconnectLoop /\ running
    BY <1>14, <2>1 DEF DeathNotify, StartReconnectLoop
  <2>2. CASE StartReconnectLoop /\ ~running
    <3>1. PICK l \in Loops : SpawnRun(l)
      BY <2>2 DEF StartReconnectLoop
    <3>2. QED
      BY <1>14, <3>1 DEF DeathNotify, SpawnRun
  <2>3. CASE UNCHANGED loopVars
    BY <1>14, <2>3 DEF DeathNotify
  <2>4. QED
    BY <1>14, <2>1, <2>2, <2>3 DEF DeathNotify
<1>15. ASSUME NEW id \in NodeIDs, PurgeStale(id) PROVE ConnInv'
  BY <1>15 DEF PurgeStale
<1>16. ASSUME NEW l \in Loops, LoopStep(l) PROVE ConnInv'
  <2> USE DEF unchangedByLoop
  <2>1. CASE LoopCancelled(l)
    BY <2>1 DEF LoopCancelled
  <2>2. CASE LoopRound(l)
    BY <2>2, ConstantsAssumption DEF LoopRound
  <2>3. CASE LoopReconnected(l)
    BY <2>3 DEF LoopReconnected
  <2>4. CASE LoopRoundFailed(l)
    <3>1. NextRound(round[l]) \in 0..MaxRound
      BY ConstantsAssumption DEF NextRound
    <3>2. QED
      BY <2>4, <3>1 DEF LoopRoundFailed
  <2>5. CASE LoopBackoffOver(l)
    BY <2>5 DEF LoopBackoffOver
  <2>6. CASE LoopExit(l)
    <3>1. 0 \in 0..MaxRound
      BY ConstantsAssumption
    <3>2. TypeOK'
      BY <2>6, <3>1 DEF LoopExit
    <3>3. GoroutinesStarted'
      BY <2>6 DEF LoopExit
    <3>4. QED
      BY <3>2, <3>3
  <2>7. CASE \E t \in Targets : LoopDialFails(l, t)
    BY <2>7 DEF LoopDialFails
  <2>8. CASE \E t \in NodeIDs, c \in Conns : LoopDial(l, t, c)
    <3>1. PICK t \in NodeIDs, c \in Conns : LoopDial(l, t, c)
      BY <2>8
    <3>2. QED
      BY <3>1 DEF LoopDial, Register
  <2>9. QED
    BY <1>16, <2>1, <2>2, <2>3, <2>4, <2>5, <2>6, <2>7, <2>8 DEF LoopStep
<1>17. ASSUME NEW l \in Loops, LoopTimeout(l) PROVE ConnInv'
  BY <1>17 DEF LoopTimeout, unchangedByLoop
<1>18. CASE CloseStop
  BY <1>18 DEF CloseStop
<1>19. CASE CloseCancel
  BY <1>19 DEF CloseCancel
<1>20. CASE UNCHANGED vars
  BY <1>20 DEF vars
<1>21. QED
  BY <1>1, <1>2, <1>3, <1>4, <1>5, <1>6, <1>7, <1>8, <1>9, <1>10, <1>11,
     <1>12, <1>13, <1>14, <1>15, <1>16, <1>17, <1>18, <1>19, <1>20
     DEF Next, AddStep, ControlStep, DeathStep

(* Type correctness, for every instance: no goroutine of AddPeer,          *)
(* handlePeerDeath, the control loop or run() ever leaves its domain; in   *)
(* particular every route is recorded under a real identity.               *)
THEOREM TypeCorrect == Spec => []TypeOK
<1>1. ConnInv => TypeOK
  BY DEF ConnInv
<1>2. QED
  BY ConnInvInit, ConnInvNext, <1>1, PTL DEF Spec

-----------------------------------------------------------------------------
RegInv == PeersAreOwned /\ NoDeadPeerRegistered

(* Every step of run() other than a successful dial, and every step of the *)
(* gossip ticker and of Close, leaves connections and peer map alone.      *)
LEMMA BackgroundSteps ==
    ASSUME NEW l \in Loops,
           \/ LoopCancelled(l) \/ LoopRound(l) \/ LoopReconnected(l)
           \/ LoopRoundFailed(l) \/ LoopBackoffOver(l) \/ LoopExit(l)
           \/ \E t \in Targets : LoopDialFails(l, t)
           \/ LoopTimeout(l)
    PROVE  UNCHANGED <<owner, addPc, peers, deathPc, remaining, isolated,
                       closePc>>
BY DEF LoopCancelled, LoopRound, LoopReconnected, LoopRoundFailed,
       LoopBackoffOver, LoopExit, LoopDialFails, LoopTimeout, unchangedByLoop,
       connVars, deathVars

LEMMA RegInvInit == Init => RegInv
BY ConstantsAssumption DEF Init, RegInv, PeersAreOwned, NoDeadPeerRegistered

LEMMA RegInvNext == ConnInv /\ RegInv /\ [Next]_vars => RegInv'
<1> SUFFICES ASSUME ConnInv, RegInv, [Next]_vars PROVE RegInv'
  OBVIOUS
<1> USE DEF RegInv, PeersAreOwned, NoDeadPeerRegistered
<1>1. ASSUME NEW c \in Conns, NEW id \in NodeIDs, Register(c, id) PROVE RegInv'
  BY <1>1 DEF Register, ConnInv, TypeOK, GoroutinesStarted, deathVars
<1>2. ASSUME NEW c \in Conns, AddStep(c) PROVE RegInv'
  BY <1>2 DEF AddStep, AddDirectNeighbor, StartControlLoop, FinishAddPeer,
              ConnInv, TypeOK, deathVars
<1>3. ASSUME NEW c \in Conns, Break(c) \/ ReadGossip(c) \/ HandleGossipFrame(c)
      PROVE  RegInv'
  BY <1>3 DEF Break, ReadGossip, HandleGossipFrame, connVars, deathVars
<1>4. ASSUME NEW c \in Conns, ControlLoopError(c) \/ AcceptStreamsError(c)
      PROVE  RegInv'
  BY <1>4 DEF ControlLoopError, AcceptStreamsError, DeathOnceDo, connVars,
              ConnInv, TypeOK
<1>5. ASSUME NEW c \in Conns, DeathRemove(c) PROVE RegInv'
  <2>1. owner[c] \in NodeIDs
    BY <1>5 DEF DeathRemove, ConnInv, GoroutinesStarted
  <2>2. \A id \in NodeIDs : peers'[id] # c
    BY <1>5, <2>1, ConstantsAssumption DEF DeathRemove, ConnInv, TypeOK
  <2>3. \A id \in NodeIDs, d \in Conns : peers'[id] = d => peers[id] = d
    BY <1>5, <2>1, ConstantsAssumption DEF DeathRemove, ConnInv, TypeOK
  <2>4. QED
    BY <1>5, <2>2, <2>3 DEF DeathRemove, connVars, ConnInv, TypeOK
<1>6. ASSUME NEW c \in Conns,
             DeathCount(c) \/ DeathPurge(c) \/ DeathClose(c) \/ DeathNotify(c)
      PROVE  RegInv'
  BY <1>6 DEF DeathCount, DeathPurge, DeathClose, DeathNotify, connVars,
              ConnInv, TypeOK
<1>7. ASSUME NEW id \in NodeIDs, PurgeStale(id) PROVE RegInv'
  BY <1>7 DEF PurgeStale, connVars, deathVars
<1>8. ASSUME NEW l \in Loops, LoopStep(l) \/ LoopTimeout(l) PROVE RegInv'
  <2>1. CASE \E t \in NodeIDs, c \in Conns : LoopDial(l, t, c)
    BY <2>1, <1>1 DEF LoopDial
  <2>2. CASE ~ \E t \in NodeIDs, c \in Conns : LoopDial(l, t, c)
    BY <1>8, <2>2, BackgroundSteps DEF LoopStep
  <2>3. QED
    BY <2>1, <2>2
<1>9. CASE CloseStop \/ CloseCancel
  BY <1>9 DEF CloseStop, CloseCancel, connVars, deathVars
<1>10. CASE UNCHANGED vars
  BY <1>10 DEF vars, connVars, deathVars
<1>11. QED
  BY <1>1, <1>2, <1>3, <1>4, <1>5, <1>6, <1>7, <1>8, <1>9, <1>10
     DEF Next, AcceptPeer, ControlStep, DeathStep

(* A connection that handlePeerDeath removed never reappears in the peer   *)
(* manager, for any number of peers, connections and reconnect loops.      *)
THEOREM DeadPeersStayRemoved == Spec => []NoDeadPeerRegistered
<1>1. RegInv => NoDeadPeerRegistered
  BY DEF RegInv
<1>2. QED
  BY ConnInvInit, ConnInvNext, RegInvInit, RegInvNext, <1>1, PTL DEF Spec

-----------------------------------------------------------------------------
LEMMA IsolationInvInit == Init => IsolationInv
BY DEF Init, IsolationInv

LEMMA IsolationInvNext ==
    ConnInv /\ RegInv /\ IsolationInv /\ [Next]_vars => IsolationInv'
<1> SUFFICES ASSUME ConnInv, RegInv, IsolationInv, [Next]_vars
             PROVE  IsolationInv'
  OBVIOUS
<1> USE DEF IsolationInv, IsolationPending, NoPeers
<1>1. ASSUME NEW c \in Conns, NEW id \in NodeIDs, Register(c, id)
      PROVE  IsolationInv'
  <2>1. peers'[id] # None
    BY <1>1, ConstantsAssumption DEF Register, ConnInv, TypeOK
  <2>2. QED
    BY <2>1
<1>2. ASSUME NEW c \in Conns, AddStep(c) PROVE IsolationInv'
  BY <1>2 DEF AddStep, AddDirectNeighbor, StartControlLoop, FinishAddPeer,
              ConnInv, TypeOK, deathVars
<1>3. ASSUME NEW c \in Conns, Break(c) \/ ReadGossip(c) \/ HandleGossipFrame(c)
      PROVE  IsolationInv'
  BY <1>3 DEF Break, ReadGossip, HandleGossipFrame, connVars, deathVars
<1>4. ASSUME NEW c \in Conns, ControlLoopError(c) \/ AcceptStreamsError(c)
      PROVE  IsolationInv'
  BY <1>4 DEF ControlLoopError, AcceptStreamsError, DeathOnceDo, connVars,
              ConnInv, TypeOK
<1>5. ASSUME NEW c \in Conns, DeathRemove(c) PROVE IsolationInv'
  <2>1. deathPc'[c] = "removed"
    BY <1>5 DEF DeathRemove, ConnInv, TypeOK
  <2>2. QED
    BY <2>1
<1>6. ASSUME NEW c \in Conns, DeathCount(c) PROVE IsolationInv'
  <2>1. NoPeers' => deathPc'[c] = "counted" /\ remaining'[c] = 0
    BY <1>6, CountFacts DEF DeathCount, ConnInv, TypeOK
  <2>2. QED
    BY <2>1
<1>7. ASSUME NEW c \in Conns, DeathPurge(c) \/ DeathClose(c)
      PROVE  IsolationInv'
  BY <1>7 DEF DeathPurge, DeathClose, connVars, ConnInv, TypeOK
<1>8. ASSUME NEW c \in Conns, DeathNotify(c) PROVE IsolationInv'
  BY <1>8 DEF DeathNotify, connVars, ConnInv, TypeOK
<1>9. ASSUME NEW id \in NodeIDs, PurgeStale(id) PROVE IsolationInv'
  BY <1>9 DEF PurgeStale, connVars, deathVars
<1>10. ASSUME NEW l \in Loops, LoopStep(l) \/ LoopTimeout(l)
       PROVE  IsolationInv'
  <2>1. CASE \E t \in NodeIDs, c \in Conns : LoopDial(l, t, c)
    BY <2>1, <1>1 DEF LoopDial
  <2>2. CASE ~ \E t \in NodeIDs, c \in Conns : LoopDial(l, t, c)
    BY <1>10, <2>2, BackgroundSteps DEF LoopStep
  <2>3. QED
    BY <2>1, <2>2
<1>11. CASE CloseStop \/ CloseCancel
  BY <1>11 DEF CloseStop, CloseCancel, connVars, deathVars
<1>12. CASE UNCHANGED vars
  BY <1>12 DEF vars, connVars, deathVars
<1>13. QED
  BY <1>1, <1>2, <1>3, <1>4, <1>5, <1>6, <1>7, <1>8, <1>9, <1>10, <1>11, <1>12
     DEF Next, AcceptPeer, ControlStep, DeathStep

(* However many peers die together and however their cleanups interleave   *)
(* with AddPeer, a node whose peer map has become empty has fired          *)
(* OnIsolated once the cleanups are over.                                  *)
THEOREM IsolationNeverMissed == Spec => []NoMissedIsolation
<1>1. ConnInv /\ IsolationInv => NoMissedIsolation
  BY DEF ConnInv, TypeOK, IsolationInv, IsolationPending, NoMissedIsolation,
         Quiet
<1>2. QED
  BY ConnInvInit, ConnInvNext, RegInvInit, RegInvNext, IsolationInvInit,
     IsolationInvNext, <1>1, PTL DEF Spec

-----------------------------------------------------------------------------
LEMMA LoopInvInit == Init => LoopInv
BY DEF Init, LoopInv

LEMMA LoopInvNext == ConnInv /\ LoopInv /\ [Next]_vars => LoopInv'
<1> SUFFICES ASSUME ConnInv, LoopInv, [Next]_vars PROVE LoopInv'
  OBVIOUS
<1>0. loopPc \in [Loops -> LoopStates]
  BY DEF ConnInv, TypeOK
<1>1. ASSUME UNCHANGED <<loopPc, running, closePc>> PROVE LoopInv'
  BY <1>1 DEF LoopInv
<1>2. ASSUME NEW c \in Conns,
             \/ \E id \in NodeIDs : AcceptPeer(c, id)
             \/ AddStep(c) \/ Break(c) \/ ReadGossip(c) \/ ControlStep(c)
             \/ AcceptStreamsError(c) \/ DeathRemove(c) \/ DeathCount(c)
             \/ DeathPurge(c) \/ DeathClose(c)
      PROVE  LoopInv'
  BY <1>2, <1>1
     DEF AcceptPeer, Register, AddStep, AddDirectNeighbor, StartControlLoop,
         FinishAddPeer, Break, ReadGossip, ControlStep, HandleGossipFrame,
         ControlLoopError, AcceptStreamsError, DeathRemove, DeathCount,
         DeathPurge, DeathClose, loopVars
<1>3. ASSUME NEW c \in Conns, DeathNotify(c) PROVE LoopInv'
  <2>1. CASE UNCHANGED loopVars
    BY <1>3, <2>1, <1>1 DEF DeathNotify, loopVars
  <2>2. CASE StartReconnectLoop /\ ~running
    <3>1. PICK l \in Loops : SpawnRun(l)
      BY <2>2 DEF StartReconnectLoop
    <3>2. closePc = "open" => \A m \in Loops : loopPc[m] = "idle"
      BY <2>2 DEF LoopInv
    <3>3. QED
      BY <1>0, <1>3, <3>1, <3>2 DEF SpawnRun, DeathNotify, LoopInv
  <2>3. QED
    BY <1>3, <2>1, <2>2 DEF DeathNotify, StartReconnectLoop
<1>4. ASSUME NEW id \in NodeIDs, PurgeStale(id) PROVE LoopInv'
  BY <1>4, <1>1 DEF PurgeStale, loopVars
<1>5. ASSUME NEW l \in Loops, LoopStep(l) PROVE LoopInv'
  <2>1. CASE LoopExit(l)
    BY <2>1, <1>0 DEF LoopExit, LoopInv, unchangedByLoop
  <2>2. ASSUME loopPc[l] # "idle", UNCHANGED <<running, closePc>>,
               \/ UNCHANGED loopPc
               \/ \E s \in LoopStates : loopPc' = [loopPc EXCEPT ![l] = s]
        PROVE  LoopInv'
    BY <2>2, <1>0 DEF LoopInv
  <2>3. CASE LoopCancelled(l)
    BY <2>3, <2>2 DEF LoopCancelled, unchangedByLoop
  <2>4. CASE LoopRound(l)
    BY <2>4, <2>2 DEF LoopRound, unchangedByLoop
  <2>5. CASE LoopReconnected(l)
    BY <2>5, <2>2 DEF LoopReconnected, unchangedByLoop
  <2>6. CASE LoopRoundFailed(l)
    BY <2>6, <2>2 DEF LoopRoundFailed, unchangedByLoop
  <2>7. CASE LoopBackoffOver(l)
    BY <2>7, <2>2 DEF LoopBackoffOver, unchangedByLoop
  <2>8. CASE \E t \in Targets : LoopDialFails(l, t)
    BY <2>8, <2>2 DEF LoopDialFails, unchangedByLoop
  <2>9. CASE \E t \in NodeIDs, c \in Conns : LoopDial(l, t, c)
    BY <2>9, <2>2 DEF LoopDial, Register
  <2>10. QED
    BY <1>5, <2>1, <2>3, <2>4, <2>5, <2>6, <2>7, <2>8, <2>9 DEF LoopStep
<1>6. ASSUME NEW l \in Loops, LoopTimeout(l) PROVE LoopInv'
  BY <1>6, <1>1 DEF LoopTimeout, unchangedByLoop
<1>7. CASE CloseStop \/ CloseCancel
  BY <1>7 DEF CloseStop, CloseCancel, LoopInv
<1>8. CASE UNCHANGED vars
  BY <1>8, <1>1 DEF vars, loopVars
<1>9. QED
  BY <1>2, <1>3, <1>4, <1>5, <1>6, <1>7, <1>8 DEF Next, DeathStep

(* The compare-and-swap of reconnectLoop.Start admits one run() goroutine  *)
(* at a time while the node is open, for any number of concurrent deaths.  *)
THEOREM OneReconnectLoop == Spec => []AtMostOneLoop
<1>1. LoopInv => AtMostOneLoop
  BY DEF LoopInv, AtMostOneLoop
<1>2. QED
  BY ConnInvInit, ConnInvNext, LoopInvInit, LoopInvNext, <1>1, PTL DEF Spec
=============================================================================
