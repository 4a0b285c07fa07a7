------------------------------ MODULE Requests ------------------------------
(***************************************************************************)
(* A tool call from the MCP client to the nodes and back: the checks of    *)
(* the MCP server (internal/mcp/server.go), the routing of the gateway     *)
(* (pkg/mesh/gateway), the invocation over a mesh stream (pkg/mesh/tools)  *)
(* and the tool with its one-entry result cache (internal/registry).       *)
(* Several calls run at once; nodes fail and come back; the gateway's      *)
(* capability index (CapabilityIndex) may name nodes that are gone.        *)
(***************************************************************************)
EXTENDS Integers, Sequences, FiniteSets

CONSTANTS MCPCalls,        \* concurrent calls of call_tool
          ToolNodes,       \* remote nodes
          ToolNames,       \* tools the calls name
          Holders,         \* Holders[t]: nodes that registered t
          Params,          \* parameters of every tool: [name, type, required]
          Inputs,          \* Inputs[r]: inputs of a call, [tool, to, args]; to is "", a node or a
                           \* pattern, args maps a parameter name to the type of its value
          PatternNodes,    \* PatternNodes[d]: nodes that pattern d matches
          BadPatterns,     \* patterns that do not parse
          CacheTTL, MaxClock,
          MaxUpsets        \* bound on failures, restarts and index changes

ASSUME RequestsAssumption ==
    /\ CacheTTL \in Nat /\ MaxClock \in Nat
    /\ Holders \in [ToolNames -> SUBSET (ToolNodes \cup {"gateway"})]
    /\ \A r \in MCPCalls : \A i \in Inputs[r] :
         /\ i.tool \in ToolNames
         /\ i.to \in {""} \cup ToolNodes \cup DOMAIN PatternNodes \cup BadPatterns

VARIABLES rclock,      \* time
          index,       \* index[t]: what LookupCapability returns at the gateway
          up,          \* remote nodes that run and are reachable
          req,         \* req[r]: [pc, tool, to, args, start, matched, answer]
          inv,         \* inv[r][n]: [pc, res], one goroutine of a call
          cachedTool,  \* cachedTool[n][t]: [args, res, expires] or an empty entry
          upsets

requestVars == <<rclock, index, up, req, inv, cachedTool, upsets>>

Servers == ToolNodes \cup {"gateway"}
NoResult == [ok |-> FALSE, node |-> "", args |-> <<>>, finished |-> 0]
NoEntry == [hash |-> <<>>, res |-> NoResult, expires |-> 0]

-----------------------------------------------------------------------------
(* handleCallTool of the MCP server: arguments of a known tool. *)

(* JSON numbers are floats; an integer is one without fraction.  A type    *)
(* the server does not know ("object") is not checked.                     *)
OfType(type, value) ==
    CASE type = "number"  -> value \in {"number", "integer"}
      [] type \in {"string", "boolean", "integer", "array"} -> value = type
      [] OTHER -> TRUE

ArgPresent(args, name) == name \in DOMAIN args /\ args[name] # "null"

BadArguments(args) ==
    \/ \E p \in Params : \/ p.required /\ ~ArgPresent(args, p.name)
                         \/ ArgPresent(args, p.name) /\ ~OfType(p.type, args[p.name])
    \/ \E name \in DOMAIN args : \A p \in Params : p.name # name

Answer(r, kind) == [req EXCEPT ![r].pc = "done", ![r].answer = kind]

(* HandleCallTool: a call without node goes to the gateway's own tool if   *)
(* it has it, else to discovery as a pattern does; a name goes to the node.*)
handleCallTool(r, t, to, args) ==
    LET direct == IF to = "" THEN Holders[t] \cap {"gateway"} ELSE Servers \cap {to}
        call == [tool |-> t, to |-> to, args |-> args, start |-> rclock, matched |-> direct,
                 answer |-> "none", pc |-> IF direct = {} THEN "discover" ELSE "invoke"]
    IN  /\ req[r].pc = "idle"
        /\ req' = [req EXCEPT ![r] =
             IF BadArguments(args)
             THEN [call EXCEPT !.pc = "done", !.matched = {}, !.answer = "error"] ELSE call]
        /\ UNCHANGED <<rclock, index, up, inv, cachedTool, upsets>>

(* DiscoverTool: the index, and only if it knows nobody a sonar query,     *)
(* which finds some of the nodes that are up.                              *)
DiscoverTool(t, answers) ==
    IF index[t] # {} THEN index[t] ELSE answers

(* handleAutoRoute and handleFanOut.  The agents come sorted by impedance, *)
(* which may be any order here.  A pattern is only parsed when there is an *)
(* agent to match.                                                         *)
Route(r, answers, first) ==
    LET agents == DiscoverTool(req[r].tool, answers)
        to     == req[r].to
        match  == IF to = "" THEN {first} ELSE agents \cap PatternNodes[to]
    IN  /\ req[r].pc = "discover" /\ answers \subseteq up \cap Holders[req[r].tool]
        /\ agents # {} => first \in agents
        /\ req' = IF agents = {} \/ to \in BadPatterns THEN Answer(r, "error")
                  ELSE IF match = {} THEN Answer(r, "error")
                  ELSE [req EXCEPT ![r].pc = "invoke", ![r].matched = match]
        /\ UNCHANGED <<rclock, index, up, inv, cachedTool, upsets>>

-----------------------------------------------------------------------------
(* One invocation. *)

SetInv(r, n, pc, res) == inv' = [inv EXCEPT ![r][n] = [pc |-> pc, res |-> res]]

(* InvokeRemote: GrpcDialer fails for a node that is not reachable; for    *)
(* the gateway's own tool it is InvokeLocal.                               *)
InvokeRemote(r, n) ==
    /\ req[r].pc = "invoke" /\ n \in req[r].matched /\ inv[r][n].pc = "none"
    /\ IF n \in up \cup {"gateway"} THEN SetInv(r, n, "serve", NoResult) ELSE SetInv(r, n, "returned", NoResult)
    /\ UNCHANGED <<rclock, index, up, req, cachedTool, upsets>>

(* Any entry that has not expired. *)
ResultCacheHit_AnyArgs(n, t, args) == cachedTool[n][t].hash # <<>> /\ rclock < cachedTool[n][t].expires

ResultCacheHit(n, t, args) == cachedTool[n][t].hash = <<args>> /\ rclock < cachedTool[n][t].expires

(* dispatchLocal and the first part of cachedTool.Execute: the hit is      *)
(* decided and copied under the read lock.                                 *)
Serve(r, n) ==
    LET t == req[r].tool
    IN  /\ inv[r][n].pc = "serve"
        /\ IF n \notin Holders[t] THEN SetInv(r, n, "reply", NoResult)
           ELSE IF ResultCacheHit(n, t, req[r].args) THEN SetInv(r, n, "reply", cachedTool[n][t].res)
           ELSE SetInv(r, n, "execute", NoResult)
        /\ UNCHANGED <<rclock, index, up, req, cachedTool, upsets>>

(* The tool ends: status ok or warning is stored, whatever another call    *)
(* stored in the meantime; error, degraded and a Go error are not.         *)
Executed(r, n, status) ==
    LET t   == req[r].tool
        res == [ok |-> TRUE, node |-> n, args |-> req[r].args, finished |-> rclock]
    IN  /\ inv[r][n].pc = "execute"
        /\ SetInv(r, n, "reply", IF status = "failed" THEN NoResult ELSE res)
        /\ cachedTool' = IF status = "ok"
                         THEN [cachedTool EXCEPT ![n][t] = [hash |-> <<req[r].args>>, res |-> res,
                                                            expires |-> rclock + CacheTTL]]
                         ELSE cachedTool
        /\ UNCHANGED <<rclock, index, up, req, upsets>>

(* writeToolFrame refuses a response above maxToolFrameSize and the server *)
(* closes the connection: the caller gets a read error.                    *)
Reply(r, n, tooLarge) ==
    /\ inv[r][n].pc = "reply"
    /\ SetInv(r, n, "returned", IF tooLarge /\ n # "gateway" THEN NoResult ELSE inv[r][n].res)
    /\ UNCHANGED <<rclock, index, up, req, cachedTool, upsets>>

(* wg.Wait(), or the single invocation; results[idx] belongs to one node. *)
WaitAll(r) ==
    /\ req[r].pc = "invoke" /\ \A n \in req[r].matched : inv[r][n].pc = "returned"
    /\ req' = Answer(r, "results")
    /\ UNCHANGED <<rclock, index, up, inv, cachedTool, upsets>>

-----------------------------------------------------------------------------
(* The environment. *)

(* The streams of a failed node are left open. *)
NodeFails_Silently(n) ==
    /\ n \in up /\ upsets < MaxUpsets /\ upsets' = upsets + 1
    /\ up' = up \ {n}
    /\ inv' = [r \in MCPCalls |-> [inv[r] EXCEPT ![n] =
                 IF @.pc \in {"serve", "execute", "reply"} THEN [pc |-> "lost", res |-> NoResult] ELSE @]]
    /\ cachedTool' = [cachedTool EXCEPT ![n] = [t \in ToolNames |-> NoEntry]]
    /\ UNCHANGED <<rclock, index, req>>

(* The streams to a failed node break: readToolFrame returns an error. *)
NodeFails(n) ==
    /\ n \in up /\ upsets < MaxUpsets /\ upsets' = upsets + 1
    /\ up' = up \ {n}
    /\ inv' = [r \in MCPCalls |-> [inv[r] EXCEPT ![n] =
                 IF @.pc \in {"serve", "execute", "reply"} THEN [pc |-> "returned", res |-> NoResult] ELSE @]]
    /\ cachedTool' = [cachedTool EXCEPT ![n] = [t \in ToolNames |-> NoEntry]]
    /\ UNCHANGED <<rclock, index, req>>

NodeStarts(n) ==
    /\ n \in ToolNodes \ up /\ upsets < MaxUpsets /\ upsets' = upsets + 1
    /\ up' = up \cup {n}
    /\ UNCHANGED <<rclock, index, req, inv, cachedTool>>

(* Gossip adds and PurgeStale removes entries of the index. *)
IndexChanges(t, nodes) ==
    /\ upsets < MaxUpsets /\ upsets' = upsets + 1
    /\ index[t] # nodes /\ index' = [index EXCEPT ![t] = nodes]
    /\ UNCHANGED <<rclock, up, req, inv, cachedTool>>

ClockTicks ==
    /\ rclock < MaxClock /\ rclock' = rclock + 1
    /\ UNCHANGED <<index, up, req, inv, cachedTool, upsets>>

-----------------------------------------------------------------------------
RequestsInit ==
    /\ rclock = 0 /\ upsets = 0 /\ up = ToolNodes
    /\ index = [t \in ToolNames |-> Holders[t] \ {"gateway"}]
    /\ req = [r \in MCPCalls |-> [pc |-> "idle", tool |-> "", to |-> "", args |-> <<>>, start |-> 0,
                                  matched |-> {}, answer |-> "none"]]
    /\ inv = [r \in MCPCalls |-> [n \in Servers |-> [pc |-> "none", res |-> NoResult]]]
    /\ cachedTool = [n \in Servers |-> [t \in ToolNames |-> NoEntry]]

Work(r) ==
    \/ \E answers \in SUBSET up, first \in ToolNodes : Route(r, answers, first)
    \/ \E n \in Servers : \/ InvokeRemote(r, n) \/ Serve(r, n)
                          \/ \E status \in {"ok", "degraded", "failed"} : Executed(r, n, status)
                          \/ \E tooLarge \in BOOLEAN : Reply(r, n, tooLarge)
    \/ WaitAll(r)

RequestsNext ==
    \/ \E r \in MCPCalls : \/ \E i \in Inputs[r] : handleCallTool(r, i.tool, i.to, i.args)
                           \/ Work(r)
    \/ \E n \in ToolNodes : NodeFails(n) \/ NodeStarts(n)
    \/ \E t \in ToolNames, nodes \in SUBSET ToolNodes : IndexChanges(t, nodes)
    \/ ClockTicks

RequestsSpec == RequestsInit /\ [][RequestsNext]_requestVars

-----------------------------------------------------------------------------
(* Whatever fails and whatever other calls do to the caches: a call ends   *)
(* with the results of exactly the nodes it was routed to, each an error   *)
(* or the result of its own tool on that node for its own arguments, from  *)
(* an execution that ended after the call began, or less than the cache's  *)
(* life before.                                                            *)
ResultsAnswerTheCall ==
    \A r \in MCPCalls : req[r].answer = "results" =>
        \A n \in req[r].matched :
            LET res == inv[r][n].res
            IN  /\ inv[r][n].pc = "returned"
                /\ res.ok => /\ res.node = n /\ n \in Holders[req[r].tool]
                             /\ res.args = req[r].args
                             /\ \/ res.finished >= req[r].start
                                \/ res.finished + CacheTTL > req[r].start

(* No tool runs with arguments its parameters do not allow: what reaches a *)
(* tool has every required parameter and nothing but declared parameters   *)
(* of the declared type, or null (handleCallTool of the MCP server).       *)
OnlyDeclaredArguments ==
    \A r \in MCPCalls : \A n \in Servers : inv[r][n].pc = "execute" =>
        /\ {p.name : p \in {q \in Params : q.required}} \subseteq DOMAIN req[r].args
        /\ \A a \in DOMAIN req[r].args :
             \E p \in Params : p.name = a /\ (req[r].args[a] = "null" \/ OfType(p.type, req[r].args[a]))

(* What call_tool answers is what the nodes it named computed for these    *)
(* arguments, recently enough, and a tool sees only arguments it declares  *)
(* (callgateway.go, registry.go, resultcache).                             *)
RequestsAreSound == ResultsAnswerTheCall /\ OnlyDeclaredArguments

(* Every call is answered: the nodes that fail, that are unknown to the    *)
(* mesh or that answer too much end it as the others do (wg.Wait).         *)
CallsAreAnswered ==
    \A r \in MCPCalls : req[r].pc = "discover" ~> req[r].pc = "done"
=============================================================================
