------------------------------ MODULE NodeStart ------------------------------
(***************************************************************************)
(* How a process of cortex-mcp comes up (internal/mesh/cli.go) and how a   *)
(* fleet node takes over from the one that runs on its host                *)
(* (lifecycle/abstractlock.go): the lock is an abstract Unix socket; who   *)
(* cannot bind it reads its holder's pid from it, kills the holder, sleeps *)
(* half a second and binds again. Several processes start at the same      *)
(* time. Peers connect as soon as they can.                                *)
(*                                                                         *)
(* What a node starts from (Configuration) and how it is connected         *)
(* afterwards (Reconciler) are the other parts of its coming up.           *)
(***************************************************************************)
EXTENDS Configuration, Reconciler

CONSTANTS
    Starts,      \* process -> how it is started: "stdio", "daemon", "bridge", "gateway" or
                 \* "gateway-install", "gateway-stop", "gateway-local" (no known hosts),
                 \* "gateway-client" (PureClient)
    StartGroups, \* sets of processes that start on a host together
    StartHosts,       \* the configured hosts
    TargetOf,    \* process -> the [target] of its command, "" if it has none
    MaxFailures, \* bound: steps that fail
    MaxStops     \* bound: processes that are told to stop

ASSUME NodeStartAssumption ==
    /\ \A p \in DOMAIN Starts : Starts[p] \in {"stdio", "daemon", "bridge", "gateway",
          "gateway-install", "gateway-stop", "gateway-local", "gateway-client"}
    /\ 0 \notin DOMAIN Starts   \* a process has a pid
    /\ \A S \in StartGroups : S \subseteq DOMAIN Starts
    /\ MaxFailures \in Nat /\ MaxStops \in Nat

VARIABLES
    todo,      \* per process the steps of its start that are left
    startState,\* per process: "absent", "new", "starting", "serving", "dying", "gone"
    lockedBy,  \* holder of the socket, 0 if it is free
    victim,    \* per process the holder whose pid it has read, 0 if none
    hasTools,  \* processes whose registry holds their tools
    reachable, \* processes a peer can connect to, or that connect to peers
    firstView, \* process -> whether its first peer found its tools
    installedOn, \* hosts the install command has been through with
    stoppedOn,   \* hosts the stop command has sent node_stop to
    tooSoon,     \* a process bound again before the kernel had ended its victim
    failures, stops

startVars == <<todo, startState, lockedBy, victim, hasTools, reachable, firstView,
               installedOn, stoppedOn, tooSoon, failures, stops>>

Processes == DOMAIN Starts
Fleet == {p \in Processes : Starts[p] \in {"stdio", "daemon"}}

-----------------------------------------------------------------------------
\* runFleetNode after the installation: a node on stdio is connected to who
\* started it; a daemon listens and fans out.
runFleetNode(mode) ==
    <<"lock", "node", "tools">> \o (IF mode = "daemon" THEN << >> ELSE <<"stdio">>)
    \o <<"gossip", "grpc">>
    \o (IF mode = "daemon" THEN <<"listen", "reconcile">> ELSE << >>) \o <<"serve">>

runBridgeNode == <<"pki", "node", "tools", "gossip", "grpc", "listen", "deploy", "serve">>

\* runGateway: it ends after the tools without known hosts, after the fan-out of
\* node_stop, and after the health check of an installation.
runGateway(mode) ==
    <<"pki", "node">> \o (IF mode = "gateway-client" THEN << >> ELSE <<"tools">>)
    \o (IF mode = "gateway-local" THEN <<"end">>
        ELSE IF mode = "gateway-stop" THEN <<"deploy", "fanout", "end">>
        ELSE IF mode = "gateway-install" THEN <<"deploy", "gossip", "end">>
        ELSE <<"gossip", "reconcile", "serve">>)

StartSteps(p) ==
    IF p \in Fleet THEN runFleetNode(Starts[p])
    ELSE IF Starts[p] = "bridge" THEN runBridgeNode ELSE runGateway(Starts[p])

StartInit ==
    /\ todo = [p \in Processes |-> StartSteps(p)]
    /\ \E S \in StartGroups :
         startState = [p \in Processes |-> IF p \in S THEN "new" ELSE "absent"]
    /\ lockedBy = 0 /\ victim = [p \in Processes |-> 0]
    /\ hasTools = {} /\ reachable = {} /\ firstView = << >>
    /\ installedOn = {} /\ stoppedOn = {}
    /\ tooSoon = FALSE /\ failures = 0 /\ stops = 0

-----------------------------------------------------------------------------
Running(p) == startState[p] \in {"new", "starting", "serving"}
At(p, s) == startState[p] \in {"new", "starting"} /\ Head(todo[p]) = s
Advance(p) ==
    /\ todo' = [todo EXCEPT ![p] = Tail(@)]
    /\ startState' = [startState EXCEPT ![p] = IF Len(todo[p]) = 1 THEN "serving" ELSE "starting"]
\* os.Exit, zap's Fatalw or the return of the run function; the kernel frees
\* the socket of a process that is gone.
Leave(p) ==
    /\ startState' = [startState EXCEPT ![p] = "gone"]
    /\ lockedBy' = IF lockedBy = p THEN 0 ELSE lockedBy
    /\ reachable' = reachable \ {p}

\* AcquireLock binds the socket and answers whoever connects with its pid.
AcquireLock(p) ==
    /\ At(p, "lock")
    /\ lockedBy = 0 /\ lockedBy' = p
    /\ Advance(p)
    /\ UNCHANGED <<victim, hasTools, reachable, firstView, installedOn, stoppedOn, tooSoon, failures, stops>>

GoesOnWith(p, s) == todo' = [todo EXCEPT ![p] = <<s>> \o Tail(@)]
LockHeld(p) ==
    /\ At(p, "lock")
    /\ lockedBy # 0 /\ GoesOnWith(p, "read")
    /\ UNCHANGED <<startState, lockedBy, victim, hasTools, reachable, firstView,
                   installedOn, stoppedOn, tooSoon, failures, stops>>

\* KillLockedProcess dials the socket and reads the payload of who holds it
\* now. A holder that has just been killed does not answer, and the socket may
\* be free by now: the process exits.
readPayloadFromSocket(p) ==
    /\ At(p, "read")
    /\ IF lockedBy # 0 /\ Running(lockedBy)
       THEN /\ victim' = [victim EXCEPT ![p] = lockedBy]
            /\ GoesOnWith(p, "kill") /\ UNCHANGED <<startState, lockedBy, reachable>>
       ELSE Leave(p) /\ UNCHANGED <<todo, victim>>
    /\ UNCHANGED <<hasTools, firstView, installedOn, stoppedOn, tooSoon, failures, stops>>

\* Kill fails if the process is gone by now; the pid is assumed not to have
\* been given to another process.
KillLockedProcess(p) ==
    /\ At(p, "kill")
    /\ IF startState[victim[p]] # "gone"
       THEN /\ startState' = [startState EXCEPT ![victim[p]] = "dying"]
            /\ GoesOnWith(p, "relock") /\ UNCHANGED <<lockedBy, reachable>>
       ELSE Leave(p) /\ UNCHANGED todo
    /\ UNCHANGED <<victim, hasTools, firstView, installedOn, stoppedOn, tooSoon, failures, stops>>

\* The kernel ends a killed process and closes its sockets.
Reaped(p) ==
    /\ startState[p] = "dying"
    /\ Leave(p)
    /\ UNCHANGED <<todo, victim, hasTools, firstView, installedOn, stoppedOn, tooSoon, failures, stops>>

\* After half a second, in which the kernel may or may not have ended the
\* victim, and another process may have bound the socket.
RetryLock_Ignored(p) ==
    /\ At(p, "relock")
    /\ Advance(p) /\ lockedBy' = IF lockedBy = 0 THEN p ELSE lockedBy
    /\ UNCHANGED <<reachable, victim, hasTools, firstView, installedOn, stoppedOn, tooSoon, failures, stops>>
RetryLock(p) ==
    /\ At(p, "relock")
    /\ IF lockedBy = 0
       THEN Advance(p) /\ lockedBy' = p /\ UNCHANGED reachable
       ELSE Leave(p) /\ UNCHANGED todo
    /\ tooSoon' = (tooSoon \/ lockedBy = victim[p])
    /\ UNCHANGED <<victim, hasTools, firstView, installedOn, stoppedOn, failures, stops>>

\* deployAndConnect goes through all the configured hosts, whatever the target;
\* it is the target of stop that the fan-out looks at. Hosts that fail, or do
\* not answer, are left out.
deployAndConnect(p) ==
    IF Starts[p] = "gateway-install" /\ Head(todo[p]) = "deploy"
    THEN \E S \in (SUBSET StartHosts) \ {{}} : installedOn' = installedOn \cup S
    ELSE UNCHANGED installedOn
StopTargets(p, nodes) == {h \in nodes : TargetOf[p] \in {"", h}}
StopFanOut(p) ==
    IF Head(todo[p]) = "fanout"
    THEN \E nodes \in SUBSET StartHosts : stoppedOn' = stoppedOn \cup StopTargets(p, nodes)
    ELSE UNCHANGED stoppedOn

\* Every other step. A daemon or bridge that cannot listen goes on without.
Step(p) ==
    /\ startState[p] \in {"new", "starting"} /\ Head(todo[p]) \notin {"lock", "read", "kill", "relock", "end"}
    /\ deployAndConnect(p) /\ StopFanOut(p)
    /\ Advance(p)
    /\ hasTools' = IF Head(todo[p]) = "tools" THEN hasTools \cup {p} ELSE hasTools
    /\ reachable' = IF Head(todo[p]) \in {"stdio", "listen", "reconcile", "deploy"}
                    THEN reachable \cup {p} ELSE reachable
    /\ UNCHANGED <<lockedBy, victim, firstView, tooSoon, failures, stops>>

StepFails(p) ==
    /\ failures < MaxFailures /\ failures' = failures + 1
    /\ startState[p] \in {"new", "starting"}
    /\ Head(todo[p]) \in {"read", "pki", "node", "stdio", "grpc", "listen", "deploy"}
    /\ IF Head(todo[p]) = "listen" \/ (Head(todo[p]) = "deploy" /\ Starts[p] = "bridge")
       THEN Advance(p) /\ UNCHANGED <<lockedBy, reachable>>
       ELSE Leave(p) /\ UNCHANGED todo
    /\ UNCHANGED <<victim, hasTools, firstView, installedOn, stoppedOn, tooSoon, stops>>

\* The run function returns, or a signal ends the context: node.Close.
Stop(p) ==
    /\ \/ At(p, "end") /\ UNCHANGED stops
       \/ startState[p] = "serving" /\ stops < MaxStops /\ stops' = stops + 1
    /\ Leave(p)
    /\ UNCHANGED <<todo, victim, hasTools, firstView, installedOn, stoppedOn, tooSoon, failures>>

\* A peer connects: the bootstrap carries the capabilities there are now.
PeerConnects(p) ==
    /\ p \in reachable /\ p \notin DOMAIN firstView
    /\ firstView' = [q \in DOMAIN firstView \cup {p} |->
                        IF q = p THEN p \in hasTools ELSE firstView[q]]
    /\ UNCHANGED <<todo, startState, lockedBy, victim, hasTools, reachable,
                   installedOn, stoppedOn, tooSoon, failures, stops>>

StartNext ==
    \E p \in Processes :
        \/ AcquireLock(p) \/ LockHeld(p) \/ readPayloadFromSocket(p) \/ KillLockedProcess(p)
        \/ RetryLock(p) \/ Reaped(p) \/ Step(p) \/ StepFails(p) \/ Stop(p) \/ PeerConnects(p)

-----------------------------------------------------------------------------
\* However many fleet nodes start on a host at once, one at most runs past the
\* lock, and when the last of them is through, one does run: the takeover leaves
\* the host without a node only if a step failed, a node was stopped, or half a
\* second was not enough for the kernel to end a victim; not because one that
\* starts found the socket freed, bound by another or without an answer
\* between its steps (cli.go 478-497, abstractlock.go 25-117). A process that has tools
\* shows them to its first peer already (cli.go 550-600, 675-705, 791-870).
\* The stop command stops no host but its target (cli.go 832-850).
TakeoverIsClean ==
    /\ \A p \in Fleet :
         startState[p] \in {"starting", "serving"} => lockedBy = p
    /\ ~tooSoon /\ failures = 0 /\ stops = 0
         /\ (\A p \in Fleet : startState[p] \in {"absent", "serving", "gone"})
         /\ (\E p \in Fleet : startState[p] # "absent")
             => \E p \in Fleet : startState[p] = "serving"
    /\ \A p \in DOMAIN firstView : Starts[p] # "gateway-client" => firstView[p]
    /\ \A h \in stoppedOn : \E p \in Processes : Starts[p] = "gateway-stop" /\ TargetOf[p] \in {"", h}

-----------------------------------------------------------------------------
\* The parts of coming up move independently of each other.
nodeVars == <<caVars, configVars, startVars, reconcilerVars>>
NodeInit == CAInit /\ ConfigInit /\ StartInit /\ ReconcilerInit
NodeNext ==
    \/ CANext /\ UNCHANGED <<configVars, startVars, reconcilerVars>>
    \/ ConfigNext /\ UNCHANGED <<caVars, startVars, reconcilerVars>>
    \/ StartNext /\ UNCHANGED <<caVars, configVars, reconcilerVars>>
    \/ ReconcilerNext /\ UNCHANGED <<caVars, configVars, startVars>>
NodeSpec == NodeInit /\ [][NodeNext]_nodeVars

\* A node gets its identity and configuration from the gateway, keeps them,
\* takes its host over cleanly and is dialled again when it is lost (cli.go,
\* config.go, pki_persistence.go, abstractlock.go).
NodesComeUpRight ==
    IdentitiesStayValid /\ NodesGetTheConfiguration /\ TakeoverIsClean /\ HostsAreRetried
=============================================================================
