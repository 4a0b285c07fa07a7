----------------------------- MODULE MCServices -----------------------------
(* The services of a node whose progress matters, for TLC: the control      *)
(* writer of a peer (more chunks than queue slots), a call of call_tool      *)
(* while nodes fail and the index changes, installs and upgrades of a host,  *)
(* and a scan of four threads by two workers, with mounts that answer, fail, *)
(* hang and answer late. They share no state: a behaviour is about one of    *)
(* them, which focus names.                                                  *)
EXTENDS ControlWriter, Requests, Deployment, ThreadScan, TLC

CONSTANT Focuses
VARIABLE focus

Pm(n, t, r) == [name |-> n, type |-> t, required |-> r]
MCParams == {Pm("k", "string", TRUE), Pm("n", "number", FALSE)}
A1 == "k" :> "string"
In(tool, to, args) == [tool |-> tool, to |-> to, args |-> args]
MCInputs == "r1" :> {In("t", "", A1), In("t", "*", A1), In("t", "[bad", A1), In("t", "n1", << >>),
                     In("l", "n2", A1), In("l", "", A1)}
MCHolders == "t" :> {"n1", "n2"} @@ "l" :> {"gateway", "n1"}
MCPatternNodes == "*" :> {"n1", "n2"}

Th(p, w, c) == [pid |-> p, wchan |-> w, comm |-> c]
MCThreads == "t1" :> Th(1, "futex", "a") @@ "t2" :> Th(1, "futex", "a")
          @@ "t3" :> Th(2, "", "b") @@ "t4" :> Th(2, "poll", "b")
MCPerScenario(o, g, b) == "operator" :> o @@ "gateway" :> g @@ "both" :> b
MCMaxCrashes == MCPerScenario(1, 1, 1)
MCMaxUploads == MCPerScenario(0, 2, 2)
MCMaxUploadFaults == MCPerScenario(0, 1, 0)
MCMaxCommands == MCPerScenario(3, 0, 1)
MCMounts == "m1" :> "answers" @@ "m2" :> "hangs" @@ "m3" :> "late" @@ "m4" :> "fails"

ServicesInit ==
    /\ focus \in Focuses
    /\ focus # "deploy" => scenario = "operator" /\ bin = 0
    /\ Init /\ RequestsInit /\ DeployInit /\ ScanInit

servicesVars == <<focus, vars, requestVars, deployVars, scanVars>>

ServicesNext ==
    \/ focus = "writer" /\ Next /\ UNCHANGED <<focus, requestVars, deployVars, scanVars>>
    \/ focus = "requests" /\ RequestsNext /\ UNCHANGED <<focus, vars, deployVars, scanVars>>
    \/ focus = "deploy" /\ DeployNext /\ UNCHANGED <<focus, vars, requestVars, scanVars>>
    \/ focus = "threads" /\ ThreadNext /\ UNCHANGED <<focus, vars, requestVars, deployVars>>
    \/ focus = "mounts" /\ MountNext /\ UNCHANGED <<focus, vars, requestVars, deployVars>>

(* The fairness of ControlWriter and ThreadScan, for behaviours about them;  *)
(* the other two are idle until somebody asks something of them.             *)
Writing(A) == focus = "writer" /\ A
Scanning(A) == focus = "threads" /\ A
ServicesSpec ==
    /\ ServicesInit /\ [][ServicesNext]_servicesVars
    /\ \A s \in Senders : WF_vars(Writing(Send(s)))
    /\ WF_vars(Writing(BootStep)) /\ SF_vars(Writing(BootAbort))
    /\ WF_vars(Writing(WriterStep)) /\ WF_vars(Writing(DeathStep)) /\ WF_vars(Writing(ReaderFails))
    /\ WF_scanVars(Scanning(FeedProcess)) /\ WF_scanVars(Scanning(CloseResults))
    /\ WF_scanVars(Scanning(CountThread)) /\ WF_scanVars(Scanning(GetThreadWchan))
    /\ \A t \in DOMAIN Threads : WF_scanVars(Scanning(FeedThread(t)))
    /\ \A w \in Workers : WF_scanVars(Scanning(TakeTask(w))) /\ WF_scanVars(Scanning(ReadThread(w)))
    /\ \A r \in MCPCalls : WF_requestVars(Work(r))
    /\ DeployFairness

(* The bootstrap of a new peer never retries for ever (bootstrap.go,         *)
(* async_writer.go).                                                         *)
EveryBootstrapEnds == focus = "writer" => BootstrapEnds
=============================================================================
