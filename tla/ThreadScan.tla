----------------------------- MODULE ThreadScan -----------------------------
(***************************************************************************)
(* Collectors that run goroutines. get_thread_wchan reads every thread     *)
(* with a pool of workers between two bounded channels; get_mount_usage    *)
(* and get_shared_memory call statfs in a goroutine they may have to leave *)
(* behind. Threads end while they are read, mounts hang, and the context   *)
(* may end at any time.                                                    *)
(***************************************************************************)
EXTENDS Integers, Sequences, FiniteSets

CONSTANTS
    Threads,        \* the threads: thread -> [pid, wchan, comm]; wchan "" if it runs
    Workers,        \* goroutines of the pool
    ChanCap,        \* capacity of tasksCh and of resultsCh (1024)
    MaxExamples,    \* example_pids per process (15)
    Mounts,         \* mount -> "answers", "fails", "hangs" or "late"
    MaxThreadExits  \* bound: threads that end during the scan

ASSUME ThreadScanAssumption ==
    /\ ChanCap \in Nat \ {0} /\ MaxExamples \in Nat /\ MaxThreadExits \in Nat
    /\ Workers # {} /\ DOMAIN Threads \cap {"", "gone"} = {} /\ "" \notin DOMAIN Mounts
    /\ \A m \in DOMAIN Mounts : Mounts[m] \in {"answers", "fails", "hangs", "late"}

VARIABLES
    alive,       \* threads that exist
    feed,        \* processes the feeding goroutine has not looked at yet
    feeding,     \* threads of the process the feeder is sending
    tasksCh,     \* tasks
    taskClosed,
    worker,      \* per worker the thread in hand, "" if none, "gone" if it returned
    resultsCh,   \* threads read
    resultsClosed,
    counted,     \* threads the caller has counted, in order
    examples,    \* per wchan and command: listed and omitted threads
    scanDone,    \* "", "result" or "error"
    scanCancelled,     \* the context has ended
    mountsLeft, probe, probes, mountReport, mountError,  \* the mounts
    threadExits

threadVars == <<alive, feed, feeding, tasksCh, taskClosed, worker, resultsCh, resultsClosed,
                counted, examples, scanDone, threadExits>>
mountVars == <<mountsLeft, probe, probes, mountReport, mountError>>
scanVars == <<threadVars, scanCancelled, mountVars>>

Idle == ""
Gone == "gone"
Groups == {<<Threads[t].wchan, Threads[t].comm>> : t \in DOMAIN Threads}

ScanInit ==
    /\ alive = DOMAIN Threads
    /\ feed = {Threads[t].pid : t \in DOMAIN Threads} /\ feeding = {}
    /\ tasksCh = << >> /\ taskClosed = FALSE
    /\ worker = [w \in Workers |-> Idle]
    /\ resultsCh = << >> /\ resultsClosed = FALSE
    /\ counted = << >> /\ examples = [g \in Groups |-> [listed |-> << >>, omitted |-> 0]]
    /\ scanDone = "" /\ scanCancelled = FALSE /\ threadExits = 0
    /\ mountsLeft = DOMAIN Mounts /\ probe = "" /\ probes = << >> /\ mountReport = << >>
    /\ mountError = FALSE

-----------------------------------------------------------------------------
\* The feeder: before each process it looks at the context, then it sends the
\* threads of the process, blocking while tasksCh is full.
FeedProcess_KeepsOpen ==
    /\ ~taskClosed /\ feeding = {}
    /\ \/ /\ ~scanCancelled
          /\ \E p \in feed :
               /\ feed' = feed \ {p}
               /\ feeding' = {t \in alive : Threads[t].pid = p}
          /\ UNCHANGED taskClosed
       \/ /\ scanCancelled
          /\ taskClosed' = TRUE /\ UNCHANGED <<feed, feeding>>
    /\ UNCHANGED <<alive, tasksCh, worker, resultsCh, resultsClosed, counted, examples,
                   scanDone, scanCancelled, threadExits, mountVars>>

FeedProcess ==
    /\ ~taskClosed /\ feeding = {}
    /\ \/ /\ ~scanCancelled
          /\ \E p \in feed :
               /\ feed' = feed \ {p}
               /\ feeding' = {t \in alive : Threads[t].pid = p}
          /\ UNCHANGED taskClosed
       \/ /\ scanCancelled \/ feed = {}
          /\ taskClosed' = TRUE /\ UNCHANGED <<feed, feeding>>
    /\ UNCHANGED <<alive, tasksCh, worker, resultsCh, resultsClosed, counted, examples,
                   scanDone, scanCancelled, threadExits, mountVars>>

FeedThread(t) ==
    /\ t \in feeding /\ Len(tasksCh) < ChanCap
    /\ feeding' = feeding \ {t}
    /\ tasksCh' = Append(tasksCh, t)
    /\ UNCHANGED <<alive, feed, taskClosed, worker, resultsCh, resultsClosed, counted, examples,
                   scanDone, scanCancelled, threadExits, mountVars>>

\* A worker takes a task, or returns: tasksCh is closed and empty, or the
\* context has ended when it has taken a task, which is then lost.
TakeTask(w) ==
    /\ worker[w] = Idle
    /\ \/ /\ tasksCh # << >>
          /\ tasksCh' = Tail(tasksCh)
          /\ worker' = [worker EXCEPT ![w] = IF scanCancelled THEN Gone ELSE Head(tasksCh)]
       \/ /\ tasksCh = << >> /\ taskClosed
          /\ worker' = [worker EXCEPT ![w] = Gone] /\ UNCHANGED tasksCh
    /\ UNCHANGED <<alive, feed, feeding, taskClosed, resultsCh, resultsClosed, counted, examples,
                   scanDone, scanCancelled, threadExits, mountVars>>

\* It reads wchan, status and comm; a thread that is gone has no status.
ReadThread(w) ==
    /\ worker[w] \notin {Idle, Gone}
    /\ worker[w] \in alive => Len(resultsCh) < ChanCap
    /\ resultsCh' = IF worker[w] \in alive THEN Append(resultsCh, worker[w]) ELSE resultsCh
    /\ worker' = [worker EXCEPT ![w] = Idle]
    /\ UNCHANGED <<alive, feed, feeding, tasksCh, taskClosed, resultsClosed, counted, examples,
                   scanDone, scanCancelled, threadExits, mountVars>>

\* wg.Wait and close(resultsCh).
AllWorkersDone_First(ws) == \E w \in Workers : ws[w] = Gone
AllWorkersDone(ws) == \A w \in Workers : ws[w] = Gone
CloseResults ==
    /\ AllWorkersDone(worker) /\ ~resultsClosed
    /\ resultsClosed' = TRUE
    /\ UNCHANGED <<alive, feed, feeding, tasksCh, taskClosed, worker, resultsCh, counted, examples,
                   scanDone, scanCancelled, threadExits, mountVars>>

\* The caller counts a result: a thread with a wchan goes to its group, the
\* first MaxExamples by name.
Blocked(t) == Threads[t].wchan # ""
AddExample(e, t) ==
    IF Len(e.listed) < MaxExamples THEN [e EXCEPT !.listed = Append(@, t)]
                                   ELSE [e EXCEPT !.omitted = @ + 1]
CountThread ==
    /\ scanDone = "" /\ resultsCh # << >>
    /\ LET t == Head(resultsCh)
           g == <<Threads[t].wchan, Threads[t].comm>>
       IN /\ counted' = Append(counted, t)
          /\ examples' = IF ~Blocked(t) THEN examples
                                      ELSE [examples EXCEPT ![g] = AddExample(@, t)]
    /\ resultsCh' = Tail(resultsCh)
    /\ UNCHANGED <<alive, feed, feeding, tasksCh, taskClosed, worker, resultsClosed, scanDone,
                   scanCancelled, threadExits, mountVars>>

GetThreadWchan ==
    /\ scanDone = "" /\ resultsClosed /\ resultsCh = << >>
    /\ scanDone' = IF scanCancelled THEN "error" ELSE "result"
    /\ UNCHANGED <<alive, feed, feeding, tasksCh, taskClosed, worker, resultsCh, resultsClosed,
                   counted, examples, scanCancelled, threadExits, mountVars>>

ThreadExits(t) ==
    /\ t \in alive /\ threadExits < MaxThreadExits /\ scanDone = ""
    /\ alive' = alive \ {t} /\ threadExits' = threadExits + 1
    /\ UNCHANGED <<feed, feeding, tasksCh, taskClosed, worker, resultsCh, resultsClosed, counted,
                   examples, scanDone, scanCancelled, mountVars>>

-----------------------------------------------------------------------------
\* Mounts, one after the other: a goroutine calls statfs and leaves its answer
\* in a channel of its own; the caller waits for it, the timeout or the
\* context. A goroutine that is left behind may answer later.
NextMount(m) ==
    /\ probe = "" /\ ~mountError /\ m \in mountsLeft
    /\ mountsLeft' = mountsLeft \ {m} /\ probe' = m
    /\ probes' = [x \in DOMAIN probes \cup {m} |-> IF x = m THEN "called" ELSE probes[x]]
    /\ UNCHANGED <<threadVars, scanCancelled, mountReport, mountError>>

StatfsReturns(m) ==
    /\ m \in DOMAIN probes /\ probes[m] = "called"
    /\ Mounts[m] # "hangs" /\ (Mounts[m] = "late" => probe # m)
    /\ probes' = [probes EXCEPT ![m] = IF Mounts[m] = "fails" THEN "failed" ELSE "answered"]
    /\ UNCHANGED <<threadVars, scanCancelled, mountsLeft, probe, mountReport, mountError>>

\* GetMountStats reports a mount it has no answer from as hung;
\* collectTmpfs gives up if the context has ended.
statfsWithTimeout ==
    /\ probe # ""
    /\ \E result \in {"ok", "hung"} :
         /\ result = "ok" => probes[probe] = "answered"
         /\ result = "hung" =>
              scanCancelled \/ probes[probe] = "failed" \/ Mounts[probe] \in {"hangs", "late"}
         /\ mountReport' = [m \in DOMAIN mountReport \cup {probe} |->
                               IF m = probe THEN result ELSE mountReport[m]]
    /\ probe' = ""
    /\ UNCHANGED <<threadVars, scanCancelled, mountsLeft, probes, mountError>>

collectTmpfs ==
    /\ scanCancelled /\ ~mountError /\ mountsLeft # {} /\ probe = ""
    /\ mountError' = TRUE
    /\ UNCHANGED <<threadVars, scanCancelled, mountsLeft, probe, probes, mountReport>>

\* The caller's context ends while something is under way.
CtxEnds ==
    /\ ~scanCancelled
    /\ scanDone = "" \/ mountsLeft # {} \/ probe # ""
    /\ scanCancelled' = TRUE
    /\ UNCHANGED <<threadVars, mountVars>>

ThreadNext ==
    \/ FeedProcess \/ CloseResults \/ CountThread \/ GetThreadWchan
    \/ \E t \in DOMAIN Threads : FeedThread(t) \/ ThreadExits(t)
    \/ \E w \in Workers : TakeTask(w) \/ ReadThread(w)
    \/ CtxEnds
MountNext ==
    \/ \E m \in DOMAIN Mounts : NextMount(m) \/ StatfsReturns(m)
    \/ statfsWithTimeout \/ collectTmpfs
    \/ CtxEnds

ScanSpec == ScanInit /\ [][ThreadNext \/ MountNext]_scanVars

\* Goroutines are scheduled; the context need not end and threads need not.
ThreadFairness ==
    /\ WF_scanVars(FeedProcess) /\ WF_scanVars(CloseResults)
    /\ WF_scanVars(CountThread) /\ WF_scanVars(GetThreadWchan)
    /\ \A t \in DOMAIN Threads : WF_scanVars(FeedThread(t))
    /\ \A w \in Workers : WF_scanVars(TakeTask(w)) /\ WF_scanVars(ReadThread(w))

-----------------------------------------------------------------------------
\* A scan that returns a result has counted every thread that was there from
\* beginning to end exactly once, and each of its groups adds up. A mount is
\* reported as good only if its statfs has answered, and every mount that was
\* begun is reported once (wchan.go 84-239, mounts.go 43-69, 141-169).
ScansAreComplete ==
    /\ scanDone = "result" =>
         /\ \A t \in alive : Cardinality({i \in DOMAIN counted : counted[i] = t}) = 1
         /\ \A g \in Groups : g[1] # "" =>
              examples[g].omitted + Len(examples[g].listed) =
                Cardinality({i \in DOMAIN counted : <<Threads[counted[i]].wchan,
                                                      Threads[counted[i]].comm>> = g})
    /\ \A m \in DOMAIN mountReport : mountReport[m] = "ok" => probes[m] = "answered"
    /\ DOMAIN mountReport = {m \in DOMAIN Mounts : m \notin mountsLeft /\ m # probe}

\* Once begun the scan returns, with a result or the context's error, although
\* workers that see the end of the context leave tasks behind and the feeder
\* may block on them for ever (wchan.go 95-99, 145-164).
ThreadScanReturns ==
    (taskClosed \/ feed # {Threads[t].pid : t \in DOMAIN Threads}) ~> (scanDone # "")
=============================================================================
