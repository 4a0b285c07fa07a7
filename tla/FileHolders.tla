----------------------------- MODULE FileHolders -----------------------------
(***************************************************************************)
(* Three tools that say which process has what: get_listening_services     *)
(* joins the socket tables with the descriptors of every process,          *)
(* get_open_files counts the descriptors under a path, get_file_locks      *)
(* reads the lock table. The tables, the list of processes, each           *)
(* descriptor and each name are read at moments of their own, while        *)
(* processes start, exit, leave their pid to another and open, close, bind *)
(* and lock. Descriptors of other users' processes cannot be read. Lists   *)
(* are kept as sets: their entries are read in any order.                  *)
(***************************************************************************)
EXTENDS Integers, Sequences, FiniteSets

CONSTANTS
    HolderPIDs,   \* pids, positive
    HolderFDs,    \* descriptor numbers
    Sockets,      \* sockets, by inode
    SockTable,    \* [Sockets -> the table it is listed in]
    SockPort,     \* [Sockets -> port]
    TableSets,    \* sets of tables that can be read
    HeldFiles,    \* files processes open
    UnderPath,    \* those whose name begins with the path asked for
    FileLimits,   \* values of the argument limit
    DefaultLimit, \* defaultLimit
    MaxLimit,     \* maxLimit
    ListedMax,    \* maxListeners, topHoldersLimit and waitersListLimit
    LockTypes,    \* types of locks; "OFDLCK" has no owner
    MaxHolderEvents \* bound: what processes do

SocketTables == <<"tcp", "tcp6", "udp", "udp6">>

ASSUME FileHoldersAssumption ==
    /\ HolderPIDs \subseteq Nat \ {0} /\ IsFiniteSet(HolderPIDs)
    /\ HolderFDs \subseteq Nat /\ IsFiniteSet(HolderFDs)
    /\ IsFiniteSet(Sockets) /\ SockPort \in [Sockets -> Nat]
    /\ SockTable \in [Sockets -> {SocketTables[i] : i \in 1..4}]
    /\ UnderPath \subseteq HeldFiles /\ "" \notin Sockets \cup HeldFiles /\ Sockets \cap HeldFiles = {}
    /\ FileLimits \subseteq Int /\ {DefaultLimit, MaxLimit, ListedMax} \subseteq Nat

VARIABLES
    hproc,     \* [HolderPIDs -> [comm, readable]]; comm "" if there is none
    fdTable,   \* [HolderPIDs -> [HolderFDs -> object]]; "" is a closed one
    listens,   \* sockets that listen (TCP) or have a port (UDP)
    unlinked,  \* files that have no name any more
    locks,     \* what /proc/locks lists: [file, type, mode, owner, blocked]
    renewed,   \* pids that started or exited since the tool began
    touched,   \* pids whose descriptors or locks changed since
    moved,     \* objects that did
    everHeld,  \* <<pid, object>> held at some moment since
    held,      \* [tool, tables, path, limit]: the call
    heldStep,  \* "idle", "tables", "listing", "scan", "names", "done", "error"
    tablesRead, \* how many of the socket tables were read
    pidsLeft, fdsLeft, \* what is still to scan
    curPid,    \* the process whose descriptors are read, 0 if none
    tally,     \* its descriptors under the path: [count, deleted]
    found,     \* socket -> pid
    skipped,   \* processes whose descriptors may not be read
    rows,      \* [table, sock] listed, or locks
    waiters,   \* locks that wait, as many as are told
    told,      \* what has a name: sockets, processes, or pids of locks
    shown,     \* what of it is in the answer; of locks, the pids with most
    heldEvents

worldVars == <<hproc, fdTable, listens, unlinked, locks, renewed, touched, moved, everHeld, heldEvents>>
scanVars == <<pidsLeft, fdsLeft, curPid, tally, found, skipped>>
callVars == <<held, heldStep, tablesRead, scanVars, rows, waiters, told, shown>>
holderVars == <<worldVars, callVars>>

Lesser(a, b) == IF a <= b THEN a ELSE b
Objects == Sockets \cup HeldFiles
Seen == IF held.tool = "sockets" THEN Sockets ELSE HeldFiles   \* what the call is about
Gone == [comm |-> "", readable |-> FALSE]
NoneOpen == [d \in HolderFDs |-> ""]
Holding == {h \in HolderPIDs \X Objects : \E d \in HolderFDs : fdTable[h[1]][d] = h[2]}
HoldersOf(o) == {p \in HolderPIDs : <<p, o>> \in Holding}
OpenFds(p) == {d \in HolderFDs : fdTable[p][d] # ""}
NoTally == [count |-> 0, deleted |-> 0]

HoldersInit ==
    /\ held \in [tool : {"sockets"}, tables : TableSets, path : {TRUE}, limit : {0}]
               \cup [tool : {"files"}, tables : {{}}, path : {TRUE}, limit : FileLimits]
               \cup [tool : {"files"}, tables : {{}}, path : {FALSE}, limit : {0}]
               \cup [tool : {"locks"}, tables : {{}}, path : {TRUE}, limit : {0}]
    /\ LET first == CHOOSE p \in HolderPIDs : TRUE IN
         /\ \E other \in {Gone} \cup [comm : {"b"}, readable : BOOLEAN] :
              hproc = [p \in HolderPIDs |-> IF p = first THEN [comm |-> "a", readable |-> TRUE] ELSE other]
         /\ \E open \in [HolderPIDs -> Seen \cup {""}] :
              /\ \A p \in HolderPIDs : hproc[p] = Gone => open[p] = ""
              /\ fdTable = [p \in HolderPIDs |-> [NoneOpen EXCEPT ![CHOOSE d \in HolderFDs : TRUE] = open[p]]]
    /\ listens = {s \in Sockets : HoldersOf(s) # {}} /\ unlinked = {} /\ locks = {}
    /\ renewed = {} /\ touched = {} /\ moved = {} /\ everHeld = Holding
    /\ heldStep = "idle" /\ tablesRead = 0 /\ pidsLeft = {} /\ fdsLeft = {} /\ curPid = 0
    /\ tally = NoTally /\ found = << >> /\ skipped = 0
    /\ rows = {} /\ waiters = {} /\ told = {} /\ shown = {} /\ heldEvents = 0

-----------------------------------------------------------------------------
\* The kernel. A lock conflicts with one of the same file and type held by
\* another process unless both are read locks. Those who wait retry, in any
\* order, when something is released.
LockModes == {"READ", "WRITE"}
Against(l, ls) ==
    \E k \in ls : /\ ~k.blocked /\ k.owner # l.owner /\ k.file = l.file /\ k.type = l.type
                  /\ "WRITE" \in {k.mode, l.mode}
Granted(ls) ==
    {new \in {{[l EXCEPT !.blocked = @ /\ l \notin G] : l \in ls} : G \in SUBSET {l \in ls : l.blocked}} :
        \A l \in new : l.blocked = Against(l, new)}

\* What happens after the answer is of no interest.
HolderEvent(pids, fdPids, objs) ==
    /\ heldStep \notin {"done", "error"}
    /\ heldEvents < MaxHolderEvents /\ heldEvents' = heldEvents + 1
    /\ renewed' = IF heldStep = "idle" THEN {} ELSE renewed \cup pids
    /\ touched' = IF heldStep = "idle" THEN {} ELSE touched \cup fdPids
    /\ moved' = IF heldStep = "idle" THEN {} ELSE moved \cup objs
    /\ everHeld' = IF heldStep = "idle" THEN Holding' ELSE everHeld \cup Holding'
    /\ UNCHANGED callVars

Started(p, c, r) ==
    /\ hproc[p] = Gone /\ hproc' = [hproc EXCEPT ![p] = [comm |-> c, readable |-> r]]
    /\ UNCHANGED <<fdTable, listens, unlinked, locks>> /\ HolderEvent({p}, {p}, {})
Exited(p) ==
    /\ hproc[p] # Gone /\ hproc' = [hproc EXCEPT ![p] = Gone]
    /\ fdTable' = [fdTable EXCEPT ![p] = NoneOpen]
    /\ locks' \in Granted({l \in locks : l.owner # p})
    /\ listens' = {s \in listens : HoldersOf(s) # {p}} /\ UNCHANGED unlinked
    /\ HolderEvent({p}, {p} \cup {l.owner : l \in locks}, {o \in Objects : p \in HoldersOf(o)})
Opened(p, d, o) ==   \* or inherited, or received
    /\ hproc[p] # Gone /\ fdTable[p][d] = "" /\ o \notin unlinked
    /\ fdTable' = [fdTable EXCEPT ![p][d] = o]
    /\ UNCHANGED <<hproc, listens, unlinked, locks>> /\ HolderEvent({}, {p}, {o})
Closed(p, d) ==
    /\ fdTable[p][d] # "" /\ fdTable' = [fdTable EXCEPT ![p][d] = ""]
    /\ LET o == fdTable[p][d] IN
         /\ locks' \in Granted({l \in locks : ~(l.owner = p /\ l.file = o)})
         /\ listens' = {s \in listens : HoldersOf(s)' # {}}
         /\ HolderEvent({}, {p} \cup {l.owner : l \in locks}, {o})
    /\ UNCHANGED <<hproc, unlinked>>
Listened(s) ==
    /\ HoldersOf(s) # {} /\ s \notin listens /\ listens' = listens \cup {s}
    /\ UNCHANGED <<hproc, fdTable, unlinked, locks>> /\ HolderEvent({}, {}, {s})
Unlinked(f) ==
    /\ f \notin unlinked /\ HoldersOf(f) # {} /\ unlinked' = unlinked \cup {f}
    /\ UNCHANGED <<hproc, fdTable, listens, locks>> /\ HolderEvent({}, {}, {f})
Locked(p, f, t, m) ==
    /\ p \in HoldersOf(f) /\ \A l \in locks : l.owner # p \/ l.file # f \/ l.type # t
    /\ LET l == [file |-> f, type |-> t, mode |-> m, owner |-> p, blocked |-> FALSE]
       IN locks' = locks \cup {[l EXCEPT !.blocked = Against(l, locks)]}
    /\ UNCHANGED <<hproc, fdTable, listens, unlinked>> /\ HolderEvent({}, {p}, {f})

-----------------------------------------------------------------------------
\* get_listening_services: collectSockets, one table after the other. The
\* first must be there, a missing other one is passed over. parseSocketLine
\* keeps what listens or, of UDP, what has a port.
ListedIn(t) == {s \in listens : SockTable[s] = t}

StartSockets ==
    /\ held.tool = "sockets" /\ heldStep = "idle" /\ heldStep' = "tables"
    /\ UNCHANGED <<worldVars, held, tablesRead, scanVars, rows, waiters, told, shown>>
collectSockets ==
    /\ heldStep = "tables" /\ tablesRead' = tablesRead + 1
    /\ LET t == SocketTables[tablesRead + 1] IN
         /\ rows' = rows \cup (IF t \in held.tables THEN {[table |-> t, sock |-> s] : s \in ListedIn(t)} ELSE {})
         /\ heldStep' = IF t = "tcp" /\ t \notin held.tables THEN "error"
                        ELSE IF tablesRead' = Len(SocketTables) THEN "listing" ELSE "tables"
    /\ UNCHANGED <<worldVars, held, scanVars, waiters, told, shown>>

\* get_open_files: parseArgs. No path is an error.
limitOf(l) == Lesser(IF l <= 0 THEN DefaultLimit ELSE l, MaxLimit)
StartFiles ==
    /\ held.tool = "files" /\ heldStep = "idle" /\ heldStep' = IF held.path THEN "listing" ELSE "error"
    /\ UNCHANGED <<worldVars, held, tablesRead, scanVars, rows, waiters, told, shown>>

\* Both: the list of processes, the list of a process's descriptors, each
\* descriptor. What may not be read is counted, what is gone is not.
ListProcesses ==
    /\ heldStep = "listing" /\ heldStep' = "scan"
    /\ pidsLeft' = {p \in HolderPIDs : hproc[p] # Gone}
    /\ UNCHANGED <<worldVars, held, tablesRead, fdsLeft, curPid, tally, found, skipped, rows, waiters, told, shown>>
OpenFdDir(p) ==
    /\ heldStep = "scan" /\ curPid = 0 /\ pidsLeft' = pidsLeft \ {p}
    /\ curPid' = IF hproc[p].readable THEN p ELSE 0
    /\ fdsLeft' = IF hproc[p].readable THEN OpenFds(p) ELSE {}
    /\ skipped' = skipped + IF hproc[p] # Gone /\ ~hproc[p].readable THEN 1 ELSE 0
    /\ UNCHANGED <<worldVars, held, heldStep, tablesRead, tally, found, rows, waiters, told, shown>>
FoundWith(s) == [x \in DOMAIN found \cup {s} |-> IF x = s THEN curPid ELSE found[x]]
TallyWith(f) == [count |-> tally.count + 1, deleted |-> tally.deleted + IF f \in unlinked THEN 1 ELSE 0]
ReadFd(d) ==
    /\ curPid # 0 /\ fdsLeft' = fdsLeft \ {d}
    /\ LET o == IF hproc[curPid].readable THEN fdTable[curPid][d] ELSE "" IN
         /\ found' = IF held.tool = "sockets" /\ o \in Sockets THEN FoundWith(o) ELSE found
         /\ tally' = IF held.tool = "files" /\ o \in UnderPath THEN TallyWith(o) ELSE tally
    /\ UNCHANGED <<worldVars, held, heldStep, tablesRead, pidsLeft, curPid, skipped, rows, waiters, told, shown>>

\* A process with a descriptor under the path is told, with its name, which
\* is read now.
readComm(p, missing) == IF hproc[p] = Gone THEN missing ELSE hproc[p].comm
FdDirDone ==
    /\ curPid # 0 /\ fdsLeft = {} /\ curPid' = 0 /\ tally' = NoTally
    /\ told' = told \cup (IF tally.count = 0 THEN {}
                          ELSE {[pid |-> curPid, comm |-> readComm(curPid, "unknown"),
                                 count |-> tally.count, deleted |-> tally.deleted]})
    /\ UNCHANGED <<worldVars, held, heldStep, tablesRead, pidsLeft, fdsLeft, found, skipped, rows, waiters, shown>>
Cancelled ==
    /\ heldStep' = "error"
    /\ \/ heldStep = "scan" /\ curPid = 0 /\ pidsLeft # {}
       \/ heldStep = "idle" /\ held.tool = "locks"
    /\ UNCHANGED <<worldVars, held, tablesRead, scanVars, rows, waiters, told, shown>>

\* The answers are sorted and cut: listeners by port and protocol, processes by
\* descriptors. What compares equal comes in any order.
TableIndex(t) == CHOOSE i \in 1..4 : SocketTables[i] = t
ListenerBefore(k, l) ==
    \/ SockPort[k.sock] < SockPort[l.sock]
    \/ SockPort[k.sock] = SockPort[l.sock] /\ TableIndex(k.table) < TableIndex(l.table)
ListenerCuts ==
    {C \in SUBSET told : /\ Cardinality(C) = Lesser(Cardinality(told), ListedMax)
                         /\ \A k \in C, l \in told \ C : ~ListenerBefore(l, k)}
FilesBefore(k, l) == k.count > l.count \/ (k.count = l.count /\ k.pid < l.pid)
FileCuts ==
    {C \in SUBSET told : /\ Cardinality(C) = Lesser(Cardinality(told), limitOf(held.limit))
                         /\ \A k \in C, l \in told \ C : ~FilesBefore(l, k)}
ScanEnds ==
    /\ heldStep = "scan" /\ curPid = 0 /\ pidsLeft = {}
    /\ \/ held.tool = "sockets" /\ heldStep' = "names" /\ UNCHANGED shown
       \/ held.tool = "files" /\ heldStep' = "done" /\ shown' \in FileCuts
    /\ UNCHANGED <<worldVars, held, tablesRead, scanVars, rows, waiters, told>>

\* The join of a socket with its process, whose name is read now; 0 is none.
Joined(r) == \E e \in told : e.sock = r.sock /\ e.table = r.table
JoinSocket(r) ==
    /\ held.tool = "sockets" /\ heldStep = "names" /\ ~Joined(r)
    /\ LET p == IF r.sock \in DOMAIN found THEN found[r.sock] ELSE 0
       IN told' = told \cup {[sock |-> r.sock, table |-> r.table, pid |-> p,
                              comm |-> IF p = 0 THEN "" ELSE readComm(p, "")]}
    /\ UNCHANGED <<worldVars, held, heldStep, tablesRead, scanVars, rows, waiters, shown>>
SocketsDone ==
    /\ held.tool = "sockets" /\ heldStep = "names" /\ heldStep' = "done"
    /\ \A r \in rows : Joined(r)
    /\ shown' \in ListenerCuts
    /\ UNCHANGED <<worldVars, held, tablesRead, scanVars, rows, waiters, told>>

-----------------------------------------------------------------------------
\* get_file_locks: the table is read at once; buildData counts what is held by
\* process, and reads the names of the first who wait, as the table has them,
\* and of those with most.
PidOf(l) == IF l.type = "OFDLCK" THEN 0 - 1 ELSE l.owner
Waiting(ls) == {l \in ls : l.blocked}
HolderPids(ls) == {PidOf(l) : l \in ls \ Waiting(ls)}
CountOf(ls, p) == Cardinality({l \in ls \ Waiting(ls) : PidOf(l) = p})
MoreLocks(ls, p, q) == CountOf(ls, p) > CountOf(ls, q) \/ (CountOf(ls, p) = CountOf(ls, q) /\ p < q)
WaiterCuts(ls) ==
    {W \in SUBSET Waiting(ls) : Cardinality(W) = Lesser(Cardinality(Waiting(ls)), ListedMax)}
HolderCuts(ls) ==
    {T \in SUBSET HolderPids(ls) : /\ Cardinality(T) = Lesser(Cardinality(HolderPids(ls)), ListedMax)
                                   /\ \A p \in T, q \in HolderPids(ls) \ T : ~MoreLocks(ls, q, p)}
LocksStatus == IF Waiting(rows) # {} THEN "warning" ELSE "ok"

parseLocks ==
    /\ held.tool = "locks" /\ heldStep = "idle" /\ heldStep' = "names"
    /\ rows' = locks /\ waiters' \in WaiterCuts(locks) /\ shown' \in HolderCuts(locks)
    /\ UNCHANGED <<worldVars, held, tablesRead, scanVars, told>>
LocksNamed == {[pid |-> PidOf(l), lock |-> l] : l \in waiters} \cup {[pid |-> p] : p \in shown}
Named(n) == \E e \in told : e.name = n
resolveComm(n) ==
    /\ held.tool = "locks" /\ heldStep = "names" /\ ~Named(n)
    /\ told' = told \cup {[name |-> n, comm |-> IF n.pid < 0 THEN "OFD" ELSE readComm(n.pid, "unknown")]}
    /\ UNCHANGED <<worldVars, held, heldStep, tablesRead, scanVars, rows, waiters, shown>>
LocksDone ==
    /\ held.tool = "locks" /\ heldStep = "names" /\ heldStep' = "done"
    /\ \A n \in LocksNamed : Named(n)
    /\ UNCHANGED <<worldVars, held, tablesRead, scanVars, rows, waiters, told, shown>>

WorldNext ==
    \/ \E p \in HolderPIDs, c \in {"a", "b"}, r \in BOOLEAN : Started(p, c, r)
    \/ \E p \in HolderPIDs : Exited(p)
    \/ \E p \in HolderPIDs, d \in HolderFDs, o \in Seen : Opened(p, d, o)
    \/ \E p \in HolderPIDs, d \in HolderFDs : Closed(p, d)
    \/ \E s \in Sockets : held.tool = "sockets" /\ Listened(s)
    \/ \E f \in HeldFiles : held.tool = "files" /\ Unlinked(f)
    \/ \E p \in HolderPIDs, f \in HeldFiles, t \in LockTypes, m \in LockModes :
         held.tool = "locks" /\ Locked(p, f, t, m)
CallNext ==
    \/ StartSockets \/ collectSockets \/ StartFiles \/ ListProcesses \/ FdDirDone \/ ScanEnds \/ Cancelled
    \/ (\E p \in pidsLeft : OpenFdDir(p)) \/ (\E d \in fdsLeft : ReadFd(d))
    \/ (\E r \in rows : JoinSocket(r)) \/ SocketsDone
    \/ parseLocks \/ (\E n \in LocksNamed : resolveComm(n)) \/ LocksDone
HoldersNext == WorldNext \/ CallNext

-----------------------------------------------------------------------------
FdsUnder(p, fs) == {d \in HolderFDs : fdTable[p][d] \in fs}

\* A listener that was there throughout is told, once: with a process that has
\* had it since the call began, by its own name unless the pid changed hands,
\* and without one only if none of those who kept it may be read, which is then
\* counted. One that is cut off has no lower port than those shown
\* (listeningservices.go 174-272).
ListenersAreFound ==
    heldStep = "done" /\ held.tool = "sockets" =>
      /\ \A l \in told : l.pid # 0 => /\ <<l.pid, l.sock>> \in everHeld
                                      /\ l.pid \in renewed \/ l.comm = hproc[l.pid].comm
      /\ \A s \in listens \ moved : SockTable[s] \in held.tables =>
           \E l \in told :
             /\ l.sock = s /\ \A k \in told : k.sock = s => k = l
             /\ l.pid = 0 => \A p \in HoldersOf(s) \ renewed : ~hproc[p].readable /\ skipped > 0
             /\ l \in shown \/ (Cardinality(told) > ListedMax /\ \A k \in shown : SockPort[k.sock] <= SockPort[s])

\* A process that kept its descriptors is told, by its name, with all of those
\* under the path and how many of them are deleted, and is cut off only for
\* processes with as many; no other process is (openfiles.go 139-200).
OpenersAreFound ==
    heldStep = "done" /\ held.tool = "files" =>
      \A p \in HolderPIDs \ (renewed \cup touched) :
        LET n == Cardinality(FdsUnder(p, UnderPath)) IN
        /\ hproc[p].readable /\ n > 0 =>
             \E e \in told :
               /\ e.pid = p /\ e.count = n /\ e.comm = hproc[p].comm /\ \A k \in told : k.pid = p => k = e
               /\ moved \cap unlinked = {} => e.deleted = Cardinality(FdsUnder(p, UnderPath \cap unlinked))
               /\ e \in shown \/ (Cardinality(told) > limitOf(held.limit) /\ \A k \in shown : k.count >= n)
        /\ n = 0 \/ ~hproc[p].readable => \A e \in told : e.pid # p

\* Someone who waits for a lock makes the answer a warning, and is listed unless
\* the list is full; a process with a lock is among the top holders unless those
\* have as many; a pid is told by the name of its process unless it changed
\* hands, and a lock without an owner is not told as a process's (filelocks.go
\* 145-295).
LocksAreTold ==
    heldStep = "done" /\ held.tool = "locks" =>
      /\ \A l \in rows : l.blocked =>
           /\ LocksStatus = "warning"
           /\ Cardinality(waiters) = ListedMax \/ Named([pid |-> PidOf(l), lock |-> l])
      /\ \A l \in rows : ~l.blocked =>
           \/ Named([pid |-> PidOf(l)])
           \/ Cardinality(shown) = ListedMax /\ \A p \in shown : CountOf(rows, p) >= CountOf(rows, PidOf(l))
      /\ \A e \in told : IF e.name.pid < 0 THEN e.comm = "OFD"
                         ELSE e.name.pid \in renewed \/ e.comm = hproc[e.name.pid].comm

HoldersAreFound == ListenersAreFound /\ OpenersAreFound
=============================================================================
