------------------------------ MODULE LogTools ------------------------------
(***************************************************************************)
(* Tools that read a log the system goes on writing: get_oom_events,       *)
(* query_dmesg and query_journalctl (the kernel's ring buffer and the      *)
(* journal), get_ipmi_sel (the event log of the BMC) and get_core_dumps.   *)
(* A tool reads its log at once, so its answer is an operator on the       *)
(* state. The ring and the BMC lose their oldest entries; of an OOM kill   *)
(* the kernel writes a context line, on recent versions, and a Killed      *)
(* line, with other lines in between.                                      *)
(***************************************************************************)
EXTENDS Integers, Sequences, FiniteSets, SequencesExt, FiniteSetsExt

CONSTANTS
    VictimPIDs,   \* pids of OOM victims, which may be used again
    RingLines,    \* lines the kernel's ring buffer holds
    SelRecords,   \* records the BMC holds
    MaxItemised,  \* maxCriticalWarnings
    LastNs,       \* values of last_n and lines
    DefaultN, MaxN, \* defaultLastN, maxLastN
    UsecPerSec, UsecFrom, \* 10^6, and 10^14: from here on a timestamp is in microseconds
    ClockStart,   \* seconds since 1970 at the start
    MaxLogEvents  \* bound: what is written

ASSUME LogToolsAssumption ==
    /\ RingLines \in Nat \ {0} /\ SelRecords \in Nat \ {0} /\ MaxItemised \in Nat
    /\ LastNs \subseteq Int /\ MaxN \in Nat /\ DefaultN \in 1..MaxN
    /\ {MaxLogEvents, UsecFrom, UsecPerSec, ClockStart} \subseteq Nat /\ UsecPerSec > 0
    /\ UsecFrom <= ClockStart * UsecPerSec /\ ClockStart + MaxLogEvents < UsecFrom

VARIABLES
    ringBuffer,\* lines of the kernel: [kind, kill, pid, memcg, level]
    journal,   \* the same lines, kept
    klog,      \* "klogctl", "dmesg" or "none": what the process may read the ring with
    killing,   \* the kill whose context line is written and whose Killed line is not
    kills,     \* kills so far: sequence of [pid, memcg]
    sel,       \* records of the BMC: [critical]
    selInfo,   \* whether "sel info" works
    dumps,     \* core dumps: [time, exe, present, micro], in the order of the journal
    dumpSource,\* "coredumpctl", "directory" or "none"
    logEvents

logVars == <<ringBuffer, journal, klog, killing, kills, sel, selInfo, dumps, dumpSource, logEvents>>

Newest(s, n) == IF Len(s) > n THEN SubSeq(s, Len(s) - n + 1, Len(s)) ELSE s
Clamp(n) == IF n <= 0 THEN DefaultN ELSE IF n > MaxN THEN MaxN ELSE n

-----------------------------------------------------------------------------
\* parseKilledLine and parseOOMKillLine give the fields of a line; the context
\* tells the constraint, both tell the scope.
Event(l, context) ==
    [kill |-> l.kill, pid |-> l.pid,
     scope |-> IF l.memcg \/ \E c \in context : c.memcg THEN "cgroup" ELSE "global",
     constraint |-> context # {}]

\* parseOOMEvents: a context line waits for the Killed line of its pid; if
\* another context, another pid or the end comes first it is an event itself.
Flush(s) == IF s.pending = {} THEN s.events
            ELSE Append(s.events, Event(CHOOSE c \in s.pending : TRUE, s.pending))
ParseLine(s, l) ==
    CASE l.kind = "context" -> [events |-> Flush(s), pending |-> {l}]
      [] l.kind = "killed" /\ (\E c \in s.pending : c.pid = l.pid) ->
           [events |-> Append(s.events, Event(l, s.pending)), pending |-> {}]
      [] l.kind = "killed" /\ ~(\E c \in s.pending : c.pid = l.pid) ->
           [events |-> Append(Flush(s), Event(l, {})), pending |-> {}]
      [] OTHER -> s
Scan[i \in 0..Len(ringBuffer)] ==
    IF i = 0 THEN [events |-> << >>, pending |-> {}] ELSE ParseLine(Scan[i - 1], ringBuffer[i])
parseOOMEvents == Flush(Scan[Len(ringBuffer)])

\* Totals before the cut, newest first.
OomEvents(n) ==
    IF klog = "none" THEN [status |-> "error", events |-> << >>, total |-> 0]
    ELSE [status |-> IF parseOOMEvents = << >> THEN "ok" ELSE "warning",
          events |-> Reverse(Newest(parseOOMEvents, Clamp(n))), total |-> Len(parseOOMEvents)]

\* query_dmesg: the filters, then the newest lines. query_journalctl gives the
\* number of lines to journalctl and filters what it gets. What is told is kept
\* by its place in the log.
Matching(log, level) == {i \in DOMAIN log : level = "" \/ log[i].level = level}
LastOf(K, n) == {k \in K : Cardinality({j \in K : j > k}) < n}
QueryDmesg(level, n) == IF klog = "none" THEN {} ELSE LastOf(Matching(ringBuffer, level), Clamp(n))
QueryJournal(level, n) == Matching(journal, level) \cap LastOf(DOMAIN journal, Clamp(n))

\* get_ipmi_sel: critical records are itemised up to a number, the others
\* counted; a log that is filling up is a warning if "sel info" tells.
Criticals == Cardinality({k \in DOMAIN sel : sel[k].critical})
analyzeRecords == [itemised |-> IF Criticals <= MaxItemised THEN Criticals ELSE MaxItemised,
                   more |-> IF Criticals > MaxItemised THEN Criticals - MaxItemised ELSE 0]
SelFull == selInfo /\ 4 * Len(sel) > 3 * SelRecords
IpmiSel(n) ==
    [records |-> Newest(sel, Clamp(n)), total |-> Len(sel), analysis |-> analyzeRecords,
     status |-> IF Criticals > 0 \/ SelFull THEN "warning" ELSE "ok"]

\* get_core_dumps: what coredumpctl lists, or the files of the directory, whose
\* names carry seconds or microseconds; newest first by a stable sort.
parseCoreFilename_Seconds(d) == (IF d.micro THEN d.time * UsecPerSec ELSE d.time) * UsecPerSec
parseCoreFilename(d) ==
    LET raw == IF d.micro THEN d.time * UsecPerSec ELSE d.time
    IN IF raw < UsecFrom THEN raw * UsecPerSec ELSE raw
scanCoredumpDir == {k \in DOMAIN dumps : dumps[k].present}
ListedDumps ==
    CASE dumpSource = "coredumpctl" -> DOMAIN dumps
      [] dumpSource = "directory" -> scanCoredumpDir
      [] OTHER -> {}
Usec(k) ==
    IF dumpSource = "coredumpctl" THEN dumps[k].time * UsecPerSec ELSE parseCoreFilename(dumps[k])
DumpBefore(j, k) == Usec(j) > Usec(k) \/ (Usec(j) = Usec(k) /\ j < k)
CoreDumps(n) == {k \in ListedDumps : Cardinality({j \in ListedDumps : DumpBefore(j, k)}) < Clamp(n)}

-----------------------------------------------------------------------------
LogInit ==
    /\ ringBuffer = << >> /\ journal = << >> /\ klog \in {"klogctl", "dmesg", "none"}
    /\ killing = 0 /\ kills = << >>
    /\ sel = << >> /\ selInfo \in BOOLEAN
    /\ dumps = << >> /\ dumpSource \in {"coredumpctl", "directory", "none"}
    /\ logEvents = 0

LogEvent == logEvents < MaxLogEvents /\ logEvents' = logEvents + 1
Line(kind, k, pid, memcg, level) ==
    [kind |-> kind, kill |-> k, pid |-> pid, memcg |-> memcg, level |-> level]
WriteLine(l) == ringBuffer' = Newest(Append(ringBuffer, l), RingLines) /\ journal' = Append(journal, l)

\* The kernel. oom_lock keeps one kill from another.
OomContext(pid, memcg) ==
    /\ LogEvent /\ killing = 0
    /\ kills' = Append(kills, [pid |-> pid, memcg |-> memcg]) /\ killing' = Len(kills) + 1
    /\ WriteLine(Line("context", Len(kills) + 1, pid, memcg, "info"))
    /\ UNCHANGED <<klog, sel, selInfo, dumps, dumpSource>>
OomKilled ==
    /\ LogEvent /\ killing # 0
    /\ WriteLine(Line("killed", killing, kills[killing].pid, kills[killing].memcg, "err"))
    /\ killing' = 0
    /\ UNCHANGED <<klog, kills, sel, selInfo, dumps, dumpSource>>
OomKilledAlone(pid, memcg) ==
    /\ LogEvent /\ killing = 0
    /\ kills' = Append(kills, [pid |-> pid, memcg |-> memcg])
    /\ WriteLine(Line("killed", Len(kills) + 1, pid, memcg, "err"))
    /\ UNCHANGED <<klog, killing, sel, selInfo, dumps, dumpSource>>
KernelMessage(level) ==
    /\ LogEvent /\ WriteLine(Line("other", 0, 0, FALSE, level))
    /\ UNCHANGED <<klog, killing, kills, sel, selInfo, dumps, dumpSource>>

SelEvent(critical) ==
    /\ LogEvent /\ sel' = Newest(Append(sel, [critical |-> critical]), SelRecords)
    /\ UNCHANGED <<ringBuffer, journal, klog, killing, kills, selInfo, dumps, dumpSource>>

ProcessCrashes(exe, micro) ==
    /\ LogEvent
    /\ dumps' = Append(dumps, [time |-> ClockStart + logEvents', exe |-> exe, present |-> TRUE, micro |-> micro])
    /\ UNCHANGED <<ringBuffer, journal, klog, killing, kills, sel, selInfo, dumpSource>>
DumpRemoved(k) ==
    /\ LogEvent /\ dumps[k].present /\ dumps' = [dumps EXCEPT ![k].present = FALSE]
    /\ UNCHANGED <<ringBuffer, journal, klog, killing, kills, sel, selInfo, dumpSource>>

KernelNext ==
    \/ \E pid \in VictimPIDs, memcg \in BOOLEAN : OomContext(pid, memcg) \/ OomKilledAlone(pid, memcg)
    \/ OomKilled \/ \E level \in {"info", "err"} : KernelMessage(level)
DumpNext ==
    \/ \E critical \in BOOLEAN : SelEvent(critical)
    \/ \E exe \in {"a", "b"}, micro \in BOOLEAN : ProcessCrashes(exe, micro)
    \/ \E k \in DOMAIN dumps : DumpRemoved(k)

-----------------------------------------------------------------------------
\* Every OOM kill the ring still has a line of is one event, once, in order and
\* with its scope, whichever of its lines were lost or are not written yet,
\* and pids used again do not mix two kills up (oomevents.go 274-358).
OomKillsCountedOnce ==
    klog # "none" =>
        LET seen == {ringBuffer[i].kill : i \in DOMAIN ringBuffer} \ {0}
            evs == parseOOMEvents
        IN /\ {evs[i].kill : i \in DOMAIN evs} = seen
           /\ \A i, j \in DOMAIN evs : i < j => evs[i].kill < evs[j].kill
           /\ \A i \in DOMAIN evs :
                evs[i].scope = IF kills[evs[i].kill].memcg THEN "cgroup" ELSE "global"

\* A list is cut to the number asked for, and only then; what is left is the
\* newest of it, newest first, and its totals are of the whole; nothing critical
\* is left out of the BMC's report, cut or not; dumps whose times have different
\* units are compared by one (oomevents.go 213-241, ipmisel.go 201-249,
\* coredumps.go 190-243, querydmesg.go 182-208).
CutListsAreNewest ==
    \A n \in LastNs :
        /\ LET r == OomEvents(n)
           IN /\ klog # "none" => r.total = Len(parseOOMEvents)
              /\ Len(r.events) = r.total \/ (Len(r.events) = Clamp(n) /\ r.total > Clamp(n))
              /\ \A i \in DOMAIN r.events : r.events[i] = parseOOMEvents[r.total + 1 - i]
        /\ IpmiSel(n).analysis.itemised + IpmiSel(n).analysis.more = Criticals
        /\ (\E k \in DOMAIN sel : sel[k].critical) => IpmiSel(n).status = "warning"
        /\ CoreDumps(n) = ListedDumps \/ Cardinality(CoreDumps(n)) = Clamp(n)
        /\ \A j, k \in ListedDumps :
             /\ DumpBefore(j, k) <=> dumps[j].time > dumps[k].time
             /\ dumps[j].time > dumps[k].time /\ k \in CoreDumps(n) => j \in CoreDumps(n)
        /\ \A level \in {"", "info", "err"} : \A i \in QueryJournal(level, n), j \in Matching(journal, level) :
             j > i => j \in QueryJournal(level, n)
        /\ klog # "none" => \A level \in {"", "info", "err"} :
             LET all == Matching(ringBuffer, level)
             IN /\ QueryDmesg(level, n) = all \/ Cardinality(QueryDmesg(level, n)) = Clamp(n)
                /\ \A i \in QueryDmesg(level, n), j \in all : j > i => j \in QueryDmesg(level, n)
=============================================================================
