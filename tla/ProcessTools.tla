---------------------------- MODULE ProcessTools ----------------------------
(***************************************************************************)
(* get_process_list and get_process_tree (internal/sys/process): /proc is  *)
(* listed, every process is read twice with a window between the passes,   *)
(* and the list or the tree is made from what the second pass found. While *)
(* the tool reads, processes fork and exit, and a process identifier may   *)
(* be used again.                                                          *)
(*                                                                         *)
(* A process is its parent, its processor time and a birth number, which   *)
(* the tools cannot see. One read of a process is one step.                *)
(***************************************************************************)
EXTENDS Integers, Sequences, FiniteSets, SequencesExt

CONSTANTS
    PIDs,           \* process identifiers; 1 is the first process
    TickSpan,       \* processor times are modulo this (2^64)
    ListLimits,     \* limits a call may ask for
    MaxProcEvents   \* bound: forks, exits and ticks

ASSUME ProcessAssumption ==
    /\ PIDs \subseteq Nat \ {0} /\ {1, 2} \subseteq PIDs /\ IsFiniteSet(PIDs)
    /\ ListLimits \subseteq Nat
    /\ MaxProcEvents \in Nat /\ TickSpan \in Nat /\ MaxProcEvents < TickSpan

VARIABLES
    procs,      \* the processes: pid -> [ppid, ticks, born]
    scan,       \* "idle", "first", "window", "second", "done"
    scanTool,   \* [tree, target] or [list, limit]
    unread,     \* processes of the pass that are still to be read
    stats1,     \* the first pass
    seen,       \* the second pass: pid -> [ppid, cpu, born, same]
    outcome,    \* "none", "list", "tree", "error", "panic", "endless"
    listed,     \* the list
    root, children,   \* the tree: its root, and the children of every node
    procEvents

procVars == <<procs, scan, scanTool, unread, stats1, seen, outcome, listed, root,
              children, procEvents>>

TreeCalls == {[tool |-> "tree", target |-> p, limit |-> 0] : p \in PIDs}
ListCalls == {[tool |-> "list", target |-> 0, limit |-> n] : n \in ListLimits}
Extend(f, k, v) == [x \in DOMAIN f \cup {k} |-> IF x = k THEN v ELSE f[x]]
Without(f, k) == [x \in DOMAIN f \ {k} |-> f[x]]

ProcInit ==
    /\ procs = [p \in {1, 2} |-> [ppid |-> p - 1, ticks |-> 0, born |-> 0]]
    /\ scan = "idle" /\ scanTool \in TreeCalls \cup ListCalls
    /\ unread = {} /\ stats1 = << >> /\ seen = << >> /\ outcome = "none"
    /\ listed = << >> /\ root = 0 /\ children = << >> /\ procEvents = 0

-----------------------------------------------------------------------------
Scanning == UNCHANGED <<procs, scanTool, procEvents>>
NoOutcome == UNCHANGED <<outcome, listed, root, children>>

getPIDs ==
    /\ scan = "idle" /\ scan' = "first"
    /\ unread' = DOMAIN procs
    /\ Scanning /\ NoOutcome /\ UNCHANGED <<stats1, seen>>

\* readStat of the first pass; a process that is gone is left out.
readStat(p) ==
    /\ scan = "first" /\ p \in unread
    /\ unread' = unread \ {p}
    /\ stats1' = IF p \in DOMAIN procs THEN Extend(stats1, p, procs[p]) ELSE stats1
    /\ Scanning /\ NoOutcome /\ UNCHANGED <<scan, seen>>

\* The window, or the end of the context.
SampleWindow ==
    /\ scan = "first" /\ unread = {}
    /\ \/ scan' = "second" /\ unread' = DOMAIN stats1 /\ NoOutcome
       \/ /\ scan' = "done" /\ outcome' = "error"
          /\ UNCHANGED <<unread, listed, root, children>>
    /\ Scanning /\ UNCHANGED <<stats1, seen>>

\* readStat, readStatus and readCmdline of the second pass; the processor time
\* is an unsigned difference, also between two processes of the same number.
readStatus(p) ==
    /\ scan = "second" /\ p \in unread
    /\ unread' = unread \ {p}
    /\ seen' = IF p \in DOMAIN procs
               THEN Extend(seen, p, [ppid |-> procs[p].ppid,
                                     cpu |-> (procs[p].ticks - stats1[p].ticks) % TickSpan,
                                     used |-> procs[p].ticks - stats1[p].ticks,
                                     same |-> procs[p].born = stats1[p].born])
               ELSE seen
    /\ Scanning /\ NoOutcome /\ UNCHANGED <<scan, stats1>>

\* GetList: sorted by processor time, ties in any order, then cut off.
Sorted(S) == {s \in SetToSeqs(S) :
                 \A i, j \in DOMAIN s : i < j => seen[s[i]].cpu >= seen[s[j]].cpu}
CutOff(s, n) == IF n > 0 /\ Len(s) > n THEN SubSeq(s, 1, n) ELSE s

GetList ==
    /\ scan = "second" /\ unread = {} /\ scanTool.tool = "list"
    /\ scan' = "done" /\ outcome' = "list"
    /\ \E s \in Sorted(DOMAIN seen) : listed' = CutOff(s, scanTool.limit)
    /\ Scanning /\ UNCHANGED <<unread, stats1, seen, root, children>>

\* GetTree. Children of every node; the first process has no parent.
HasParent(p) == p # 1 /\ seen[p].ppid # 0
Linked == [p \in DOMAIN seen |-> {c \in DOMAIN seen : HasParent(c) /\ seen[c].ppid = p}]

\* The walk upwards from the target: the identifiers on the way, a missing
\* parent included. It ends at one without a parent, or goes round for ever.
IsTop(p) == p \notin DOMAIN seen \/ ~HasParent(p)
OnPath(target) ==
    {p \in PIDs : \A S \in SUBSET PIDs :
        target \in S /\ (\A c \in S : IsTop(c) \/ seen[c].ppid \in S) => p \in S}
NeverEnds(target) == \A p \in OnPath(target) : ~IsTop(p)
Top(target) == CHOOSE p \in OnPath(target) : IsTop(p)

\* An ancestor keeps the child that leads to the target, the rest all.
Prune(target, p) ==
    IF p \in OnPath(target) /\ p # target THEN Linked[p] \cap OnPath(target) ELSE Linked[p]

\* The pruning of an ancestor that the second pass did not find dereferences
\* a nil pointer.
GetTree ==
    /\ scan = "second" /\ unread = {} /\ scanTool.tool = "tree"
    /\ scan' = "done"
    /\ LET target == scanTool.target
       IN \/ /\ target \notin DOMAIN seen
             /\ outcome' = "error" /\ UNCHANGED <<root, children>>
          \/ /\ target \in DOMAIN seen /\ NeverEnds(target)
             /\ outcome' = "endless" /\ UNCHANGED <<root, children>>
          \/ /\ target \in DOMAIN seen /\ ~NeverEnds(target)
             /\ IF OnPath(target) \subseteq DOMAIN seen
                THEN /\ outcome' = "tree" /\ root' = Top(target)
                     /\ children' = [p \in DOMAIN seen |-> Prune(target, p)]
                ELSE outcome' = "panic" /\ UNCHANGED <<root, children>>
    /\ Scanning /\ UNCHANGED <<unread, stats1, seen, listed>>

-----------------------------------------------------------------------------
\* The processes.
ProcEvent ==
    /\ scan # "done"
    /\ procEvents < MaxProcEvents /\ procEvents' = procEvents + 1
    /\ UNCHANGED <<scan, scanTool, unread, stats1, seen, outcome, listed, root, children>>

Fork(parent, p) ==
    /\ ProcEvent
    /\ parent \in DOMAIN procs /\ p \in PIDs \ DOMAIN procs
    /\ procs' = Extend(procs, p, [ppid |-> parent, ticks |-> 0, born |-> procEvents + 1])

\* The children of a process that exits go to the first process.
Exit(p) ==
    /\ ProcEvent
    /\ p \in DOMAIN procs \ {1}
    /\ procs' = [q \in DOMAIN procs \ {p} |->
                    IF procs[q].ppid = p THEN [procs[q] EXCEPT !.ppid = 1] ELSE procs[q]]

UseCPU(p) ==
    /\ ProcEvent
    /\ p \in DOMAIN procs
    /\ procs' = [procs EXCEPT ![p].ticks = @ + 1]

ProcNext ==
    \/ getPIDs \/ SampleWindow \/ GetList \/ GetTree
    \/ \E p \in PIDs : readStat(p) \/ readStatus(p) \/ Exit(p) \/ UseCPU(p)
    \/ \E parent, p \in PIDs : Fork(parent, p)

-----------------------------------------------------------------------------
\* The nodes of the returned tree.
InTree ==
    {p \in DOMAIN seen : \A S \in SUBSET DOMAIN seen :
        root \in S /\ (\A c \in S : children[c] \subseteq S) => p \in S}

\* What the tools return although processes come and go while they read. The
\* tree holds exactly the ancestors and the descendants of the target. The
\* list holds as many of the processes found as the limit allows, none of
\* which used less processor time than one that was left out, and for every
\* process that lived through the window the time it really used
\* (tree.go 92-142, process.go 126-192).
ProcessViewsAreSound ==
    /\ outcome = "tree" =>
         InTree = {p \in DOMAIN seen : p \in OnPath(scanTool.target) \/ scanTool.target \in OnPath(p)}
    /\ outcome = "list" =>
         /\ scanTool.limit > 0 /\ Cardinality(DOMAIN seen) > scanTool.limit
              => Len(listed) = scanTool.limit
         /\ \A p \in ToSet(listed), q \in DOMAIN seen \ ToSet(listed) : seen[p].cpu >= seen[q].cpu
         /\ \A p \in ToSet(listed) : seen[p].same => seen[p].cpu = seen[p].used
=============================================================================
