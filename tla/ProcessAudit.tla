---------------------------- MODULE ProcessAudit ----------------------------
(***************************************************************************)
(* Two tools that walk the kernel's view of processes while it changes:    *)
(* get_process_states lists /proc and reads one stat file after the other, *)
(* get_cgroup_limits reads the path of a process's cgroup, or starts from  *)
(* the cgroups of the workload managers, and reads the limits of every     *)
(* level up to the root.                                                   *)
(***************************************************************************)
EXTENDS Integers, Sequences, FiniteSets, FiniteSetsExt

CONSTANTS
    AuditPIDs,    \* pids; 1 is init
    Cgroups,      \* the cgroups, a tree
    CgParent,     \* [Cgroups -> Cgroups]; the root is its own parent
    Managers,     \* sequence of the cgroups of workload managers
    Limits,       \* values of memory.max; 0 is "max"
    DStateWarn,   \* dStateWarnThreshold
    MaxListed,    \* maxZombies and maxDState
    MaxAuditEvents \* bound: what processes and cgroups do

ASSUME ProcessAuditAssumption ==
    /\ 1 \in AuditPIDs /\ AuditPIDs \subseteq Nat /\ IsFiniteSet(AuditPIDs)
    /\ CgParent \in [Cgroups -> Cgroups] /\ "" \notin Cgroups
    /\ \E c \in Cgroups : CgParent[c] = c
    /\ Managers \in Seq(Cgroups)
    /\ Limits \subseteq Nat /\ DStateWarn \in Nat /\ MaxListed \in Nat

VARIABLES
    task,       \* [AuditPIDs -> [state, ppid, cgroup]]; state "" if there is none
    cgroups,    \* existing cgroup -> its memory limit
    changed,    \* pids that changed since the tool began
    changedCg,  \* cgroups that did
    auditStep,  \* "idle", "scan", "scanned", "walk" or "walked"
    toRead,     \* scan: the pids still to read
    entries,    \* scan: pid -> what its stat file said
    level,      \* walk: the cgroup to read next, "" before the path is known
    walkFrom,   \* walk: the cgroup it started at
    starts,     \* walk: the cgroups still to start from
    effective,  \* walk: the limit so far; 0 is unlimited
    limits,     \* walk: start -> effective limit
    auditEvents

auditVars == <<task, cgroups, changed, changedCg, auditStep, toRead, entries, level, walkFrom, starts,
               effective, limits, auditEvents>>
toolVars == <<auditStep, toRead, entries, level, walkFrom, starts, effective, limits>>

Root == CHOOSE c \in Cgroups : CgParent[c] = c
NoTask == [state |-> "", ppid |-> 0, cgroup |-> Root]
AddEntry(f, k, v) == [x \in DOMAIN f \cup {k} |-> IF x = k THEN v ELSE f[x]]

AuditInit ==
    /\ task = [p \in AuditPIDs |-> IF p = 1 THEN [state |-> "S", ppid |-> 0, cgroup |-> Root] ELSE NoTask]
    /\ cgroups = [c \in Cgroups |-> 0]
    /\ changed = {} /\ changedCg = {} /\ auditStep = "idle" /\ toRead = {} /\ entries = << >>
    /\ level = "" /\ walkFrom = "" /\ starts = << >> /\ effective = 0 /\ limits = << >>
    /\ auditEvents = 0

-----------------------------------------------------------------------------
\* The kernel.
AuditEvent(pids, cgs) ==
    /\ auditEvents < MaxAuditEvents /\ auditEvents' = auditEvents + 1
    /\ changed' = IF auditStep = "idle" THEN {} ELSE changed \cup pids
    /\ changedCg' = IF auditStep = "idle" THEN {} ELSE changedCg \cup cgs
    /\ UNCHANGED toolVars
Alive(p) == task[p].state \in {"S", "D"}

Spawn(p, parent, c) ==
    /\ task[p].state = "" /\ Alive(parent) /\ c \in DOMAIN cgroups
    /\ task' = [task EXCEPT ![p] = [state |-> "S", ppid |-> parent, cgroup |-> c]]
    /\ AuditEvent({p}, {}) /\ UNCHANGED cgroups
Dies(p) ==   \* its children are init's
    /\ p # 1 /\ Alive(p)
    /\ task' = [q \in AuditPIDs |->
                  IF q = p THEN [task[p] EXCEPT !.state = "Z"]
                  ELSE IF task[q].ppid = p THEN [task[q] EXCEPT !.ppid = 1] ELSE task[q]]
    /\ AuditEvent({p} \cup {q \in AuditPIDs : task[q].ppid = p}, {}) /\ UNCHANGED cgroups
Reaped(p) ==
    /\ task[p].state = "Z" /\ task' = [task EXCEPT ![p] = NoTask]
    /\ AuditEvent({p}, {}) /\ UNCHANGED cgroups
Blocks(p) ==
    /\ Alive(p) /\ task' = [task EXCEPT ![p].state = IF @ = "S" THEN "D" ELSE "S"]
    /\ AuditEvent({p}, {}) /\ UNCHANGED cgroups
SetLimit(c, l) ==
    /\ c \in DOMAIN cgroups /\ cgroups' = [cgroups EXCEPT ![c] = l]
    /\ AuditEvent({}, {c}) /\ UNCHANGED task
CgroupRemoved(c) ==
    /\ c \in DOMAIN cgroups /\ c # Root
    /\ \A p \in AuditPIDs : ~(Alive(p) /\ task[p].cgroup = c)
    /\ \A d \in DOMAIN cgroups \ {c} : CgParent[d] # c
    /\ cgroups' = [d \in DOMAIN cgroups \ {c} |-> cgroups[d]]
    /\ AuditEvent({}, {c}) /\ UNCHANGED task

-----------------------------------------------------------------------------
\* get_process_states: the list, then every stat file; a pid that is gone is
\* left out.
listPids ==
    /\ auditStep = "idle" /\ auditStep' = "scan"
    /\ toRead' = {p \in AuditPIDs : task[p].state # ""}
    /\ entries' = << >>
    /\ UNCHANGED <<task, cgroups, changed, changedCg, level, walkFrom, starts, effective, limits, auditEvents>>

ReadStat ==   \* in ascending order
    /\ auditStep = "scan" /\ toRead # {}
    /\ entries' = IF task[Min(toRead)].state = "" THEN entries
                  ELSE AddEntry(entries, Min(toRead), task[Min(toRead)])
    /\ toRead' = toRead \ {Min(toRead)}
    /\ UNCHANGED <<task, cgroups, changed, changedCg, auditStep, level, walkFrom, starts, effective, limits, auditEvents>>

ScanDone ==
    /\ auditStep = "scan" /\ toRead = {} /\ auditStep' = "scanned"
    /\ UNCHANGED <<task, cgroups, changed, changedCg, toRead, entries, level, walkFrom, starts, effective, limits, auditEvents>>

\* What Execute makes of the entries: counts over all, lists up to a number,
\* parents that do not reap unless they are init or not among the entries.
InState(s) == {p \in DOMAIN entries : entries[p].state = s}
Shown(S) == Min({Cardinality(S), MaxListed})
ZombieParents == {entries[p].ppid : p \in InState("Z")}
NotReaping == {q \in ZombieParents : q # 1 /\ q \in DOMAIN entries}
ProcessStates ==
    [zombies |-> Cardinality(InState("Z")), listed |-> Shown(InState("Z")), dState |-> Shown(InState("D")),
     status |-> IF NotReaping # {} \/ Cardinality(InState("D")) > DStateWarn THEN "warning" ELSE "ok"]

-----------------------------------------------------------------------------
\* get_cgroup_limits: of a process (executeTargetedMode) or of the managers
\* (executeGlobalMode). The path is read first; a start that does not exist
\* when its turn comes is passed over, or for a process has no limit.
TargetedMode(p) ==
    /\ auditStep = "idle" /\ task[p].state # "" /\ auditStep' = "walk"
    /\ starts' = <<task[p].cgroup>>
    /\ UNCHANGED <<task, cgroups, changed, changedCg, toRead, entries, level, walkFrom, effective, limits, auditEvents>>
GlobalMode ==
    /\ auditStep = "idle" /\ auditStep' = "walk" /\ starts' = Managers
    /\ UNCHANGED <<task, cgroups, changed, changedCg, toRead, entries, level, walkFrom, effective, limits, auditEvents>>

Tighter_Nearest(local, sofar) == IF sofar # 0 THEN sofar ELSE local
Tighter(local, sofar) == IF local # 0 /\ (sofar = 0 \/ local < sofar) THEN local ELSE sofar

StartWalk ==
    /\ auditStep = "walk" /\ level = "" /\ starts # << >>
    /\ level' = Head(starts) /\ walkFrom' = Head(starts) /\ starts' = Tail(starts) /\ effective' = 0
    /\ UNCHANGED <<task, cgroups, changed, changedCg, auditStep, toRead, entries, limits, auditEvents>>
getEffectiveLimits ==   \* one level
    /\ auditStep = "walk" /\ level # ""
    /\ LET here == level \in DOMAIN cgroups
           e == IF here THEN Tighter(cgroups[level], effective) ELSE effective
       IN IF here /\ level # Root
          THEN level' = CgParent[level] /\ effective' = e /\ UNCHANGED limits
          ELSE level' = "" /\ effective' = 0 /\ limits' = AddEntry(limits, walkFrom, e)
    /\ UNCHANGED <<task, cgroups, changed, changedCg, auditStep, toRead, entries, walkFrom, starts, auditEvents>>
WalkDone ==
    /\ auditStep = "walk" /\ level = "" /\ starts = << >> /\ auditStep' = "walked"
    /\ UNCHANGED <<task, cgroups, changed, changedCg, toRead, entries, level, walkFrom, starts, effective, limits, auditEvents>>

AuditNext ==
    \/ \E p, q \in AuditPIDs, c \in Cgroups : Spawn(p, q, c)
    \/ \E p \in AuditPIDs : Dies(p) \/ Reaped(p) \/ Blocks(p) \/ TargetedMode(p)
    \/ \E c \in Cgroups, l \in Limits : SetLimit(c, l)
    \/ \E c \in Cgroups : CgroupRemoved(c)
    \/ listPids \/ ReadStat \/ ScanDone \/ GlobalMode \/ StartWalk \/ getEffectiveLimits \/ WalkDone

-----------------------------------------------------------------------------
\* The levels of a cgroup, up to the root: itself and, of each, the parent.
Ancestors(c) == {d \in Cgroups : \A S \in SUBSET Cgroups : c \in S /\ (\A e \in S : CgParent[e] \in S) => d \in S}
LowestOf(S) == IF S \ {0} = {} THEN 0 ELSE Min(S \ {0})

\* What stood still while a tool walked is told as it is, however much else
\* came and went: a zombie of a parent that does not reap it is counted and
\* is a warning, and a process reported in a state was in it; the limit of a
\* cgroup whose levels did not change is the tightest of them
\* (processstates.go 165-293, cgrouplimits.go 246-309).
SteadyFactsAreTold ==
    /\ auditStep = "scanned" =>
         /\ \A p \in AuditPIDs \ changed : task[p].state # "" => p \in DOMAIN entries /\ entries[p] = task[p]
         /\ \A p \in AuditPIDs \ changed :
              task[p].state = "Z" /\ task[p].ppid # 1 /\ task[p].ppid \notin changed =>
                 ProcessStates.status = "warning" /\ ProcessStates.zombies > 0
         /\ changed = {} => ProcessStates.zombies = Cardinality({p \in AuditPIDs : task[p].state = "Z"})
    /\ auditStep = "walked" =>
         \A c \in DOMAIN limits :
            Ancestors(c) \cap changedCg = {} /\ c \in DOMAIN cgroups =>
               limits[c] = LowestOf({cgroups[d] : d \in Ancestors(c)})
=============================================================================
