------------------------------ MODULE Nucleus -------------------------------
(***************************************************************************)
(* What a node knows of the mesh outside its peers (pkg/mesh/nucleus): the *)
(* resolver cache and its hand-over to a new peer in bootstrap chunks      *)
(* (pkg/mesh/api/bootstrap.go), and the impedance it advertises.  Node A   *)
(* bootstraps node B; both caches are filled from configuration and hosts  *)
(* files at any time.  ControlWriter models how the chunks get across.     *)
(***************************************************************************)
EXTENDS Integers, Sequences, FiniteSets, FiniteSetsExt, Functions

CONSTANTS DNSHosts,        \* host names
          Addresses,       \* network addresses
          MaxEdits,        \* bound on configuration changes
          ChunkSize,       \* bootstrapChunkSize
          StreamOps,       \* goroutines that open and close streams
          MaxStreams,      \* bound on the streams one of them opens
          Loads            \* percentages the metric source reports

ASSUME NucleusAssumption ==
    /\ IsFiniteSet(DNSHosts) /\ IsFiniteSet(StreamOps)
    /\ ChunkSize \in Nat \ {0} /\ MaxStreams \in Nat /\ MaxEdits \in Nat
    /\ Loads \subseteq Int

VARIABLES cache,       \* cache["A"], cache["B"]: host name |-> [addrs, transport, expiry]
          chunks,      \* bootstrap frames on their way to B, each a map of host names
          taught,      \* history: <<host, address>> B was sent in whole since its own entry
          offered,     \* history: the entries of the bootstrap under way
          edits,       \* counts configuration changes, for the bound
          streams,     \* ImpedanceCalculator.streams
          worker,      \* worker[w]: [pc, held, seen] of a stream goroutine
          impedance    \* Manifest.impedance, in hundredths

nucleusVars == <<cache, chunks, taught, offered, edits, streams, worker, impedance>>
bootVars == <<cache, chunks, taught, offered, edits>>
loadVars == <<streams, worker, impedance>>

Transports == {"", "ssh"}     \* "https" is treated as "ssh" is

-----------------------------------------------------------------------------
(* Resolver. *)

Expired(rec) == rec.expiry = "past"
Fresh(c) == {h \in DOMAIN c : ~Expired(c[h])}
PutEntry(c, h, rec) == [x \in DOMAIN c \cup {h} |-> IF x = h THEN rec ELSE c[x]]

(* The addresses of a record are a set: their order has no effect here,    *)
(* and what is merged skips those that are there.                          *)
(* AddEntry and SeedKnownHosts call it without transport; a later entry    *)
(* replaces an earlier one.                                                *)
AddEntryFull(n, h, addrs, expiry, transport) ==
    /\ edits < MaxEdits /\ edits' = edits + 1
    /\ cache' = [cache EXCEPT ![n] = PutEntry(@, h, [addrs |-> addrs, transport |-> transport,
                                               expiry |-> expiry])]
    /\ taught' = IF n = "B" THEN {p \in taught : p[1] # h} ELSE taught
    /\ offered' = IF n = "B" THEN {p \in offered : p[1] # h} ELSE offered
    /\ UNCHANGED <<chunks, loadVars>>

HostsRecord(c, ip, h) ==
    IF h \in DOMAIN c THEN [c[h] EXCEPT !.addrs = @ \cup {ip}]
    ELSE [addrs |-> {ip}, transport |-> "", expiry |-> "never"]

(* One host name of one line of a hosts file: its own critical section. *)
ParseHostsContent(n, ip, h) ==
    /\ edits < MaxEdits /\ edits' = edits + 1
    /\ cache' = [cache EXCEPT ![n] = PutEntry(@, h, HostsRecord(@, ip, h))]
    /\ UNCHANGED <<chunks, taught, offered, loadVars>>

Expire(n, h) ==
    /\ h \in DOMAIN cache[n] /\ cache[n][h].expiry = "later"
    /\ cache' = [cache EXCEPT ![n][h].expiry = "past"]
    /\ UNCHANGED <<chunks, taught, offered, edits, loadVars>>

AllEntries(n) ==
    [h \in Fresh(cache[n]) |-> [addrs |-> cache[n][h].addrs, transport |-> cache[n][h].transport]]

AllDialTargets(n) == UNION {{h} \X cache[n][h].addrs : h \in Fresh(cache[n])}

MergeEntry_OnlyNew(c, h, e) ==
    IF h \in DOMAIN c THEN c[h]
    ELSE [addrs |-> e.addrs, transport |-> e.transport, expiry |-> "never"]

(* A new host is entered without expiry.  Of a known one - expired or not, *)
(* and its expiry is left alone - only what is missing is added.           *)
MergeEntry(c, h, e) ==
    IF h \notin DOMAIN c
    THEN [addrs |-> e.addrs, transport |-> e.transport, expiry |-> "never"]
    ELSE [c[h] EXCEPT !.addrs = @ \cup e.addrs, !.transport = IF @ = "" THEN e.transport ELSE @]

Merge(c, hosts) ==
    [h \in DOMAIN c \cup DOMAIN hosts |-> IF h \in DOMAIN hosts THEN MergeEntry(c, h, hosts[h]) ELSE c[h]]

-----------------------------------------------------------------------------
(* Bootstrap. *)

(* Chunks of ChunkSize hosts, at least one chunk; the order of a map is open. *)
ChunkCount(size) == IF size = 0 THEN 1 ELSE (size + ChunkSize - 1) \div ChunkSize
Cuts(hosts) ==
    LET size == Cardinality(hosts)
    IN  {cut \in [1..ChunkCount(size) -> SUBSET hosts] :
            /\ \A h \in hosts : \E k \in DOMAIN cut : h \in cut[k]
            /\ \A k \in DOMAIN cut : Cardinality(cut[k]) = Min({ChunkSize, size - (k - 1) * ChunkSize})}

buildBootstrapFrames ==
    /\ chunks = <<>>
    /\ \E cut \in Cuts(Fresh(cache["A"])) :
         chunks' = [k \in DOMAIN cut |-> Restrict(AllEntries("A"), cut[k])]
    /\ offered' = AllDialTargets("A")
    /\ UNCHANGED <<cache, taught, edits, loadVars>>

(* A peer of another protocol version is closed, and the rest is lost. *)
handleBootstrapFrame(sameVersion) ==
    /\ chunks # <<>>
    /\ IF sameVersion
       THEN /\ chunks' = Tail(chunks)
            /\ cache' = [cache EXCEPT !["B"] = Merge(@, Head(chunks))]
            /\ taught' = taught \cup (IF Tail(chunks) = <<>> THEN offered ELSE {})
       ELSE chunks' = <<>> /\ UNCHANGED <<cache, taught>>
    /\ UNCHANGED <<offered, edits, loadVars>>

-----------------------------------------------------------------------------
(* Impedance, in hundredths; the weights are 60, 25 and 15 percent. *)

MinImpedance == 100
MaxImpedance == 10000
maxStreamPressure == 500

clampNorm(p) == Max({0, Min({100, p})})

Calculate(cpu, mem, n) ==
    LET pressure  == Min({100, (100 * Max({0, n})) \div maxStreamPressure})
        composite == 60 * clampNorm(cpu) + 25 * clampNorm(mem) + 15 * pressure
    IN  MinImpedance + (composite * (MaxImpedance - MinImpedance)) \div 10000

SetImpedance(value) == Max({MinImpedance, Min({MaxImpedance, value})})

UpdateOwnImpedance(cpu, mem) ==
    /\ impedance' = SetImpedance(Calculate(cpu, mem, streams))
    /\ UNCHANGED <<bootVars, streams, worker>>

AddStreams(w, n) ==
    /\ worker[w].pc = "idle" /\ worker[w].held + n <= MaxStreams
    /\ streams' = streams + n
    /\ worker' = [worker EXCEPT ![w].held = @ + n]
    /\ UNCHANGED <<bootVars, impedance>>

(* RemoveStreams loads, computes and swaps; it starts again if the counter *)
(* changed in between.                                                     *)
RemoveLoad(w) ==
    /\ worker[w].pc = "idle" /\ worker[w].held > 0
    /\ worker' = [worker EXCEPT ![w].pc = "swap", ![w].seen = streams]
    /\ UNCHANGED <<bootVars, streams, impedance>>

RemoveSwap(w) ==
    /\ worker[w].pc = "swap"
    /\ IF streams = worker[w].seen
       THEN /\ streams' = Max({0, streams - worker[w].held})
            /\ worker' = [worker EXCEPT ![w] = [pc |-> "idle", held |-> 0, seen |-> 0]]
       ELSE /\ worker' = [worker EXCEPT ![w].seen = streams]
            /\ UNCHANGED streams
    /\ UNCHANGED <<bootVars, impedance>>

(* The streams that are open. *)
OpenStreams == UNION {{w} \X (1..worker[w].held) : w \in StreamOps}

-----------------------------------------------------------------------------
NucleusInit ==
    /\ cache = [n \in {"A", "B"} |-> <<>>]
    /\ chunks = <<>> /\ taught = {} /\ offered = {} /\ edits = 0
    /\ streams = 0 /\ impedance = MinImpedance
    /\ worker = [w \in StreamOps |-> [pc |-> "idle", held |-> 0, seen |-> 0]]

ResolverNext ==
    \/ \E n \in {"A", "B"}, h \in DNSHosts, a \in Addresses :
         \/ \E x \in {"never", "later"}, t \in Transports : AddEntryFull(n, h, {a}, x, t)
         \/ ParseHostsContent(n, a, h)
    \/ \E n \in {"A", "B"}, h \in DNSHosts : Expire(n, h)
    \/ buildBootstrapFrames
    \/ \E same \in BOOLEAN : handleBootstrapFrame(same)

ImpedanceNext ==
    \/ \E cpu, mem \in Loads : UpdateOwnImpedance(cpu, mem)
    \/ \E w \in StreamOps : \/ \E n \in 1..MaxStreams : AddStreams(w, n)
                            \/ RemoveLoad(w) \/ RemoveSwap(w)

NucleusNext == ResolverNext \/ ImpedanceNext
NucleusSpec == NucleusInit /\ [][NucleusNext]_nucleusVars

-----------------------------------------------------------------------------
(* Once the last chunk of a bootstrap is merged, the peer can dial every   *)
(* address it was offered, in whatever order and chunks the entries came   *)
(* and whatever it knew before - unless its own configuration gave the     *)
(* host a limited life, which Merge does not extend, or replaced the entry.*)
BootstrapTeaches ==
    \A p \in taught :
        /\ p[1] \in DOMAIN cache["B"] /\ p[2] \in cache["B"][p[1]].addrs
        /\ cache["B"][p[1]].expiry = "never" => p \in AllDialTargets("B")

(* The stream counter equals the streams that are open although goroutines *)
(* close them concurrently, and the advertised impedance stays within its  *)
(* range for every load a metric source may report, also absurd ones.      *)
ImpedanceIsSound ==
    /\ streams = Cardinality(OpenStreams)
    /\ impedance \in MinImpedance..MaxImpedance
    /\ \A cpu, mem \in Loads : Calculate(cpu, mem, streams) \in MinImpedance..MaxImpedance

(* What a node has learnt at its bootstrap it can use, and what it tells   *)
(* of its own load is true (bootstrap.go, resolver.go, impedance.go).      *)
KnowledgeIsSound == BootstrapTeaches /\ ImpedanceIsSound
=============================================================================
