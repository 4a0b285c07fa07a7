--------------------------- MODULE CounterSamples ---------------------------
(***************************************************************************)
(* get_network_throughput and get_disk_io_stats: two readings of the       *)
(* kernel's counters with a window between them, and rates from the        *)
(* differences. In the window devices come, go and are replaced by others  *)
(* of the same name, and counters of fixed width wrap.                     *)
(*                                                                         *)
(* A device has two counters: "work" (bytes, packets, operations, sectors) *)
(* and "trouble" (drops and errors; the time in I/O of a disk). A rate is  *)
(* its difference and the length of the window it is divided by.           *)
(***************************************************************************)
EXTENDS Integers, FiniteSets, Functions

CONSTANTS
    Devices,        \* device names
    VirtualDevices, \* lo; loop, ram, zram and nbd
    CounterSpan,    \* counters are modulo this (2^64 in the kernel)
    LinkSpeed,      \* work per unit of time at which a link is saturated
    MaxDelay,       \* how much later than asked a sleep may end
    MaxDeviceEvents \* bound: traffic, arrivals, removals and replacements

ASSUME CounterAssumption ==
    /\ VirtualDevices \subseteq Devices
    /\ CounterSpan \in Nat \ {0, 1} /\ LinkSpeed \in Nat \ {0}
    /\ MaxDelay \in Nat /\ MaxDeviceEvents \in Nat

VARIABLES
    counters,   \* per present device its counters
    sampling,   \* "idle", "window", "done", "error"
    sampler,    \* the tool: "network" or "disk"
    first,      \* the first reading
    rates,      \* per reported device: differences, window, utilization
    notes,      \* devices get_network_throughput writes a note about
    busiest,    \* the busiest interface of the summary
    flagged,    \* devices with a warning (network) or high latency (disk)
    happened,       \* per device what really happened in the window
    replaced,   \* devices removed or reset in the window
    deviceEvents

counterVars == <<counters, sampling, sampler, first, rates, notes, busiest, flagged,
                 happened, replaced, deviceEvents>>

Zero == [work |-> 0, trouble |-> 0]
Wrap(n) == n % CounterSpan

CounterInit ==
    /\ \E S \in SUBSET Devices : counters \in [S -> [work : {0, CounterSpan - 1}, trouble : {0}]]
    /\ sampling = "idle" /\ sampler = "network" /\ first = << >> /\ rates = << >>
    /\ notes = {} /\ busiest = "" /\ flagged = {}
    /\ happened = [d \in Devices |-> Zero] /\ replaced = {} /\ deviceEvents = 0

-----------------------------------------------------------------------------
\* The two files, without the loopback interface, and without loop and ram
\* disks and partitions.
parseNetDev == Restrict(counters, DOMAIN counters \ VirtualDevices)
ParseDiskStats == Restrict(counters, DOMAIN counters \ VirtualDevices)
Reading(tool) == IF tool = "network" THEN parseNetDev ELSE ParseDiskStats

\* Execute until the sleep: the first reading, or the error of a file that
\* cannot be read.
FirstSample(tool, readable) ==
    /\ sampling = "idle"
    /\ sampler' = tool
    /\ sampling' = IF readable THEN "window" ELSE "error"
    /\ first' = IF readable THEN Reading(tool) ELSE << >>
    /\ UNCHANGED <<counters, rates, notes, busiest, flagged, happened, replaced, deviceEvents>>

\* The context ends during the window.
WindowCancelled ==
    /\ sampling = "window" /\ sampling' = "error"
    /\ UNCHANGED <<counters, sampler, first, rates, notes, busiest, flagged, happened,
                   replaced, deviceEvents>>

\* A counter went back: it wrapped, or the interface was reset.
wrapped(a, b) == b.work < a.work \/ b.trouble < a.trouble

\* computeRates: only interfaces of both readings; none for one that wrapped.
\* The window is the measured one.
computeRates(second, elapsed) ==
    [d \in DOMAIN first \cap DOMAIN second |->
        IF wrapped(first[d], second[d])
        THEN [work |-> 0, trouble |-> 0, window |-> elapsed]
        ELSE [work |-> second[d].work - first[d].work,
              trouble |-> second[d].trouble - first[d].trouble, window |-> elapsed]]

\* CalculateMetrics: unsigned differences over the window that was asked for.
CalculateMetrics(second) ==
    [d \in DOMAIN first \cap DOMAIN second |->
        [work |-> Wrap(second[d].work - first[d].work),
         trouble |-> Wrap(second[d].trouble - first[d].trouble), window |-> 1]]

buildWarnings(rs) ==
    {d \in DOMAIN rs : \/ rs[d].trouble > 0
                       \/ 10 * rs[d].work > 9 * LinkSpeed * rs[d].window}
\* AggregateSummary: the latency is the time in I/O per operation.
AggregateSummary(rs) == {d \in DOMAIN rs : rs[d].work > 0 /\ rs[d].trouble > rs[d].work}

\* The first interface in name order of those with the largest rate.
buildSummary(rs) ==
    {d \in DOMAIN rs : \A e \in DOMAIN rs : rs[e].work <= rs[d].work}

SecondSample(delay, readable) ==
    /\ sampling = "window"
    /\ sampling' = IF readable THEN "done" ELSE "error"
    /\ LET second == Reading(sampler)
           rs == IF sampler = "network" THEN computeRates(second, 1 + delay)
                 ELSE CalculateMetrics(second)
       IN IF ~readable THEN UNCHANGED <<rates, notes, busiest, flagged>>
          ELSE /\ rates' = rs
               /\ notes' = IF sampler = "disk" THEN {}
                           ELSE ((DOMAIN first \cup DOMAIN second) \ DOMAIN rs)
                                \cup {d \in DOMAIN rs : wrapped(first[d], second[d])}
               /\ flagged' = IF sampler = "network" THEN buildWarnings(rs)
                             ELSE AggregateSummary(rs)
               /\ IF sampler = "network" /\ DOMAIN rs # {}
                  THEN \E d \in buildSummary(rs) : busiest' = d
                  ELSE busiest' = ""
    /\ UNCHANGED <<counters, sampler, first, happened, replaced, deviceEvents>>

-----------------------------------------------------------------------------
\* The devices.
Device ==
    /\ sampling \in {"idle", "window"}
    /\ deviceEvents < MaxDeviceEvents /\ deviceEvents' = deviceEvents + 1
    /\ UNCHANGED <<sampling, sampler, first, rates, notes, busiest, flagged>>

Traffic(d, work, trouble) ==
    /\ Device
    /\ d \in DOMAIN counters
    /\ counters' = [counters EXCEPT ![d] = [work |-> Wrap(@.work + work),
                                            trouble |-> Wrap(@.trouble + trouble)]]
    /\ happened' = IF sampling = "idle" THEN happened
               ELSE [happened EXCEPT ![d] = [work |-> @.work + work, trouble |-> @.trouble + trouble]]
    /\ UNCHANGED replaced

Removed(d) ==
    /\ Device
    /\ d \in DOMAIN counters
    /\ counters' = Restrict(counters, DOMAIN counters \ {d})
    /\ replaced' = IF sampling = "window" THEN replaced \cup {d} ELSE replaced
    /\ UNCHANGED happened

Arrived(d) ==
    /\ Device
    /\ d \notin DOMAIN counters
    /\ counters' = [e \in DOMAIN counters \cup {d} |-> IF e = d THEN Zero ELSE counters[e]]
    /\ UNCHANGED <<happened, replaced>>

CounterNext ==
    \/ \E tool \in {"network", "disk"}, readable \in BOOLEAN : FirstSample(tool, readable)
    \/ WindowCancelled
    \/ \E delay \in 0..MaxDelay, readable \in BOOLEAN : SecondSample(delay, readable)
    \/ \E d \in Devices : \/ \E w \in {1, CounterSpan - 1}, t \in {0, 1} : Traffic(d, w, t)
                          \/ Removed(d) \/ Arrived(d)

-----------------------------------------------------------------------------
\* Unless a counter turns a whole round in the window: no rate exceeds what
\* really passed, whatever wraps, comes and goes, and a device that was there
\* all the time is reported with exactly that or, for a network interface,
\* with a note that says why not. A disk replaced by another of its name is
\* the exception: the unsigned difference of CalculateMetrics wraps
\* (networkthroughput.go 333-381, diskstats.go 127-182).
RatesAreReal ==
    sampling = "done" =>
        \A d \in {e \in Devices \ VirtualDevices : happened[e].work < CounterSpan} :
            LET stayed == d \in DOMAIN first /\ d \notin replaced
                exact == /\ d \in DOMAIN rates
                         /\ rates[d].work = happened[d].work /\ rates[d].trouble = happened[d].trouble
            IN /\ sampler = "network" =>
                    /\ d \in DOMAIN rates => rates[d].work <= happened[d].work
                    /\ stayed => exact \/ d \in notes
               /\ sampler = "disk" /\ stayed => exact
=============================================================================
