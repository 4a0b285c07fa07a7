---------------------------- MODULE ReportProofs ----------------------------
(***************************************************************************)
(* The diagnostic tools of a node and the catalogue and overview of a      *)
(* gateway, each proved for every value of its constants. All but the      *)
(* counters are read in several steps while what they read changes; the    *)
(* invariant of each says what has been read so far is worth.              *)
(***************************************************************************)
EXTENDS CounterSamples, ProcessTools, ProcessAudit, MachineTopology, StorageHealth, Catalogue,
        MeshOverview, LogTools, HostHealth, FileHolders, FiniteSetTheorems, SequenceTheorems, WellFoundedInduction, TLAPS

(* Every set of numbers has a least one. *)
LEMMA LeastNumber ==
    ASSUME NEW S \in SUBSET Nat, S # {}
    PROVE  \E m \in S : \A x \in S : m <= x
<1> DEFINE less == OpToRel(<, Nat)
<1>1. \A x, y \in Nat : y < x => <<y, x>> \in less
  BY DEF OpToRel
<1>2. IsWellFoundedOn(less, Nat)
  BY NatLessThanWellFounded
<1> HIDE DEF less
<1>3. PICK x \in S : \A y \in S : ~(<<y, x>> \in less)
  BY <1>2, WFMin
<1>4. ASSUME NEW y \in S PROVE x <= y
  <2>1. x \in Nat /\ y \in Nat /\ ~(y < x)
    BY <1>1, <1>3
  <2> QED
    BY <2>1
<1> QED
  BY <1>4

LEMMA MinIsLeast ==
    ASSUME NEW S \in SUBSET Nat, S # {}
    PROVE  Min(S) \in S /\ \A x \in S : Min(S) <= x
  BY LeastNumber DEF Min

-----------------------------------------------------------------------------
(***************************************************************************)
(* CounterSamples. In the window a device that stayed shows its first      *)
(* reading plus what really passed, once round at most; one that was       *)
(* replaced shows no more than what passed.                                *)
(***************************************************************************)
CounterReadings == [work : 0 .. CounterSpan - 1, trouble : 0 .. CounterSpan - 1]

Around(n) == IF n < CounterSpan THEN n ELSE n - CounterSpan

Moves(a, t, b) == b.work = Around(a.work + t.work) /\ b.trouble = Around(a.trouble + t.trouble)

CounterTypes ==
    /\ sampling \in {"idle", "window", "done", "error"} /\ sampler \in {"network", "disk"}
    /\ DOMAIN counters \subseteq Devices
    /\ counters \in [DOMAIN counters -> CounterReadings]
    /\ happened \in [Devices -> [work : Nat, trouble : Nat]]
    /\ \A d \in Devices : happened[d].trouble <= happened[d].work

InWindow ==
    /\ DOMAIN first \subseteq Devices \ VirtualDevices
    /\ first \in [DOMAIN first -> CounterReadings]
    /\ \A d \in DOMAIN first \ replaced :
         d \in DOMAIN counters
         /\ (happened[d].work < CounterSpan => Moves(first[d], happened[d], counters[d]))
    /\ \A d \in DOMAIN first \cap DOMAIN counters :
         d \in replaced => counters[d].work <= happened[d].work

CounterInv ==
    /\ CounterTypes
    /\ sampling = "idle" => happened = [d \in Devices |-> Zero] /\ replaced = {}
    /\ sampling = "window" => InWindow
    /\ RatesAreReal

(* Arithmetic modulo the span of a counter, for the values that occur. *)
LEMMA WrapFacts ==
    ASSUME NEW n \in Int
    PROVE  /\ Wrap(n) \in 0 .. CounterSpan - 1
           /\ n \in Nat => Wrap(n) <= n
           /\ n \in 0 .. CounterSpan - 1 => Wrap(n) = n
           /\ n \in CounterSpan .. 2 * CounterSpan - 1 => Wrap(n) = n - CounterSpan
           /\ n \in 0 - CounterSpan .. 0 - 1 => Wrap(n) = n + CounterSpan
<1>1. CounterSpan \in Nat \ {0}
  BY CounterAssumption
<1>2. Wrap(n) = n % CounterSpan
  BY DEF Wrap
<1> HIDE DEF Wrap
<1>3. n % CounterSpan \in 0 .. CounterSpan - 1
  BY <1>1
<1>4. n \in Nat => n % CounterSpan <= n
  BY <1>1
<1>5. n \in 0 .. CounterSpan - 1 => n % CounterSpan = n
  BY <1>1
<1>6. n \in CounterSpan .. 2 * CounterSpan - 1 => n % CounterSpan = n - CounterSpan
  BY <1>1
<1>7. n \in 0 - CounterSpan .. 0 - 1 => n % CounterSpan = n + CounterSpan
  BY <1>1
<1> QED
  BY <1>2, <1>3, <1>4, <1>5, <1>6, <1>7

(* A counter that was Around(a + t) is Around(a + t + w) after w more. *)
LEMMA WrapMoves ==
    ASSUME NEW a \in 0 .. CounterSpan - 1, NEW t \in Nat, NEW w \in 0 .. CounterSpan - 1,
           t + w < CounterSpan
    PROVE  Wrap(Around(a + t) + w) = Around(a + (t + w))
<1>1. CounterSpan \in Nat \ {0}
  BY CounterAssumption
<1>2. Around(a + t) + w \in Nat /\ Around(a + t) \in 0 .. CounterSpan - 1
  BY <1>1 DEF Around
<1>3. CASE Around(a + t) + w < CounterSpan
  <2>1. Wrap(Around(a + t) + w) = Around(a + t) + w
    BY <1>1, <1>2, <1>3, WrapFacts
  <2> QED
    BY <1>1, <1>3, <2>1 DEF Around
<1>4. CASE Around(a + t) + w >= CounterSpan
  <2>1. Wrap(Around(a + t) + w) = Around(a + t) + w - CounterSpan
    BY <1>1, <1>2, <1>4, WrapFacts
  <2> QED
    BY <1>1, <1>4, <2>1 DEF Around
<1> QED
  BY <1>1, <1>2, <1>3, <1>4

(* The difference of two readings, taken either way. *)
LEMMA WrapDifference ==
    ASSUME NEW a \in 0 .. CounterSpan - 1, NEW t \in 0 .. CounterSpan - 1
    PROVE  /\ Wrap(Around(a + t) - a) = t
           /\ Around(a + t) >= a => Around(a + t) - a = t
           /\ Around(a + t) \in 0 .. CounterSpan - 1
<1>1. CounterSpan \in Nat \ {0}
  BY CounterAssumption
<1>2. CASE a + t < CounterSpan
  <2>1. Around(a + t) = a + t
    BY <1>1, <1>2 DEF Around
  <2> QED
    BY <1>1, <1>2, <2>1, WrapFacts
<1>3. CASE a + t >= CounterSpan
  <2>1. Around(a + t) = a + t - CounterSpan
    BY <1>1, <1>3 DEF Around
  <2>2. Around(a + t) - a = t - CounterSpan /\ Around(a + t) < a
    BY <1>1, <1>3, <2>1
  <2>3. t - CounterSpan \in 0 - CounterSpan .. 0 - 1
    BY <1>1
  <2>4. Wrap(t - CounterSpan) = t
    BY <1>1, <2>3, WrapFacts
  <2> QED
    BY <1>1, <1>3, <2>1, <2>2, <2>4
<1> QED
  BY <1>1, <1>2, <1>3

LEMMA CounterInitInv == CounterInit => CounterInv
<1> SUFFICES ASSUME CounterInit PROVE CounterInv
  OBVIOUS
<1>1. PICK S \in SUBSET Devices : counters \in [S -> [work : {0, CounterSpan - 1}, trouble : {0}]]
  BY DEF CounterInit
<1>2. [work : {0, CounterSpan - 1}, trouble : {0}] \subseteq CounterReadings
  BY CounterAssumption DEF CounterReadings
<1>3. DOMAIN counters = S /\ counters \in [S -> CounterReadings]
  BY <1>1, <1>2
<1>4. CounterTypes
  <2>0. happened = [d \in Devices |-> Zero]
    BY DEF CounterInit
  <2>1. Zero \in [work : Nat, trouble : Nat] /\ Zero.trouble <= Zero.work
    BY DEF Zero
  <2> HIDE DEF Zero
  <2>2. happened \in [Devices -> [work : Nat, trouble : Nat]]
        /\ \A d \in Devices : happened[d].trouble <= happened[d].work
    BY <2>0, <2>1
  <2> QED
    BY <1>3, <2>2 DEF CounterInit, CounterTypes
<1> QED
  BY <1>4 DEF CounterInit, CounterInv, RatesAreReal

LEMMA FirstSampleInv ==
    ASSUME CounterInv, NEW tool \in {"network", "disk"}, NEW readable \in BOOLEAN,
           FirstSample(tool, readable)
    PROVE  CounterInv'
<1>1. CounterTypes'
  BY DEF CounterInv, CounterTypes, FirstSample
<1>2. sampling' # "idle" /\ sampling' # "done"
  BY DEF FirstSample
<1>3. ASSUME sampling' = "window" PROVE InWindow'
  <2>1. first' = [d \in DOMAIN counters \ VirtualDevices |-> counters[d]]
    BY <1>3 DEF FirstSample, Reading, parseNetDev, ParseDiskStats, Restrict
  <2>2. DOMAIN first' = DOMAIN counters \ VirtualDevices
    BY <2>1
  <2>3. /\ replaced' = {} /\ counters' = counters
        /\ \A d \in Devices : happened'[d] = Zero
    BY DEF CounterInv, FirstSample
  <2>4. ASSUME NEW d \in DOMAIN first' PROVE Moves(first'[d], happened'[d], counters'[d])
    <3>1. counters[d] \in CounterReadings /\ first'[d] = counters[d] /\ d \in Devices
      BY <2>1, <2>2, <2>4 DEF CounterInv, CounterTypes
    <3> QED
      BY <2>3, <3>1, CounterAssumption DEF Moves, Around, Zero, CounterReadings
  <2> QED
    BY <2>1, <2>2, <2>3, <2>4 DEF InWindow, CounterInv, CounterTypes
<1> QED
  BY <1>1, <1>2, <1>3 DEF CounterInv, RatesAreReal

LEMMA SecondSampleInv ==
    ASSUME CounterInv, NEW delay \in 0 .. MaxDelay, NEW readable \in BOOLEAN,
           SecondSample(delay, readable)
    PROVE  CounterInv'
<1>1. CounterTypes'
  BY DEF CounterInv, CounterTypes, SecondSample
<1>2. sampling' \in {"done", "error"}
  BY DEF SecondSample
<1>3. ASSUME sampling' = "done" PROVE RatesAreReal'
  <2> DEFINE second == [d \in DOMAIN counters \ VirtualDevices |-> counters[d]]
  <2>1. Reading(sampler) = second /\ readable /\ InWindow /\ CounterTypes
    BY <1>3 DEF SecondSample, Reading, parseNetDev, ParseDiskStats, Restrict, CounterInv
  <2>2. /\ rates' = IF sampler = "network" THEN computeRates(second, 1 + delay)
                    ELSE CalculateMetrics(second)
        /\ notes' = IF sampler = "disk" THEN {}
                    ELSE ((DOMAIN first \cup DOMAIN second) \ DOMAIN rates')
                         \cup {d \in DOMAIN rates' : wrapped(first[d], second[d])}
        /\ sampler' = sampler /\ happened' = happened /\ first' = first /\ replaced' = replaced
    BY <2>1, Zenon DEF SecondSample
  <2>3. DOMAIN second = DOMAIN counters \ VirtualDevices
    OBVIOUS
  <2>4. \A d \in DOMAIN second : second[d] = counters[d]
    OBVIOUS
  <2> HIDE DEF second
  <2>5. DOMAIN rates' = DOMAIN first \cap DOMAIN second
    BY <2>2 DEF computeRates, CalculateMetrics
  <2> SUFFICES ASSUME NEW d \in Devices \ VirtualDevices, happened[d].work < CounterSpan
               PROVE  /\ sampler = "network" =>
                           /\ d \in DOMAIN rates' => rates'[d].work <= happened[d].work
                           /\ d \in DOMAIN first /\ d \notin replaced =>
                                \/ d \in DOMAIN rates' /\ rates'[d].work = happened[d].work
                                   /\ rates'[d].trouble = happened[d].trouble
                                \/ d \in notes'
                      /\ sampler = "disk" /\ d \in DOMAIN first /\ d \notin replaced =>
                           d \in DOMAIN rates' /\ rates'[d].work = happened[d].work
                           /\ rates'[d].trouble = happened[d].trouble
    BY <2>2 DEF RatesAreReal
  <2>6. /\ happened[d].work \in 0 .. CounterSpan - 1 /\ happened[d].trouble \in 0 .. CounterSpan - 1
        /\ happened[d].work \in Nat
    BY <2>1, CounterAssumption DEF CounterTypes
  <2>7. ASSUME d \in DOMAIN first, d \notin replaced
        PROVE  /\ d \in DOMAIN second
               /\ first[d].work \in 0 .. CounterSpan - 1 /\ first[d].trouble \in 0 .. CounterSpan - 1
               /\ second[d].work = Around(first[d].work + happened[d].work)
               /\ second[d].trouble = Around(first[d].trouble + happened[d].trouble)
    <3>1. first[d] \in CounterReadings
      BY <2>1, <2>7 DEF InWindow
    <3>2. d \in DOMAIN counters /\ Moves(first[d], happened[d], counters[d])
      BY <2>1, <2>7 DEF InWindow
    <3> QED
      BY <2>3, <2>4, <3>1, <3>2 DEF Moves, CounterReadings
  <2>8. CASE sampler = "disk"
    <3>1. rates' = CalculateMetrics(second)
      BY <2>2, <2>8
    <3>2. ASSUME d \in DOMAIN first, d \notin replaced
          PROVE  /\ d \in DOMAIN rates'
                 /\ rates'[d].work = Wrap(second[d].work - first[d].work)
                 /\ rates'[d].trouble = Wrap(second[d].trouble - first[d].trouble)
      BY <2>5, <2>7, <3>1, <3>2 DEF CalculateMetrics
    <3>3. ASSUME d \in DOMAIN first, d \notin replaced
          PROVE  /\ Wrap(second[d].work - first[d].work) = happened[d].work
                 /\ Wrap(second[d].trouble - first[d].trouble) = happened[d].trouble
      <4>1. Wrap(Around(first[d].work + happened[d].work) - first[d].work) = happened[d].work
            /\ Wrap(Around(first[d].trouble + happened[d].trouble) - first[d].trouble) = happened[d].trouble
        BY <2>6, <2>7, <3>3, WrapDifference, Zenon
      <4> QED
        BY <2>7, <3>3, <4>1, Zenon
    <3> QED
      BY <2>8, <3>2, <3>3, Zenon
  <2>9. CASE sampler = "network"
    <3>1. rates' = computeRates(second, 1 + delay)
      BY <2>2, <2>9
    <3>2. ASSUME d \in DOMAIN rates'
          PROVE  IF wrapped(first[d], second[d])
                 THEN rates'[d].work = 0 /\ d \in notes'
                 ELSE /\ rates'[d].work = second[d].work - first[d].work
                      /\ rates'[d].trouble = second[d].trouble - first[d].trouble
      BY <2>2, <2>5, <2>9, <3>1, <3>2 DEF computeRates
    <3>3. ASSUME d \in DOMAIN first, d \notin replaced, ~wrapped(first[d], second[d])
          PROVE  /\ second[d].work - first[d].work = happened[d].work
                 /\ second[d].trouble - first[d].trouble = happened[d].trouble
      <4>1. Around(first[d].work + happened[d].work) \in 0 .. CounterSpan - 1
            /\ Around(first[d].trouble + happened[d].trouble) \in 0 .. CounterSpan - 1
        BY <2>6, <2>7, <3>3, WrapDifference, Zenon
      <4>2. second[d].work >= first[d].work /\ second[d].trouble >= first[d].trouble
        BY <2>7, <3>3, <4>1, CounterAssumption DEF wrapped
      <4>3. Around(first[d].work + happened[d].work) >= first[d].work
            /\ Around(first[d].trouble + happened[d].trouble) >= first[d].trouble
        BY <2>7, <3>3, <4>2
      <4> QED
        BY <2>6, <2>7, <3>3, <4>3, WrapDifference, Zenon
    <3>4. ASSUME d \in DOMAIN rates', d \in replaced
          PROVE  rates'[d].work <= happened[d].work
      <4>1. d \in DOMAIN first \cap DOMAIN counters /\ second[d] = counters[d]
        BY <2>3, <2>4, <2>5, <3>4
      <4>2. first[d] \in CounterReadings /\ counters[d] \in CounterReadings
            /\ counters[d].work <= happened[d].work
        BY <2>1, <3>4, <4>1 DEF InWindow, CounterTypes
      <4> QED
        BY <2>6, <3>2, <3>4, <4>1, <4>2, CounterAssumption DEF CounterReadings
    <3>5. d \in DOMAIN first /\ d \notin replaced => d \in DOMAIN rates'
      BY <2>5, <2>7
    <3> QED
      BY <2>5, <2>6, <2>9, <3>2, <3>3, <3>4, <3>5
  <2> QED
    BY <2>1, <2>8, <2>9 DEF CounterTypes
<1> QED
  BY <1>1, <1>2, <1>3 DEF CounterInv, RatesAreReal

LEMMA TrafficInv ==
    ASSUME CounterInv, NEW d \in Devices, NEW w \in {1, CounterSpan - 1}, NEW t \in {0, 1},
           Traffic(d, w, t)
    PROVE  CounterInv'
<1> DEFINE now == [work |-> Wrap(counters[d].work + w), trouble |-> Wrap(counters[d].trouble + t)]
           sum == [work |-> happened[d].work + w, trouble |-> happened[d].trouble + t]
<1>0. /\ w \in 1 .. CounterSpan - 1 /\ t \in 0 .. CounterSpan - 1 /\ t <= w
      /\ CounterSpan \in Nat \ {0, 1}
  BY CounterAssumption
<1>1. /\ d \in DOMAIN counters /\ counters' = [counters EXCEPT ![d] = now]
      /\ happened' = IF sampling = "idle" THEN happened ELSE [happened EXCEPT ![d] = sum]
      /\ replaced' = replaced /\ sampling' = sampling /\ sampling \in {"idle", "window"}
      /\ first' = first /\ sampler' = sampler
  BY DEF Traffic, Device
<1>2. counters[d] \in CounterReadings /\ happened[d] \in [work : Nat, trouble : Nat]
      /\ happened[d].trouble <= happened[d].work
  BY <1>1 DEF CounterInv, CounterTypes
<1>3. now \in CounterReadings
  BY <1>0, <1>2, WrapFacts DEF CounterReadings
<1>4. sum \in [work : Nat, trouble : Nat] /\ sum.trouble <= sum.work
  BY <1>0, <1>2
<1>5. CounterTypes'
  <2>1. DOMAIN counters' = DOMAIN counters
    BY <1>1
  <2>2. counters' \in [DOMAIN counters -> CounterReadings]
    BY <1>1, <1>3 DEF CounterInv, CounterTypes
  <2>3. happened' \in [Devices -> [work : Nat, trouble : Nat]]
        /\ \A e \in Devices : happened'[e].trouble <= happened'[e].work
    BY <1>1, <1>4 DEF CounterInv, CounterTypes
  <2> QED
    BY <1>1, <2>1, <2>2, <2>3 DEF CounterInv, CounterTypes
<1>6. ASSUME sampling = "window" PROVE InWindow'
  <2>0. InWindow /\ happened' = [happened EXCEPT ![d] = sum] /\ happened'[d] = sum
    BY <1>1, <1>6 DEF CounterInv, CounterTypes
  <2>1. \A e \in Devices \ {d} : happened'[e] = happened[e]
    BY <2>0 DEF CounterInv, CounterTypes
  <2>2. DOMAIN counters' = DOMAIN counters /\ counters'[d] = now
        /\ \A e \in DOMAIN counters \ {d} : counters'[e] = counters[e]
    BY <1>1
  <2>3. ASSUME d \in DOMAIN first \ replaced, sum.work < CounterSpan
        PROVE  Moves(first[d], sum, now)
    <3>1. Moves(first[d], happened[d], counters[d]) /\ first[d] \in CounterReadings
      BY <1>0, <1>2, <2>0, <2>3 DEF InWindow
    <3> DEFINE a == first[d].work  b == first[d].trouble  x == happened[d].work  y == happened[d].trouble
    <3>2. /\ a \in 0 .. CounterSpan - 1 /\ b \in 0 .. CounterSpan - 1 /\ x \in Nat /\ y \in Nat
          /\ x + w < CounterSpan /\ y + t < CounterSpan
      BY <1>0, <1>2, <2>3, <3>1 DEF CounterReadings
    <3>3. counters[d].work = Around(a + x) /\ counters[d].trouble = Around(b + y)
      BY <3>1 DEF Moves
    <3> HIDE DEF a, b, x, y
    <3>4. Wrap(Around(a + x) + w) = Around(a + (x + w))
          /\ Wrap(Around(b + y) + t) = Around(b + (y + t))
      <4>1. w \in 0 .. CounterSpan - 1 /\ t \in 0 .. CounterSpan - 1
        BY <1>0
      <4> QED
        BY <3>2, <4>1, WrapMoves, Zenon
    <3> QED
      BY <3>3, <3>4 DEF Moves, a, b, x, y
  <2>4. ASSUME d \in DOMAIN first \cap DOMAIN counters, d \in replaced PROVE now.work <= sum.work
    <3>1. counters[d].work <= happened[d].work
      BY <2>0, <2>4 DEF InWindow
    <3>2. counters[d].work \in Nat /\ happened[d].work \in Nat /\ w \in Nat
      BY <1>0, <1>2 DEF CounterReadings
    <3>3. now.work <= counters[d].work + w
      BY <3>2, WrapFacts
    <3>4. now.work \in Nat
      BY <1>3, CounterAssumption DEF CounterReadings
    <3> QED
      BY <3>1, <3>2, <3>3, <3>4
  <2> HIDE DEF now, sum
  <2>5. \A e \in DOMAIN first \ replaced :
          e \in DOMAIN counters' /\ (happened'[e].work < CounterSpan => Moves(first[e], happened'[e], counters'[e]))
    BY <2>0, <2>1, <2>2, <2>3 DEF InWindow
  <2>6. \A e \in DOMAIN first \cap DOMAIN counters : e \in replaced => counters'[e].work <= happened'[e].work
    BY <2>0, <2>1, <2>2, <2>4 DEF InWindow
  <2> QED
    BY <1>1, <2>0, <2>2, <2>5, <2>6 DEF InWindow
<1> QED
  BY <1>1, <1>5, <1>6 DEF CounterInv, RatesAreReal

LEMMA RemovedInv ==
    ASSUME CounterInv, NEW d \in Devices, Removed(d)
    PROVE  CounterInv'
<1>1. /\ counters' = [e \in DOMAIN counters \ {d} |-> counters[e]]
      /\ replaced' = IF sampling = "window" THEN replaced \cup {d} ELSE replaced
      /\ happened' = happened /\ sampling' = sampling /\ sampling \in {"idle", "window"}
      /\ first' = first /\ sampler' = sampler
  BY DEF Removed, Device, Restrict
<1>2. DOMAIN counters' = DOMAIN counters \ {d} /\ \A e \in DOMAIN counters' : counters'[e] = counters[e]
  BY <1>1
<1>3. CounterTypes'
  BY <1>1, <1>2 DEF CounterInv, CounterTypes
<1>4. ASSUME sampling = "window" PROVE InWindow'
  BY <1>1, <1>2, <1>4 DEF CounterInv, InWindow
<1> QED
  BY <1>1, <1>3, <1>4 DEF CounterInv, RatesAreReal

LEMMA ArrivedInv ==
    ASSUME CounterInv, NEW d \in Devices, Arrived(d)
    PROVE  CounterInv'
<1>1. /\ counters' = [e \in DOMAIN counters \cup {d} |-> IF e = d THEN Zero ELSE counters[e]]
      /\ d \notin DOMAIN counters
      /\ replaced' = replaced /\ happened' = happened /\ sampling' = sampling /\ sampling \in {"idle", "window"}
      /\ first' = first /\ sampler' = sampler
  BY DEF Arrived, Device
<1>2. /\ DOMAIN counters' = DOMAIN counters \cup {d} /\ counters'[d] = Zero
      /\ \A e \in DOMAIN counters : counters'[e] = counters[e]
  BY <1>1
<1>3. Zero \in CounterReadings /\ Zero.work <= happened[d].work
  BY CounterAssumption DEF Zero, CounterReadings, CounterInv, CounterTypes
<1>4. CounterTypes'
  BY <1>1, <1>2, <1>3 DEF CounterInv, CounterTypes
<1>5. ASSUME sampling = "window" PROVE InWindow'
  <2>1. InWindow
    BY <1>5 DEF CounterInv
  <2>2. \A e \in DOMAIN first \cap DOMAIN counters' : e \in replaced => counters'[e].work <= happened[e].work
    BY <1>2, <1>3, <2>1 DEF InWindow
  <2>3. \A e \in DOMAIN first \ replaced : e \in DOMAIN counters /\ counters'[e] = counters[e]
    BY <1>2, <2>1 DEF InWindow
  <2> QED
    BY <1>1, <1>2, <2>1, <2>2, <2>3 DEF InWindow
<1> QED
  BY <1>1, <1>4, <1>5 DEF CounterInv, RatesAreReal

LEMMA CounterStep == CounterInv /\ [CounterNext]_counterVars => CounterInv'
<1> SUFFICES ASSUME CounterInv, [CounterNext]_counterVars PROVE CounterInv'
  OBVIOUS
<1>1. CASE UNCHANGED counterVars
  BY <1>1 DEF counterVars, CounterInv, CounterTypes, InWindow, RatesAreReal
<1>2. CASE WindowCancelled
  BY <1>2 DEF WindowCancelled, CounterInv, CounterTypes, RatesAreReal
<1>3. CASE \E tool \in {"network", "disk"}, readable \in BOOLEAN : FirstSample(tool, readable)
  BY <1>3, FirstSampleInv
<1>4. CASE \E delay \in 0..MaxDelay, readable \in BOOLEAN : SecondSample(delay, readable)
  BY <1>4, SecondSampleInv
<1>5. CASE \E d \in Devices : \/ \E w \in {1, CounterSpan - 1}, t \in {0, 1} : Traffic(d, w, t)
                              \/ Removed(d) \/ Arrived(d)
  BY <1>5, TrafficInv, RemovedInv, ArrivedInv
<1> QED
  BY <1>1, <1>2, <1>3, <1>4, <1>5 DEF CounterNext

CounterSpec == CounterInit /\ [][CounterNext]_counterVars

(* For every number of devices and every width of the counters, the rates of
   get_network_rates and get_disk_io are those of what really passed
   (networkrates.go, diskio.go). *)
THEOREM CounterSafety == CounterSpec => []RatesAreReal
<1>1. CounterInv => RatesAreReal
  BY DEF CounterInv
<1> QED
  BY CounterInitInv, CounterStep, <1>1, PTL DEF CounterSpec

-----------------------------------------------------------------------------
(***************************************************************************)
(* ProcessTools. What the second pass found keeps its processor times      *)
(* apart from a birth, and the outcome is made from exactly that.          *)
(***************************************************************************)
Process == [ppid : PIDs \cup {0}, ticks : 0..procEvents, born : 0..procEvents]

PassesInv ==
    /\ procEvents \in 0..MaxProcEvents
    /\ scanTool \in TreeCalls \cup ListCalls
    /\ DOMAIN procs \subseteq PIDs /\ procs \in [DOMAIN procs -> Process]
    /\ DOMAIN stats1 \subseteq PIDs /\ stats1 \in [DOMAIN stats1 -> Process]
    /\ \A p \in DOMAIN stats1 \cap DOMAIN procs :
         procs[p].born = stats1[p].born => stats1[p].ticks <= procs[p].ticks
    /\ scan = "second" => unread \subseteq DOMAIN stats1

SeenInv ==
    /\ DOMAIN seen \subseteq PIDs
    /\ \A p \in DOMAIN seen :
         /\ seen[p].ppid \in PIDs \cup {0} /\ seen[p].cpu \in Int
         /\ seen[p].same => seen[p].cpu = seen[p].used

ListMade ==
    \E s \in [1..Cardinality(DOMAIN seen) -> DOMAIN seen] :
        /\ \A i, j \in 1..Cardinality(DOMAIN seen) : i # j => s[i] # s[j]
        /\ \A i, j \in DOMAIN s : i < j => seen[s[i]].cpu >= seen[s[j]].cpu
        /\ listed = CutOff(s, scanTool.limit)

TreeMade ==
    /\ scanTool.target \in PIDs
    /\ OnPath(scanTool.target) \subseteq DOMAIN seen
    /\ root \in OnPath(scanTool.target) /\ IsTop(root)
    /\ children = [p \in DOMAIN seen |-> Prune(scanTool.target, p)]

OutcomeInv ==
    /\ outcome # "none" => scan = "done"
    /\ outcome = "list" => ListMade
    /\ outcome = "tree" => TreeMade

ProcInv == PassesInv /\ SeenInv /\ OutcomeInv

-----------------------------------------------------------------------------
LEMMA ProcInitInv == ProcInit => ProcInv
<1> SUFFICES ASSUME ProcInit PROVE ProcInv
  OBVIOUS
<1>1. /\ procs = [p \in {1, 2} |-> [ppid |-> p - 1, ticks |-> 0, born |-> 0]]
      /\ scan = "idle" /\ scanTool \in TreeCalls \cup ListCalls
      /\ stats1 = << >> /\ seen = << >> /\ outcome = "none" /\ procEvents = 0
  BY DEF ProcInit
<1>2. DOMAIN << >> = {}
  OBVIOUS
<1>3. {1, 2} \subseteq PIDs /\ MaxProcEvents \in Nat
  BY ProcessAssumption
<1>4. DOMAIN procs = {1, 2} /\ \A p \in {1, 2} : procs[p] = [ppid |-> p - 1, ticks |-> 0, born |-> 0]
  BY <1>1
<1>5. \A p \in {1, 2} : procs[p] \in Process
  BY <1>1, <1>3, <1>4 DEF Process
<1>6. procs \in [DOMAIN procs -> Process]
  BY <1>1, <1>5, <1>4
<1>7. DOMAIN stats1 = {} /\ stats1 \in [DOMAIN stats1 -> Process]
  BY <1>1, <1>2
<1>8. PassesInv
  BY <1>1, <1>3, <1>4, <1>6, <1>7 DEF PassesInv
<1>9. SeenInv
  BY <1>1, <1>2 DEF SeenInv
<1> QED
  BY <1>1, <1>8, <1>9 DEF ProcInv, OutcomeInv

(* A pass, the window and the outcome leave the processes alone. *)
LEMMA PassSteps ==
    ASSUME PassesInv, UNCHANGED <<procs, scanTool, procEvents>>,
           DOMAIN stats1' \subseteq PIDs, stats1' \in [DOMAIN stats1' -> Process],
           \A p \in DOMAIN stats1' \cap DOMAIN procs :
             procs[p].born = stats1'[p].born => stats1'[p].ticks <= procs[p].ticks,
           scan' = "second" => unread' \subseteq DOMAIN stats1'
    PROVE  PassesInv'
<1>1. Process' = Process
  BY DEF Process
<1> HIDE DEF Process
<1> QED
  BY <1>1 DEF PassesInv

(* An outcome stays what it was when nothing it is made from changes. *)
LEMMA OutcomeStays ==
    ASSUME OutcomeInv, UNCHANGED <<seen, scanTool, outcome, listed, root, children>>,
           scan = "done" => scan' = "done"
    PROVE  OutcomeInv'
<1>1. ListMade' <=> ListMade
  BY DEF ListMade, CutOff
<1>2. Linked' = Linked
  BY DEF Linked, HasParent
<1>3. OnPath(scanTool.target)' = OnPath(scanTool.target) /\ (IsTop(root)' <=> IsTop(root))
  BY DEF OnPath, IsTop, HasParent
<1>4. \A p : Prune(scanTool.target, p)' = Prune(scanTool.target, p)
  BY <1>2, <1>3 DEF Prune
<1> HIDE DEF OnPath, IsTop, Prune
<1>6. [p \in DOMAIN seen |-> Prune(scanTool.target, p)]' = [p \in DOMAIN seen |-> Prune(scanTool.target, p)]
  BY <1>4
<1>7. TreeMade' <=> TreeMade
  BY <1>3, <1>6 DEF TreeMade
<1> QED
  BY <1>1, <1>7 DEF OutcomeInv

LEMMA StartInv == ProcInv /\ (getPIDs \/ SampleWindow) => ProcInv'
<1> SUFFICES ASSUME ProcInv, getPIDs \/ SampleWindow PROVE ProcInv'
  OBVIOUS
<1>1. /\ UNCHANGED <<procs, scanTool, procEvents, stats1, seen, listed, root, children>>
      /\ scan' = "second" => unread' = DOMAIN stats1
      /\ \/ outcome' = outcome /\ scan # "done"
         \/ outcome' = "error" /\ scan' = "done"
  BY DEF getPIDs, SampleWindow, Scanning, NoOutcome
<1>2. PassesInv'
  <2>1. PassesInv
    BY DEF ProcInv
  <2> QED
    BY <1>1, <2>1, PassSteps DEF PassesInv
<1>3. SeenInv'
  BY <1>1 DEF ProcInv, SeenInv
<1>4. OutcomeInv'
  <2>1. CASE outcome' = outcome /\ scan # "done"
    BY <1>1, <2>1, OutcomeStays DEF ProcInv
  <2>2. CASE outcome' = "error" /\ scan' = "done"
    BY <2>2 DEF OutcomeInv
  <2> QED
    BY <1>1, <2>1, <2>2
<1> QED
  BY <1>2, <1>3, <1>4 DEF ProcInv

(* A function of one more argument keeps its type. *)
LEMMA ExtendTyped ==
    ASSUME NEW f, NEW k, NEW v, NEW T, v \in T, f \in [DOMAIN f -> T]
    PROVE  Extend(f, k, v) \in [DOMAIN Extend(f, k, v) -> T]
  BY DEF Extend

LEMMA ReadStatInv ==
    ASSUME NEW p \in PIDs, ProcInv, readStat(p)
    PROVE  ProcInv'
<1>1. /\ UNCHANGED <<procs, scanTool, procEvents, seen, outcome, listed, root, children, scan>>
      /\ scan = "first" /\ unread' = unread \ {p}
      /\ stats1' = IF p \in DOMAIN procs THEN Extend(stats1, p, procs[p]) ELSE stats1
  BY DEF readStat, Scanning, NoOutcome
<1>2. PassesInv /\ SeenInv /\ OutcomeInv
  BY DEF ProcInv
<1>3. PassesInv'
  <2>1. CASE p \notin DOMAIN procs
    BY <1>1, <1>2, <2>1, PassSteps DEF PassesInv
  <2>2. CASE p \in DOMAIN procs
    <3>1. stats1' = Extend(stats1, p, procs[p])
      BY <1>1, <2>2
    <3>2. procs[p] \in Process /\ stats1 \in [DOMAIN stats1 -> Process] /\ DOMAIN stats1 \subseteq PIDs
      BY <1>2, <2>2 DEF PassesInv
    <3>3. stats1' \in [DOMAIN stats1' -> Process]
      BY <3>1, <3>2, ExtendTyped
    <3>4. DOMAIN stats1' = DOMAIN stats1 \cup {p} /\ stats1'[p] = procs[p]
          /\ \A x \in DOMAIN stats1 \ {p} : stats1'[x] = stats1[x]
      BY <3>1 DEF Extend
    <3>5. \A q \in DOMAIN stats1' \cap DOMAIN procs :
             procs[q].born = stats1'[q].born => stats1'[q].ticks <= procs[q].ticks
      <4> SUFFICES ASSUME NEW q \in DOMAIN stats1' \cap DOMAIN procs,
                          procs[q].born = stats1'[q].born
                   PROVE  stats1'[q].ticks <= procs[q].ticks
        OBVIOUS
      <4>1. CASE q = p
        <5>1. procs[p].ticks \in Nat
          BY <3>2, <1>2 DEF Process, PassesInv
        <5> QED
          BY <4>1, <3>4, <5>1
      <4>2. CASE q # p
        BY <4>2, <3>4, <1>2 DEF PassesInv
      <4> QED
        BY <4>1, <4>2
    <3>6. DOMAIN stats1' \subseteq PIDs
      BY <3>2, <3>4
    <3> QED
      BY <1>1, <1>2, <3>3, <3>5, <3>6, PassSteps
  <2> QED
    BY <2>1, <2>2
<1>4. SeenInv'
  BY <1>1, <1>2 DEF SeenInv
<1>5. OutcomeInv'
  BY <1>1, <1>2, OutcomeStays
<1> QED
  BY <1>3, <1>4, <1>5 DEF ProcInv

LEMMA SmallDifference ==
    ASSUME NEW a \in Int, NEW b \in Int, b <= a, 0 <= b, a <= MaxProcEvents
    PROVE  (a - b) % TickSpan = a - b
<1>1. a - b \in 0..(TickSpan - 1) /\ TickSpan \in Nat /\ MaxProcEvents \in Nat
  BY ProcessAssumption
<1>2. \A d, m \in Nat : d < m => d % m = d
  OBVIOUS
<1> QED
  BY <1>1, <1>2

LEMMA ReadStatusInv ==
    ASSUME NEW p \in PIDs, ProcInv, readStatus(p)
    PROVE  ProcInv'
<1> DEFINE new == [ppid |-> procs[p].ppid,
                   cpu |-> (procs[p].ticks - stats1[p].ticks) % TickSpan,
                   used |-> procs[p].ticks - stats1[p].ticks,
                   same |-> procs[p].born = stats1[p].born]
<1>1. /\ UNCHANGED <<procs, scanTool, procEvents, stats1, outcome, listed, root, children, scan>>
      /\ scan = "second" /\ unread' = unread \ {p} /\ p \in unread
      /\ seen' = IF p \in DOMAIN procs THEN Extend(seen, p, new) ELSE seen
  BY DEF readStatus, Scanning, NoOutcome
<1>2. PassesInv /\ SeenInv /\ OutcomeInv
  BY DEF ProcInv
<1>3. PassesInv'
  BY <1>1, <1>2, PassSteps DEF PassesInv
<1>4. SeenInv'
  <2>1. CASE p \notin DOMAIN procs
    BY <1>1, <1>2, <2>1 DEF SeenInv
  <2>2. CASE p \in DOMAIN procs
    <3>1. p \in DOMAIN stats1 /\ procs[p] \in Process /\ stats1[p] \in Process /\ procEvents \in 0..MaxProcEvents
      BY <1>1, <1>2, <2>2 DEF PassesInv
    <3>2. /\ procs[p].ppid \in PIDs \cup {0} /\ procs[p].ticks \in 0..procEvents
          /\ stats1[p].ticks \in 0..procEvents
      BY <3>1 DEF Process
    <3>3. new.ppid = procs[p].ppid /\ new.cpu = (procs[p].ticks - stats1[p].ticks) % TickSpan
          /\ new.used = procs[p].ticks - stats1[p].ticks
          /\ (new.same <=> procs[p].born = stats1[p].born)
      OBVIOUS
    <3>4. TickSpan \in Nat \ {0} /\ MaxProcEvents \in Nat
      BY ProcessAssumption
    <3>5. new.cpu \in Int
      <4>1. \A d \in Int, m \in Nat \ {0} : d % m \in Int
        OBVIOUS
      <4>2. procs[p].ticks - stats1[p].ticks \in Int
        BY <3>2
      <4> QED
        BY <3>3, <3>4, <4>1, <4>2
    <3>6. new.same => new.cpu = new.used
      <4> SUFFICES ASSUME procs[p].born = stats1[p].born PROVE new.cpu = new.used
        BY <3>3
      <4>1. stats1[p].ticks <= procs[p].ticks
        BY <1>2, <2>2, <3>1 DEF PassesInv
      <4>2. /\ procs[p].ticks \in Int /\ stats1[p].ticks \in Int /\ 0 <= stats1[p].ticks
            /\ procs[p].ticks <= MaxProcEvents
        BY <3>1, <3>2, <3>4
      <4> QED
        BY <3>3, <4>1, <4>2, SmallDifference
    <3>7. DOMAIN seen' = DOMAIN seen \cup {p} /\ seen'[p] = new
          /\ \A x \in DOMAIN seen \ {p} : seen'[x] = seen[x]
      <4>1. seen' = Extend(seen, p, new)
        BY <1>1, <2>2
      <4> QED
        BY <4>1 DEF Extend
    <3>8. \A q \in DOMAIN seen' :
            /\ seen'[q].ppid \in PIDs \cup {0} /\ seen'[q].cpu \in Int
            /\ seen'[q].same => seen'[q].cpu = seen'[q].used
      <4> TAKE q \in DOMAIN seen'
      <4>1. CASE q = p
        <5>1. seen'[q] = new
          BY <4>1, <3>7
        <5> QED
          BY <5>1, <3>2, <3>3, <3>5, <3>6, Zenon
      <4>2. CASE q # p
        <5>1. q \in DOMAIN seen /\ seen'[q] = seen[q]
          BY <4>2, <3>7
        <5> QED
          BY <5>1, <1>2, Zenon DEF SeenInv
      <4> QED
        BY <4>1, <4>2
    <3>9. DOMAIN seen' \subseteq PIDs
      BY <1>2, <3>7 DEF SeenInv
    <3> QED
      BY <3>8, <3>9, Zenon DEF SeenInv
  <2> QED
    BY <2>1, <2>2
<1>5. OutcomeInv'
  BY <1>1, <1>2 DEF OutcomeInv
<1> QED
  BY <1>3, <1>4, <1>5 DEF ProcInv

(* An event: the processes change, and none of the processes that a pass has *)
(* read has less processor time than it had.                                 *)
LEMMA EventSteps ==
    ASSUME ProcInv, ProcEvent, DOMAIN procs' \subseteq PIDs,
           procs' \in [DOMAIN procs' -> Process'],
           \A q \in DOMAIN procs' :
             \/ q \in DOMAIN procs /\ procs'[q].born = procs[q].born /\ procs[q].ticks <= procs'[q].ticks
             \/ procs'[q].born = procEvents + 1
    PROVE  ProcInv'
<1>1. /\ UNCHANGED <<scan, scanTool, unread, stats1, seen, outcome, listed, root, children>>
      /\ scan # "done" /\ procEvents < MaxProcEvents /\ procEvents' = procEvents + 1
  BY DEF ProcEvent
<1>2. PassesInv /\ SeenInv /\ OutcomeInv
  BY DEF ProcInv
<1>3. procEvents \in Nat /\ MaxProcEvents \in Nat /\ procEvents' \in 0..MaxProcEvents
  BY <1>1, <1>2, ProcessAssumption DEF PassesInv
<1>4. 0..procEvents \subseteq 0..(procEvents + 1)
  BY <1>3
<1>5. Process \subseteq Process'
  BY <1>1, <1>4 DEF Process
<1>6. stats1' \in [DOMAIN stats1' -> Process']
  BY <1>1, <1>2, <1>5 DEF PassesInv
<1>7. \A p \in DOMAIN stats1 \cap DOMAIN procs' :
         procs'[p].born = stats1[p].born => stats1[p].ticks <= procs'[p].ticks
  <2> SUFFICES ASSUME NEW p \in DOMAIN stats1 \cap DOMAIN procs', procs'[p].born = stats1[p].born
               PROVE  stats1[p].ticks <= procs'[p].ticks
    OBVIOUS
  <2>1. stats1[p] \in Process /\ procs'[p] \in Process'
    BY <1>2 DEF PassesInv
  <2>2. stats1[p].born \in 0..procEvents /\ stats1[p].ticks \in Nat
    BY <2>1, <1>3 DEF Process
  <2>3. procs'[p].ticks \in Int
    BY <2>1, <1>3 DEF Process
  <2>4. procs'[p].born # procEvents + 1
    BY <2>2, <1>3
  <2>5. p \in DOMAIN procs /\ procs'[p].born = procs[p].born /\ procs[p].ticks <= procs'[p].ticks
    BY <2>4
  <2>6. stats1[p].ticks <= procs[p].ticks /\ procs[p] \in Process
    BY <2>5, <1>2 DEF PassesInv
  <2>7. procs[p].ticks \in Int
    BY <2>6, <1>3 DEF Process
  <2> QED
    BY <2>2, <2>3, <2>5, <2>6, <2>7
<1>8. PassesInv'
  BY <1>1, <1>2, <1>3, <1>6, <1>7 DEF PassesInv, Process
<1>9. SeenInv'
  BY <1>1, <1>2 DEF SeenInv
<1>10. OutcomeInv'
  BY <1>1, <1>2, OutcomeStays
<1> QED
  BY <1>8, <1>9, <1>10 DEF ProcInv

LEMMA EventBounds ==
    ASSUME ProcInv, ProcEvent
    PROVE  /\ DOMAIN procs \subseteq PIDs
           /\ \A p \in DOMAIN procs :
                /\ procs[p] = [ppid |-> procs[p].ppid, ticks |-> procs[p].ticks, born |-> procs[p].born]
                /\ procs[p].ppid \in PIDs \cup {0} /\ procs[p].ticks \in 0..procEvents
                /\ procs[p].born \in 0..procEvents
           /\ procEvents' = procEvents + 1 /\ procEvents \in Nat /\ 1 \in PIDs
<1>1. PassesInv
  BY DEF ProcInv
<1>2. \A p \in DOMAIN procs : procs[p] \in Process
  BY <1>1 DEF PassesInv
<1> QED
  BY <1>1, <1>2, ProcessAssumption DEF PassesInv, ProcEvent, Process

LEMMA ForkInv ==
    ASSUME NEW parent \in PIDs, NEW p \in PIDs, ProcInv, Fork(parent, p)
    PROVE  ProcInv'
<1>1. /\ ProcEvent /\ p \notin DOMAIN procs
      /\ procs' = Extend(procs, p, [ppid |-> parent, ticks |-> 0, born |-> procEvents + 1])
  BY DEF Fork
<1>2. /\ DOMAIN procs' = DOMAIN procs \cup {p}
      /\ procs'[p] = [ppid |-> parent, ticks |-> 0, born |-> procEvents + 1]
      /\ \A q \in DOMAIN procs : procs'[q] = procs[q]
      /\ procs' \in [DOMAIN procs' -> {procs'[q] : q \in DOMAIN procs'}]
  BY <1>1 DEF Extend
<1>3. procEvents' = procEvents + 1 /\ procEvents \in Nat
  BY <1>1, EventBounds
<1>4. \A q \in DOMAIN procs' : procs'[q] \in Process'
  <2> TAKE q \in DOMAIN procs'
  <2>1. CASE q = p
    BY <2>1, <1>2, <1>3 DEF Process
  <2>2. CASE q # p
    <3>1. q \in DOMAIN procs /\ procs'[q] = procs[q]
      BY <1>2, <2>2
    <3>2. procs[q].ppid \in PIDs \cup {0} /\ procs[q].ticks \in 0..(procEvents + 1)
          /\ procs[q].born \in 0..(procEvents + 1)
          /\ procs[q] = [ppid |-> procs[q].ppid, ticks |-> procs[q].ticks, born |-> procs[q].born]
      BY <1>1, <3>1, EventBounds
    <3> QED
      BY <3>1, <3>2, <1>3 DEF Process
  <2> QED
    BY <2>1, <2>2
<1>5. DOMAIN procs' \subseteq PIDs
  BY <1>1, <1>2, EventBounds
<1>6. \A q \in DOMAIN procs : procs[q].ticks \in Int
  BY <1>1, EventBounds
<1>7. \A q \in DOMAIN procs' :
         \/ q \in DOMAIN procs /\ procs'[q].born = procs[q].born /\ procs[q].ticks <= procs'[q].ticks
         \/ procs'[q].born = procEvents + 1
  BY <1>2, <1>6
<1>8. procs' \in [DOMAIN procs' -> Process']
  BY <1>2, <1>4
<1> QED
  BY <1>1, <1>5, <1>7, <1>8, EventSteps

LEMMA ExitInv ==
    ASSUME NEW p \in PIDs, ProcInv, Exit(p)
    PROVE  ProcInv'
<1>1. /\ ProcEvent
      /\ procs' = [q \in DOMAIN procs \ {p} |->
                     IF procs[q].ppid = p THEN [procs[q] EXCEPT !.ppid = 1] ELSE procs[q]]
  BY DEF Exit
<1>2. DOMAIN procs' = DOMAIN procs \ {p}
  BY <1>1
<1>3. procEvents' = procEvents + 1 /\ procEvents \in Nat /\ 1 \in PIDs
  BY <1>1, EventBounds
<1>4. \A q \in DOMAIN procs' :
        /\ procs'[q] \in Process'
        /\ procs'[q].born = procs[q].born /\ procs[q].ticks <= procs'[q].ticks
  <2> TAKE q \in DOMAIN procs'
  <2>1. /\ procs[q].ppid \in PIDs \cup {0} /\ procs[q].ticks \in 0..(procEvents + 1)
        /\ procs[q].born \in 0..(procEvents + 1)
        /\ procs[q] = [ppid |-> procs[q].ppid, ticks |-> procs[q].ticks, born |-> procs[q].born]
    BY <1>1, <1>2, EventBounds
  <2>2. \/ procs'[q] = procs[q]
        \/ procs'[q] = [procs[q] EXCEPT !.ppid = 1]
    BY <1>1, <1>2
  <2>3. \/ procs'[q] = procs[q]
        \/ procs'[q] = [ppid |-> 1, ticks |-> procs[q].ticks, born |-> procs[q].born]
    BY <2>1, <2>2
  <2>4. procs'[q].born = procs[q].born /\ procs'[q].ticks = procs[q].ticks
    BY <2>3
  <2> QED
    BY <2>1, <2>3, <2>4, <1>3 DEF Process
<1>5. DOMAIN procs' \subseteq PIDs
  BY <1>1, <1>2, EventBounds
<1>6. procs' \in [DOMAIN procs' -> Process']
  BY <1>1, <1>2, <1>4
<1> QED
  BY <1>1, <1>2, <1>4, <1>5, <1>6, EventSteps

LEMMA UseCPUInv ==
    ASSUME NEW p \in PIDs, ProcInv, UseCPU(p)
    PROVE  ProcInv'
<1>1. ProcEvent /\ p \in DOMAIN procs /\ procs' = [procs EXCEPT ![p].ticks = @ + 1]
  BY DEF UseCPU
<1>2. procEvents' = procEvents + 1 /\ procEvents \in Nat
  BY <1>1, EventBounds
<1>3. PassesInv
  BY DEF ProcInv
<1>4. procs \in [DOMAIN procs -> Process]
  BY <1>3 DEF PassesInv
<1>5. DOMAIN procs' = DOMAIN procs /\ (\A q \in DOMAIN procs \ {p} : procs'[q] = procs[q])
      /\ procs'[p] = [procs[p] EXCEPT !.ticks = @ + 1]
  BY <1>1, <1>4
<1>6. \A q \in DOMAIN procs' :
        /\ procs'[q] \in Process'
        /\ procs'[q].born = procs[q].born /\ procs[q].ticks <= procs'[q].ticks
  <2> TAKE q \in DOMAIN procs'
  <2>1. /\ procs[q].ppid \in PIDs \cup {0} /\ procs[q].ticks \in 0..procEvents
        /\ procs[q].born \in 0..(procEvents + 1)
        /\ procs[q] = [ppid |-> procs[q].ppid, ticks |-> procs[q].ticks, born |-> procs[q].born]
    BY <1>1, <1>5, EventBounds
  <2>2. \/ procs'[q] = procs[q]
        \/ procs'[q] = [procs[q] EXCEPT !.ticks = @ + 1]
    BY <1>5
  <2>3. \/ procs'[q] = procs[q]
        \/ procs'[q] = [ppid |-> procs[q].ppid, ticks |-> procs[q].ticks + 1, born |-> procs[q].born]
    BY <2>1, <2>2
  <2>4. procs[q].ticks + 1 \in 0..(procEvents + 1) /\ procs[q].ticks \in 0..(procEvents + 1)
        /\ procs[q].ticks <= procs[q].ticks + 1
    BY <2>1, <1>2
  <2>5. procs'[q].born = procs[q].born /\ procs[q].ticks <= procs'[q].ticks
    BY <2>3, <2>4
  <2> QED
    BY <2>1, <2>3, <2>4, <2>5, <1>2 DEF Process
<1>7. procs' \in [DOMAIN procs' -> Process']
  BY <1>1, <1>4, <1>5, <1>6
<1>8. DOMAIN procs' \subseteq PIDs
  BY <1>1, <1>5, EventBounds
<1> QED
  BY <1>1, <1>5, <1>6, <1>7, <1>8, EventSteps

LEMMA GetListInv == ProcInv /\ GetList => ProcInv'
<1> SUFFICES ASSUME ProcInv, GetList PROVE ProcInv'
  OBVIOUS
<1>1. /\ UNCHANGED <<procs, scanTool, procEvents, unread, stats1, seen, root, children>>
      /\ scan' = "done" /\ outcome' = "list"
      /\ \E s \in Sorted(DOMAIN seen) : listed' = CutOff(s, scanTool.limit)
  BY DEF GetList, Scanning
<1>2. PassesInv /\ SeenInv
  BY DEF ProcInv
<1>3. PassesInv'
  BY <1>1, <1>2, PassSteps DEF PassesInv
<1>4. SeenInv'
  BY <1>1, <1>2 DEF SeenInv
<1>5. ListMade'
  <2>1. PICK s \in Sorted(DOMAIN seen) : listed' = CutOff(s, scanTool.limit)
    BY <1>1
  <2>2. /\ s \in [1..Cardinality(DOMAIN seen) -> DOMAIN seen]
        /\ \A i, j \in 1..Cardinality(DOMAIN seen) : i # j => s[i] # s[j]
        /\ \A i, j \in DOMAIN s : i < j => seen[s[i]].cpu >= seen[s[j]].cpu
    BY <2>1 DEF Sorted, SetToSeqs
  <2> QED
    BY <1>1, <2>1, <2>2 DEF ListMade, CutOff
<1>6. OutcomeInv'
  BY <1>1, <1>5 DEF OutcomeInv
<1> QED
  BY <1>3, <1>4, <1>6 DEF ProcInv

LEMMA GetTreeInv == ProcInv /\ GetTree => ProcInv'
<1> SUFFICES ASSUME ProcInv, GetTree PROVE ProcInv'
  OBVIOUS
<1> DEFINE target == scanTool.target
<1>1. /\ UNCHANGED <<procs, scanTool, procEvents, unread, stats1, seen, listed>>
      /\ scan' = "done" /\ scanTool.tool = "tree"
      /\ \/ outcome' = "error" \/ outcome' = "endless" \/ outcome' = "panic"
         \/ /\ outcome' = "tree" /\ root' = Top(target) /\ ~NeverEnds(target)
            /\ OnPath(target) \subseteq DOMAIN seen
            /\ children' = [p \in DOMAIN seen |-> Prune(target, p)]
  BY DEF GetTree, Scanning
<1>2. PassesInv /\ SeenInv
  BY DEF ProcInv
<1>3. PassesInv'
  BY <1>1, <1>2, PassSteps DEF PassesInv
<1>4. SeenInv'
  BY <1>1, <1>2 DEF SeenInv
<1>5. ASSUME outcome' = "tree" PROVE TreeMade'
  <2>1. /\ root' = Top(target) /\ ~NeverEnds(target) /\ OnPath(target) \subseteq DOMAIN seen
        /\ children' = [p \in DOMAIN seen |-> Prune(target, p)]
    BY <1>1, <1>5
  <2>2. root' \in OnPath(target) /\ IsTop(root')
    <3>1. \E p \in OnPath(target) : IsTop(p)
      BY <2>1 DEF NeverEnds
    <3> HIDE DEF OnPath, IsTop
    <3> QED
      BY <2>1, <3>1 DEF Top
  <2>3. target \in PIDs
    BY <1>1, <1>2 DEF PassesInv, TreeCalls, ListCalls
  <2>4. Linked' = Linked
    BY <1>1 DEF Linked, HasParent
  <2>5. OnPath(scanTool.target)' = OnPath(target) /\ (IsTop(root)' <=> IsTop(root'))
    BY <1>1 DEF OnPath, IsTop, HasParent
  <2>6. \A p : Prune(scanTool.target, p)' = Prune(target, p)
    BY <1>1, <2>4, <2>5 DEF Prune
  <2> HIDE DEF OnPath, IsTop, Prune
  <2>7. [p \in DOMAIN seen |-> Prune(scanTool.target, p)]' = [p \in DOMAIN seen |-> Prune(target, p)]
    BY <1>1, <2>6
  <2> QED
    BY <1>1, <2>1, <2>2, <2>3, <2>5, <2>7 DEF TreeMade
<1>6. OutcomeInv'
  <2>1. outcome' # "list"
    BY <1>1
  <2> QED
    BY <1>1, <1>5, <2>1 DEF OutcomeInv
<1> QED
  BY <1>3, <1>4, <1>6 DEF ProcInv

LEMMA ProcStep == ProcInv /\ [ProcNext]_procVars => ProcInv'
<1> SUFFICES ASSUME ProcInv, [ProcNext]_procVars PROVE ProcInv'
  OBVIOUS
<1>1. CASE getPIDs \/ SampleWindow
  BY <1>1, StartInv
<1>2. CASE GetList
  BY <1>2, GetListInv
<1>3. CASE GetTree
  BY <1>3, GetTreeInv
<1>4. ASSUME NEW p \in PIDs, readStat(p) \/ readStatus(p) \/ Exit(p) \/ UseCPU(p) PROVE ProcInv'
  BY <1>4, ReadStatInv, ReadStatusInv, ExitInv, UseCPUInv
<1>5. ASSUME NEW parent \in PIDs, NEW p \in PIDs, Fork(parent, p) PROVE ProcInv'
  BY <1>5, ForkInv
<1>6. CASE UNCHANGED procVars
  <2>1. UNCHANGED <<procs, scanTool, procEvents, unread, stats1, scan, seen, outcome, listed, root, children>>
    BY <1>6 DEF procVars
  <2>2. PassesInv /\ SeenInv /\ OutcomeInv
    BY DEF ProcInv
  <2>3. PassesInv'
    BY <2>1, <2>2, PassSteps DEF PassesInv
  <2>4. SeenInv'
    BY <2>1, <2>2 DEF SeenInv
  <2>5. OutcomeInv'
    BY <2>1, <2>2, OutcomeStays
  <2> QED
    BY <2>3, <2>4, <2>5 DEF ProcInv
<1> QED
  BY <1>1, <1>2, <1>3, <1>4, <1>5, <1>6 DEF ProcNext

-----------------------------------------------------------------------------
(* The way up from a process: the least set that holds it and, with every    *)
(* process that has one, its parent.                                         *)
ClosedUp(S) == \A c \in S : IsTop(c) \/ seen[c].ppid \in S

LEMMA PathIsLeast ==
    ASSUME NEW t, NEW S \in SUBSET PIDs, t \in S, ClosedUp(S)
    PROVE  OnPath(t) \subseteq S
  BY DEF OnPath, ClosedUp

LEMMA PathIsClosed ==
    ASSUME SeenInv, NEW t \in PIDs
    PROVE  t \in OnPath(t) /\ OnPath(t) \subseteq PIDs /\ ClosedUp(OnPath(t))
<1>1. t \in OnPath(t) /\ OnPath(t) \subseteq PIDs
  BY DEF OnPath
<1>2. ASSUME NEW c \in OnPath(t), ~IsTop(c) PROVE seen[c].ppid \in OnPath(t)
  <2>1. seen[c].ppid \in PIDs
    BY <1>2 DEF IsTop, HasParent, SeenInv
  <2>2. \A S \in SUBSET PIDs :
          t \in S /\ (\A d \in S : IsTop(d) \/ seen[d].ppid \in S) => c \in S
    BY DEF OnPath
  <2>3. \A S \in SUBSET PIDs :
          t \in S /\ (\A d \in S : IsTop(d) \/ seen[d].ppid \in S) => seen[c].ppid \in S
    BY <1>2, <2>2
  <2> QED
    BY <2>1, <2>3 DEF OnPath
<1> QED
  BY <1>1, <1>2 DEF ClosedUp

LEMMA PathOfTop ==
    ASSUME SeenInv, NEW q \in PIDs, IsTop(q)
    PROVE  OnPath(q) = {q}
<1>1. {q} \in SUBSET PIDs /\ q \in {q} /\ ClosedUp({q})
  BY DEF ClosedUp
<1>2. OnPath(q) \subseteq {q}
  BY <1>1, PathIsLeast
<1> QED
  BY <1>2, PathIsClosed

(* The way up from a process is the process and the way up from its parent. *)
LEMMA PathOfChild ==
    ASSUME SeenInv, NEW q \in PIDs, ~IsTop(q)
    PROVE  seen[q].ppid \in PIDs /\ OnPath(q) = {q} \cup OnPath(seen[q].ppid)
<1> DEFINE up == seen[q].ppid
<1>1. up \in PIDs
  BY DEF IsTop, HasParent, SeenInv
<1>2. q \in OnPath(q) /\ OnPath(q) \subseteq PIDs /\ ClosedUp(OnPath(q))
  BY PathIsClosed
<1>3. up \in OnPath(q)
  BY <1>2 DEF ClosedUp
<1>4. up \in OnPath(up) /\ OnPath(up) \subseteq PIDs /\ ClosedUp(OnPath(up))
  BY <1>1, PathIsClosed
<1>5. OnPath(up) \subseteq OnPath(q)
  BY <1>2, <1>3, PathIsLeast
<1>6. {q} \cup OnPath(up) \in SUBSET PIDs /\ ClosedUp({q} \cup OnPath(up))
  BY <1>4 DEF ClosedUp
<1>7. OnPath(q) \subseteq {q} \cup OnPath(up)
  BY <1>6, PathIsLeast
<1> QED
  BY <1>1, <1>2, <1>5, <1>7

LEMMA PathsNest ==
    ASSUME SeenInv, NEW t \in PIDs, NEW q \in OnPath(t)
    PROVE  q \in PIDs /\ OnPath(q) \subseteq OnPath(t)
  BY PathIsClosed, PathIsLeast

(* Every process on the way up to the root has the root above it, and no     *)
(* process above the target has the target above it.                         *)
LEMMA RootIsAbove ==
    ASSUME SeenInv, NEW t \in PIDs, NEW top \in OnPath(t), IsTop(top)
    PROVE  /\ \A q \in OnPath(t) : top \in OnPath(q)
           /\ \A q \in OnPath(t) : t \in OnPath(q) => q = t
<1> DEFINE L == {q \in OnPath(t) : top \in OnPath(q)}
<1>1. t \in OnPath(t) /\ OnPath(t) \subseteq PIDs /\ ClosedUp(OnPath(t))
  BY PathIsClosed
<1>2. ClosedUp(L)
  <2> SUFFICES ASSUME NEW c \in L, ~IsTop(c) PROVE seen[c].ppid \in L
    BY DEF ClosedUp
  <2>1. seen[c].ppid \in OnPath(t)
    BY <1>1 DEF ClosedUp
  <2>2. c \in PIDs /\ top # c
    BY <1>1
  <2>3. OnPath(c) = {c} \cup OnPath(seen[c].ppid)
    BY <2>2, PathOfChild
  <2> QED
    BY <2>1, <2>2, <2>3
<1>3. OnPath(t) \subseteq L
  <2>1. L \in SUBSET PIDs /\ t \in L
    BY <1>1
  <2> HIDE DEF L
  <2> QED
    BY <1>2, <2>1, PathIsLeast
<1>4. ASSUME NEW q \in OnPath(t), t \in OnPath(q), q # t PROVE FALSE
  <2> DEFINE C == {y \in OnPath(t) : t \in OnPath(y)}
  <2>1. ~IsTop(t)
    <3>1. IsTop(t) => OnPath(t) = {t}
      BY PathOfTop
    <3> QED
      BY <1>4, <3>1
  <2>2. seen[t].ppid \in PIDs /\ OnPath(t) = {t} \cup OnPath(seen[t].ppid)
    BY <2>1, PathOfChild
  <2>3. q \in OnPath(seen[t].ppid)
    BY <1>4, <2>2
  <2>4. t \in OnPath(seen[t].ppid)
    BY <2>2, <2>3, <1>4, PathsNest
  <2>5. ClosedUp(C)
    <3> SUFFICES ASSUME NEW c \in C, ~IsTop(c) PROVE seen[c].ppid \in C
      BY DEF ClosedUp
    <3>1. seen[c].ppid \in OnPath(t) /\ c \in PIDs
      BY <1>1 DEF ClosedUp
    <3>2. OnPath(c) = {c} \cup OnPath(seen[c].ppid)
      BY <3>1, PathOfChild
    <3>3. CASE c = t
      BY <3>1, <3>3, <2>4
    <3>4. CASE c # t
      BY <3>1, <3>2, <3>4
    <3> QED
      BY <3>3, <3>4
  <2>6. C \in SUBSET PIDs /\ t \in C
    BY <1>1
  <2>7. OnPath(t) \subseteq C
    <3> HIDE DEF C
    <3> QED
      BY <2>5, <2>6, PathIsLeast
  <2>8. t \in OnPath(top)
    BY <2>7
  <2>9. OnPath(top) = {top}
    BY <1>1, PathOfTop
  <2> QED
    BY <2>1, <2>8, <2>9
<1> QED
  BY <1>3, <1>4

(* The returned tree: what can be reached from its root is what is above or *)
(* below the target.                                                        *)
LEMMA TreeHolds ==
    ASSUME SeenInv, TreeMade
    PROVE  InTree = {p \in DOMAIN seen : p \in OnPath(scanTool.target) \/ scanTool.target \in OnPath(p)}
<1> DEFINE t == scanTool.target
           R == {p \in DOMAIN seen : p \in OnPath(t) \/ t \in OnPath(p)}
<1>1. /\ t \in PIDs /\ OnPath(t) \subseteq DOMAIN seen /\ DOMAIN seen \subseteq PIDs
      /\ root \in OnPath(t) /\ IsTop(root)
  BY DEF TreeMade, SeenInv
<1>2. \A p \in DOMAIN seen : children[p] = Prune(t, p)
  <2> HIDE DEF Prune
  <2> QED
    BY DEF TreeMade
<1>3. t \in OnPath(t) /\ ClosedUp(OnPath(t))
  BY <1>1, PathIsClosed
<1>4. \A p, c \in DOMAIN seen :
        c \in children[p] <=> /\ ~IsTop(c) /\ seen[c].ppid = p
                              /\ (p \in OnPath(t) /\ p # t => c \in OnPath(t))
  <2>1. \A p, c \in DOMAIN seen : c \in Linked[p] <=> ~IsTop(c) /\ seen[c].ppid = p
    BY DEF Linked, IsTop
  <2>2. \A p \in DOMAIN seen : children[p] = IF p \in OnPath(t) /\ p # t
                                            THEN Linked[p] \cap OnPath(t) ELSE Linked[p]
    BY <1>2 DEF Prune
  <2> HIDE DEF Linked, IsTop, OnPath
  <2> TAKE p, c \in DOMAIN seen
  <2>3. CASE p \in OnPath(t) /\ p # t
    <3>1. children[p] = Linked[p] \cap OnPath(t)
      BY <2>2, <2>3
    <3>2. c \in children[p] <=> c \in Linked[p] /\ c \in OnPath(t)
      BY <3>1
    <3> QED
      BY <2>1, <2>3, <3>2, Zenon
  <2>4. CASE ~(p \in OnPath(t) /\ p # t)
    BY <2>1, <2>2, <2>4
  <2> QED
    BY <2>3, <2>4
<1>5. \A p \in DOMAIN seen : children[p] \subseteq DOMAIN seen
  BY <1>2 DEF Prune, Linked
<1>6. InTree \subseteq R
  <2>1. R \in SUBSET DOMAIN seen /\ root \in R
    BY <1>1
  <2>2. ASSUME NEW p \in R, NEW c \in children[p] PROVE c \in R
    <3>1. p \in DOMAIN seen /\ c \in DOMAIN seen /\ ~IsTop(c) /\ seen[c].ppid = p /\ c \in PIDs
          /\ (p \in OnPath(t) /\ p # t => c \in OnPath(t))
      BY <1>1, <1>4, <1>5
    <3>2. CASE p \in OnPath(t) /\ p # t
      BY <3>1, <3>2
    <3>3. CASE t \in OnPath(p)
      <4>1. OnPath(c) = {c} \cup OnPath(p)
        BY <3>1, PathOfChild
      <4> QED
        BY <3>1, <3>3, <4>1
    <3> QED
      BY <1>3, <3>2, <3>3
  <2> HIDE DEF R
  <2> QED
    BY <2>1, <2>2 DEF InTree
<1>7. root \in InTree /\ InTree \subseteq DOMAIN seen /\ \A p \in InTree : children[p] \subseteq InTree
  <2>1. root \in InTree /\ InTree \subseteq DOMAIN seen
    BY <1>1 DEF InTree
  <2>2. ASSUME NEW p \in InTree, NEW c \in children[p] PROVE c \in InTree
    <3>1. c \in DOMAIN seen
      BY <1>5, <2>1
    <3>2. \A S \in SUBSET DOMAIN seen :
            root \in S /\ (\A d \in S : children[d] \subseteq S) => p \in S
      BY DEF InTree
    <3>3. \A S \in SUBSET DOMAIN seen :
            root \in S /\ (\A d \in S : children[d] \subseteq S) => c \in S
      BY <2>2, <3>2
    <3> QED
      BY <3>1, <3>3 DEF InTree
  <2> QED
    BY <2>1, <2>2
<1> HIDE DEF IsTop, OnPath, InTree, TreeMade
<1>8. OnPath(t) \subseteq InTree
  <2> SUFFICES ASSUME NEW q \in OnPath(t), q \notin InTree PROVE FALSE
    OBVIOUS
  <2> DEFINE U == OnPath(t) \ InTree
  <2>1. ClosedUp(U)
    <3> SUFFICES ASSUME NEW c \in U, ~IsTop(c), seen[c].ppid \notin U PROVE FALSE
      BY DEF ClosedUp
    <3>1. seen[c].ppid \in OnPath(t)
      BY <1>3 DEF ClosedUp
    <3>2. seen[c].ppid \in InTree
      BY <3>1
    <3>3. c \in children[seen[c].ppid]
      BY <1>1, <1>4, <3>1
    <3> QED
      BY <1>7, <3>2, <3>3
  <2>2. U \in SUBSET PIDs /\ q \in U
    BY <1>1
  <2>3. OnPath(q) \subseteq U
    <3> HIDE DEF U
    <3> QED
      BY <2>1, <2>2, PathIsLeast
  <2>4. root \in OnPath(q)
    BY <1>1, RootIsAbove
  <2> QED
    BY <1>7, <2>3, <2>4
<1>9. ASSUME NEW x \in DOMAIN seen, t \in OnPath(x), x \notin InTree PROVE FALSE
  <2> DEFINE M == {y \in PIDs : y \notin InTree /\ t \in OnPath(y)}
  <2>1. ClosedUp(M)
    <3> SUFFICES ASSUME NEW c \in M, ~IsTop(c), seen[c].ppid \notin M PROVE FALSE
      BY DEF ClosedUp
    <3> DEFINE up == seen[c].ppid
    <3>1. c # t /\ c \in DOMAIN seen
      BY <1>3, <1>8 DEF IsTop
    <3>2. up \in PIDs /\ OnPath(c) = {c} \cup OnPath(up)
      BY PathOfChild
    <3>3. t \in OnPath(up)
      BY <3>1, <3>2
    <3>4. up \in InTree
      BY <3>2, <3>3
    <3>5. up \in DOMAIN seen /\ c \notin children[up]
      BY <1>7, <3>4
    <3>6. up \in OnPath(t) /\ up # t
      BY <1>4, <3>1, <3>5
    <3> QED
      BY <1>1, <3>3, <3>6, RootIsAbove
  <2>2. M \in SUBSET PIDs /\ x \in M
    BY <1>1, <1>9
  <2>3. OnPath(x) \subseteq M
    <3> HIDE DEF M
    <3> QED
      BY <2>1, <2>2, PathIsLeast
  <2> QED
    BY <1>3, <1>8, <1>9, <2>3
<1> QED
  BY <1>1, <1>6, <1>8, <1>9

(* The returned list: a sorted enumeration of what was found, cut off. *)
LEMMA ListHolds ==
    ASSUME SeenInv, ListMade, scanTool.limit \in Nat
    PROVE  /\ scanTool.limit > 0 /\ Cardinality(DOMAIN seen) > scanTool.limit
                => Len(listed) = scanTool.limit
           /\ \A p \in ToSet(listed), q \in DOMAIN seen \ ToSet(listed) : seen[p].cpu >= seen[q].cpu
           /\ ToSet(listed) \subseteq DOMAIN seen
<1> DEFINE D == DOMAIN seen
           k == Cardinality(D)
           n == scanTool.limit
<1>1. IsFiniteSet(D)
  BY ProcessAssumption, FS_Subset DEF SeenInv
<1>2. k \in Nat
  BY <1>1, FS_CardinalityType
<1>3. PICK s \in [1..k -> D] :
        /\ \A i, j \in 1..k : i # j => s[i] # s[j]
        /\ \A i, j \in DOMAIN s : i < j => seen[s[i]].cpu >= seen[s[j]].cpu
        /\ listed = CutOff(s, n)
  BY DEF ListMade
<1>4. \A d \in D : \E i \in 1..k : s[i] = d
  <2>1. IsFiniteSet(1..k) /\ Cardinality(1..k) = k
    BY <1>2, FS_Interval
  <2>2. s \in Injection(1..k, D)
    BY <1>3 DEF Injection, IsInjective
  <2>3. s \in Surjection(1..k, D)
    BY <1>1, <2>1, <2>2, FS_Injection
  <2> QED
    BY <2>3 DEF Surjection
<1>5. \A d \in D : seen[d].cpu \in Int
  BY DEF SeenInv
<1> HIDE DEF D, k, n
<1>6. s \in Seq(D) /\ Len(s) = k
  BY <1>2, <1>3
<1>7. CASE n > 0 /\ k > n
  <2>1. listed = SubSeq(s, 1, n)
    BY <1>3, <1>6, <1>7 DEF CutOff
  <2>2. n \in Nat
    BY DEF n
  <2>3. Len(listed) = n /\ DOMAIN listed = 1..n /\ \A i \in 1..n : listed[i] = s[i]
    BY <1>2, <1>6, <1>7, <2>1, <2>2
  <2>4. \A i \in 1..n : listed[i] = s[i] /\ i \in 1..k /\ s[i] \in D
    BY <1>2, <1>3, <1>7, <2>2, <2>3
  <2>5. ToSet(listed) = {s[i] : i \in 1..n}
    BY <2>3, <2>4 DEF ToSet
  <2>6. ASSUME NEW p \in ToSet(listed), NEW q \in D \ ToSet(listed) PROVE seen[p].cpu >= seen[q].cpu
    <3>1. PICK i \in 1..n : p = s[i]
      BY <2>5
    <3>2. PICK j \in 1..k : q = s[j]
      BY <1>4
    <3>3. j \notin 1..n
      BY <2>5, <3>2, <2>6
    <3>4. i < j /\ i \in DOMAIN s /\ j \in DOMAIN s
      BY <1>2, <1>3, <2>2, <2>4, <3>1, <3>2, <3>3
    <3> QED
      BY <1>3, <3>1, <3>2, <3>4
  <2>7. ToSet(listed) \subseteq D
    BY <2>4, <2>5
  <2> QED
    BY <2>3, <2>6, <2>7 DEF D, k, n
<1>8. CASE ~(n > 0 /\ k > n)
  <2>1. listed = s
    BY <1>3, <1>6, <1>8 DEF CutOff
  <2>2. ToSet(listed) = D
    <3>1. DOMAIN s = 1..k
      BY <1>3
    <3> QED
      BY <1>3, <1>4, <2>1, <3>1 DEF ToSet
  <2> QED
    BY <1>8, <2>2 DEF D, k, n
<1> QED
  BY <1>7, <1>8

LEMMA ViewsFollow == ProcInv => ProcessViewsAreSound
<1> SUFFICES ASSUME ProcInv PROVE ProcessViewsAreSound
  OBVIOUS
<1>1. PassesInv /\ SeenInv /\ OutcomeInv
  BY DEF ProcInv
<1>2. scanTool.limit \in Nat
  BY <1>1, ProcessAssumption DEF PassesInv, TreeCalls, ListCalls
<1>3. ASSUME outcome = "tree" PROVE TreeMade
  BY <1>1, <1>3 DEF OutcomeInv
<1>4. ASSUME outcome = "list" PROVE ListMade
  BY <1>1, <1>4 DEF OutcomeInv
<1>5. \A p \in DOMAIN seen : seen[p].same => seen[p].cpu = seen[p].used
  BY <1>1 DEF SeenInv
<1> HIDE DEF TreeMade, ListMade, InTree, OnPath
<1>6. outcome = "tree" =>
         InTree = {p \in DOMAIN seen : p \in OnPath(scanTool.target) \/ scanTool.target \in OnPath(p)}
  BY <1>1, <1>3, TreeHolds
<1>7. ASSUME outcome = "list"
      PROVE  /\ scanTool.limit > 0 /\ Cardinality(DOMAIN seen) > scanTool.limit
                  => Len(listed) = scanTool.limit
             /\ \A p \in ToSet(listed), q \in DOMAIN seen \ ToSet(listed) : seen[p].cpu >= seen[q].cpu
             /\ ToSet(listed) \subseteq DOMAIN seen
  BY <1>1, <1>2, <1>4, <1>7, ListHolds
<1>8. outcome = "list" => \A p \in ToSet(listed) : seen[p].same => seen[p].cpu = seen[p].used
  BY <1>5, <1>7
<1> QED
  BY <1>6, <1>7, <1>8 DEF ProcessViewsAreSound

ProcessSpec == ProcInit /\ [][ProcNext]_procVars

(* Whatever forks, exits and comes back under an old number while /proc is
   read, the tree holds the ancestors and descendants of its target, and the
   list is cut after the busiest processes (tree.go, process.go). *)
THEOREM ProcessSafety == ProcessSpec => []ProcessViewsAreSound
<1> QED
  BY ProcInitInv, ProcStep, ViewsFollow, PTL DEF ProcessSpec

-----------------------------------------------------------------------------
(***************************************************************************)
(* ProcessAudit. The parent of a process is alive. A process that stood    *)
(* still is to be read still or has been read as it is; the tightest limit *)
(* of a cgroup is that of the levels read and of those above.              *)
(***************************************************************************)
States == {"", "S", "D", "Z"}
TasksOk ==
    /\ task \in [AuditPIDs -> [state : States, ppid : Nat, cgroup : Cgroups]]
    /\ Alive(1)
    /\ \A p \in AuditPIDs : p # 1 /\ task[p].state # "" =>
         task[p].ppid \in AuditPIDs \ {p} /\ task[task[p].ppid].state \in {"S", "D"}

ScanInv ==
    /\ auditStep \in {"scan", "scanned"} =>
         /\ toRead \subseteq AuditPIDs
         /\ \A p \in AuditPIDs \ changed :
              task[p].state # "" => p \in toRead \/ (p \in DOMAIN entries /\ entries[p] = task[p])
         /\ \A p \in DOMAIN entries :
              p \in AuditPIDs /\ entries[p].state # "" /\ (p \notin changed => entries[p] = task[p])
    /\ auditStep = "scanned" => toRead = {}

LimitsOf(c) == {cgroups[d] : d \in Ancestors(c)}
SteadyLevels(c) == Ancestors(c) \cap changedCg = {} /\ c \in DOMAIN cgroups
CgroupsOk ==
    /\ DOMAIN cgroups \subseteq Cgroups /\ \A c \in DOMAIN cgroups : cgroups[c] \in Nat /\ CgParent[c] \in DOMAIN cgroups
WalkInv ==
    /\ auditStep \in {"walk", "walked"} =>
         /\ starts \in Seq(Cgroups) /\ effective \in Nat
         /\ level # "" => /\ level \in Cgroups /\ walkFrom \in Cgroups
                          /\ Ancestors(level) \subseteq Ancestors(walkFrom)
                          /\ SteadyLevels(walkFrom) =>
                               /\ level \in DOMAIN cgroups
                               /\ Tighter(LowestOf(LimitsOf(level)), effective) = LowestOf(LimitsOf(walkFrom))
         /\ DOMAIN limits \subseteq Cgroups
         /\ \A c \in DOMAIN limits : SteadyLevels(c) => limits[c] = LowestOf(LimitsOf(c))
    /\ auditStep \notin {"walk", "walked"} => level = "" /\ DOMAIN limits = {} /\ effective = 0

AuditInv ==
    /\ auditStep \in {"idle", "scan", "scanned", "walk", "walked"}
    /\ TasksOk /\ ScanInv /\ CgroupsOk /\ WalkInv

(* The root is its own parent. *)
LEMMA RootFacts == Root \in Cgroups /\ CgParent[Root] = Root
BY ProcessAuditAssumption DEF Root

(* The levels of a cgroup are itself and those of its parent. *)
LEMMA AncestorFacts ==
    /\ \A c \in Cgroups : c \in Ancestors(c) /\ Ancestors(c) \subseteq Cgroups
    /\ \A c \in Cgroups : CgParent[c] \in Cgroups /\ Ancestors(c) = {c} \cup Ancestors(CgParent[c])
    /\ Ancestors(Root) = {Root}
<1>1. \A c \in Cgroups : c \in Ancestors(c) /\ Ancestors(c) \subseteq Cgroups
  BY DEF Ancestors
<1>2. \A c \in Cgroups : CgParent[c] \in Cgroups
  BY ProcessAuditAssumption
<1>3. ASSUME NEW c \in Cgroups, NEW S \in SUBSET Cgroups, c \in S, \A e \in S : CgParent[e] \in S
      PROVE  Ancestors(c) \subseteq S
  BY <1>3 DEF Ancestors
<1>4. \A c \in Cgroups : \A e \in Ancestors(c) : CgParent[e] \in Ancestors(c)
  BY <1>2 DEF Ancestors
<1>5. ASSUME NEW c \in Cgroups PROVE Ancestors(c) = {c} \cup Ancestors(CgParent[c])
  <2>1. Ancestors(c) \subseteq {c} \cup Ancestors(CgParent[c])
    <3>1. {c} \cup Ancestors(CgParent[c]) \in SUBSET Cgroups
      BY <1>1, <1>2
    <3>2. \A e \in {c} \cup Ancestors(CgParent[c]) : CgParent[e] \in {c} \cup Ancestors(CgParent[c])
      BY <1>1, <1>2, <1>4
    <3> QED
      BY <1>3, <3>1, <3>2
  <2>2. Ancestors(CgParent[c]) \subseteq Ancestors(c)
    <3>1. Ancestors(c) \in SUBSET Cgroups /\ CgParent[c] \in Ancestors(c)
      BY <1>1, <1>4
    <3> QED
      BY <1>2, <1>3, <1>4, <3>1
  <2> QED
    BY <1>1, <2>1, <2>2
<1>6. Ancestors(Root) = {Root}
  <2>1. Ancestors(Root) \subseteq {Root}
    BY <1>3, RootFacts
  <2> QED
    BY <1>1, <2>1, RootFacts
<1> QED
  BY <1>1, <1>2, <1>5, <1>6

(* Zero is no limit. *)
LEMMA TighterFacts ==
    /\ \A v, l, e \in Nat : Tighter(Tighter(v, l), e) = Tighter(l, Tighter(v, e))
    /\ \A v, e \in Nat : Tighter(v, e) \in Nat
    /\ \A v \in Nat : Tighter(v, 0) = v
BY DEF Tighter

LEMMA LowestFacts ==
    ASSUME NEW S, S \subseteq Nat
    PROVE  /\ LowestOf(S) \in Nat
           /\ LowestOf(S) = 0 => S \subseteq {0}
           /\ LowestOf(S) # 0 => LowestOf(S) \in S /\ \A y \in S : y = 0 \/ LowestOf(S) <= y
<1>1. CASE S \ {0} = {}
  BY <1>1 DEF LowestOf
<1>2. CASE S \ {0} # {}
  <2>1. Min(S \ {0}) \in S \ {0} /\ \A y \in S \ {0} : Min(S \ {0}) <= y
    BY <1>2, MinIsLeast
  <2> QED
    BY <1>2, <2>1 DEF LowestOf
<1> QED
  BY <1>1, <1>2

LEMMA LowestAdds ==
    ASSUME NEW S, S \subseteq Nat, NEW v \in Nat
    PROVE  LowestOf({v} \cup S) = Tighter(v, LowestOf(S))
<1> DEFINE T == {v} \cup S
           x == LowestOf(T)
           y == LowestOf(S)
<1>1. /\ x \in Nat /\ (x = 0 => T \subseteq {0})
      /\ x # 0 => x \in T /\ \A z \in T : z = 0 \/ x <= z
  BY LowestFacts
<1>2. /\ y \in Nat /\ (y = 0 => S \subseteq {0})
      /\ y # 0 => y \in S /\ \A z \in S : z = 0 \/ y <= z
  BY LowestFacts
<1>3. v \in T /\ S \subseteq T /\ \A z \in T : z = v \/ z \in S
  OBVIOUS
<1> HIDE DEF T, x, y
<1>4. x = Tighter(v, y)
  <2>1. CASE x = 0
    <3>1. v = 0 /\ (y # 0 => y = 0)
      BY <1>1, <1>2, <1>3, <2>1
    <3> QED
      BY <2>1, <3>1 DEF Tighter
  <2>2. CASE x # 0
    <3>1. (x = v \/ x \in S) /\ (v = 0 \/ x <= v)
      BY <1>1, <1>3, <2>2
    <3>2. y # 0 => x <= y
      BY <1>1, <1>2, <1>3, <2>2
    <3>3. x = v \/ (y # 0 /\ y <= x)
      <4>1. CASE x \in S
        <5>1. y # 0
          BY <1>2, <2>2, <4>1
        <5> QED
          BY <1>2, <2>2, <4>1, <5>1
      <4> QED
        BY <3>1, <4>1
    <3>4. x \in Nat /\ y \in Nat
      BY <1>1, <1>2
    <3>5. (v = 0 \/ x <= v) /\ (x = v \/ (y # 0 /\ y <= x)) /\ (y # 0 => x <= y) /\ x # 0
      BY <2>2, <3>1, <3>2, <3>3
    <3>6. \A a, b, c \in Nat : /\ b = 0 \/ a <= b
                               /\ a = b \/ (c # 0 /\ c <= a)
                               /\ c # 0 => a <= c
                               /\ a # 0
                               => a = Tighter(b, c)
      BY DEF Tighter
    <3> QED
      BY <3>4, <3>5, <3>6
  <2> QED
    BY <2>1, <2>2
<1> QED
  BY <1>4 DEF T, x, y

(* A child's levels, the child's group among them, exist. *)
LEMMA LevelsExist == ASSUME CgroupsOk, NEW c \in DOMAIN cgroups PROVE Ancestors(c) \subseteq DOMAIN cgroups
<1>1. DOMAIN cgroups \in SUBSET Cgroups /\ \A e \in DOMAIN cgroups : CgParent[e] \in DOMAIN cgroups
  BY DEF CgroupsOk
<1> QED
  BY <1>1 DEF Ancestors

LEMMA LimitsAreNumbers == ASSUME CgroupsOk, NEW c \in DOMAIN cgroups PROVE LimitsOf(c) \subseteq Nat
BY LevelsExist DEF CgroupsOk, LimitsOf

(* What stands still has the levels and the limits it had. *)
LEMMA SteadyKeeps ==
    ASSUME DOMAIN cgroups' \subseteq DOMAIN cgroups, changedCg \subseteq changedCg',
           \A d \in DOMAIN cgroups' : d \notin changedCg' => cgroups'[d] = cgroups[d], CgroupsOk'
    PROVE  \A c \in Cgroups : SteadyLevels(c)' =>
             /\ SteadyLevels(c) /\ Ancestors(c) \subseteq DOMAIN cgroups'
             /\ \A e \in Cgroups : Ancestors(e) \subseteq Ancestors(c) => LimitsOf(e)' = LimitsOf(e)
<1> SUFFICES ASSUME NEW c \in Cgroups, SteadyLevels(c)'
             PROVE  /\ SteadyLevels(c) /\ Ancestors(c) \subseteq DOMAIN cgroups'
                    /\ \A e \in Cgroups : Ancestors(e) \subseteq Ancestors(c) => LimitsOf(e)' = LimitsOf(e)
  OBVIOUS
<1>1. Ancestors(c) \cap changedCg' = {} /\ c \in DOMAIN cgroups'
  BY DEF SteadyLevels
<1>2. Ancestors(c) \subseteq DOMAIN cgroups'
  <2>1. DOMAIN cgroups' \in SUBSET Cgroups /\ \A e \in DOMAIN cgroups' : CgParent[e] \in DOMAIN cgroups'
    BY DEF CgroupsOk
  <2> QED
    BY <1>1, <2>1 DEF Ancestors
<1>3. \A d \in Ancestors(c) : cgroups'[d] = cgroups[d]
  BY <1>1, <1>2
<1>4. \A e \in Cgroups : Ancestors(e) \subseteq Ancestors(c) => LimitsOf(e)' = LimitsOf(e)
  BY <1>3 DEF LimitsOf
<1> QED
  BY <1>1, <1>2, <1>4 DEF SteadyLevels

(* One level of a walk. *)
LEMMA WalkLevel ==
    ASSUME CgroupsOk, WalkInv, auditStep = "walk", level # "", SteadyLevels(walkFrom)
    PROVE  /\ level \in DOMAIN cgroups
           /\ level = Root => Tighter(cgroups[level], effective) = LowestOf(LimitsOf(walkFrom))
           /\ level # Root =>
                /\ CgParent[level] \in DOMAIN cgroups
                /\ Tighter(LowestOf(LimitsOf(CgParent[level])), Tighter(cgroups[level], effective))
                     = LowestOf(LimitsOf(walkFrom))
<1>1. /\ level \in Cgroups /\ level \in DOMAIN cgroups /\ effective \in Nat
      /\ Tighter(LowestOf(LimitsOf(level)), effective) = LowestOf(LimitsOf(walkFrom))
  BY DEF WalkInv
<1>2. cgroups[level] \in Nat /\ CgParent[level] \in DOMAIN cgroups
  BY <1>1 DEF CgroupsOk
<1>3. CASE level = Root
  <2>1. LimitsOf(level) = {cgroups[level]} \cup {}
    BY <1>3, AncestorFacts DEF LimitsOf
  <2>2. LowestOf({}) = 0
    BY DEF LowestOf
  <2>3. LowestOf(LimitsOf(level)) = Tighter(cgroups[level], 0)
    BY <1>2, <2>1, <2>2, LowestAdds
  <2> QED
    BY <1>1, <1>2, <1>3, <2>3, TighterFacts
<1>4. CASE level # Root
  <2>1. LimitsOf(level) = {cgroups[level]} \cup LimitsOf(CgParent[level])
    <3>1. Ancestors(level) = {level} \cup Ancestors(CgParent[level])
      BY <1>1, AncestorFacts
    <3> QED
      BY <3>1 DEF LimitsOf
  <2>2. LimitsOf(CgParent[level]) \subseteq Nat
    BY <1>2, LimitsAreNumbers
  <2>3. LowestOf(LimitsOf(level)) = Tighter(cgroups[level], LowestOf(LimitsOf(CgParent[level])))
    BY <1>2, <2>1, <2>2, LowestAdds
  <2>4. LowestOf(LimitsOf(CgParent[level])) \in Nat
    BY <2>2, LowestFacts
  <2>5. Tighter(Tighter(cgroups[level], LowestOf(LimitsOf(CgParent[level]))), effective)
          = Tighter(LowestOf(LimitsOf(CgParent[level])), Tighter(cgroups[level], effective))
    BY <1>1, <1>2, <2>4, TighterFacts
  <2> QED
    BY <1>1, <1>2, <1>4, <2>3, <2>5
<1> QED
  BY <1>1, <1>3, <1>4

LEMMA AuditInitInv == AuditInit => AuditInv
<1> SUFFICES ASSUME AuditInit PROVE AuditInv
  OBVIOUS
<1>1. TasksOk
  BY RootFacts, ProcessAuditAssumption DEF AuditInit, TasksOk, NoTask, States, Alive
<1>2. CgroupsOk
  BY ProcessAuditAssumption DEF AuditInit, CgroupsOk
<1>3. ScanInv /\ WalkInv
  <2>1. auditStep = "idle" /\ level = "" /\ limits = << >> /\ effective = 0
    BY DEF AuditInit
  <2>3. DOMAIN << >> = {}
    OBVIOUS
  <2>2. DOMAIN limits = {}
    BY <2>1, <2>3, Zenon
  <2> QED
    BY <2>1, <2>2 DEF ScanInv, WalkInv
<1> QED
  BY <1>1, <1>2, <1>3 DEF AuditInit, AuditInv

(* What happens to processes. *)
LEMMA TaskEvent ==
    ASSUME AuditInv, NEW pids, AuditEvent(pids, {}), cgroups' = cgroups, TasksOk',
           \A p \in AuditPIDs \ pids : task'[p] = task[p]
    PROVE  AuditInv'
<1>1. UNCHANGED <<auditStep, toRead, entries, level, walkFrom, starts, effective, limits>>
  BY DEF AuditEvent, toolVars
<1>2. auditStep # "idle" => changed' = changed \cup pids /\ changedCg' = changedCg
  BY DEF AuditEvent
<1>3. CgroupsOk'
  BY DEF AuditInv, CgroupsOk
<1>4. ScanInv'
  BY <1>1, <1>2 DEF AuditInv, ScanInv
<1>5. auditStep # "idle" => \A c : SteadyLevels(c)' = SteadyLevels(c)
  BY <1>2 DEF SteadyLevels
<1>6. \A c : LimitsOf(c)' = LimitsOf(c)
  BY DEF LimitsOf
<1>7. WalkInv'
  BY <1>1, <1>5, <1>6 DEF AuditInv, WalkInv
<1> QED
  BY <1>1, <1>3, <1>4, <1>7 DEF AuditInv

(* What happens to a control group. *)
LEMMA CgroupEvent ==
    ASSUME AuditInv, NEW c, AuditEvent({}, {c}), task' = task, CgroupsOk', DOMAIN cgroups' \subseteq DOMAIN cgroups,
           \A d \in DOMAIN cgroups' \ {c} : cgroups'[d] = cgroups[d]
    PROVE  AuditInv'
<1>1. UNCHANGED <<auditStep, toRead, entries, level, walkFrom, starts, effective, limits>>
  BY DEF AuditEvent, toolVars
<1>2. auditStep # "idle" => changed' = changed /\ changedCg' = changedCg \cup {c}
  BY DEF AuditEvent
<1>3. TasksOk'
  BY DEF AuditInv, TasksOk, Alive
<1>4. ScanInv'
  BY <1>1, <1>2 DEF AuditInv, ScanInv
<1>5. CASE auditStep \in {"walk", "walked"}
  <2>1. \A d \in Cgroups : SteadyLevels(d)' =>
          /\ SteadyLevels(d) /\ Ancestors(d) \subseteq DOMAIN cgroups'
          /\ \A e \in Cgroups : Ancestors(e) \subseteq Ancestors(d) => LimitsOf(e)' = LimitsOf(e)
    BY <1>2, <1>5, SteadyKeeps
  <2>2. ASSUME level # "", SteadyLevels(walkFrom)'
        PROVE  /\ level \in DOMAIN cgroups'
               /\ Tighter(LowestOf(LimitsOf(level)'), effective) = LowestOf(LimitsOf(walkFrom)')
    <3>1. level \in Cgroups /\ walkFrom \in Cgroups /\ Ancestors(level) \subseteq Ancestors(walkFrom)
      BY <1>5, <2>2 DEF AuditInv, WalkInv
    <3>2. LimitsOf(level)' = LimitsOf(level) /\ LimitsOf(walkFrom)' = LimitsOf(walkFrom) /\ SteadyLevels(walkFrom)
          /\ Ancestors(walkFrom) \subseteq DOMAIN cgroups'
      BY <1>1, <2>1, <2>2, <3>1
    <3>3. level \in DOMAIN cgroups'
      BY <3>1, <3>2, AncestorFacts
    <3> QED
      BY <1>5, <2>2, <3>2, <3>3 DEF AuditInv, WalkInv
  <2>3. ASSUME NEW d \in DOMAIN limits, SteadyLevels(d)' PROVE limits[d] = LowestOf(LimitsOf(d)')
    <3>1. d \in Cgroups
      BY <1>5 DEF AuditInv, WalkInv
    <3>2. SteadyLevels(d) /\ LimitsOf(d)' = LimitsOf(d)
      BY <2>1, <2>3, <3>1
    <3> QED
      BY <1>5, <3>2 DEF AuditInv, WalkInv
  <2>4. WalkInv'
    BY <1>1, <1>5, <2>2, <2>3 DEF AuditInv, WalkInv
  <2> QED
    BY <1>1, <1>3, <1>4, <2>4 DEF AuditInv
<1>6. CASE auditStep \notin {"walk", "walked"}
  BY <1>1, <1>3, <1>4, <1>6 DEF AuditInv, WalkInv
<1> QED
  BY <1>5, <1>6

LEMMA TaskSteps ==
    ASSUME AuditInv
    PROVE  /\ \A p, q \in AuditPIDs, c \in Cgroups : Spawn(p, q, c) => AuditInv'
           /\ \A p \in AuditPIDs : Dies(p) \/ Reaped(p) \/ Blocks(p) => AuditInv'
<1> USE DEF AuditInv
<1>1. ASSUME NEW p \in AuditPIDs, NEW q \in AuditPIDs, NEW c \in Cgroups, Spawn(p, q, c) PROVE AuditInv'
  <2>1. /\ task[p].state = "" /\ Alive(q) /\ cgroups' = cgroups /\ AuditEvent({p}, {})
        /\ task' = [task EXCEPT ![p] = [state |-> "S", ppid |-> q, cgroup |-> c]]
    BY <1>1 DEF Spawn
  <2>2. q \in Nat /\ [state |-> "S", ppid |-> q, cgroup |-> c] \in [state : States, ppid : Nat, cgroup : Cgroups]
    BY ProcessAuditAssumption DEF States
  <2>3. /\ task'[p].state = "S" /\ task'[p].ppid = q /\ \A r \in AuditPIDs \ {p} : task'[r] = task[r]
        /\ task' \in [AuditPIDs -> [state : States, ppid : Nat, cgroup : Cgroups]]
    BY <2>1, <2>2 DEF TasksOk
  <2>4. \A r \in AuditPIDs : task[r].state \in {"S", "D"} => task'[r].state \in {"S", "D"}
    BY <2>1, <2>3
  <2>6. 1 \in AuditPIDs /\ task[1].state \in {"S", "D"} /\ q # p /\ task[q].state \in {"S", "D"}
    BY <2>1, ProcessAuditAssumption DEF TasksOk, Alive
  <2>7. ASSUME NEW r \in AuditPIDs, r # 1, task'[r].state # ""
        PROVE  task'[r].ppid \in AuditPIDs \ {r} /\ task'[task'[r].ppid].state \in {"S", "D"}
    BY <2>3, <2>4, <2>6, <2>7 DEF TasksOk
  <2>5. TasksOk'
    BY <2>3, <2>4, <2>6, <2>7 DEF TasksOk, Alive
  <2> QED
    BY <2>1, <2>3, <2>5, TaskEvent
<1>2. ASSUME NEW p \in AuditPIDs, Dies(p) PROVE AuditInv'
  <2>1. /\ p # 1 /\ Alive(p) /\ cgroups' = cgroups
        /\ AuditEvent({p} \cup {q \in AuditPIDs : task[q].ppid = p}, {})
        /\ task' = [q \in AuditPIDs |->
                  IF q = p THEN [task[p] EXCEPT !.state = "Z"]
                  ELSE IF task[q].ppid = p THEN [task[q] EXCEPT !.ppid = 1] ELSE task[q]]
    BY <1>2 DEF Dies
  <2>2. \A q \in AuditPIDs : task[q] \in [state : States, ppid : Nat, cgroup : Cgroups]
    BY DEF TasksOk
  <2>3. \A r \in [state : States, ppid : Nat, cgroup : Cgroups] :
          /\ [r EXCEPT !.state = "Z"] \in [state : States, ppid : Nat, cgroup : Cgroups]
          /\ [r EXCEPT !.state = "Z"].ppid = r.ppid
          /\ [r EXCEPT !.ppid = 1] \in [state : States, ppid : Nat, cgroup : Cgroups]
          /\ [r EXCEPT !.ppid = 1].state = r.state /\ [r EXCEPT !.ppid = 1].ppid = 1
    BY DEF States
  <2>4. /\ task' \in [AuditPIDs -> [state : States, ppid : Nat, cgroup : Cgroups]]
        /\ task'[p].ppid = task[p].ppid
        /\ \A q \in AuditPIDs \ {p} : /\ task'[q].state = task[q].state
                                      /\ task'[q].ppid = IF task[q].ppid = p THEN 1 ELSE task[q].ppid
        /\ \A q \in AuditPIDs \ ({p} \cup {q \in AuditPIDs : task[q].ppid = p}) : task'[q] = task[q]
    BY <2>1, <2>2, <2>3
  <2>6. 1 \in AuditPIDs /\ task'[1].state \in {"S", "D"}
    BY <2>1, <2>4, ProcessAuditAssumption DEF TasksOk, Alive
  <2>7. ASSUME NEW q \in AuditPIDs, q # 1, task'[q].state # ""
        PROVE  task'[q].ppid \in AuditPIDs \ {q} /\ task'[task'[q].ppid].state \in {"S", "D"}
    <3>1. task[q].state # "" /\ task[q].ppid \in AuditPIDs \ {q} /\ task[task[q].ppid].state \in {"S", "D"}
      BY <2>1, <2>4, <2>7 DEF TasksOk, Alive
    <3>2. CASE task[q].ppid = p
      <4>1. q # p /\ task'[q].ppid = 1
        BY <2>4, <3>1, <3>2
      <4> QED
        BY <2>6, <2>7, <4>1
    <3>3. CASE task[q].ppid # p
      <4>1. task'[q].ppid = task[q].ppid
        BY <2>4, <3>3
      <4>2. task'[task[q].ppid].state = task[task[q].ppid].state
        BY <2>4, <3>1, <3>3
      <4> QED
        BY <3>1, <4>1, <4>2
    <3> QED
      BY <3>2, <3>3
  <2>8. TasksOk'
    BY <2>4, <2>6, <2>7 DEF TasksOk, Alive
  <2> QED
    BY <2>1, <2>4, <2>8, TaskEvent
<1>3. ASSUME NEW p \in AuditPIDs, Reaped(p) PROVE AuditInv'
  <2>1. /\ task[p].state = "Z" /\ task' = [task EXCEPT ![p] = NoTask] /\ cgroups' = cgroups /\ AuditEvent({p}, {})
    BY <1>3 DEF Reaped
  <2>2. NoTask \in [state : States, ppid : Nat, cgroup : Cgroups] /\ NoTask.state = ""
    BY RootFacts DEF NoTask, States
  <2>3. /\ task' \in [AuditPIDs -> [state : States, ppid : Nat, cgroup : Cgroups]]
        /\ task'[p].state = "" /\ \A q \in AuditPIDs \ {p} : task'[q] = task[q]
    BY <2>1, <2>2 DEF TasksOk
  <2>4. \A r \in AuditPIDs : task[r].state \in {"S", "D"} => task'[r].state \in {"S", "D"}
    BY <2>1, <2>3
  <2>5. TasksOk'
    BY <2>3, <2>4, ProcessAuditAssumption DEF TasksOk, Alive
  <2> QED
    BY <2>1, <2>3, <2>5, TaskEvent
<1>4. ASSUME NEW p \in AuditPIDs, Blocks(p) PROVE AuditInv'
  <2>1. /\ Alive(p) /\ cgroups' = cgroups /\ AuditEvent({p}, {})
        /\ task' = [task EXCEPT ![p].state = IF @ = "S" THEN "D" ELSE "S"]
    BY <1>4 DEF Blocks
  <2>2. \A r \in [state : States, ppid : Nat, cgroup : Cgroups], t \in {"S", "D"} :
          /\ [r EXCEPT !.state = t] \in [state : States, ppid : Nat, cgroup : Cgroups]
          /\ [r EXCEPT !.state = t].state = t /\ [r EXCEPT !.state = t].ppid = r.ppid
    BY DEF States
  <2>3. \E t \in {"S", "D"} : task' = [task EXCEPT ![p] = [task[p] EXCEPT !.state = t]]
    BY <2>1 DEF TasksOk
  <2>4. /\ task' \in [AuditPIDs -> [state : States, ppid : Nat, cgroup : Cgroups]]
        /\ task'[p].state \in {"S", "D"} /\ task'[p].ppid = task[p].ppid /\ \A q \in AuditPIDs \ {p} : task'[q] = task[q]
    <3>1. PICK t \in {"S", "D"} : task' = [task EXCEPT ![p] = [task[p] EXCEPT !.state = t]]
      BY <2>3
    <3>2. task[p] \in [state : States, ppid : Nat, cgroup : Cgroups]
      BY DEF TasksOk
    <3>3. /\ [task[p] EXCEPT !.state = t] \in [state : States, ppid : Nat, cgroup : Cgroups]
          /\ [task[p] EXCEPT !.state = t].state = t /\ [task[p] EXCEPT !.state = t].ppid = task[p].ppid
      BY <2>2, <3>2
    <3> QED
      BY <3>1, <3>3 DEF TasksOk
  <2>5. \A r \in AuditPIDs : task[r].state \in {"S", "D"} => task'[r].state \in {"S", "D"}
    BY <2>4
  <2>6. task[p].state # ""
    BY <2>1 DEF Alive
  <2>7. TasksOk'
    BY <2>4, <2>5, <2>6, ProcessAuditAssumption DEF TasksOk, Alive
  <2> QED
    BY <2>1, <2>4, <2>7, TaskEvent
<1> QED
  BY <1>1, <1>2, <1>3, <1>4

LEMMA CgroupSteps ==
    ASSUME AuditInv
    PROVE  /\ \A c \in Cgroups, l \in Limits : SetLimit(c, l) => AuditInv'
           /\ \A c \in Cgroups : CgroupRemoved(c) => AuditInv'
<1>1. ASSUME NEW c \in Cgroups, NEW l \in Limits, SetLimit(c, l) PROVE AuditInv'
  <2>1. /\ c \in DOMAIN cgroups /\ cgroups' = [cgroups EXCEPT ![c] = l] /\ task' = task /\ AuditEvent({}, {c})
    BY <1>1 DEF SetLimit
  <2>2. DOMAIN cgroups' = DOMAIN cgroups /\ cgroups'[c] = l /\ \A d \in DOMAIN cgroups \ {c} : cgroups'[d] = cgroups[d]
    BY <2>1
  <2>3. CgroupsOk'
    BY <2>2, ProcessAuditAssumption DEF AuditInv, CgroupsOk
  <2> QED
    BY <2>1, <2>2, <2>3, CgroupEvent
<1>2. ASSUME NEW c \in Cgroups, CgroupRemoved(c) PROVE AuditInv'
  <2>1. /\ c \in DOMAIN cgroups /\ c # Root /\ \A d \in DOMAIN cgroups \ {c} : CgParent[d] # c
        /\ cgroups' = [d \in DOMAIN cgroups \ {c} |-> cgroups[d]] /\ task' = task /\ AuditEvent({}, {c})
    BY <1>2 DEF CgroupRemoved
  <2>2. DOMAIN cgroups' = DOMAIN cgroups \ {c} /\ \A d \in DOMAIN cgroups' : cgroups'[d] = cgroups[d]
    BY <2>1
  <2>3. CgroupsOk'
    BY <2>1, <2>2 DEF AuditInv, CgroupsOk
  <2> QED
    BY <2>1, <2>2, <2>3, CgroupEvent
<1> QED
  BY <1>1, <1>2

(* The scan of get_process_states. *)
LEMMA ScanSteps ==
    ASSUME AuditInv, listPids \/ ReadStat \/ ScanDone
    PROVE  AuditInv'
<1>0. UNCHANGED <<task, cgroups, changed, changedCg, level, walkFrom, starts, effective, limits>>
  BY DEF listPids, ReadStat, ScanDone
<1>1. TasksOk' /\ CgroupsOk' /\ auditStep' \in {"scan", "scanned"}
      /\ auditStep \notin {"walk", "walked"}
  BY <1>0 DEF AuditInv, TasksOk, CgroupsOk, Alive, listPids, ReadStat, ScanDone
<1>2. WalkInv'
  BY <1>0, <1>1 DEF AuditInv, WalkInv
<1>3. CASE listPids
  <2>1. auditStep' = "scan" /\ toRead' = {p \in AuditPIDs : task[p].state # ""} /\ entries' = << >>
    BY <1>3 DEF listPids
  <2>2. DOMAIN << >> = {}
    OBVIOUS
  <2>3. DOMAIN entries' = {}
    BY <2>1, <2>2, Zenon
  <2>4. ScanInv'
    BY <1>0, <2>1, <2>3 DEF ScanInv
  <2> QED
    BY <1>1, <1>2, <2>1, <2>4 DEF AuditInv
<1>4. CASE ReadStat
  <2>1. PICK p : p = Min(toRead)
    OBVIOUS
  <2>2. /\ auditStep = "scan" /\ auditStep' = "scan" /\ toRead # {} /\ toRead' = toRead \ {p}
        /\ entries' = IF task[p].state = "" THEN entries ELSE AddEntry(entries, p, task[p])
    BY <1>4, <2>1 DEF ReadStat
  <2>3. toRead \subseteq AuditPIDs /\ p \in AuditPIDs
    BY <2>1, <2>2, MinIsLeast, ProcessAuditAssumption DEF AuditInv, ScanInv
  <2>4. /\ task[p].state = "" => entries' = entries
        /\ task[p].state # "" => /\ DOMAIN entries' = DOMAIN entries \cup {p} /\ entries'[p] = task[p]
                                 /\ \A q \in DOMAIN entries \ {p} : entries'[q] = entries[q]
    BY <2>2 DEF AddEntry
  <2>5. \A q \in AuditPIDs \ changed :
          task[q].state # "" => q \in toRead' \/ (q \in DOMAIN entries' /\ entries'[q] = task[q])
    BY <2>2, <2>4 DEF AuditInv, ScanInv
  <2>6. \A q \in DOMAIN entries' : q \in AuditPIDs /\ entries'[q].state # "" /\ (q \notin changed => entries'[q] = task[q])
    BY <2>2, <2>3, <2>4 DEF AuditInv, ScanInv
  <2>7. ScanInv'
    BY <1>0, <2>2, <2>3, <2>5, <2>6 DEF ScanInv
  <2> QED
    BY <1>1, <1>2, <2>7 DEF AuditInv
<1>5. CASE ScanDone
  <2>1. ScanInv'
    BY <1>0, <1>5 DEF ScanDone, AuditInv, ScanInv
  <2> QED
    BY <1>1, <1>2, <2>1 DEF AuditInv
<1> QED
  BY <1>3, <1>4, <1>5

(* The walk of get_cgroup_limits. *)
LEMMA WalkSteps ==
    ASSUME AuditInv,
           (\E p \in AuditPIDs : TargetedMode(p)) \/ GlobalMode \/ StartWalk \/ getEffectiveLimits \/ WalkDone
    PROVE  AuditInv'
<1>0. UNCHANGED <<task, cgroups, changed, changedCg, toRead, entries>>
  BY DEF TargetedMode, GlobalMode, StartWalk, getEffectiveLimits, WalkDone
<1>1. TasksOk' /\ CgroupsOk' /\ auditStep' \in {"walk", "walked"}
  BY <1>0 DEF AuditInv, TasksOk, CgroupsOk, Alive, TargetedMode, GlobalMode, StartWalk, getEffectiveLimits, WalkDone
<1>2. ScanInv'
  BY <1>1 DEF ScanInv
<1>3. (\A c : SteadyLevels(c)' = SteadyLevels(c)) /\ (\A c : LimitsOf(c)' = LimitsOf(c))
  BY <1>0 DEF SteadyLevels, LimitsOf
<1>4. CASE (\E p \in AuditPIDs : TargetedMode(p)) \/ GlobalMode
  <2>1. UNCHANGED <<level, walkFrom, effective, limits>> /\ auditStep = "idle" /\ starts' \in Seq(Cgroups)
    <3>1. \A p \in AuditPIDs : task[p].cgroup \in Cgroups
      BY DEF AuditInv, TasksOk
    <3>2. \A c \in Cgroups : <<c>> \in Seq(Cgroups)
      OBVIOUS
    <3> QED
      BY <1>4, <3>1, <3>2, ProcessAuditAssumption DEF TargetedMode, GlobalMode
  <2>2. level' = "" /\ effective' = 0 /\ DOMAIN limits' = {}
    BY <2>1 DEF AuditInv, WalkInv
  <2>4. 0 \in Nat /\ DOMAIN limits' \subseteq Cgroups /\ (\A c \in DOMAIN limits' : FALSE) /\ ~(level' # "")
    BY <2>2
  <2>5. auditStep' \in {"walk", "walked"} /\ starts' \in Seq(Cgroups) /\ effective' \in Nat
    BY <1>1, <2>1, <2>2, <2>4
  <2>3. WalkInv'
    BY <2>4, <2>5, Zenon DEF WalkInv
  <2> QED
    BY <1>1, <1>2, <2>3 DEF AuditInv
<1>5. CASE StartWalk
  <2>1. /\ auditStep = "walk" /\ level' = Head(starts) /\ walkFrom' = Head(starts) /\ starts' = Tail(starts)
        /\ effective' = 0 /\ UNCHANGED <<auditStep, limits>> /\ starts # << >> /\ starts \in Seq(Cgroups)
    BY <1>5 DEF StartWalk, AuditInv, WalkInv
  <2>2. Head(starts) \in Cgroups /\ starts' \in Seq(Cgroups)
    BY <2>1
  <2>3. ASSUME SteadyLevels(Head(starts))
        PROVE  /\ Head(starts) \in DOMAIN cgroups
               /\ Tighter(LowestOf(LimitsOf(Head(starts))), 0) = LowestOf(LimitsOf(Head(starts)))
    <3>1. Head(starts) \in DOMAIN cgroups
      BY <2>3 DEF SteadyLevels
    <3>2. LowestOf(LimitsOf(Head(starts))) \in Nat
      BY <3>1, LimitsAreNumbers, LowestFacts DEF AuditInv
    <3> QED
      BY <3>1, <3>2, TighterFacts
  <2>4. WalkInv'
    BY <1>0, <1>1, <1>3, <2>1, <2>2, <2>3 DEF AuditInv, WalkInv
  <2> QED
    BY <1>1, <1>2, <2>4 DEF AuditInv
<1>7. CASE WalkDone
  <2>1. WalkInv'
    BY <1>0, <1>1, <1>3, <1>7 DEF WalkDone, AuditInv, WalkInv
  <2> QED
    BY <1>1, <1>2, <2>1 DEF AuditInv
<1>6. CASE getEffectiveLimits
  <2>0. PICK e : e = IF level \in DOMAIN cgroups THEN Tighter(cgroups[level], effective) ELSE effective
    OBVIOUS
  <2>1. /\ auditStep = "walk" /\ auditStep' = "walk" /\ level # "" /\ UNCHANGED <<walkFrom, starts>>
        /\ level \in DOMAIN cgroups /\ level # Root =>
             level' = CgParent[level] /\ effective' = e /\ limits' = limits
        /\ ~(level \in DOMAIN cgroups /\ level # Root) =>
             level' = "" /\ effective' = 0 /\ limits' = AddEntry(limits, walkFrom, e)
    BY <1>6, <2>0 DEF getEffectiveLimits
  <2>2. /\ level \in Cgroups /\ walkFrom \in Cgroups /\ Ancestors(level) \subseteq Ancestors(walkFrom)
        /\ effective \in Nat /\ starts \in Seq(Cgroups) /\ DOMAIN limits \subseteq Cgroups
        /\ \A c \in DOMAIN limits : SteadyLevels(c) => limits[c] = LowestOf(LimitsOf(c))
    BY <2>1 DEF AuditInv, WalkInv
  <2>3. e \in Nat
    BY <2>0, <2>2, TighterFacts DEF AuditInv, CgroupsOk
  <2>4. CASE level \in DOMAIN cgroups /\ level # Root
    <3>1. CgParent[level] \in Cgroups /\ Ancestors(CgParent[level]) \subseteq Ancestors(walkFrom)
      BY <2>2, AncestorFacts
    <3>2. SteadyLevels(walkFrom) =>
            /\ CgParent[level] \in DOMAIN cgroups
            /\ Tighter(LowestOf(LimitsOf(CgParent[level])), e) = LowestOf(LimitsOf(walkFrom))
      BY <2>0, <2>1, <2>4, WalkLevel DEF AuditInv
    <3>3. WalkInv'
      BY <1>0, <1>3, <2>1, <2>2, <2>3, <2>4, <3>1, <3>2 DEF WalkInv
    <3> QED
      BY <1>1, <1>2, <3>3 DEF AuditInv
  <2>5. CASE ~(level \in DOMAIN cgroups /\ level # Root)
    <3>1. SteadyLevels(walkFrom) => e = LowestOf(LimitsOf(walkFrom))
      BY <2>0, <2>1, <2>5, WalkLevel DEF AuditInv
    <3>2. /\ DOMAIN limits' = DOMAIN limits \cup {walkFrom} /\ limits'[walkFrom] = e
          /\ \A c \in DOMAIN limits \ {walkFrom} : limits'[c] = limits[c]
      BY <2>1, <2>5 DEF AddEntry
    <3>3. \A c \in DOMAIN limits' : SteadyLevels(c) => limits'[c] = LowestOf(LimitsOf(c))
      BY <2>2, <3>1, <3>2
    <3>5. /\ auditStep' = "walk" /\ starts' \in Seq(Cgroups) /\ effective' \in Nat /\ ~(level' # "")
          /\ DOMAIN limits' \subseteq Cgroups
          /\ \A c \in DOMAIN limits' : SteadyLevels(c)' => limits'[c] = LowestOf(LimitsOf(c)')
      <4>1. starts' \in Seq(Cgroups) /\ effective' = 0 /\ 0 \in Nat /\ ~(level' # "") /\ auditStep' = "walk"
        BY <2>1, <2>2, <2>5
      <4>2. DOMAIN limits' \subseteq Cgroups
        BY <2>2, <3>2
      <4> QED
        BY <1>3, <3>3, <4>1, <4>2
    <3>4. WalkInv'
      BY <3>5 DEF WalkInv
    <3> QED
      BY <1>1, <1>2, <3>4 DEF AuditInv
  <2> QED
    BY <2>4, <2>5
<1> QED
  BY <1>4, <1>5, <1>6, <1>7

LEMMA AuditStep == AuditInv /\ (AuditNext \/ UNCHANGED auditVars) => AuditInv'
<1>1. ASSUME AuditInv, AuditNext PROVE AuditInv'
  BY <1>1, TaskSteps, CgroupSteps, ScanSteps, WalkSteps DEF AuditNext
<1>2. ASSUME AuditInv, UNCHANGED auditVars PROVE AuditInv'
  <2>1. (\A c : SteadyLevels(c)' = SteadyLevels(c)) /\ (\A c : LimitsOf(c)' = LimitsOf(c))
    BY <1>2 DEF SteadyLevels, LimitsOf, auditVars
  <2>2. WalkInv'
    BY <1>2, <2>1 DEF AuditInv, WalkInv, auditVars
  <2>3. ScanInv' /\ TasksOk' /\ CgroupsOk'
    BY <1>2 DEF AuditInv, ScanInv, TasksOk, CgroupsOk, Alive, auditVars
  <2> QED
    BY <1>2, <2>2, <2>3 DEF AuditInv, auditVars
<1> QED
  BY <1>1, <1>2

LEMMA SteadyFactsFollow == AuditInv => SteadyFactsAreTold
<1> SUFFICES ASSUME AuditInv PROVE SteadyFactsAreTold
  OBVIOUS
<1>1. ASSUME auditStep = "scanned"
      PROVE  /\ \A p \in AuditPIDs \ changed : task[p].state # "" => p \in DOMAIN entries /\ entries[p] = task[p]
             /\ \A p \in DOMAIN entries : p \in AuditPIDs /\ (p \notin changed => entries[p] = task[p])
  BY <1>1 DEF AuditInv, ScanInv
<1>2. ASSUME auditStep = "scanned", NEW p \in AuditPIDs \ changed,
             task[p].state = "Z", task[p].ppid # 1, task[p].ppid \notin changed
      PROVE  ProcessStates.status = "warning" /\ ProcessStates.zombies > 0
  <2>1. p \in DOMAIN entries /\ entries[p] = task[p]
    BY <1>1, <1>2
  <2>2. p # 1 /\ task[p].ppid \in AuditPIDs /\ task[task[p].ppid].state # ""
    BY <1>2 DEF AuditInv, TasksOk, Alive
  <2>3. task[p].ppid \in DOMAIN entries
    BY <1>1, <1>2, <2>2
  <2>4. p \in InState("Z") /\ task[p].ppid \in ZombieParents
    BY <1>2, <2>1 DEF InState, ZombieParents
  <2>5. task[p].ppid \in NotReaping
    BY <1>2, <2>3, <2>4 DEF NotReaping
  <2>6. IsFiniteSet(InState("Z"))
    BY <1>1, <1>2, FS_Subset, ProcessAuditAssumption DEF InState
  <2>7. Cardinality(InState("Z")) \in Nat /\ Cardinality(InState("Z")) # 0
    BY <2>4, <2>6, FS_EmptySet, FS_CardinalityType
  <2> QED
    BY <2>5, <2>7 DEF ProcessStates
<1>3. ASSUME auditStep = "scanned", changed = {}
      PROVE  ProcessStates.zombies = Cardinality({p \in AuditPIDs : task[p].state = "Z"})
  <2>1. InState("Z") = {p \in AuditPIDs : task[p].state = "Z"}
    BY <1>1, <1>3 DEF InState
  <2> QED
    BY <2>1 DEF ProcessStates
<1>4. ASSUME auditStep = "walked", NEW c \in DOMAIN limits, Ancestors(c) \cap changedCg = {}, c \in DOMAIN cgroups
      PROVE  limits[c] = LowestOf({cgroups[d] : d \in Ancestors(c)})
  BY <1>4 DEF AuditInv, WalkInv, SteadyLevels, LimitsOf
<1> QED
  BY <1>1, <1>2, <1>3, <1>4 DEF SteadyFactsAreTold

AuditSpec == AuditInit /\ [][AuditNext]_auditVars

(* What get_zombie_processes and get_cgroup_limits say of processes and cgroups
   that nobody touched meanwhile is so (zombies, cgrouplimits.go). *)
THEOREM AuditSafety == AuditSpec => []SteadyFactsAreTold
<1>1. AuditInv /\ [AuditNext]_auditVars => AuditInv'
  BY AuditStep
<1> QED
  BY AuditInitInv, SteadyFactsFollow, <1>1, PTL DEF AuditSpec

-----------------------------------------------------------------------------
(***************************************************************************)
(* MachineTopology. A core is kept under the node, cache and core number   *)
(* of the processor it was first seen with. Such a key belongs to the core *)
(* of a processor that was on line then, or to one that was off line and   *)
(* reads as number 0 everywhere.                                           *)
(***************************************************************************)
NodeOf(c) == CpuInfo[c].node
SameCore(c, d) == CpuInfo[d].socket = CpuInfo[c].socket /\ CpuInfo[d].core = CpuInfo[c].core
SameL3(c) == {d \in online : CpuInfo[d].l3 = CpuInfo[c].l3}
KeyOf(c) == <<NodeOf(c), Min(SameL3(c)), CpuInfo[c].core>>
StillThreads(c) == {d \in online : StillCpu(d) /\ SameCore(c, d)}

Passed(c) == CpuInfo[c].core = 0 /\ CpuInfo[0].core # 0 /\ ~NodeStill(NodeOf(c))

KeyFits(k, s) ==
    /\ NodeOf(s) = k[1] /\ CpuInfo[s].core = k[3]
    /\ k[2] \in Cpus /\ CpuInfo[k[2]].l3 = CpuInfo[s].l3
    /\ StillThreads(s) \subseteq coreMap[k]

OffLineKey(k) == k[2] = 0 /\ k[3] = 0 /\ ~NodeStill(k[1])

BootKey == <<NodeOf(0), 0, CpuInfo[0].core>>

CoresInv ==
    /\ \A c \in online : StillCpu(c) /\ c \notin cpuLists[NodeOf(c)] /\ ~Passed(c) => CoresOf(c) # {}
    /\ \A k \in DOMAIN coreMap : OffLineKey(k) \/ \E s \in Cpus : KeyFits(k, s)
    /\ IF 0 \in cpuLists[NodeOf(0)] THEN \A k \in DOMAIN coreMap : k[1] # NodeOf(0)
       ELSE BootKey \in DOMAIN coreMap /\ StillThreads(0) \subseteq coreMap[BootKey]
    /\ \A k \in DOMAIN coreMap : \A c \in coreMap[k] : c \in Cpus /\ (NodeStill(NodeOf(c)) => k = KeyOf(c))

CpuInv ==
    /\ online \subseteq Cpus /\ 0 \in online
    /\ topoStep \in {"idle", "cpus", "cpusDone", "mounts", "disks", "block"}
    /\ topoStep = "idle" => topoTouched = {}
    /\ topoStep \in {"cpus", "cpusDone"} =>
         /\ cpuLists \in [NumaNodes -> SUBSET Cpus]
         /\ \A n \in NumaNodes : \A c \in cpuLists[n] : NodeOf(c) = n /\ (StillCpu(c) => c \in online)
         /\ hasL3 => CoresInv
    /\ topoStep = "cpusDone" => \A n \in NumaNodes : cpuLists[n] = {}

(* A still device mapper device keeps its number, and no other one has it. *)
StillDm(d) == <<"dm", d>> \notin topoTouched
MountOfDm(d, m) == IF dm[d] \in DOMAIN m THEN m[dm[d]] ELSE <<"", "">>
MountsKept ==
    \A d \in DOMAIN dm : StillDm(d) =>
        MountOfDm(d, mountMap) = MountOfDm(d, mounted)
BlockInv ==
    /\ disks \subseteq BlockDisks
    /\ \A d, e \in DOMAIN dm : dm[d] = dm[e] => d = e
    /\ topoStep \in {"mounts", "disks"} => MountsKept
    /\ topoStep \in {"disks", "block"} =>
         \A d \in disks : <<"disk", d>> \notin topoTouched =>
             d \in DOMAIN partTree /\ {p \in BlockParts : DiskOf[p] = d} \subseteq partTree[d]
    /\ topoStep = "block" =>
         \A d \in DOMAIN dm : StillDm(d) => d \in DOMAIN dmTree /\ dmTree[d] = MountOfDm(d, mounted)

TopologyInv == CpuInv /\ BlockInv

LEMMA HardwareFacts ==
    /\ Cpus \subseteq Nat /\ 0 \in Cpus
    /\ \A c \in Cpus : NodeOf(c) \in NumaNodes
    /\ \A c, d \in Cpus : SameCore(c, d) => CpuInfo[c].l3 = CpuInfo[d].l3 /\ NodeOf(c) = NodeOf(d)
    /\ \A c, d \in Cpus : CpuInfo[c].l3 = CpuInfo[d].l3
         => NodeOf(c) = NodeOf(d) /\ CpuInfo[c].socket = CpuInfo[d].socket
  BY MachineTopologyAssumption DEF Cpus, NumaNodes, NodeOf, SameCore

(* What ReadCpu adds for a processor that is on line. *)
LEMMA OnLineKey ==
    ASSUME CpuInv, hasL3, NEW c \in online
    PROVE  /\ l3ID(c) = Min(SameL3(c)) /\ coreID(c) = CpuInfo[c].core
           /\ siblings(c) = {d \in online : SameCore(c, d)}
           /\ l3ID(c) \in online /\ CpuInfo[l3ID(c)].l3 = CpuInfo[c].l3
           /\ \A d \in SameL3(c) : l3ID(c) <= d
<1>1. SameL3(c) \in SUBSET Nat /\ c \in SameL3(c)
  BY HardwareFacts DEF SameL3, CpuInv
<1>2. Min(SameL3(c)) \in SameL3(c) /\ \A d \in SameL3(c) : Min(SameL3(c)) <= d
  <2> HIDE DEF SameL3
  <2> QED
    BY <1>1, MinIsLeast
<1>3. l3ID(c) = Min(SameL3(c))
  BY DEF l3ID, SameL3
<1>4. coreID(c) = CpuInfo[c].core /\ siblings(c) = {d \in online : SameCore(c, d)}
  BY DEF coreID, siblings, SameCore
<1> HIDE DEF l3ID, coreID, siblings
<1>5. Min(SameL3(c)) \in online /\ CpuInfo[Min(SameL3(c))].l3 = CpuInfo[c].l3
  BY <1>2 DEF SameL3
<1> QED
  BY <1>2, <1>3, <1>4, <1>5

(* Events only make less of the machine stand still. *)
LEMMA StillShrinks ==
    ASSUME topoTouched \subseteq topoTouched'
    PROVE  /\ \A c \in Cpus : StillCpu(c)' => StillCpu(c)
           /\ \A n \in NumaNodes : NodeStill(n)' => NodeStill(n)
  BY DEF StillCpu, NodeStill

LEMMA TopologyInitInv == TopologyInit => TopologyInv
<1> SUFFICES ASSUME TopologyInit PROVE TopologyInv
  OBVIOUS
<1>1. CpuInv
  BY HardwareFacts DEF TopologyInit, CpuInv
<1>2. BlockInv
  BY DEF TopologyInit, BlockInv
<1> QED
  BY <1>1, <1>2 DEF TopologyInv

LEMMA ReadNodesInv == TopologyInv /\ ReadNodes => TopologyInv'
<1> SUFFICES ASSUME TopologyInv, ReadNodes PROVE TopologyInv'
  OBVIOUS
<1>1. /\ cpuLists' = [n \in NumaNodes |-> {c \in online : CpuInfo[c].node = n}]
      /\ topoStep = "idle" /\ topoStep' = "cpus" /\ coreMap' = << >> /\ online' = online
      /\ topoTouched' = topoTouched /\ disks' = disks /\ dm' = dm
  BY DEF ReadNodes
<1>2. online \subseteq Cpus /\ 0 \in online /\ topoTouched = {}
  BY <1>1 DEF TopologyInv, CpuInv
<1>3. \A c \in Cpus : NodeOf(c) \in NumaNodes
  BY HardwareFacts
<1>4. \A c \in online : c \in cpuLists'[NodeOf(c)]
  BY <1>1, <1>2, <1>3 DEF NodeOf
<1>5. DOMAIN coreMap' = {}
  BY <1>1
<1>6. CoresInv'
  BY <1>1, <1>2, <1>4, <1>5 DEF CoresInv, CoresOf
<1>7. CpuInv'
  BY <1>1, <1>2, <1>6 DEF CpuInv, NodeOf
<1>8. BlockInv'
  BY <1>1 DEF TopologyInv, BlockInv
<1> QED
  BY <1>7, <1>8 DEF TopologyInv

(* One processor more in the map: its key is new, or already holds it. *)
LEMMA ReadCpuInv ==
    ASSUME TopologyInv, NEW n \in NumaNodes, ReadCpu(n)
    PROVE  TopologyInv'
<1> DEFINE c == Min(cpuLists[n])
           key == <<n, l3ID(c), coreID(c)>>
<1>1. /\ topoStep = "cpus" /\ cpuLists[n] # {} /\ topoStep' = topoStep /\ coreMap' = AddCore(n, c)
      /\ cpuLists' = [cpuLists EXCEPT ![n] = @ \ {c}]
      /\ online' = online /\ topoTouched' = topoTouched /\ hasL3' = hasL3
      /\ disks' = disks /\ dm' = dm
  BY DEF ReadCpu
<1>2. CpuInv
  BY DEF TopologyInv
<1>3. cpuLists \in [NumaNodes -> SUBSET Cpus] /\ Cpus \subseteq Nat
  BY <1>1, <1>2, HardwareFacts DEF CpuInv
<1>4. c \in cpuLists[n] /\ \A d \in cpuLists[n] : c <= d
  BY <1>1, <1>3, MinIsLeast
<1> HIDE DEF c
<1>5. c \in Cpus /\ NodeOf(c) = n /\ (StillCpu(c) => c \in online)
  BY <1>1, <1>2, <1>3, <1>4 DEF CpuInv
<1>6. /\ cpuLists' \in [NumaNodes -> SUBSET Cpus] /\ cpuLists'[n] = cpuLists[n] \ {c}
      /\ \A m \in NumaNodes : cpuLists'[m] \subseteq cpuLists[m] /\ (m # n => cpuLists'[m] = cpuLists[m])
  BY <1>1, <1>3
<1>7. \A d \in Cpus : NodeOf(d) \in NumaNodes
  BY HardwareFacts
<1>8. ASSUME hasL3 PROVE CoresInv'
  <2>0. CoresInv
    BY <1>1, <1>2, <1>8 DEF CpuInv
  <2>1. /\ \A d : StillCpu(d)' <=> StillCpu(d)
        /\ \A m : NodeStill(m)' <=> NodeStill(m)
        /\ \A d : Passed(d)' <=> Passed(d)
        /\ \A d : KeyOf(d)' = KeyOf(d) /\ StillThreads(d)' = StillThreads(d)
        /\ \A k : OffLineKey(k)' <=> OffLineKey(k)
    BY <1>1 DEF StillCpu, NodeStill, Passed, KeyOf, StillThreads, OffLineKey, SameL3
  <2>2. CASE key \in DOMAIN coreMap
    <3>1. coreMap' = coreMap
      BY <1>1, <2>2 DEF AddCore
    <3>2. ASSUME StillCpu(c), ~Passed(c) PROVE CoresOf(c) # {}
      <4>1. /\ c \in online /\ l3ID(c) \in online /\ CpuInfo[l3ID(c)].l3 = CpuInfo[c].l3
            /\ coreID(c) = CpuInfo[c].core
        BY <1>2, <1>5, <1>8, <3>2, OnLineKey
      <4>2. key[1] = n /\ key[2] = l3ID(c) /\ key[3] = coreID(c)
        OBVIOUS
      <4>3. c \in StillThreads(c)
        BY <3>2, <4>1 DEF StillThreads, SameCore
      <4> HIDE DEF key
      <4>4. CASE OffLineKey(key)
        <5>1. l3ID(c) = 0 /\ CpuInfo[c].core = 0 /\ ~NodeStill(n)
          BY <4>1, <4>2, <4>4 DEF OffLineKey
        <5>2. CpuInfo[0].core = 0
          BY <1>5, <3>2, <5>1 DEF Passed
        <5>3. NodeOf(0) = n /\ SameCore(0, c) /\ 0 \in Cpus
          BY <1>5, <4>1, <5>1, <5>2, HardwareFacts DEF SameCore
        <5>4. 0 \notin cpuLists[NodeOf(0)]
          BY <2>0, <2>2, <4>2, <5>3 DEF CoresInv
        <5>5. c \in StillThreads(0) /\ BootKey \in DOMAIN coreMap /\ StillThreads(0) \subseteq coreMap[BootKey]
          BY <2>0, <3>2, <4>1, <5>3, <5>4 DEF CoresInv, StillThreads
        <5> QED
          BY <5>5 DEF CoresOf
      <4>5. CASE \E s \in Cpus : KeyFits(key, s)
        <5>1. PICK s \in Cpus : KeyFits(key, s)
          BY <4>5
        <5>2. CpuInfo[s].l3 = CpuInfo[c].l3 /\ CpuInfo[s].core = CpuInfo[c].core
          BY <4>1, <4>2, <5>1 DEF KeyFits
        <5>3. SameCore(s, c)
          BY <1>5, <5>2, HardwareFacts DEF SameCore
        <5>4. c \in coreMap[key]
          BY <3>2, <4>1, <5>1, <5>3 DEF KeyFits, StillThreads
        <5> QED
          BY <2>2, <5>4 DEF CoresOf
      <4> QED
        BY <2>0, <2>2, <4>4, <4>5 DEF CoresInv
    <3>3. ASSUME 0 \in cpuLists[NodeOf(0)] PROVE 0 \in cpuLists'[NodeOf(0)]
      <4>1. CASE NodeOf(0) = n
        <5>1. c # 0
          <6>1. key[1] = n
            OBVIOUS
          <6> QED
            BY <2>0, <2>2, <3>3, <4>1, <6>1 DEF CoresInv
        <5>2. c <= 0 /\ c \in Nat
          BY <1>3, <1>4, <1>5, <3>3, <4>1
        <5> QED
          BY <5>1, <5>2
      <4> QED
        BY <1>6, <1>7, <3>3, <4>1, HardwareFacts
    <3>4. \A d \in online : StillCpu(d) /\ d \notin cpuLists'[NodeOf(d)] /\ ~Passed(d) => CoresOf(d) # {}
      <4> SUFFICES ASSUME NEW d \in online, StillCpu(d), d \notin cpuLists'[NodeOf(d)], ~Passed(d)
                   PROVE  CoresOf(d) # {}
        OBVIOUS
      <4>1. d \in Cpus
        BY <1>2 DEF CpuInv
      <4>2. d \in cpuLists[NodeOf(d)] => d = c
        BY <1>6, <1>7, <4>1
      <4> QED
        BY <2>0, <3>2, <4>2 DEF CoresInv
    <3>5. IF 0 \in cpuLists'[NodeOf(0)] THEN \A k \in DOMAIN coreMap : k[1] # NodeOf(0)
          ELSE BootKey \in DOMAIN coreMap /\ StillThreads(0) \subseteq coreMap[BootKey]
      <4>1. 0 \in cpuLists[NodeOf(0)] <=> 0 \in cpuLists'[NodeOf(0)]
        BY <1>6, <1>7, <3>3, HardwareFacts
      <4> QED
        BY <2>0, <4>1 DEF CoresInv
    <3>6. \A d : CoresOf(d)' = CoresOf(d)
      BY <3>1 DEF CoresOf
    <3>7. \A k, s : KeyFits(k, s)' <=> KeyFits(k, s)
      BY <2>1, <3>1 DEF KeyFits
    <3> HIDE DEF key
    <3> QED
      BY <1>1, <2>0, <2>1, <3>1, <3>4, <3>5, <3>6, <3>7 DEF CoresInv, BootKey
  <2>3. CASE key \notin DOMAIN coreMap
    <3>1. coreMap' = [k \in DOMAIN coreMap \cup {key} |-> IF k = key THEN siblings(c) ELSE coreMap[k]]
      BY <1>1, <2>3 DEF AddCore
    <3>2. key[1] = n /\ key[2] = l3ID(c) /\ key[3] = coreID(c)
      OBVIOUS
    <3>k. key = <<n, l3ID(c), coreID(c)>>
      OBVIOUS
    <3> HIDE DEF key
    <3>3. DOMAIN coreMap' = DOMAIN coreMap \cup {key} /\ coreMap'[key] = siblings(c)
          /\ \A k \in DOMAIN coreMap : coreMap'[k] = coreMap[k]
      BY <2>3, <3>1
    <3>4. ASSUME c \notin online
          PROVE  siblings(c) = {c} /\ l3ID(c) = 0 /\ coreID(c) = 0 /\ ~NodeStill(n)
      BY <1>5, <3>4 DEF siblings, l3ID, coreID, NodeStill, NodeOf
    <3>5. ASSUME c \in online
          PROVE  /\ siblings(c) = {d \in online : SameCore(c, d)} /\ key = KeyOf(c)
                 /\ l3ID(c) = Min(SameL3(c)) /\ coreID(c) = CpuInfo[c].core
                 /\ l3ID(c) \in online /\ CpuInfo[l3ID(c)].l3 = CpuInfo[c].l3
                 /\ \A d \in SameL3(c) : l3ID(c) <= d
      <4>1. /\ siblings(c) = {d \in online : SameCore(c, d)}
            /\ l3ID(c) = Min(SameL3(c)) /\ coreID(c) = CpuInfo[c].core
            /\ l3ID(c) \in online /\ CpuInfo[l3ID(c)].l3 = CpuInfo[c].l3
            /\ \A d \in SameL3(c) : l3ID(c) <= d
        BY <1>2, <1>8, <3>5, OnLineKey
      <4>2. key = KeyOf(c)
        BY <1>5, <3>k, <4>1 DEF KeyOf
      <4> QED
        BY <4>1, <4>2
    <3>6. \A d \in online : StillCpu(d) /\ d \notin cpuLists'[NodeOf(d)] /\ ~Passed(d) => CoresOf(d)' # {}
      <4> SUFFICES ASSUME NEW d \in online, StillCpu(d), d \notin cpuLists'[NodeOf(d)], ~Passed(d)
                   PROVE  CoresOf(d)' # {}
        OBVIOUS
      <4>1. d \in Cpus /\ (d \in cpuLists[NodeOf(d)] => d = c)
        BY <1>2, <1>6, <1>7 DEF CpuInv
      <4>2. CASE d = c
        <5>1. c \in coreMap'[key]
          BY <3>3, <3>5, <4>2 DEF SameCore
        <5> QED
          BY <3>3, <4>2, <5>1 DEF CoresOf
      <4>3. CASE d # c
        <5>1. CoresOf(d) # {}
          BY <2>0, <4>1, <4>3 DEF CoresInv
        <5> QED
          BY <3>3, <5>1 DEF CoresOf
      <4> QED
        BY <4>2, <4>3
    <3>7. \A k \in DOMAIN coreMap' : OffLineKey(k) \/ \E s \in Cpus : KeyFits(k, s)'
      <4>1. ASSUME NEW k \in DOMAIN coreMap, NEW s \in Cpus, KeyFits(k, s) PROVE KeyFits(k, s)'
        BY <2>1, <3>3, <4>1 DEF KeyFits
      <4>0. PICK k0, c0 : k0 = key /\ c0 = c
        OBVIOUS
      <4>2. ASSUME c \in online PROVE KeyFits(k0, c0)'
        <5>1. StillThreads(c) \subseteq coreMap'[key]
          BY <3>3, <3>5, <4>2 DEF StillThreads
        <5>2. l3ID(c) \in Cpus
          BY <1>2, <3>5, <4>2 DEF CpuInv
        <5>3. StillThreads(c0)' \subseteq coreMap'[k0]
          BY <2>1, <4>0, <5>1
        <5>4. /\ NodeOf(c0) = k0[1] /\ CpuInfo[c0].core = k0[3]
              /\ k0[2] \in Cpus /\ CpuInfo[k0[2]].l3 = CpuInfo[c0].l3
          BY <1>5, <3>2, <3>5, <4>0, <4>2, <5>2
        <5> QED
          BY <5>3, <5>4 DEF KeyFits
      <4>3. ASSUME c \notin online PROVE OffLineKey(key)
        BY <3>2, <3>4, <4>3 DEF OffLineKey
      <4>4. \A k \in DOMAIN coreMap : OffLineKey(k) \/ \E s \in Cpus : KeyFits(k, s)
        BY <2>0 DEF CoresInv
      <4>5. c0 \in Cpus
        BY <1>5, <4>0
      <4>6. OffLineKey(k0) \/ KeyFits(k0, c0)'
        BY <4>0, <4>2, <4>3
      <4>7. DOMAIN coreMap' = DOMAIN coreMap \cup {k0}
        BY <3>3, <4>0
      <4> QED
        BY <4>1, <4>4, <4>5, <4>6, <4>7
    <3>8. IF 0 \in cpuLists'[NodeOf(0)] THEN \A k \in DOMAIN coreMap' : k[1] # NodeOf(0)
          ELSE BootKey \in DOMAIN coreMap' /\ StillThreads(0) \subseteq coreMap'[BootKey]
      <4>0. 0 \in Cpus /\ 0 \in online
        BY <1>2, HardwareFacts DEF CpuInv
      <4>1. CASE NodeOf(0) # n
        <5>1. cpuLists'[NodeOf(0)] = cpuLists[NodeOf(0)]
          BY <1>6, <1>7, <4>0, <4>1
        <5> QED
          BY <2>0, <3>2, <3>3, <4>1, <5>1 DEF CoresInv
      <4>2. CASE NodeOf(0) = n /\ c # 0
        <5>1. 0 \notin cpuLists[n]
          <6>1. c \in Nat /\ ~(c <= 0)
            BY <1>3, <1>5, <4>2
          <6> QED
            BY <1>4, <6>1
        <5> QED
          BY <1>6, <2>0, <3>3, <4>2, <5>1 DEF CoresInv
      <4>3. CASE NodeOf(0) = n /\ c = 0
        <5>1. 0 \notin cpuLists'[NodeOf(0)]
          BY <1>6, <4>3
        <5>2. l3ID(0) = 0
          <6> HIDE DEF l3ID
          <6>1. 0 \in SameL3(0)
            BY <4>0 DEF SameL3
          <6>2. l3ID(0) <= 0 /\ l3ID(0) \in online
            BY <3>5, <4>0, <4>3, <6>1
          <6>3. l3ID(0) \in Nat
            BY <1>2, <1>3, <6>2 DEF CpuInv
          <6> QED
            BY <6>2, <6>3
        <5>3. key = BootKey
          BY <3>k, <3>5, <4>0, <4>3, <5>2 DEF BootKey
        <5>4. StillThreads(0) \subseteq coreMap'[key]
          BY <3>3, <3>5, <4>0, <4>3 DEF StillThreads
        <5> QED
          BY <3>3, <5>1, <5>3, <5>4
      <4> QED
        BY <4>1, <4>2, <4>3
    <3>9. \A k \in DOMAIN coreMap' : \A d \in coreMap'[k] : d \in Cpus /\ (NodeStill(NodeOf(d)) => k = KeyOf(d))
      <4>1. ASSUME NEW d \in siblings(c) PROVE d \in Cpus /\ (NodeStill(NodeOf(d)) => key = KeyOf(d))
        <5>1. CASE c \in online
          <6>1. d \in online /\ SameCore(c, d) /\ d \in Cpus
            BY <1>2, <3>5, <4>1, <5>1 DEF CpuInv
          <6>2. NodeOf(d) = NodeOf(c) /\ CpuInfo[d].l3 = CpuInfo[c].l3 /\ CpuInfo[d].core = CpuInfo[c].core
            BY <1>5, <6>1, HardwareFacts DEF SameCore
          <6>3. SameL3(d) = SameL3(c)
            BY <6>2 DEF SameL3
          <6> QED
            BY <3>5, <5>1, <6>1, <6>2, <6>3 DEF KeyOf
        <5>2. CASE c \notin online
          BY <1>5, <3>4, <4>1, <5>2
        <5> QED
          BY <5>1, <5>2
      <4> QED
        BY <2>0, <3>3, <4>1 DEF CoresInv
    <3> QED
      BY <1>1, <2>1, <3>6, <3>7, <3>8, <3>9 DEF CoresInv, BootKey
  <2> QED
    BY <2>2, <2>3
<1>9. CpuInv'
  <2>1. \A m \in NumaNodes : \A d \in cpuLists'[m] : NodeOf(d) = m /\ (StillCpu(d)' => d \in online')
    BY <1>1, <1>2, <1>6 DEF CpuInv, StillCpu
  <2> QED
    BY <1>1, <1>2, <1>6, <1>8, <2>1 DEF CpuInv
<1>10. BlockInv'
  BY <1>1 DEF TopologyInv, BlockInv
<1> QED
  BY <1>9, <1>10 DEF TopologyInv

(* A processor goes on or off line: it does not stand still any more. *)
LEMMA HotplugInv ==
    ASSUME TopologyInv, NEW c \in Cpus, Hotplug(c)
    PROVE  TopologyInv'
<1>1. /\ c # 0 /\ online' = IF c \in online THEN online \ {c} ELSE online \cup {c}
      /\ topoTouched' = IF topoStep = "idle" THEN {} ELSE topoTouched \cup {<<"cpu", c>>}
      /\ topoStep' = topoStep /\ cpuLists' = cpuLists /\ coreMap' = coreMap /\ hasL3' = hasL3
      /\ mountMap' = mountMap /\ partTree' = partTree /\ dmTree' = dmTree
      /\ disks' = disks /\ dm' = dm /\ mounted' = mounted
  BY DEF Hotplug, TopoEvent, topoTool
<1>2. CpuInv /\ BlockInv
  BY DEF TopologyInv
<1>3. topoTouched \subseteq topoTouched'
  BY <1>1, <1>2 DEF CpuInv
<1>4. /\ \A d \in Cpus : StillCpu(d)' => StillCpu(d)
      /\ \A n \in NumaNodes : NodeStill(n)' => NodeStill(n)
  BY <1>3, StillShrinks
<1>5. topoStep # "idle" => ~StillCpu(c)' /\ ~NodeStill(NodeOf(c))'
  BY <1>1 DEF StillCpu, NodeStill, NodeOf
<1>6. \A d \in Cpus : topoStep # "idle" /\ StillCpu(d)' => (d \in online' <=> d \in online)
  BY <1>1, <1>5
<1>7. ASSUME topoStep \in {"cpus", "cpusDone"}, hasL3 PROVE CoresInv'
  <2>0. CoresInv /\ topoStep # "idle"
    BY <1>2, <1>7 DEF CpuInv
  <2>1. \A d : CoresOf(d)' = CoresOf(d)
    BY <1>1 DEF CoresOf
  <2>2. \A d \in Cpus : NodeOf(d) \in NumaNodes
    BY HardwareFacts
  <2>3. \A d \in Cpus : ~Passed(d)' => ~Passed(d)
    BY <1>4, <2>2 DEF Passed
  <2>4. online' \subseteq Cpus
    BY <1>1, <1>2 DEF CpuInv
  <2>5. \A d \in online' : StillCpu(d)' /\ d \notin cpuLists'[NodeOf(d)] /\ ~Passed(d)' => CoresOf(d)' # {}
    BY <1>1, <1>4, <1>6, <2>0, <2>1, <2>3, <2>4 DEF CoresInv
  <2>6. \A s : StillThreads(s)' \subseteq StillThreads(s)
    BY <1>4, <1>6, <2>0, <2>4 DEF StillThreads
  <2>7. \A k \in DOMAIN coreMap' : OffLineKey(k)' \/ \E s \in Cpus : KeyFits(k, s)'
    <3>1. \A k, s : KeyFits(k, s) => KeyFits(k, s)'
      BY <1>1, <2>6 DEF KeyFits
    <3>2. \A k : OffLineKey(k) => OffLineKey(k)'
      BY <1>3 DEF OffLineKey, NodeStill, StillCpu
    <3> QED
      BY <1>1, <2>0, <3>1, <3>2 DEF CoresInv
  <2>8. IF 0 \in cpuLists'[NodeOf(0)] THEN \A k \in DOMAIN coreMap' : k[1] # NodeOf(0)
        ELSE BootKey \in DOMAIN coreMap' /\ StillThreads(0)' \subseteq coreMap'[BootKey]
    BY <1>1, <2>0, <2>6 DEF CoresInv
  <2>9. ASSUME NEW k \in DOMAIN coreMap, NEW d \in coreMap[k]
        PROVE  d \in Cpus /\ (NodeStill(NodeOf(d))' => k = KeyOf(d)')
    <3>1. d \in Cpus /\ (NodeStill(NodeOf(d)) => k = KeyOf(d))
      BY <2>0 DEF CoresInv
    <3>2. ASSUME NodeStill(NodeOf(d))' PROVE SameL3(d)' = SameL3(d)
      <4>1. NodeOf(d) # NodeOf(c)
        BY <1>5, <2>0, <3>2
      <4>2. CpuInfo[c].l3 # CpuInfo[d].l3
        BY <3>1, <4>1, HardwareFacts
      <4> QED
        BY <1>1, <4>2 DEF SameL3
    <3>3. NodeStill(NodeOf(d))' => NodeStill(NodeOf(d))
      BY <1>4, <2>2, <3>1
    <3> QED
      BY <3>1, <3>2, <3>3 DEF KeyOf
  <2> QED
    BY <1>1, <2>5, <2>7, <2>8, <2>9 DEF CoresInv, BootKey
<1>8. CpuInv'
  <2>1. online' \subseteq Cpus /\ 0 \in online'
    BY <1>1, <1>2 DEF CpuInv
  <2>2. topoStep \in {"cpus", "cpusDone"} =>
          \A n \in NumaNodes : \A d \in cpuLists[n] : d \in Cpus /\ NodeOf(d) = n /\ (StillCpu(d)' => d \in online')
    BY <1>2, <1>4, <1>6 DEF CpuInv
  <2> QED
    BY <1>1, <1>2, <1>7, <2>1, <2>2 DEF CpuInv
<1>9. BlockInv'
  <2>1. \A d : StillDm(d)' => StillDm(d)
    BY <1>3 DEF StillDm
  <2>2. \A d : <<"disk", d>> \notin topoTouched' => <<"disk", d>> \notin topoTouched
    BY <1>3
  <2>3. \A d : MountOfDm(d, mounted)' = MountOfDm(d, mounted) /\ MountOfDm(d, mountMap)' = MountOfDm(d, mountMap)
    BY <1>1 DEF MountOfDm
  <2> QED
    BY <1>1, <1>2, <2>1, <2>2, <2>3 DEF BlockInv, MountsKept
<1> QED
  BY <1>8, <1>9 DEF TopologyInv

(* Devices do not concern the processors. *)
LEMMA DeviceKeepsCpus ==
    ASSUME CpuInv, NEW w, w[1] # "cpu", TopoEvent(w), online' = online
    PROVE  CpuInv'
<1>1. /\ topoTouched' = IF topoStep = "idle" THEN {} ELSE topoTouched \cup {w}
      /\ topoStep' = topoStep /\ cpuLists' = cpuLists /\ coreMap' = coreMap /\ hasL3' = hasL3
  BY DEF TopoEvent, topoTool
<1>2. \A c : <<"cpu", c>> # w
  OBVIOUS
<1>3. \A c : StillCpu(c)' <=> StillCpu(c)
  BY <1>1, <1>2 DEF StillCpu, CpuInv
<1>4. /\ \A n : NodeStill(n)' <=> NodeStill(n)
      /\ \A d : StillThreads(d)' = StillThreads(d)
  BY <1>3 DEF NodeStill, StillThreads
<1>5. /\ \A d : Passed(d)' <=> Passed(d)
      /\ \A d : KeyOf(d)' = KeyOf(d) /\ CoresOf(d)' = CoresOf(d)
      /\ \A k : OffLineKey(k)' <=> OffLineKey(k)
      /\ \A k, s : KeyFits(k, s)' <=> KeyFits(k, s)
  BY <1>1, <1>4 DEF Passed, KeyOf, OffLineKey, SameL3, CoresOf, KeyFits
<1>6. CoresInv => CoresInv'
  BY <1>1, <1>3, <1>4, <1>5 DEF CoresInv, BootKey
<1> QED
  BY <1>1, <1>3, <1>6 DEF CpuInv

LEMMA DiskPlugInv ==
    ASSUME TopologyInv, NEW d \in BlockDisks, DiskPlug(d)
    PROVE  TopologyInv'
<1>1. /\ disks' = IF d \in disks THEN disks \ {d} ELSE disks \cup {d}
      /\ topoTouched' = IF topoStep = "idle" THEN {} ELSE topoTouched \cup {<<"disk", d>>}
      /\ topoStep' = topoStep /\ mountMap' = mountMap /\ partTree' = partTree /\ dmTree' = dmTree
      /\ dm' = dm /\ mounted' = mounted /\ online' = online
  BY DEF DiskPlug, TopoEvent, topoTool
<1>2. CpuInv /\ BlockInv
  BY DEF TopologyInv
<1>3. CpuInv'
  BY <1>1, <1>2, DeviceKeepsCpus DEF DiskPlug
<1>4. topoTouched \subseteq topoTouched'
  BY <1>1, <1>2 DEF CpuInv
<1>5. topoStep # "idle" => \A e \in disks' : <<"disk", e>> \notin topoTouched' =>
         e \in disks /\ <<"disk", e>> \notin topoTouched
  BY <1>1, <1>4
<1>6. BlockInv'
  <2>1. \A e : StillDm(e)' => StillDm(e)
    BY <1>4 DEF StillDm
  <2>2. \A e : MountOfDm(e, mounted)' = MountOfDm(e, mounted) /\ MountOfDm(e, mountMap)' = MountOfDm(e, mountMap)
    BY <1>1 DEF MountOfDm
  <2> QED
    BY <1>1, <1>2, <1>5, <2>1, <2>2 DEF BlockInv, MountsKept
<1> QED
  BY <1>3, <1>6 DEF TopologyInv

(* A device mapper device comes, goes or changes its mount: the others keep *)
(* their numbers, and the mounts of those.                                  *)
LEMMA DmEventInv ==
    ASSUME TopologyInv, NEW d \in DmDevices, TopoEvent(<<"dm", d>>),
           online' = online, disks' = disks,
           \A e \in DOMAIN dm' : e # d => e \in DOMAIN dm /\ dm'[e] = dm[e],
           \A e, f \in DOMAIN dm' : dm'[e] = dm'[f] => e = f,
           \A e \in DOMAIN dm : e # d => MountOfDm(e, mounted) = MountOfDm(e, mounted)'
    PROVE  TopologyInv'
<1>1. /\ topoTouched' = IF topoStep = "idle" THEN {} ELSE topoTouched \cup {<<"dm", d>>}
      /\ topoStep' = topoStep /\ mountMap' = mountMap /\ partTree' = partTree /\ dmTree' = dmTree
  BY DEF TopoEvent, topoTool
<1>2. CpuInv /\ BlockInv
  BY DEF TopologyInv
<1>3. CpuInv'
  BY <1>2, DeviceKeepsCpus
<1>4. topoTouched \subseteq topoTouched'
  BY <1>1, <1>2 DEF CpuInv
<1>5. topoStep # "idle" => \A e \in DOMAIN dm' : StillDm(e)' =>
         e # d /\ e \in DOMAIN dm /\ dm'[e] = dm[e] /\ StillDm(e)
  BY <1>1, <1>4 DEF StillDm
<1>6. topoStep # "idle" => \A e \in DOMAIN dm' : StillDm(e)' =>
         /\ MountOfDm(e, mounted)' = MountOfDm(e, mounted)
         /\ MountOfDm(e, mountMap)' = MountOfDm(e, mountMap)
  BY <1>1, <1>5 DEF MountOfDm
<1>7. ASSUME topoStep \in {"mounts", "disks"} PROVE MountsKept'
  BY <1>2, <1>5, <1>6, <1>7 DEF BlockInv, MountsKept
<1>8. ASSUME topoStep = "block", NEW e \in DOMAIN dm', StillDm(e)'
      PROVE  e \in DOMAIN dmTree' /\ dmTree'[e] = MountOfDm(e, mounted)'
  BY <1>1, <1>2, <1>5, <1>6, <1>8 DEF BlockInv
<1>9. BlockInv'
  <2>1. \A e : <<"disk", e>> \notin topoTouched' => <<"disk", e>> \notin topoTouched
    BY <1>4
  <2> QED
    BY <1>1, <1>2, <1>7, <1>8, <2>1 DEF BlockInv
<1> QED
  BY <1>3, <1>9 DEF TopologyInv

LEMMA DmCreateInv ==
    ASSUME TopologyInv, NEW d \in DmDevices, NEW n \in DevNumbers, DmCreate(d, n)
    PROVE  TopologyInv'
<1>1. /\ d \notin DOMAIN dm /\ \A e \in DOMAIN dm : dm[e] # n
      /\ dm' = [e \in DOMAIN dm \cup {d} |-> IF e = d THEN n ELSE dm[e]]
      /\ online' = online /\ disks' = disks /\ mounted' = mounted
  BY DEF DmCreate
<1>2. DOMAIN dm' = DOMAIN dm \cup {d} /\ dm'[d] = n /\ \A e \in DOMAIN dm : dm'[e] = dm[e]
  BY <1>1
<1>3. \A e, f \in DOMAIN dm' : dm'[e] = dm'[f] => e = f
  BY <1>1, <1>2 DEF TopologyInv, BlockInv
<1>4. \A e \in DOMAIN dm : MountOfDm(e, mounted) = MountOfDm(e, mounted)'
  BY <1>1, <1>2 DEF MountOfDm
<1> QED
  BY <1>1, <1>2, <1>3, <1>4, DmEventInv DEF DmCreate

LEMMA DmRemoveInv ==
    ASSUME TopologyInv, NEW d \in DmDevices, DmRemove(d)
    PROVE  TopologyInv'
<1>1. /\ dm' = [e \in DOMAIN dm \ {d} |-> dm[e]]
      /\ online' = online /\ disks' = disks /\ mounted' = mounted
  BY DEF DmRemove
<1>2. DOMAIN dm' = DOMAIN dm \ {d} /\ \A e \in DOMAIN dm' : dm'[e] = dm[e]
  BY <1>1
<1>3. \A e, f \in DOMAIN dm' : dm'[e] = dm'[f] => e = f
  BY <1>2 DEF TopologyInv, BlockInv
<1>4. \A e \in DOMAIN dm : e # d => MountOfDm(e, mounted) = MountOfDm(e, mounted)'
  BY <1>1, <1>2 DEF MountOfDm
<1> QED
  BY <1>1, <1>2, <1>3, <1>4, DmEventInv DEF DmRemove

LEMMA MountChangesInv ==
    ASSUME TopologyInv, NEW d \in DmDevices, MountChanges(d)
    PROVE  TopologyInv'
<1>1. /\ d \in DOMAIN dm /\ dm' = dm /\ online' = online /\ disks' = disks
      /\ mounted' = IF dm[d] \in DOMAIN mounted THEN [n \in DOMAIN mounted \ {dm[d]} |-> mounted[n]]
                    ELSE [n \in DOMAIN mounted \cup {dm[d]} |-> IF n = dm[d] THEN MountOf(d) ELSE mounted[n]]
  BY DEF MountChanges
<1>2. \A e, f \in DOMAIN dm : dm[e] = dm[f] => e = f
  BY DEF TopologyInv, BlockInv
<1>3. \A n : n # dm[d] => (n \in DOMAIN mounted' <=> n \in DOMAIN mounted)
        /\ (n \in DOMAIN mounted => mounted'[n] = mounted[n])
  BY <1>1
<1>4. \A e \in DOMAIN dm : e # d => MountOfDm(e, mounted) = MountOfDm(e, mounted)'
  BY <1>1, <1>2, <1>3 DEF MountOfDm
<1> QED
  BY <1>1, <1>2, <1>4, DmEventInv DEF MountChanges

(* What a step that reads or that is about a device leaves alone keeps the cores. *)
LEMMA CoresUnchanged ==
    ASSUME online' = online, topoTouched' = topoTouched, cpuLists' = cpuLists, coreMap' = coreMap, CoresInv
    PROVE  CoresInv'
<1>1. \A c : StillCpu(c)' = StillCpu(c) /\ CoresOf(c)' = CoresOf(c) /\ SameL3(c)' = SameL3(c)
             /\ StillThreads(c)' = StillThreads(c)
  BY DEF StillCpu, CoresOf, SameL3, StillThreads
<1>2. \A n : NodeStill(n)' = NodeStill(n)
  BY <1>1 DEF NodeStill
<1>3. \A c : Passed(c)' = Passed(c) /\ KeyOf(c)' = KeyOf(c)
  BY <1>1, <1>2 DEF Passed, KeyOf
<1>4. \A k : OffLineKey(k)' = OffLineKey(k)
  BY <1>2 DEF OffLineKey
<1>5. \A k, s : KeyFits(k, s)' = KeyFits(k, s)
  BY <1>1 DEF KeyFits
<1> HIDE DEF StillCpu, CoresOf, SameL3, StillThreads, NodeStill, Passed, KeyOf, OffLineKey, KeyFits
<1> QED
  BY <1>1, <1>2, <1>3, <1>4, <1>5 DEF CoresInv, BootKey

LEMMA BlockReadInv ==
    ASSUME TopologyInv, parseMountInfo \/ discoverPhysicalDevices \/ discoverDeviceMapper \/ GetTopology
    PROVE  TopologyInv'
<1>0. /\ online' = online /\ topoTouched' = topoTouched /\ cpuLists' = cpuLists /\ coreMap' = coreMap
      /\ hasL3' = hasL3 /\ disks' = disks /\ dm' = dm /\ mounted' = mounted
  BY DEF parseMountInfo, discoverPhysicalDevices, discoverDeviceMapper, GetTopology
<1>1. CpuInv /\ BlockInv
  BY DEF TopologyInv
<1>2. CoresInv => CoresInv'
  BY <1>0, CoresUnchanged
<1>3. CASE parseMountInfo
  <2>1. topoStep' = "mounts" /\ mountMap' = mounted
    BY <1>3 DEF parseMountInfo
  <2>2. MountsKept'
    BY <1>0, <2>1 DEF MountsKept, MountOfDm
  <2> QED
    BY <1>0, <1>1, <2>1, <2>2 DEF TopologyInv, CpuInv, BlockInv
<1>4. CASE discoverPhysicalDevices
  <2>1. /\ topoStep' = "disks" /\ topoStep = "mounts" /\ partTree' = [d \in disks |-> discoverPartitions(d)]
        /\ mountMap' = mountMap
    BY <1>4 DEF discoverPhysicalDevices
  <2>2. MountsKept'
    BY <1>0, <1>1, <2>1 DEF MountsKept, MountOfDm, StillDm, BlockInv
  <2>3. \A d \in disks' : d \in DOMAIN partTree' /\ {p \in BlockParts : DiskOf[p] = d} \subseteq partTree'[d]
    BY <1>0, <2>1, MachineTopologyAssumption DEF discoverPartitions
  <2> QED
    BY <1>0, <1>1, <2>1, <2>2, <2>3 DEF TopologyInv, CpuInv, BlockInv
<1>5. CASE discoverDeviceMapper
  <2>1. /\ topoStep' = "block" /\ topoStep = "disks" /\ partTree' = partTree
        /\ dmTree' = [d \in DOMAIN dm |-> MountOfDm(d, mountMap)]
    BY <1>5 DEF discoverDeviceMapper, MountOfDm
  <2>2. \A d \in DOMAIN dm' : StillDm(d)' => d \in DOMAIN dmTree' /\ dmTree'[d] = MountOfDm(d, mounted)'
    BY <1>0, <1>1, <2>1 DEF BlockInv, MountsKept, StillDm, MountOfDm
  <2> QED
    BY <1>0, <1>1, <2>1, <2>2 DEF TopologyInv, CpuInv, BlockInv
<1>6. CASE GetTopology
  <2>1. /\ topoStep = "cpus" /\ topoStep' = "cpusDone" /\ \A n \in NumaNodes : cpuLists[n] = {}
    BY <1>6 DEF GetTopology
  <2>2. CpuInv'
    BY <1>0, <1>1, <1>2, <2>1 DEF CpuInv, StillCpu
  <2> QED
    BY <1>0, <1>1, <2>1, <2>2 DEF TopologyInv, BlockInv
<1> QED
  BY <1>3, <1>4, <1>5, <1>6

LEMMA TopologyUnchanged == TopologyInv /\ UNCHANGED topoVars => TopologyInv'
<1> SUFFICES ASSUME TopologyInv, UNCHANGED topoVars PROVE TopologyInv'
  OBVIOUS
<1>1. CoresInv => CoresInv'
  BY CoresUnchanged DEF topoVars
<1>2. CpuInv'
  BY <1>1 DEF topoVars, TopologyInv, CpuInv, StillCpu
<1>3. BlockInv'
  BY DEF topoVars, TopologyInv, BlockInv, MountsKept, MountOfDm, StillDm
<1> QED
  BY <1>2, <1>3 DEF TopologyInv

LEMMA TopologyStep == TopologyInv /\ (CpuNext \/ BlockNext \/ UNCHANGED topoVars) => TopologyInv'
<1> SUFFICES ASSUME TopologyInv, CpuNext \/ BlockNext \/ UNCHANGED topoVars PROVE TopologyInv'
  OBVIOUS
<1>1. CASE CpuNext
  <2>1. CASE \E c \in Cpus : Hotplug(c)
    BY <2>1, HotplugInv
  <2>2. CASE ReadNodes
    BY <2>2, ReadNodesInv
  <2>3. CASE \E n \in NumaNodes : ReadCpu(n)
    BY <2>3, ReadCpuInv
  <2>4. CASE GetTopology
    BY <2>4, BlockReadInv
  <2> QED
    BY <1>1, <2>1, <2>2, <2>3, <2>4 DEF CpuNext
<1>2. CASE BlockNext
  BY <1>2, DiskPlugInv, DmCreateInv, DmRemoveInv, MountChangesInv, BlockReadInv DEF BlockNext
<1>3. CASE UNCHANGED topoVars
  BY <1>3, TopologyUnchanged
<1> QED
  BY <1>1, <1>2, <1>3

LEMMA SteadyPartsFollow == TopologyInv => SteadyPartsAreTold
<1> SUFFICES ASSUME TopologyInv PROVE SteadyPartsAreTold
  OBVIOUS
<1>1. ASSUME topoStep = "cpusDone", hasL3, NEW c \in online, StillCpu(c)
      PROVE  /\ CpuInfo[c].core # 0 \/ CpuInfo[0].core = 0 => CoresOf(c) # {}
             /\ NodeStill(CpuInfo[c].node) => Cardinality(CoresOf(c)) = 1
  <2>1. CoresInv /\ c \in Cpus
    BY <1>1 DEF TopologyInv, CpuInv
  <2>2. c \notin cpuLists[NodeOf(c)]
    BY <1>1, <2>1, HardwareFacts DEF TopologyInv, CpuInv
  <2>3. ~Passed(c) => CoresOf(c) # {}
    BY <1>1, <2>1, <2>2 DEF CoresInv
  <2>4. ASSUME NodeStill(NodeOf(c)) PROVE Cardinality(CoresOf(c)) = 1
    <3>1. ~Passed(c)
      BY <2>4 DEF Passed
    <3>2. PICK k : k \in CoresOf(c)
      BY <2>3, <3>1
    <3>3. \A j \in CoresOf(c) : j = KeyOf(c)
      BY <2>1, <2>4 DEF CoresInv, CoresOf
    <3>4. CoresOf(c) = {k}
      BY <3>2, <3>3
    <3> QED
      BY <3>4, FS_Singleton
  <2> QED
    BY <2>3, <2>4 DEF Passed, NodeOf
<1>2. topoStep = "block" =>
         /\ \A d \in disks : <<"disk", d>> \notin topoTouched =>
              d \in DOMAIN partTree /\ {p \in BlockParts : DiskOf[p] = d} \subseteq partTree[d]
         /\ \A d \in DOMAIN dm : <<"dm", d>> \notin topoTouched =>
              d \in DOMAIN dmTree /\
              dmTree[d] = IF dm[d] \in DOMAIN mounted THEN mounted[dm[d]] ELSE <<"", "">>
  BY DEF TopologyInv, BlockInv, StillDm, MountOfDm
<1> QED
  BY <1>1, <1>2 DEF SteadyPartsAreTold

TopologySpec == TopologyInit /\ [][CpuNext \/ BlockNext]_topoVars

(* On every machine, the processors, mounts and partitions that nothing
   happened to are in the topology (sys/hardware, block.go). *)
THEOREM TopologySafety == TopologySpec => []SteadyPartsAreTold
<1>1. TopologyInv /\ [CpuNext \/ BlockNext]_topoVars => TopologyInv'
  BY TopologyStep
<1> QED
  BY TopologyInitInv, SteadyPartsFollow, <1>1, PTL DEF TopologySpec

-----------------------------------------------------------------------------
(***************************************************************************)
(* StorageHealth. Counters only grow, so that one which is not positive is *)
(* zero.                                                                   *)
(***************************************************************************)
PoolType == [online : BOOLEAN, errors : Nat, capacity : Nat]
Ext4Type == [errors : Nat, ro : BOOLEAN]
SataType == [passed : BOOLEAN, sectors : Nat, hot : BOOLEAN]
NvmeType == [critical : Nat, media : Nat]
StorageInv ==
    /\ members \in [RaidDevs -> {"in_sync", "faulty", "spare", "removed"}]
    /\ pool \in PoolType /\ ext4 \in Ext4Type /\ btrfsErrs \in Nat
    /\ pathState \in [Paths -> {"running", "offline", ""}]
    /\ sata \in [Disks -> SataType] /\ nvme \in [Disks -> NvmeType]

LEMMA NotPositive == \A n \in Nat : n + 1 \in Nat /\ (~(n > 0) => n = 0) /\ 91 \in Nat /\ (~(n > 90) => n <= 90)
OBVIOUS

LEMMA StorageMoves ==
    /\ \A r \in PoolType : {[r EXCEPT !.errors = @ + 1], [r EXCEPT !.online = ~@], [r EXCEPT !.capacity = 91]} \subseteq PoolType
    /\ \A r \in Ext4Type : [r EXCEPT !.errors = @ + 1] \in Ext4Type /\ [errors |-> r.errors + 1, ro |-> TRUE] \in Ext4Type
    /\ \A r \in SataType : {[r EXCEPT !.passed = FALSE], [r EXCEPT !.sectors = @ + 1], [r EXCEPT !.hot = ~@]} \subseteq SataType
    /\ \A r \in NvmeType : {[r EXCEPT !.critical = @ + 1], [r EXCEPT !.media = @ + 1]} \subseteq NvmeType
<1>1. \A r \in PoolType : [r EXCEPT !.errors = @ + 1] \in PoolType
  BY DEF PoolType
<1>2. \A r \in PoolType : [r EXCEPT !.online = ~@] \in PoolType
  BY DEF PoolType
<1>3. \A r \in PoolType : [r EXCEPT !.capacity = 91] \in PoolType
  BY DEF PoolType
<1>4. \A r \in Ext4Type : [r EXCEPT !.errors = @ + 1] \in Ext4Type /\ [errors |-> r.errors + 1, ro |-> TRUE] \in Ext4Type
  BY DEF Ext4Type
<1>5. \A r \in SataType : [r EXCEPT !.passed = FALSE] \in SataType
  BY DEF SataType
<1>6. \A r \in SataType : [r EXCEPT !.sectors = @ + 1] \in SataType
  BY DEF SataType
<1>7. \A r \in SataType : [r EXCEPT !.hot = ~@] \in SataType
  BY DEF SataType
<1>8. \A r \in NvmeType : [r EXCEPT !.critical = @ + 1] \in NvmeType /\ [r EXCEPT !.media = @ + 1] \in NvmeType
  BY DEF NvmeType
<1> QED
  BY <1>1, <1>2, <1>3, <1>4, <1>5, <1>6, <1>7, <1>8, Zenon

LEMMA StorageInitInv == StorageInit => StorageInv
BY DEF StorageInit, StorageInv, PoolType, Ext4Type, SataType, NvmeType

LEMMA StorageStep == StorageInv /\ (StorageNext \/ UNCHANGED storageVars) => StorageInv'
<1> SUFFICES ASSUME StorageInv, StorageNext \/ UNCHANGED storageVars PROVE StorageInv'
  OBVIOUS
<1>1. ASSUME NEW m \in RaidDevs,
             NEW c \in {<<"in_sync", "faulty">>, <<"faulty", "removed">>, <<"removed", "spare">>,
                        <<"spare", "in_sync">>, <<"spare", "faulty">>},
             MemberChanges(m, c[1], c[2])
      PROVE  StorageInv'
  <2>1. c[2] \in {"in_sync", "faulty", "spare", "removed"}
    <3>1. c = <<"in_sync", "faulty">> \/ c = <<"faulty", "removed">> \/ c = <<"removed", "spare">>
          \/ c = <<"spare", "in_sync">> \/ c = <<"spare", "faulty">>
      BY <1>1
    <3> QED
      BY ONLY <3>1
  <2> QED
    BY <1>1, <2>1 DEF MemberChanges, StorageInv
<1>2. CASE ScrubFinds
  BY <1>2 DEF ScrubFinds, StorageInv
<1>3. CASE PoolChanges
  <2>1. pool' \in PoolType
    BY <1>3, StorageMoves, Zenon DEF PoolChanges, StorageInv
  <2> QED
    BY <1>3, <2>1 DEF PoolChanges, StorageInv
<1>4. CASE FilesystemFails
  <2>1. ext4' \in Ext4Type
    BY <1>4, StorageMoves, Zenon DEF FilesystemFails, StorageInv
  <2>2. btrfsErrs' \in Nat
    BY <1>4, NotPositive, Zenon DEF FilesystemFails, StorageInv
  <2> QED
    BY <1>4, <2>1, <2>2 DEF FilesystemFails, StorageInv
<1>5. ASSUME NEW p \in Paths, NEW s \in {"running", "offline", ""}, PathChanges(p, s) PROVE StorageInv'
  BY <1>5 DEF PathChanges, StorageInv
<1>6. ASSUME NEW d \in Disks, DriveAges(d) PROVE StorageInv'
  <2>1. sata[d] \in SataType /\ nvme[d] \in NvmeType
    BY DEF StorageInv, PoolType, Ext4Type
  <2>2. /\ {[sata[d] EXCEPT !.passed = FALSE], [sata[d] EXCEPT !.sectors = @ + 1], [sata[d] EXCEPT !.hot = ~@]} \subseteq SataType
        /\ {[nvme[d] EXCEPT !.critical = @ + 1], [nvme[d] EXCEPT !.media = @ + 1]} \subseteq NvmeType
    BY <2>1, StorageMoves, Zenon
  <2>3. \/ \E s \in SataType : sata' = [sata EXCEPT ![d] = s] /\ nvme' = nvme
        \/ \E n \in NvmeType : nvme' = [nvme EXCEPT ![d] = n] /\ sata' = sata
    BY <1>6, <2>2, Zenon DEF DriveAges
  <2>4. sata' \in [Disks -> SataType] /\ nvme' \in [Disks -> NvmeType]
    BY <2>3 DEF StorageInv
  <2> QED
    BY <1>6, <2>4 DEF DriveAges, StorageInv
<1>7. CASE UNCHANGED storageVars
  BY <1>7 DEF storageVars, StorageInv
<1> QED
  BY <1>1, <1>2, <1>3, <1>4, <1>5, <1>6, <1>7 DEF StorageNext

LEMMA TroubleFollows == StorageInv => TroubleIsReported
<1> SUFFICES ASSUME StorageInv PROVE TroubleIsReported
  OBVIOUS
<1>1. RaidHealth = "ok" <=> SilentLoss \/ (~mismatch /\ \A m \in RaidDevs : members[m] = "in_sync")
  <2> DEFINE out == {m \in RaidDevs : members[m] # "in_sync"}
             gone == {m \in RaidDevs : members[m] = "removed"}
             rest == \A m \in RaidDevs : members[m] \in {"in_sync", "removed"}
  <2>1. RaidHealth = "ok" <=> Cardinality(out) # 1 /\ rest /\ ~mismatch
    BY DEF StorageInv, RaidHealth, collectArray, readMembers, MdSync, MdDegraded
  <2>2. rest => out = gone
    OBVIOUS
  <2>3. IsFiniteSet(out) /\ IsFiniteSet(gone)
    BY FS_Subset, StorageHealthAssumption
  <2>4. Cardinality(gone) \in Nat /\ (Cardinality(gone) = 0 <=> gone = {})
    BY <2>3, FS_CardinalityType, FS_EmptySet
  <2>5. (\A m \in RaidDevs : members[m] = "in_sync") <=> rest /\ gone = {}
    BY DEF StorageInv
  <2> HIDE DEF out, gone, rest
  <2>6. SilentLoss <=> rest /\ Cardinality(gone) >= 2 /\ ~mismatch
    BY DEF SilentLoss, rest, gone
  <2>7. Cardinality(gone) # 1 <=> Cardinality(gone) >= 2 \/ Cardinality(gone) = 0
    BY <2>4
  <2> QED
    BY <2>1, <2>2, <2>4, <2>5, <2>6, <2>7
<1>2. ZfsStatus = "ok" => pool.online /\ pool.capacity <= 90 /\ (pool.errors = 0 \/ ~Works("zpool status"))
  <2>1. pool.errors \in Nat /\ pool.capacity \in Nat
    BY DEF StorageInv, PoolType, Ext4Type
  <2>2. ZfsStatus = "ok" => ~applyPoolWarnings
    BY DEF ZfsStatus
  <2>3. ~applyPoolWarnings => pool.online /\ ~(parseZpoolStatus > 0) /\ ~(pool.capacity > 90)
    BY DEF applyPoolWarnings
  <2>4. Works("zpool status") => parseZpoolStatus = pool.errors
    BY DEF parseZpoolStatus
  <2> QED
    BY <2>1, <2>2, <2>3, <2>4, NotPositive, Zenon
<1>3. /\ MultipathStatus = "ok" <=> \A p \in Paths : pathState[p] = "running"
      /\ MultipathStatus = "error" <=> Paths # {} /\ \A p \in Paths : pathState[p] # "running"
  BY DEF MultipathStatus, collectMap
<1>4. /\ SmartHealth = "ok" => (\A d \in Disks : ~applyHealthRules(d)) \/ Audited = {}
      /\ (\E d \in Disks : ~sata[d].passed) /\ Audited = Disks => SmartHealth = "error"
  <2>1. runSmartctl = "denied" => SmartHealth # "ok" \/ Disks = {}
    BY DEF SmartHealth
  <2>2. Audited \subseteq Disks /\ (Audited = {} \/ runSmartctl = "json")
    BY DEF Audited
  <2>3. SmartHealth = "ok" => \A d \in Audited : sata[d].passed /\ ~applyHealthRules(d)
    BY DEF SmartHealth, applyHealthRules
  <2>4. Audited # {} => Audited = Disks
    BY DEF Audited
  <2>5. runSmartctl # "denied" /\ (\E d \in Audited : ~sata[d].passed) => SmartHealth = "error"
    BY DEF SmartHealth
  <2>6. runSmartctl = "json" => runSmartctl # "denied"
    OBVIOUS
  <2> HIDE DEF SmartHealth, Audited, runSmartctl, applyHealthRules
  <2> QED
    BY <2>2, <2>3, <2>4, <2>5, <2>6
<1>5. LET n == NvmeSmartLog
          answered == "json" \in {NvmeReads[1], NvmeReads[2]}
      IN /\ n.status = "ok" /\ n.drives # Disks => ~answered
         /\ answered /\ n.status = "ok" =>
              /\ n.critical = Cardinality({d \in Disks : nvme[d].critical > 0})
              /\ n.media <=> \E d \in Disks : nvme[d].media > 0
  BY DEF NvmeSmartLog, NvmeReads, NvmeCall, ParseNVMeOutput
<1>6. FilesystemErrors.status = "ok" =>
         /\ ~ext4.ro /\ (ext4.errors = 0 \/ ~Works("errors_count"))
         /\ btrfsErrs = 0 \/ ~Works("btrfs binary") \/ ~Works("btrfs stats")
  <2>1. ext4.errors \in Nat /\ btrfsErrs \in Nat
    BY DEF StorageInv, PoolType, Ext4Type
  <2>2. FilesystemErrors.status = "ok" => ~(collectExt4 > 0) /\ ~ext4.ro /\ ~(collectBtrfs > 0)
    BY DEF FilesystemErrors, findReadonlyMounts
  <2>3. Works("errors_count") => collectExt4 = ext4.errors
    BY DEF collectExt4
  <2>4. Works("btrfs binary") /\ Works("btrfs stats") => collectBtrfs = btrfsErrs
    BY DEF collectBtrfs
  <2> QED
    BY <2>1, <2>2, <2>3, <2>4, NotPositive, Zenon
<1> QED
  BY <1>1, <1>2, <1>3, <1>4, <1>5, <1>6 DEF TroubleIsReported

StorageSpec == StorageInit /\ [][StorageNext]_storageVars

(* For any number of members, paths and drives, the status of each storage tool
   says what TroubleIsReported says of it, with the exceptions named there: an
   array without two members is ok, an NVMe drive shows in the counters only, a
   failing command leaves errors out (raidhealth.go, multipathstatus.go,
   smarthealth.go, nvmesmartlog.go, zfsstatus.go, filesystemerrors.go). *)
THEOREM StorageSafety == StorageSpec => []TroubleIsReported
<1>1. StorageInv /\ [StorageNext]_storageVars => StorageInv'
  BY StorageStep
<1> QED
  BY StorageInitInv, TroubleFollows, <1>1, PTL DEF StorageSpec

-----------------------------------------------------------------------------
(***************************************************************************)
(* Catalogue. What is advertised has been registered, and what has been    *)
(* registered is what the node supports.                                   *)
(***************************************************************************)
CatalogueInv ==
    /\ registered \in [AllNodes -> SUBSET DOMAIN KnownTools]
    /\ \A n \in AllNodes : registered[n] = {} \/ registered[n] = BridgeToMesh(n)
    /\ advertised \in [AllNodes -> SUBSET DOMAIN KnownTools]
    /\ \A n \in AllNodes : advertised[n] \subseteq registered[n]

LEMMA BridgedAreKnown == \A n : BridgeToMesh(n) \subseteq DOMAIN KnownTools
BY DEF BridgeToMesh, Supported, KnownTools

LEMMA CatalogueInitInv == CatalogueInit => CatalogueInv
BY DEF CatalogueInit, CatalogueInv

LEMMA CatalogueStep == CatalogueInv /\ (CatalogueNext \/ UNCHANGED catalogueVars) => CatalogueInv'
<1> SUFFICES ASSUME CatalogueInv, CatalogueNext \/ UNCHANGED catalogueVars PROVE CatalogueInv'
  OBVIOUS
<1>1. features' = features => \A n : BridgeToMesh(n)' = BridgeToMesh(n)
  BY DEF BridgeToMesh, Supported, Roles
<1>2. ASSUME NEW n \in AllNodes, NodeRegisters(n) PROVE CatalogueInv'
  BY <1>1, <1>2, BridgedAreKnown DEF NodeRegisters, CatalogueInv
<1>3. ASSUME NEW n \in AllNodes, GossipArrives(n) PROVE CatalogueInv'
  BY <1>1, <1>3 DEF GossipArrives, CatalogueInv
<1>4. ASSUME NEW n \in AllNodes, NodeLost(n) PROVE CatalogueInv'
  BY <1>1, <1>4 DEF NodeLost, CatalogueInv
<1>5. CASE UNCHANGED catalogueVars
  BY <1>1, <1>5 DEF catalogueVars, CatalogueInv
<1> QED
  BY <1>2, <1>3, <1>4, <1>5 DEF CatalogueNext

(* A category is found under its own name, the first of that name. *)
LEMMA CategoryIsFound ==
    ASSUME NEW i \in DOMAIN Categories, NEW l
    PROVE  LET c == [name |-> Categories[i], lower |-> l]
           IN ParseCategory(c) # 0 /\ Categories[ParseCategory(c)] = Categories[i] /\ Categories[i] # ""
<1> DEFINE c == [name |-> Categories[i], lower |-> l]
           I == {k \in 1 .. Len(Categories) : Categories[k] = c.name}
<1> HIDE DEF I, c
<1>1. Categories \in Seq(Range(Categories))
  BY CatalogueAssumption
<1>2. i \in 1 .. Len(Categories) /\ Len(Categories) \in Nat
  BY <1>1
<1>7. \A k \in 1 .. Len(Categories) : k \in Nat
  BY <1>2
<1>6. Categories[i] # ""
  BY CatalogueAssumption DEF Range
<1>3. i \in I /\ I \subseteq Nat /\ I # {}
  BY <1>2, <1>7, Zenon DEF I, c
<1>4. Min(I) \in I
  BY <1>3, MinIsLeast
<1>5. ParseCategory(c) = Min(I)
  BY <1>3, Zenon DEF ParseCategory, SelectInSeq, I
<1>8. Min(I) # 0 /\ Categories[Min(I)] = Categories[i]
  <2>1. Categories[Min(I)] = c.name /\ Min(I) \in 1 .. Len(Categories)
    BY <1>4, Zenon DEF I
  <2>2. c.name = Categories[i]
    BY DEF c
  <2> QED
    BY <1>2, <2>1, <2>2
<1> QED
  BY <1>5, <1>6, <1>8 DEF c

LEMMA CatalogueFollows == CatalogueInv => CatalogueIsCallable
<1> SUFFICES ASSUME CatalogueInv PROVE CatalogueIsCallable
  OBVIOUS
<1> DEFINE all == ListTools([name |-> "", lower |-> TRUE]).tools
           part(i, l) == ListTools([name |-> Categories[i], lower |-> l])
<1>1. all = IF localOnly THEN HandleListTools("") ELSE handleListTools("")
  BY DEF ListTools
<1>2. ASSUME NEW t \in all
      PROVE  /\ ~KnownTools[t].hidden /\ handleToolHelp(t)
             /\ \E n \in AllNodes : t \in registered[n] /\ (t \in DOMAIN Plugins => Plugins[t].needs \subseteq features[n])
  <2>3. ASSUME NEW n \in AllNodes, t \in registered[n], t \in DOMAIN Plugins PROVE Plugins[t].needs \subseteq features[n]
    <3>1. t \in BridgeToMesh(n)
      BY <2>3 DEF CatalogueInv
    <3>2. t \in Supported(n) \/ t \in DOMAIN MeshOnly
      BY <3>1 DEF BridgeToMesh
    <3> QED
      BY <2>3, <3>2, CatalogueAssumption DEF Supported, Roles
  <2>1. CASE localOnly
    <3>1. t \in registered[Gateway] /\ ~KnownTools[t].hidden /\ handleToolHelp(t)
      BY <1>1, <1>2, <2>1 DEF HandleListTools, ListLocal, handleToolHelp
    <3>2. Gateway \in AllNodes
      BY DEF AllNodes
    <3> QED
      BY <2>3, <3>1, <3>2, Zenon
  <2>2. CASE ~localOnly
    <3>1. PICK n \in AllNodes : t \in advertised[n]
      BY <1>1, <1>2, <2>2 DEF handleListTools
    <3>2. t \in DOMAIN Plugins /\ ~Plugins[t].hidden
      BY <1>1, <1>2, <2>2 DEF handleListTools, GetAnyTool
    <3>3. KnownTools[t] = Plugins[t] /\ handleToolHelp(t)
      BY <2>2, <3>2 DEF KnownTools, handleToolHelp, GetAnyTool
    <3>4. t \in registered[n]
      BY <3>1 DEF CatalogueInv
    <3> QED
      BY <2>3, <3>2, <3>3, <3>4, Zenon
  <2> QED
    BY <2>1, <2>2, <2>3
<1>3. ASSUME NEW i \in DOMAIN Categories, NEW l \in BOOLEAN
      PROVE  ~part(i, l).error /\ part(i, l).tools = {t \in all : KnownTools[t].category = Categories[i]}
  <2>1. part(i, l) = [error |-> FALSE,
             tools |-> IF localOnly THEN HandleListTools(Categories[i]) ELSE handleListTools(Categories[i])]
    BY CategoryIsFound DEF ListTools
  <2>2. Categories[i] # ""
    BY CategoryIsFound
  <2>5. ~part(i, l).error /\ part(i, l).tools = (IF localOnly THEN HandleListTools(Categories[i]) ELSE handleListTools(Categories[i]))
    BY <2>1
  <2> HIDE DEF all, part
  <2>3. CASE localOnly
    <3>1. all = ListLocal
      BY <1>1, <2>3, Zenon DEF HandleListTools
    <3>2. part(i, l).tools = {t \in ListLocal : KnownTools[t].category = Categories[i]}
      BY <2>2, <2>3, <2>5, Zenon DEF HandleListTools
    <3> QED
      BY <2>5, <3>1, <3>2, Zenon
  <2>4. CASE ~localOnly
    <3>1. \A t \in DOMAIN Plugins : KnownTools[t] = Plugins[t]
      BY DEF KnownTools
    <3>2. all \subseteq DOMAIN Plugins /\ part(i, l).tools \subseteq DOMAIN Plugins
      BY <1>1, <2>4, <2>5, Zenon DEF handleListTools, GetAnyTool
    <3>3. \A t \in DOMAIN Plugins : t \in part(i, l).tools <=> t \in all /\ Plugins[t].category = Categories[i]
      BY <1>1, <2>2, <2>4, <2>5, Zenon DEF handleListTools, GetAnyTool
    <3>4. part(i, l).tools = {t \in all : KnownTools[t].category = Categories[i]}
      BY <3>1, <3>2, <3>3
    <3> QED
      BY <2>5, <3>4, Zenon
  <2> QED
    BY <2>3, <2>4
<1>4. ASSUME NEW n \in AllNodes, NEW t \in advertised[n] \cap DOMAIN Plugins, ~localOnly, ~Plugins[t].hidden
      PROVE  t \in all
  BY <1>1, <1>4 DEF handleListTools, GetAnyTool
<1> QED
  BY <1>2, <1>3, <1>4 DEF CatalogueIsCallable

CatalogueSpec == CatalogueInit /\ [][CatalogueNext]_catalogueVars

(* For every plugin table and set of features, what list_tools names can be
   called (list_tools, the tool registry and BridgeToMesh). *)
THEOREM CatalogueSafety == CatalogueSpec => []CatalogueIsCallable
<1>1. CatalogueInv /\ [CatalogueNext]_catalogueVars => CatalogueInv'
  BY CatalogueStep
<1> QED
  BY CatalogueInitInv, CatalogueFollows, <1>1, PTL DEF CatalogueSpec

-----------------------------------------------------------------------------
(***************************************************************************)
(* MeshOverview. The links merged so far and those of the reports still to *)
(* be merged are all that anybody reported; the gateway's own were first.  *)
(***************************************************************************)
WiresOk ==
    /\ DOMAIN wires \subseteq Pairs
    /\ \A l, m \in gwView : edgeKey(OverviewGateway, l[1]) = edgeKey(OverviewGateway, m[1]) => l = m
OverviewInv ==
    /\ WiresOk
    /\ phase \in {"start", "sysinfo", "topology", "merge", "done"}
    /\ phase \in {"sysinfo", "topology"} => seenWires = Reported(OverviewGateway, gwView)
    /\ phase \in {"merge", "done"} =>
         /\ DOMAIN edgeSet \cup UNION {Reported(n, reports[n]) : n \in DOMAIN reports} = seenWires
         /\ \A l \in gwView : /\ edgeKey(OverviewGateway, l[1]) \in DOMAIN edgeSet
                              /\ edgeSet[edgeKey(OverviewGateway, l[1])] = l[2]
    /\ phase = "done" => DOMAIN reports = {}
    /\ phase \notin {"start", "sysinfo"} =>
         \A r \in AllRoles : roleCounts[r] = Cardinality({n \in DOMAIN nodeMap : r \in RolesOf[n]})

LEMMA OverviewInitInv == OverviewInit => OverviewInv
BY DEF OverviewInit, OverviewInv, WiresOk

(* A gateway's neighbours have keys of their own. *)
LEMMA GatewayKeys ==
    ASSUME DOMAIN wires \subseteq Pairs
    PROVE  \A l, m \in View(OverviewGateway) :
             edgeKey(OverviewGateway, l[1]) = edgeKey(OverviewGateway, m[1]) => l = m
<1> SUFFICES ASSUME NEW p \in DOMAIN wires, NEW q \in DOMAIN wires, p[1] = OverviewGateway, q[1] = OverviewGateway,
                    edgeKey(OverviewGateway, p[2]) = edgeKey(OverviewGateway, q[2])
             PROVE  <<p[2], wires[p]>> = <<q[2], wires[q]>>
  BY DEF View
<1>1. /\ p = <<p[1], p[2]>> /\ p[2] \in Nat /\ p[2] # 1
      /\ q = <<q[1], q[2]>> /\ q[2] \in Nat /\ q[2] # 1
  <2>1. p \in OverviewNodes \X OverviewNodes /\ p[1] # p[2] /\ q \in OverviewNodes \X OverviewNodes /\ q[1] # q[2]
    BY DEF Pairs
  <2>2. p = <<p[1], p[2]>> /\ p[2] \in OverviewNodes /\ p[2] # 1 /\ q = <<q[1], q[2]>> /\ q[2] \in OverviewNodes /\ q[2] # 1
    BY <2>1 DEF OverviewGateway
  <2> QED
    BY <2>2, OverviewAssumption, Zenon
<1>2. ASSUME NEW b \in Nat, b # 1
      PROVE  edgeKey(1, b) = (IF b = 0 THEN <<0, 1>> ELSE <<1, b>>)
  BY <1>2 DEF edgeKey
<1>3. ASSUME NEW b \in Nat, NEW c \in Nat, b # 1, c # 1, edgeKey(1, b) = edgeKey(1, c)
      PROVE  b = c
  <2>1. CASE b = 0 /\ c # 0
    <3>1. <<0, 1>> = <<1, c>>
      BY <1>2, <1>3, <2>1
    <3> QED
      BY <3>1
  <2>2. CASE b # 0 /\ c = 0
    <3>1. <<1, b>> = <<0, 1>>
      BY <1>2, <1>3, <2>2
    <3> QED
      BY <3>1
  <2>3. CASE b # 0 /\ c # 0
    <3>1. <<1, b>> = <<1, c>>
      BY <1>2, <1>3, <2>3
    <3> QED
      BY <3>1
  <2> QED
    BY <2>1, <2>2, <2>3
<1>4. p[2] = q[2]
  BY <1>1, <1>3 DEF OverviewGateway
<1> QED
  BY <1>1, <1>4

(* Merging a report keeps what is there and adds its links. *)
FirstMeasured(n, view) == [k \in Reported(n, view) |-> (CHOOSE l \in view : edgeKey(n, l[1]) = k)[2]]

LEMMA MergeDomain == \A es, n, view : DOMAIN parseTopoEdges(es, n, view) = DOMAIN es \cup Reported(n, view)
BY DEF parseTopoEdges, addEdge

LEMMA MergeValue ==
    \A es, n, view : \A k \in DOMAIN es \cup Reported(n, view) :
        parseTopoEdges(es, n, view)[k] = IF k \in DOMAIN es THEN es[k] ELSE FirstMeasured(n, view)[k]
<1> TAKE es, n, view
<1>1. parseTopoEdges(es, n, view) = addEdge(es, FirstMeasured(n, view)) /\ DOMAIN FirstMeasured(n, view) = Reported(n, view)
  BY DEF parseTopoEdges, FirstMeasured
<1> QED
  BY <1>1 DEF addEdge

LEMMA MergeKeeps == \A es, n, view : \A k \in DOMAIN es : parseTopoEdges(es, n, view)[k] = es[k]
BY MergeValue

LEMMA MergeAdds ==
    ASSUME NEW es, NEW n, NEW view, NEW l \in view, edgeKey(n, l[1]) \notin DOMAIN es,
           \A m \in view : edgeKey(n, m[1]) = edgeKey(n, l[1]) => m = l
    PROVE  parseTopoEdges(es, n, view)[edgeKey(n, l[1])] = l[2]
<1>1. edgeKey(n, l[1]) \in Reported(n, view)
  BY DEF Reported
<1>2. (CHOOSE m \in view : edgeKey(n, m[1]) = edgeKey(n, l[1])) = l
  OBVIOUS
<1>3. FirstMeasured(n, view)[edgeKey(n, l[1])] = l[2]
  BY <1>1, <1>2 DEF FirstMeasured
<1> QED
  BY <1>1, <1>3, MergeValue

LEMMA OverviewStep == OverviewInv /\ (OverviewNext \/ UNCHANGED overviewVars) => OverviewInv'
<1> SUFFICES ASSUME OverviewInv, OverviewNext \/ UNCHANGED overviewVars PROVE OverviewInv'
  OBVIOUS
<1>1. CASE ReadTopology
  <2>1. WiresOk'
    BY <1>1, GatewayKeys DEF ReadTopology, OverviewInv, WiresOk
  <2> QED
    BY <1>1, <2>1 DEF ReadTopology, OverviewInv
<1>2. ASSUME NEW S \in SUBSET OverviewNodes, SysInfoAnswers(S) PROVE OverviewInv'
  <2>1. DOMAIN nodeMap' = S /\ \A r \in AllRoles : roleCounts'[r] = Cardinality({n \in S : r \in RolesOf[n]})
    BY <1>2 DEF SysInfoAnswers
  <2>2. phase' = "topology" /\ phase = "sysinfo"
    BY <1>2 DEF SysInfoAnswers
  <2>3. UNCHANGED <<wires, gwView, seenWires>>
    BY <1>2 DEF SysInfoAnswers
  <2> QED
    BY <2>1, <2>2, <2>3 DEF OverviewInv, WiresOk
<1>3. ASSUME NEW S \in SUBSET OverviewNodes, TopologyAnswers(S) PROVE OverviewInv'
  <2>1. /\ phase = "topology" /\ phase' = "merge" /\ UNCHANGED <<wires, gwView, nodeMap, roleCounts>>
        /\ reports' = [n \in S |-> View(n)]
        /\ edgeSet' = parseTopoEdges(<< >>, OverviewGateway, gwView)
        /\ seenWires' = seenWires \cup UNION {Reported(n, View(n)) : n \in S}
    BY <1>3 DEF TopologyAnswers
  <2>2. DOMAIN << >> = {}
    OBVIOUS
  <2>3. /\ DOMAIN edgeSet' = Reported(OverviewGateway, gwView)
        /\ \A l \in gwView : edgeSet'[edgeKey(OverviewGateway, l[1])] = l[2]
    <3>1. DOMAIN parseTopoEdges(<< >>, OverviewGateway, gwView) = DOMAIN << >> \cup Reported(OverviewGateway, gwView)
      BY MergeDomain, Zenon
    <3>3. \A l \in gwView : /\ edgeKey(OverviewGateway, l[1]) \notin DOMAIN << >>
                            /\ \A m \in gwView : edgeKey(OverviewGateway, m[1]) = edgeKey(OverviewGateway, l[1]) => m = l
                            => parseTopoEdges(<< >>, OverviewGateway, gwView)[edgeKey(OverviewGateway, l[1])] = l[2]
      BY MergeAdds, Zenon
    <3>2. \A l, m \in gwView : edgeKey(OverviewGateway, m[1]) = edgeKey(OverviewGateway, l[1]) => m = l
      BY DEF OverviewInv, WiresOk
    <3> QED
      BY <2>1, <2>2, <3>1, <3>2, <3>3, Zenon
  <2>4. \A l \in gwView : edgeKey(OverviewGateway, l[1]) \in DOMAIN edgeSet'
    BY <2>3 DEF Reported
  <2>5. UNION {Reported(n, reports'[n]) : n \in DOMAIN reports'} = UNION {Reported(n, View(n)) : n \in S}
    BY <2>1
  <2>6. DOMAIN edgeSet' \cup UNION {Reported(n, reports'[n]) : n \in DOMAIN reports'} = seenWires'
    BY <2>1, <2>3, <2>5 DEF OverviewInv
  <2> QED
    BY <2>1, <2>3, <2>4, <2>6 DEF OverviewInv, WiresOk
<1>4. ASSUME NEW n \in OverviewNodes, MergeReport(n) PROVE OverviewInv'
  <2>1. /\ phase = "merge" /\ phase' = "merge" /\ n \in DOMAIN reports
        /\ UNCHANGED <<wires, gwView, roleCounts, seenWires>>
        /\ edgeSet' = parseTopoEdges(edgeSet, n, reports[n])
        /\ DOMAIN nodeMap' = DOMAIN nodeMap
    BY <1>4 DEF MergeReport
  <2>2. DOMAIN reports' = DOMAIN reports \ {n} /\ \A m \in DOMAIN reports' : reports'[m] = reports[m]
    BY <1>4 DEF MergeReport, Restrict
  <2>3. DOMAIN edgeSet' = DOMAIN edgeSet \cup Reported(n, reports[n]) /\ \A k \in DOMAIN edgeSet : edgeSet'[k] = edgeSet[k]
    <3>1. DOMAIN parseTopoEdges(edgeSet, n, reports[n]) = DOMAIN edgeSet \cup Reported(n, reports[n])
      BY MergeDomain, Zenon
    <3>2. \A k \in DOMAIN edgeSet : parseTopoEdges(edgeSet, n, reports[n])[k] = edgeSet[k]
      BY MergeKeeps, Zenon
    <3> QED
      BY <2>1, <3>1, <3>2
  <2>4. UNION {Reported(m, reports[m]) : m \in DOMAIN reports}
          = Reported(n, reports[n]) \cup UNION {Reported(m, reports'[m]) : m \in DOMAIN reports'}
    <3>1. \A k : k \in UNION {Reported(m, reports[m]) : m \in DOMAIN reports}
                  <=> \E m \in DOMAIN reports : k \in Reported(m, reports[m])
      OBVIOUS
    <3>2. \A k : k \in UNION {Reported(m, reports'[m]) : m \in DOMAIN reports'}
                  <=> \E m \in DOMAIN reports' : k \in Reported(m, reports'[m])
      OBVIOUS
    <3>3. \A k : (\E m \in DOMAIN reports : k \in Reported(m, reports[m]))
                  <=> k \in Reported(n, reports[n]) \/ \E m \in DOMAIN reports' : k \in Reported(m, reports'[m])
      BY <2>1, <2>2
    <3> QED
      BY <3>1, <3>2, <3>3
  <2>5. DOMAIN edgeSet' \cup UNION {Reported(m, reports'[m]) : m \in DOMAIN reports'} = seenWires'
    BY <2>1, <2>3, <2>4 DEF OverviewInv
  <2> QED
    BY <2>1, <2>3, <2>5 DEF OverviewInv, WiresOk
<1>5. ASSUME NEW p \in DOMAIN wires, LinkLost(p) PROVE OverviewInv'
  <2>1. DOMAIN wires' \subseteq DOMAIN wires
    BY <1>5 DEF LinkLost, Restrict
  <2>2. UNCHANGED <<phase, gwView, nodeMap, reports, edgeSet, roleCounts, seenWires>>
    BY <1>5 DEF LinkLost
  <2> QED
    BY <2>1, <2>2 DEF OverviewInv, WiresOk
<1>6. CASE Present
  <2>1. DOMAIN reports = {}
    BY <1>6 DEF Present
  <2> QED
    BY <1>6, <2>1 DEF Present, OverviewInv, WiresOk
<1>7. CASE UNCHANGED overviewVars
  BY <1>7 DEF overviewVars, OverviewInv, WiresOk
<1> QED
  BY <1>1, <1>2, <1>3, <1>4, <1>5, <1>6, <1>7 DEF OverviewNext

LEMMA OverviewFollows == OverviewInv => OverviewIsConsistent
BY DEF OverviewInv, OverviewIsConsistent

OverviewSpec == OverviewInit /\ [][OverviewNext]_overviewVars

(* For every mesh, the overview holds each link that was reported, once, and
   counts every role (get_mesh_topology). *)
THEOREM OverviewSafety == OverviewSpec => []OverviewIsConsistent
<1>1. OverviewInv /\ [OverviewNext]_overviewVars => OverviewInv'
  BY OverviewStep
<1> QED
  BY OverviewInitInv, OverviewFollows, <1>1, PTL DEF OverviewSpec

-----------------------------------------------------------------------------
(***************************************************************************)
(* Induction without an operator parameter: the numbers that do not belong *)
(* to a set have a least one. From it, a function that is defined step by  *)
(* step exists.                                                            *)
(***************************************************************************)
LEMMA EveryNumber ==
    ASSUME NEW S, 0 \in S, \A n \in Nat : n \in S => n + 1 \in S
    PROVE  Nat \subseteq S
<1> SUFFICES ASSUME Nat \ S # {} PROVE FALSE
  OBVIOUS
<1>1. PICK m \in Nat \ S : \A x \in Nat \ S : m <= x
  BY LeastNumber
<1>2. m # 0 /\ m - 1 \in Nat /\ ~(m <= m - 1)
  BY <1>1
<1>3. m - 1 \in S
  BY <1>1, <1>2
<1>4. (m - 1) + 1 \in S
  BY <1>2, <1>3
<1> QED
  BY <1>1, <1>4

Stepwise(f, n, T, base, step) ==
    f \in [0..n -> T] /\ f[0] = base /\ \A i \in 1..n : f[i] = step[<<i, f[i - 1]>>]

LEMMA StepByStep ==
    ASSUME NEW n \in Nat, NEW T, NEW base \in T, NEW step \in [(1..n) \X T -> T]
    PROVE  \E f : Stepwise(f, n, T, base, step)
<1> DEFINE upTo(m, f) == /\ f \in [0..m -> T] /\ f[0] = base
                         /\ \A i \in 1..m : f[i] = step[<<i, f[i - 1]>>]
           S == {m \in Nat : m <= n => \E f : upTo(m, f)}
<1>1. 0 \in S
  <2>1. upTo(0, [i \in 0..0 |-> base])
    OBVIOUS
  <2> QED
    BY <2>1
<1>2. ASSUME NEW m \in Nat, m \in S PROVE m + 1 \in S
  <2> SUFFICES ASSUME m + 1 <= n PROVE \E f : upTo(m + 1, f)
    OBVIOUS
  <2>1. PICK f : upTo(m, f)
    BY <1>2
  <2> DEFINE g == [i \in 0..(m + 1) |-> IF i = m + 1 THEN step[<<m + 1, f[m]>>] ELSE f[i]]
  <2>2. f[m] \in T /\ m + 1 \in 1..n
    BY <2>1
  <2>3. step[<<m + 1, f[m]>>] \in T
    BY <2>2
  <2>4. g \in [0..(m + 1) -> T] /\ g[0] = base
    BY <2>1, <2>3
  <2>5. ASSUME NEW i \in 1..(m + 1) PROVE g[i] = step[<<i, g[i - 1]>>]
    <3>1. CASE i = m + 1
      <4>1. g[i] = step[<<m + 1, f[m]>>] /\ g[m] = f[m] /\ i - 1 = m
        BY <3>1
      <4> QED
        BY <3>1, <4>1
    <3>2. CASE i # m + 1
      <4>1. i \in 1..m /\ i - 1 \in 0..m /\ i # m + 1 /\ i - 1 # m + 1
        BY <3>2
      <4>2. g[i] = f[i] /\ g[i - 1] = f[i - 1]
        BY <4>1
      <4> QED
        BY <2>1, <4>1, <4>2
    <3> QED
      BY <3>1, <3>2
  <2>6. upTo(m + 1, g)
    BY <2>4, <2>5
  <2> QED
    BY <2>6
<1>3. n \in S
  <2> HIDE DEF S
  <2> QED
    BY <1>1, <1>2, EveryNumber
<1>4. PICK f : upTo(n, f)
  BY <1>3
<1> QED
  BY <1>4 DEF Stepwise

-----------------------------------------------------------------------------
(***************************************************************************)
(* LogTools. A line belongs to a kill or is another one; in the ring the   *)
(* kills follow each other, the context line of a kill comes before its    *)
(* Killed line, and no line of another kill comes between the two.         *)
(***************************************************************************)
LogLines == [kind : {"context", "killed", "other"}, kill : Nat, pid : VictimPIDs \union {0},
             memcg : BOOLEAN, level : {"info", "err"}]

TellsOfKill(l, ks) ==
    IF l.kind = "other" THEN l.kill = 0
    ELSE l.kill \in 1..Len(ks) /\ l.pid = ks[l.kill].pid /\ l.memcg = ks[l.kill].memcg

KillsFollow(R) ==
    \A i, j \in 1..Len(R) :
        i < j /\ R[i].kind # "other" /\ R[j].kind # "other"
        => /\ R[i].kill <= R[j].kill
           /\ R[i].kill = R[j].kill => R[i].kind = "context" /\ R[j].kind = "killed"

ContextsClose(R) ==
    \A i, j \in 1..Len(R) :
        i < j /\ R[i].kind = "context" /\ R[j].kind # "other" /\ R[j].kill # R[i].kill
        => \E m \in (i + 1)..(j - 1) : R[m].kind = "killed" /\ R[m].kill = R[i].kill

OneIsOpen(R, k) ==
    \A i \in 1..Len(R) :
        /\ R[i].kind = "context" /\ R[i].kill # k
           => \E m \in (i + 1)..Len(R) : R[m].kind = "killed" /\ R[m].kill = R[i].kill
        /\ k # 0 /\ R[i].kill = k => R[i].kind = "context"

RingOk(R, ks, k) ==
    /\ R \in Seq(LogLines)
    /\ \A i \in 1..Len(R) : TellsOfKill(R[i], ks)
    /\ KillsFollow(R) /\ ContextsClose(R) /\ OneIsOpen(R, k)

LogInv ==
    /\ kills \in Seq([pid : VictimPIDs, memcg : BOOLEAN])
    /\ killing \in {0, Len(kills)}
    /\ RingOk(ringBuffer, kills, killing)
    /\ journal \in Seq(LogLines)

\* What the ring loses at its start takes nothing from the order of the rest.
LEMMA RingForgets ==
    ASSUME NEW R, NEW ks, NEW k, NEW n \in Nat \ {0}, RingOk(R, ks, k)
    PROVE  RingOk(Newest(R, n), ks, k)
<1> SUFFICES ASSUME Len(R) > n PROVE RingOk(Newest(R, n), ks, k)
  BY DEF Newest
<1> DEFINE d == Len(R) - n
           N == Newest(R, n)
<1>1. R \in Seq(LogLines) /\ Len(R) \in Nat /\ d \in Nat /\ N = SubSeq(R, d + 1, Len(R))
  BY DEF RingOk, Newest
<1>2. N \in Seq(LogLines) /\ Len(N) = n /\ \A i \in 1..n : N[i] = R[i + d] /\ i + d \in 1..Len(R)
  <2>1. N \in Seq(LogLines) /\ Len(N) = Len(R) - (d + 1) + 1
    BY <1>1
  <2>2. \A i \in 1..(Len(R) - d) : N[i] = R[(d + 1) + i - 1]
    BY <1>1
  <2>3. \A i \in 1..n : (d + 1) + i - 1 = i + d
    BY <1>1
  <2> QED
    BY <1>1, <2>1, <2>2, <2>3
<1> HIDE DEF N, d
<1>3. \A i \in 1..Len(N) : TellsOfKill(N[i], ks)
  BY <1>2 DEF RingOk
<1>4. KillsFollow(N)
  <2> SUFFICES ASSUME NEW i \in 1..n, NEW j \in 1..n, i < j, N[i].kind # "other", N[j].kind # "other"
               PROVE  /\ N[i].kill <= N[j].kill
                      /\ N[i].kill = N[j].kill => N[i].kind = "context" /\ N[j].kind = "killed"
    BY <1>2 DEF KillsFollow
  <2>1. i + d < j + d /\ i + d \in 1..Len(R) /\ j + d \in 1..Len(R) /\ N[i] = R[i + d] /\ N[j] = R[j + d]
    <3>1. i + d < j + d
      BY <1>1
    <3> QED
      BY <1>2, <3>1, Zenon
  <2> QED
    BY <2>1 DEF RingOk, KillsFollow
<1>5. ContextsClose(N)
  <2> SUFFICES ASSUME NEW i \in 1..n, NEW j \in 1..n, i < j, N[i].kind = "context",
                      N[j].kind # "other", N[j].kill # N[i].kill
               PROVE  \E m \in (i + 1)..(j - 1) : N[m].kind = "killed" /\ N[m].kill = N[i].kill
    BY <1>2 DEF ContextsClose
  <2>1. i + d < j + d /\ i + d \in 1..Len(R) /\ j + d \in 1..Len(R) /\ N[i] = R[i + d] /\ N[j] = R[j + d]
    <3>1. i + d < j + d
      BY <1>1
    <3> QED
      BY <1>2, <3>1, Zenon
  <2> PICK p \in 1..Len(R), q \in 1..Len(R) : p = i + d /\ q = j + d
    BY <2>1
  <2>2. PICK m \in (p + 1)..(q - 1) : R[m].kind = "killed" /\ R[m].kill = R[p].kill
    <3>1. R[p] = N[i] /\ R[q] = N[j] /\ p < q
      BY <2>1
    <3> QED
      BY <3>1 DEF RingOk, ContextsClose
  <2>3. m - d \in (i + 1)..(j - 1) /\ m - d \in 1..n /\ (m - d) + d = m
    BY <1>1
  <2>4. N[m - d] = R[m] /\ N[i] = R[p]
    BY <1>2, <2>1, <2>3
  <2> QED
    BY <2>2, <2>3, <2>4
<1>6. OneIsOpen(N, k)
  <2> SUFFICES ASSUME NEW i \in 1..n
               PROVE  /\ N[i].kind = "context" /\ N[i].kill # k
                         => \E m \in (i + 1)..n : N[m].kind = "killed" /\ N[m].kill = N[i].kill
                      /\ k # 0 /\ N[i].kill = k => N[i].kind = "context"
    BY <1>2 DEF OneIsOpen
  <2>1. i + d \in 1..Len(R) /\ N[i] = R[i + d]
    BY <1>2
  <2>2. ASSUME N[i].kind = "context", N[i].kill # k
        PROVE  \E m \in (i + 1)..n : N[m].kind = "killed" /\ N[m].kill = N[i].kill
    <3>1. PICK m \in (i + d + 1)..Len(R) : R[m].kind = "killed" /\ R[m].kill = R[i + d].kill
      BY <2>1, <2>2 DEF RingOk, OneIsOpen
    <3>2. m - d \in (i + 1)..n /\ m - d \in 1..n /\ (m - d) + d = m
      BY <1>1 DEF d
    <3> QED
      BY <1>2, <2>1, <3>1, <3>2
  <2> QED
    BY <2>1, <2>2 DEF RingOk, OneIsOpen
<1> QED
  BY <1>2, <1>3, <1>4, <1>5, <1>6 DEF RingOk, N

\* A line is added at the end. The kill it tells of is none, the open one or
\* the next one.
LEMMA RingLearns ==
    ASSUME NEW R, NEW ks, NEW k, NEW ks2, NEW k2, NEW l \in LogLines,
           RingOk(R, ks, k), ks \in Seq([pid : VictimPIDs, memcg : BOOLEAN]),
           ks2 \in Seq([pid : VictimPIDs, memcg : BOOLEAN]), k \in {0, Len(ks)},
           Len(ks) <= Len(ks2), \A x \in 1..Len(ks) : ks2[x] = ks[x], TellsOfKill(l, ks2),
           \/ l.kind = "other" /\ k2 = k
           \/ l.kind = "killed" /\ k2 = 0 /\ k # 0 /\ l.kill = k
           \/ l.kind = "killed" /\ k2 = 0 /\ k = 0 /\ l.kill = Len(ks) + 1
           \/ l.kind = "context" /\ k = 0 /\ l.kill = Len(ks) + 1 /\ k2 = l.kill
    PROVE  RingOk(Append(R, l), ks2, k2)
<1> DEFINE A == Append(R, l)
           n == Len(R)
<1>1. /\ R \in Seq(LogLines) /\ n \in Nat /\ Len(ks) \in Nat /\ A \in Seq(LogLines) /\ Len(A) = n + 1
      /\ A[n + 1] = l /\ \A i \in 1..n : A[i] = R[i] /\ R[i] \in LogLines
  BY DEF RingOk
<1>2. \A i \in 1..n : R[i].kind # "other" => R[i].kill \in 1..Len(ks)
  BY DEF RingOk, TellsOfKill
<1> HIDE DEF A
<1>3. \A i \in 1..(n + 1) : TellsOfKill(A[i], ks2)
  <2>1. ASSUME NEW i \in 1..n PROVE TellsOfKill(R[i], ks2)
    <3>1. TellsOfKill(R[i], ks)
      BY DEF RingOk
    <3> QED
      BY <1>1, <3>1 DEF TellsOfKill
  <2> QED
    BY <1>1, <2>1
<1>4. \A i \in 1..n : /\ l.kind = "killed" /\ k # 0 /\ R[i].kill = k => R[i].kind = "context"
                      /\ R[i].kind = "context" /\ R[i].kill # k
                         => \E m \in (i + 1)..n : R[m].kind = "killed" /\ R[m].kill = R[i].kill
  BY DEF RingOk, OneIsOpen
<1>5. KillsFollow(A)
  <2> SUFFICES ASSUME NEW i \in 1..(n + 1), NEW j \in 1..(n + 1), i < j,
                      A[i].kind # "other", A[j].kind # "other"
               PROVE  /\ A[i].kill <= A[j].kill
                      /\ A[i].kill = A[j].kill => A[i].kind = "context" /\ A[j].kind = "killed"
    BY <1>1 DEF KillsFollow
  <2>1. i \in 1..n /\ A[i] = R[i] /\ A[i].kill \in 1..Len(ks)
    BY <1>1, <1>2
  <2>2. CASE j \in 1..n
    <3>1. A[j] = R[j]
      BY <1>1, <2>2
    <3> QED
      BY <2>1, <2>2, <3>1 DEF RingOk, KillsFollow
  <2>3. CASE j = n + 1
    <3>1. A[j] = l
      BY <1>1, <2>3
    <3> QED
      BY <1>1, <1>4, <2>1, <3>1
  <2>4. j \in 1..n \/ j = n + 1
    BY <1>1
  <2> QED
    BY <2>2, <2>3, <2>4
<1>6. ContextsClose(A)
  <2> SUFFICES ASSUME NEW i \in 1..(n + 1), NEW j \in 1..(n + 1), i < j,
                      A[i].kind = "context", A[j].kind # "other", A[j].kill # A[i].kill
               PROVE  \E m \in (i + 1)..(j - 1) : A[m].kind = "killed" /\ A[m].kill = A[i].kill
    BY <1>1 DEF ContextsClose
  <2>1. i \in 1..n /\ A[i] = R[i] /\ A[i].kill \in 1..Len(ks)
    BY <1>1, <1>2
  <2>2. CASE j \in 1..n
    <3>1. A[j] = R[j]
      BY <1>1, <2>2
    <3>2. PICK m \in (i + 1)..(j - 1) : R[m].kind = "killed" /\ R[m].kill = R[i].kill
      BY <2>1, <2>2, <3>1 DEF RingOk, ContextsClose
    <3>3. m \in 1..n
      BY <1>1, <2>2
    <3> QED
      BY <1>1, <2>1, <3>2, <3>3
  <2>3. CASE j = n + 1
    <3>1. A[j] = l
      BY <1>1, <2>3
    <3>2. R[i].kill # k
      BY <1>1, <2>1, <3>1
    <3>3. PICK m \in (i + 1)..n : R[m].kind = "killed" /\ R[m].kill = R[i].kill
      BY <1>4, <2>1, <3>2
    <3>4. m \in 1..n /\ m \in (i + 1)..(j - 1)
      BY <1>1, <2>1, <2>3
    <3> QED
      BY <1>1, <2>1, <3>3, <3>4
  <2> QED
    BY <1>1, <2>2, <2>3
<1>7. OneIsOpen(A, k2)
  <2> SUFFICES ASSUME NEW i \in 1..(n + 1)
               PROVE  /\ A[i].kind = "context" /\ A[i].kill # k2
                         => \E m \in (i + 1)..(n + 1) : A[m].kind = "killed" /\ A[m].kill = A[i].kill
                      /\ k2 # 0 /\ A[i].kill = k2 => A[i].kind = "context"
    BY <1>1 DEF OneIsOpen
  <2>1. ASSUME A[i].kind = "context", A[i].kill # k2
        PROVE  \E m \in (i + 1)..(n + 1) : A[m].kind = "killed" /\ A[m].kill = A[i].kill
    <3>1. i \in 1..n /\ A[i] = R[i]
      BY <1>1, <2>1
    <3>2. CASE R[i].kill # k
      <4>1. PICK m \in (i + 1)..n : R[m].kind = "killed" /\ R[m].kill = R[i].kill
        BY <1>4, <2>1, <3>1, <3>2
      <4>2. m \in 1..n /\ m \in (i + 1)..(n + 1)
        BY <1>1, <3>1
      <4> QED
        BY <1>1, <3>1, <4>1, <4>2
    <3>3. CASE R[i].kill = k
      <4>1. k # 0
        BY <1>2, <2>1, <3>1, <3>3
      <4>2. l.kind = "killed" /\ l.kill = k
        BY <2>1, <3>1, <3>3, <4>1
      <4>3. n + 1 \in (i + 1)..(n + 1)
        BY <1>1, <3>1
      <4> QED
        BY <1>1, <3>1, <3>3, <4>2, <4>3
    <3> QED
      BY <3>2, <3>3
  <2>2. ASSUME k2 # 0, A[i].kill = k2 PROVE A[i].kind = "context"
    <3>1. CASE i = n + 1
      <4>1. A[i] = l
        BY <1>1, <3>1
      <4> QED
        BY <2>2, <4>1 DEF TellsOfKill
    <3>2. CASE i \in 1..n
      <4>1. A[i] = R[i] /\ R[i].kill = k2
        BY <1>1, <2>2, <3>2
      <4>2. R[i].kind # "other"
        BY <2>2, <3>2, <4>1 DEF RingOk, TellsOfKill
      <4>3. k2 = k
        BY <1>1, <1>2, <2>2, <3>2, <4>1, <4>2
      <4> QED
        BY <2>2, <3>2, <4>1, <4>3 DEF RingOk, OneIsOpen
    <3> QED
      BY <1>1, <3>1, <3>2
  <2> QED
    BY <2>1, <2>2
<1> QED
  BY <1>1, <1>3, <1>5, <1>6, <1>7 DEF RingOk, A

LEMMA LogInitInv == LogToolsAssumption /\ LogInit => LogInv
  BY DEF LogInit, LogInv, RingOk, KillsFollow, ContextsClose, OneIsOpen

LEMMA LineIsWritten ==
    ASSUME LogInv, NEW l \in LogLines, WriteLine(l), LogToolsAssumption,
           kills' \in Seq([pid : VictimPIDs, memcg : BOOLEAN]), killing' \in {0, Len(kills')},
           Len(kills) <= Len(kills'), \A x \in 1..Len(kills) : kills'[x] = kills[x],
           TellsOfKill(l, kills'),
           \/ l.kind = "other" /\ killing' = killing
           \/ l.kind = "killed" /\ killing' = 0 /\ killing # 0 /\ l.kill = killing
           \/ l.kind = "killed" /\ killing' = 0 /\ killing = 0 /\ l.kill = Len(kills) + 1
           \/ l.kind = "context" /\ killing = 0 /\ l.kill = Len(kills) + 1 /\ killing' = l.kill
    PROVE  LogInv'
<1>1. RingOk(Append(ringBuffer, l), kills', killing')
  BY RingLearns DEF LogInv
<1>2. RingOk(Newest(Append(ringBuffer, l), RingLines), kills', killing')
  BY <1>1, RingForgets DEF LogToolsAssumption
<1>3. Append(journal, l) \in Seq(LogLines)
  <2> HIDE DEF LogLines
  <2> QED
    BY DEF LogInv
<1> QED
  BY <1>2, <1>3 DEF LogInv, WriteLine

LEMMA KernelStep ==
    ASSUME LogToolsAssumption, LogInv, KernelNext PROVE LogInv'
<1> DEFINE Kill == [pid : VictimPIDs, memcg : BOOLEAN]
<1>1. kills \in Seq(Kill) /\ Len(kills) \in Nat /\ killing \in {0, Len(kills)}
  BY DEF LogInv
<1>2. ASSUME NEW pid \in VictimPIDs, NEW memcg \in BOOLEAN,
             kills' = Append(kills, [pid |-> pid, memcg |-> memcg])
      PROVE  /\ kills' \in Seq(Kill) /\ Len(kills') = Len(kills) + 1
             /\ \A x \in 1..Len(kills) : kills'[x] = kills[x]
             /\ kills'[Len(kills) + 1] = [pid |-> pid, memcg |-> memcg]
  BY <1>1, <1>2
<1>3. ASSUME NEW pid \in VictimPIDs, NEW memcg \in BOOLEAN, OomContext(pid, memcg) PROVE LogInv'
  <2> DEFINE l == Line("context", Len(kills) + 1, pid, memcg, "info")
  <2>1. WriteLine(l) /\ killing = 0 /\ killing' = l.kill /\ l.kind = "context" /\ l.kill = Len(kills) + 1
    BY <1>3 DEF OomContext, Line
  <2>2. l \in LogLines
    BY <1>1 DEF Line, LogLines
  <2>3. TellsOfKill(l, kills')
    BY <1>1, <1>2, <1>3 DEF TellsOfKill, OomContext, Line
  <2>4. /\ kills' \in Seq(Kill) /\ killing' \in {0, Len(kills')} /\ Len(kills) <= Len(kills')
        /\ \A x \in 1..Len(kills) : kills'[x] = kills[x]
    BY <1>1, <1>2, <1>3, <2>1 DEF OomContext
  <2> HIDE DEF l
  <2> QED
    BY <2>1, <2>2, <2>3, <2>4, LineIsWritten
<1>4. ASSUME NEW pid \in VictimPIDs, NEW memcg \in BOOLEAN, OomKilledAlone(pid, memcg) PROVE LogInv'
  <2> DEFINE l == Line("killed", Len(kills) + 1, pid, memcg, "err")
  <2>1. WriteLine(l) /\ killing = 0 /\ killing' = 0 /\ l.kind = "killed" /\ l.kill = Len(kills) + 1
    BY <1>4 DEF OomKilledAlone, Line
  <2>2. l \in LogLines
    BY <1>1 DEF Line, LogLines
  <2>3. TellsOfKill(l, kills')
    BY <1>1, <1>2, <1>4 DEF TellsOfKill, OomKilledAlone, Line
  <2>4. /\ kills' \in Seq(Kill) /\ killing' \in {0, Len(kills')} /\ Len(kills) <= Len(kills')
        /\ \A x \in 1..Len(kills) : kills'[x] = kills[x]
    BY <1>1, <1>2, <1>4, <2>1 DEF OomKilledAlone
  <2> HIDE DEF l
  <2> QED
    BY <2>1, <2>2, <2>3, <2>4, LineIsWritten
<1>5. ASSUME OomKilled PROVE LogInv'
  <2> DEFINE l == Line("killed", killing, kills[killing].pid, kills[killing].memcg, "err")
  <2>1. /\ WriteLine(l) /\ killing # 0 /\ killing' = 0 /\ l.kind = "killed" /\ l.kill = killing
        /\ kills' = kills /\ killing \in 1..Len(kills)
    BY <1>1, <1>5 DEF OomKilled, Line
  <2>2. kills[killing].pid \in VictimPIDs /\ kills[killing].memcg \in BOOLEAN
    <3> HIDE DEF l
    <3>1. \A x \in 1..Len(kills) : kills[x] \in Kill
      <4> HIDE DEF Kill
      <4> QED
        BY <1>1, ElementOfSeq
    <3>2. kills[killing] \in Kill
      BY <2>1, <3>1
    <3> QED
      BY <3>2
  <2>3. l \in LogLines /\ TellsOfKill(l, kills')
    BY <1>1, <2>1, <2>2 DEF Line, LogLines, TellsOfKill
  <2>4. /\ kills' \in Seq(Kill) /\ killing' \in {0, Len(kills')} /\ Len(kills) <= Len(kills')
        /\ \A x \in 1..Len(kills) : kills'[x] = kills[x]
    BY <1>1, <2>1
  <2> HIDE DEF l
  <2> QED
    BY <2>1, <2>3, <2>4, LineIsWritten
<1>6. ASSUME NEW lvl \in {"info", "err"}, KernelMessage(lvl) PROVE LogInv'
  <2> DEFINE l == Line("other", 0, 0, FALSE, lvl)
  <2>1. WriteLine(l) /\ killing' = killing /\ kills' = kills /\ l.kind = "other"
    BY <1>6 DEF KernelMessage, Line
  <2>2. l \in LogLines /\ TellsOfKill(l, kills')
    BY DEF Line, LogLines, TellsOfKill
  <2>3. /\ kills' \in Seq(Kill) /\ killing' \in {0, Len(kills')} /\ Len(kills) <= Len(kills')
        /\ \A x \in 1..Len(kills) : kills'[x] = kills[x]
    BY <1>1, <2>1
  <2> HIDE DEF l
  <2> QED
    BY <2>1, <2>2, <2>3, LineIsWritten
<1> QED
  BY <1>3, <1>4, <1>5, <1>6 DEF KernelNext

LEMMA DumpStep ==
    ASSUME LogInv, DumpNext \/ UNCHANGED logVars PROVE LogInv'
<1>1. kills' = kills /\ killing' = killing /\ ringBuffer' = ringBuffer /\ journal' = journal
  BY DEF DumpNext, SelEvent, ProcessCrashes, DumpRemoved, logVars
<1> QED
  BY <1>1 DEF LogInv

\* What the scan of a ring has after i lines.
EventRecords == [kill : Nat, pid : VictimPIDs \union {0}, scope : {"cgroup", "global"}, constraint : BOOLEAN]
ScanStates == [events : Seq(EventRecords), pending : SUBSET LogLines]

Told(e) == /\ e.kill \in 1..Len(kills)
           /\ e.scope = IF kills[e.kill].memcg THEN "cgroup" ELSE "global"
ToldInOrder(events) ==
    /\ \A x \in 1..Len(events) : Told(events[x])
    /\ \A x, y \in 1..Len(events) : x < y => events[x].kill < events[y].kill

KillOpen(s, j, i) ==
    /\ s.pending = {ringBuffer[j]} /\ ringBuffer[j].kind = "context"
    /\ \A q \in (j + 1)..i : ringBuffer[q].kind = "other"

KilledIn(lines, k) == \E m \in lines : ringBuffer[m].kind = "killed" /\ ringBuffer[m].kill = k

OomScanned(s, i) ==
    /\ s \in ScanStates /\ ToldInOrder(s.events)
    /\ \A x \in 1..Len(s.events) : KilledIn(1..i, s.events[x].kill)
    /\ \A m \in 1..i : ringBuffer[m].kind = "killed"
                       => \E x \in 1..Len(s.events) : s.events[x].kill = ringBuffer[m].kill
    /\ \A m \in 1..i : ringBuffer[m].kind = "context"
                       => KillOpen(s, m, i) \/ KilledIn((m + 1)..i, ringBuffer[m].kill)
    /\ s.pending = {} \/ \E j \in 1..i : KillOpen(s, j, i)

LEMMA EventIsTyped ==
    ASSUME NEW l \in LogLines, NEW c \in SUBSET LogLines PROVE Event(l, c) \in EventRecords
  BY DEF Event, EventRecords, LogLines

LEMMA FlushIsTyped == ASSUME NEW s \in ScanStates PROVE Flush(s) \in Seq(EventRecords)
<1>1. s.events \in Seq(EventRecords) /\ s.pending \in SUBSET LogLines
  BY DEF ScanStates
<1>2. s.pending # {} => (CHOOSE c \in s.pending : TRUE) \in LogLines
  BY <1>1
<1>3. s.pending # {} => Event(CHOOSE c \in s.pending : TRUE, s.pending) \in EventRecords
  BY <1>1, <1>2, EventIsTyped
<1> HIDE DEF EventRecords
<1> QED
  BY <1>1, <1>3 DEF Flush

LEMMA ParseLineIsTyped ==
    ASSUME NEW s \in ScanStates, NEW l \in LogLines PROVE ParseLine(s, l) \in ScanStates
<1>1. s.events \in Seq(EventRecords) /\ s.pending \in SUBSET LogLines
  BY DEF ScanStates
<1>2. Flush(s) \in Seq(EventRecords)
  BY FlushIsTyped
<1>3. Event(l, {}) \in EventRecords /\ Event(l, s.pending) \in EventRecords
  BY <1>1, EventIsTyped
<1>4. /\ Append(Flush(s), Event(l, {})) \in Seq(EventRecords)
      /\ Append(s.events, Event(l, s.pending)) \in Seq(EventRecords)
  BY <1>1, <1>2, <1>3
<1>5. \A ev \in Seq(EventRecords), p \in SUBSET LogLines : [events |-> ev, pending |-> p] \in ScanStates
  BY DEF ScanStates
<1>6. CASE l.kind = "context"
  <2>1. ParseLine(s, l) = [events |-> Flush(s), pending |-> {l}]
    BY <1>6 DEF ParseLine
  <2> QED
    BY <1>2, <1>5, <2>1
<1>7. CASE l.kind = "killed" /\ \E c \in s.pending : c.pid = l.pid
  <2>1. ParseLine(s, l) = [events |-> Append(s.events, Event(l, s.pending)), pending |-> {}]
    BY <1>7 DEF ParseLine
  <2> QED
    BY <1>4, <1>5, <2>1
<1>8. CASE l.kind = "killed" /\ ~(\E c \in s.pending : c.pid = l.pid)
  <2>1. ParseLine(s, l) = [events |-> Append(Flush(s), Event(l, {})), pending |-> {}]
    BY <1>8 DEF ParseLine
  <2> QED
    BY <1>4, <1>5, <2>1
<1>9. CASE l.kind = "other"
  <2>1. ParseLine(s, l) = s
    BY <1>9 DEF ParseLine
  <2> QED
    BY <2>1
<1> QED
  BY <1>6, <1>7, <1>8, <1>9 DEF LogLines

LEMMA OomScanSteps ==
    ASSUME LogInv
    PROVE  /\ Scan \in [0..Len(ringBuffer) -> ScanStates]
           /\ Scan[0] = [events |-> << >>, pending |-> {}]
           /\ \A i \in 1..Len(ringBuffer) : Scan[i] = ParseLine(Scan[i - 1], ringBuffer[i])
<1> DEFINE n == Len(ringBuffer)
           base == [events |-> << >>, pending |-> {}]
           step == [x \in (1..n) \X ScanStates |-> ParseLine(x[2], ringBuffer[x[1]])]
<1>1. n \in Nat /\ ringBuffer \in Seq(LogLines) /\ \A i \in 1..n : ringBuffer[i] \in LogLines
  BY DEF LogInv, RingOk
<1>2. base \in ScanStates
  BY DEF ScanStates
<1>3. step \in [(1..n) \X ScanStates -> ScanStates]
  <2> SUFFICES ASSUME NEW i \in 1..n, NEW s \in ScanStates PROVE ParseLine(s, ringBuffer[i]) \in ScanStates
    OBVIOUS
  <2> QED
    BY <1>1, ParseLineIsTyped
<1>4. \A i \in 1..n, s \in ScanStates : step[<<i, s>>] = ParseLine(s, ringBuffer[i])
  OBVIOUS
<1> HIDE DEF step, base
<1>f. PICK f : Stepwise(f, n, ScanStates, base, step)
  <2>1. n \in Nat
    BY <1>1
  <2> HIDE DEF n
  <2> QED
    BY <2>1, <1>2, <1>3, StepByStep
<1>5. /\ f \in [0..n -> ScanStates] /\ f[0] = base
      /\ \A i \in 1..n : f[i] = step[<<i, f[i - 1]>>]
  BY <1>f DEF Stepwise
<1>6. \A i \in 1..n : i \in 0..n /\ i # 0 /\ i - 1 \in 0..n
  BY <1>1
<1>7. f = [i \in 0..n |-> IF i = 0 THEN base ELSE ParseLine(f[i - 1], ringBuffer[i])]
  <2>1. ASSUME NEW i \in 0..n
        PROVE f[i] = IF i = 0 THEN base ELSE ParseLine(f[i - 1], ringBuffer[i])
    <3>1. i # 0 => i \in 1..n /\ i - 1 \in 0..n
      BY <1>1
    <3>2. i # 0 => f[i - 1] \in ScanStates
      BY <1>5, <3>1
    <3> QED
      BY <1>4, <1>5, <3>1, <3>2
  <2> QED
    BY <1>5, <2>1
<1>8. Scan = CHOOSE g : g = [i \in 0..n |-> IF i = 0 THEN base ELSE ParseLine(g[i - 1], ringBuffer[i])]
  BY DEF Scan, base
<1>9. Scan = [i \in 0..n |-> IF i = 0 THEN base ELSE ParseLine(Scan[i - 1], ringBuffer[i])]
  BY <1>7, <1>8
<1> HIDE DEF n
<1>10. Scan[0] = base /\ \A i \in 1..n : Scan[i] = ParseLine(Scan[i - 1], ringBuffer[i])
  BY <1>1, <1>6, <1>9
<1>11. \A i \in 0..n : Scan[i] \in ScanStates
  <2> DEFINE S == {i \in Nat : i <= n => Scan[i] \in ScanStates}
  <2>1. 0 \in S
    BY <1>2, <1>10
  <2>2. ASSUME NEW i \in Nat, i \in S PROVE i + 1 \in S
    <3> SUFFICES ASSUME i + 1 <= n PROVE Scan[i + 1] \in ScanStates
      OBVIOUS
    <3>1. i + 1 \in 1..n /\ (i + 1) - 1 = i /\ Scan[i] \in ScanStates
      BY <1>1, <2>2
    <3>2. Scan[i + 1] = ParseLine(Scan[i], ringBuffer[i + 1])
      BY <1>10, <3>1
    <3> QED
      BY <1>1, <3>1, <3>2, ParseLineIsTyped
  <2>3. Nat \subseteq S
    <3> HIDE DEF S
    <3> QED
      BY <2>1, <2>2, EveryNumber
  <2> QED
    BY <1>1, <2>3
<1>12. Scan \in [0..n -> ScanStates]
  BY <1>9, <1>11
<1>13. Scan[0] = [events |-> << >>, pending |-> {}]
  BY <1>10 DEF base
<1>14. /\ Scan \in [0..Len(ringBuffer) -> ScanStates]
       /\ \A i \in 1..Len(ringBuffer) : Scan[i] = ParseLine(Scan[i - 1], ringBuffer[i])
  BY <1>10, <1>12, Zenon DEF n
<1> QED
  BY <1>13, <1>14

LEMMA EventJoins ==
    ASSUME NEW events \in Seq(EventRecords), ToldInOrder(events), NEW e \in EventRecords, Told(e),
           \A x \in 1..Len(events) : events[x].kill < e.kill
    PROVE  /\ Append(events, e) \in Seq(EventRecords) /\ ToldInOrder(Append(events, e))
           /\ Len(Append(events, e)) = Len(events) + 1 /\ Append(events, e)[Len(events) + 1] = e
           /\ \A x \in 1..Len(events) : Append(events, e)[x] = events[x]
<1> DEFINE a == Append(events, e)
           n == Len(events)
<1>1. /\ n \in Nat /\ a \in Seq(EventRecords) /\ Len(a) = n + 1 /\ a[n + 1] = e
      /\ \A x \in 1..n : a[x] = events[x]
  <2> HIDE DEF EventRecords
  <2> QED
    OBVIOUS
<1> HIDE DEF a
<1>2. ASSUME NEW x \in 1..Len(a) PROVE Told(a[x])
  <2>1. x \in 1..n \/ x = n + 1
    BY <1>1
  <2> QED
    BY <1>1, <2>1 DEF ToldInOrder
<1>3. ASSUME NEW x \in 1..Len(a), NEW y \in 1..Len(a), x < y PROVE a[x].kill < a[y].kill
  <2>1. x \in 1..n /\ (y \in 1..n \/ y = n + 1)
    BY <1>1, <1>3
  <2> QED
    BY <1>1, <1>3, <2>1 DEF ToldInOrder
<1>4. ToldInOrder(a)
  BY <1>2, <1>3 DEF ToldInOrder
<1> QED
  BY <1>1, <1>4 DEF a

\* A kill with a Killed line so far is before the kill of any later line.
LEMMA KilledBefore ==
    ASSUME LogInv, NEW i \in 1..Len(ringBuffer), NEW k, KilledIn(1..(i - 1), k),
           ringBuffer[i].kind # "other"
    PROVE  k < ringBuffer[i].kill
<1>1. Len(ringBuffer) \in Nat /\ \A m \in 1..Len(ringBuffer) : ringBuffer[m] \in LogLines
  BY DEF LogInv, RingOk
<1>2. PICK m \in 1..(i - 1) : ringBuffer[m].kind = "killed" /\ ringBuffer[m].kill = k
  BY DEF KilledIn
<1>3. m \in 1..Len(ringBuffer) /\ m < i
  BY <1>1
<1>4. /\ ringBuffer[m].kill <= ringBuffer[i].kill
      /\ ringBuffer[m].kill = ringBuffer[i].kill => ringBuffer[m].kind = "context"
  BY <1>2, <1>3 DEF LogInv, RingOk, KillsFollow
<1>5. ringBuffer[m].kill \in Nat /\ ringBuffer[i].kill \in Nat
  BY <1>1, <1>3 DEF LogLines
<1> QED
  BY <1>2, <1>4, <1>5

\* The context that waits is closed by the next line that tells of a kill.
LEMMA WaitingIsNext ==
    ASSUME LogInv, NEW i \in 1..Len(ringBuffer), NEW s, NEW j \in 1..(i - 1), KillOpen(s, j, i - 1),
           ringBuffer[i].kind # "other"
    PROVE  ringBuffer[i].kind = "killed" /\ ringBuffer[i].kill = ringBuffer[j].kill
<1>1. Len(ringBuffer) \in Nat /\ j \in 1..Len(ringBuffer) /\ j < i
  BY DEF LogInv, RingOk
<1>2. ringBuffer[j].kind = "context" /\ \A q \in (j + 1)..(i - 1) : ringBuffer[q].kind = "other"
  BY DEF KillOpen
<1>3. ringBuffer[i].kill = ringBuffer[j].kill
  <2> SUFFICES ASSUME ringBuffer[i].kill # ringBuffer[j].kill PROVE FALSE
    OBVIOUS
  <2>1. PICK m \in (j + 1)..(i - 1) : ringBuffer[m].kind = "killed"
    BY <1>1, <1>2 DEF LogInv, RingOk, ContextsClose
  <2> QED
    BY <1>2, <2>1
<1>4. ringBuffer[i].kind = "killed"
  BY <1>1, <1>2, <1>3 DEF LogInv, RingOk, KillsFollow
<1> QED
  BY <1>3, <1>4

LEMMA LineTells ==
    ASSUME LogInv, NEW i \in 1..Len(ringBuffer), ringBuffer[i].kind # "other", NEW c,
           c = {} \/ \E j \in 1..Len(ringBuffer) : /\ c = {ringBuffer[j]} /\ ringBuffer[j].kind # "other"
                                                   /\ ringBuffer[j].kill = ringBuffer[i].kill
    PROVE  Event(ringBuffer[i], c) \in EventRecords /\ Told(Event(ringBuffer[i], c))
           /\ Event(ringBuffer[i], c).kill = ringBuffer[i].kill
<1>1. \A m \in 1..Len(ringBuffer) : ringBuffer[m] \in LogLines /\ TellsOfKill(ringBuffer[m], kills)
  BY DEF LogInv, RingOk
<1>2. Event(ringBuffer[i], c) \in EventRecords
  BY <1>1, EventIsTyped
<1>3. ringBuffer[i].kill \in 1..Len(kills) /\ ringBuffer[i].memcg = kills[ringBuffer[i].kill].memcg
  BY <1>1 DEF TellsOfKill
<1>4. \A d \in c : d.memcg = kills[ringBuffer[i].kill].memcg
  BY <1>1 DEF TellsOfKill
<1>5. Event(ringBuffer[i], c).kill = ringBuffer[i].kill
  BY DEF Event
<1>6. Event(ringBuffer[i], c).scope = IF kills[ringBuffer[i].kill].memcg THEN "cgroup" ELSE "global"
  BY <1>3, <1>4 DEF Event
<1> QED
  BY <1>2, <1>3, <1>5, <1>6 DEF Told

LEMMA ScanKeeps ==
    ASSUME LogInv, NEW i \in 1..Len(ringBuffer), NEW s, OomScanned(s, i - 1)
    PROVE  OomScanned(ParseLine(s, ringBuffer[i]), i)
<1> DEFINE R == ringBuffer
           u == ParseLine(s, R[i])
<1> SUFFICES OomScanned(u, i)
  OBVIOUS
<1>1. /\ Len(R) \in Nat /\ i \in Nat /\ i - 1 \in Nat /\ i \in 1..i /\ R[i] \in LogLines
      /\ \A m \in 1..i : m \in 1..Len(R) /\ (m # i => m \in 1..(i - 1))
      /\ \A m \in 1..(i - 1) : m \in 1..i /\ m # i /\ i \in (m + 1)..i
  BY DEF LogInv, RingOk
<1>2. s \in ScanStates /\ s.events \in Seq(EventRecords) /\ ToldInOrder(s.events) /\ Len(s.events) \in Nat
  <2>1. s \in ScanStates /\ ToldInOrder(s.events)
    BY DEF OomScanned
  <2>2. s.events \in Seq(EventRecords)
    BY <2>1 DEF ScanStates
  <2> HIDE DEF EventRecords
  <2> QED
    BY <2>1, <2>2
<1>3. u \in ScanStates
  BY <1>1, <1>2, ParseLineIsTyped
<1>4. ASSUME NEW k, NEW m \in 0..(i - 1), KilledIn((m + 1)..(i - 1), k) PROVE KilledIn((m + 1)..i, k)
  BY <1>1, <1>4 DEF KilledIn
<1>5. ASSUME NEW k, KilledIn(1..(i - 1), k) PROVE KilledIn(1..i, k)
  BY <1>1, <1>5 DEF KilledIn
<1>6. CASE R[i].kind = "other"
  <2>1. u = s
    BY <1>6 DEF ParseLine
  <2>2. ASSUME NEW m \in 1..(i - 1), KillOpen(s, m, i - 1) PROVE KillOpen(s, m, i)
    <3>1. \A q \in (m + 1)..i : q \in (m + 1)..(i - 1) \/ q = i
      BY <1>1
    <3> QED
      BY <1>6, <2>2, <3>1 DEF KillOpen
  <2>3. \A x \in 1..Len(s.events) : KilledIn(1..i, s.events[x].kill)
    BY <1>5 DEF OomScanned
  <2>4. \A m \in 1..i : R[m].kind = "killed" => \E x \in 1..Len(s.events) : s.events[x].kill = R[m].kill
    BY <1>1, <1>6 DEF OomScanned
  <2>5. ASSUME NEW m \in 1..i, R[m].kind = "context"
        PROVE  KillOpen(s, m, i) \/ KilledIn((m + 1)..i, R[m].kill)
    <3>1. m \in 1..(i - 1) /\ m \in 0..(i - 1)
      BY <1>1, <1>6, <2>5
    <3>2. KillOpen(s, m, i - 1) \/ KilledIn((m + 1)..(i - 1), R[m].kill)
      BY <2>5, <3>1 DEF OomScanned
    <3> QED
      BY <1>4, <2>2, <3>1, <3>2
  <2>6. s.pending = {} \/ \E j \in 1..i : KillOpen(s, j, i)
    <3>1. s.pending = {} \/ \E j \in 1..(i - 1) : KillOpen(s, j, i - 1)
      BY DEF OomScanned
    <3> QED
      BY <1>1, <2>2, <3>1
  <2> QED
    BY <1>2, <2>1, <2>3, <2>4, <2>5, <2>6 DEF OomScanned
<1>7. CASE R[i].kind = "context"
  <2>1. s.pending = {}
    <3>1. ASSUME NEW j \in 1..(i - 1), KillOpen(s, j, i - 1) PROVE FALSE
      <4>1. R[i].kind = "killed"
        BY <1>7, <3>1, WaitingIsNext
      <4> QED
        BY <1>7, <4>1
    <3> QED
      BY <3>1 DEF OomScanned
  <2>2. u = [events |-> s.events, pending |-> {R[i]}]
    BY <1>7, <2>1 DEF ParseLine, Flush
  <2>3. u.events = s.events /\ u.pending = {R[i]}
    BY <2>2
  <2>4. \A x \in 1..Len(s.events) : KilledIn(1..i, s.events[x].kill)
    BY <1>5 DEF OomScanned
  <2>5. \A m \in 1..i : R[m].kind = "killed" => \E x \in 1..Len(s.events) : s.events[x].kill = R[m].kill
    BY <1>1, <1>7 DEF OomScanned
  <2>6. KillOpen(u, i, i)
    <3>1. \A q \in (i + 1)..i : FALSE
      BY <1>1
    <3> QED
      BY <1>7, <2>3, <3>1 DEF KillOpen
  <2>7. ASSUME NEW m \in 1..i, R[m].kind = "context"
        PROVE  KillOpen(u, m, i) \/ KilledIn((m + 1)..i, R[m].kill)
    <3>1. CASE m = i
      BY <2>6, <3>1
    <3>2. CASE m # i
      <4>1. m \in 1..(i - 1) /\ m \in 0..(i - 1)
        BY <1>1, <3>2
      <4>2. ~KillOpen(s, m, i - 1)
        BY <2>1 DEF KillOpen
      <4>3. KilledIn((m + 1)..(i - 1), R[m].kill)
        BY <2>7, <4>1, <4>2 DEF OomScanned
      <4> QED
        BY <1>4, <4>1, <4>3
    <3> QED
      BY <3>1, <3>2
  <2>8. \E j \in 1..i : KillOpen(u, j, i)
    BY <1>1, <2>6
  <2> HIDE DEF u
  <2> QED
    BY <1>2, <1>3, <2>3, <2>4, <2>5, <2>7, <2>8 DEF OomScanned
<1>8. CASE R[i].kind = "killed"
  <2> DEFINE e == Event(R[i], s.pending)
             a == Append(s.events, e)
  <2>1. ASSUME s.pending # {}
        PROVE  \E j \in 1..(i - 1) : KillOpen(s, j, i - 1) /\ R[j].kill = R[i].kill
    <3>1. PICK j \in 1..(i - 1) : KillOpen(s, j, i - 1)
      BY <2>1 DEF OomScanned
    <3>2. R[j].kill = R[i].kill
      BY <1>8, <3>1, WaitingIsNext
    <3> QED
      BY <3>1, <3>2
  <2>2. u = [events |-> a, pending |-> {}]
    <3>1. CASE s.pending = {}
      <4>1. Flush(s) = s.events /\ ~(\E c \in s.pending : c.pid = R[i].pid)
        BY <3>1 DEF Flush
      <4>2. u = [events |-> Append(Flush(s), Event(R[i], {})), pending |-> {}]
        BY <1>8, <4>1 DEF ParseLine
      <4> QED
        BY <3>1, <4>1, <4>2
    <3>2. CASE s.pending # {}
      <4>1. PICK j \in 1..(i - 1) : KillOpen(s, j, i - 1) /\ R[j].kill = R[i].kill
        BY <2>1, <3>2
      <4>2. R[j] \in s.pending /\ R[j].kind # "other"
        BY <4>1 DEF KillOpen
      <4>3. j \in 1..Len(R)
        BY <1>1
      <4>4. R[j].pid = R[i].pid
        BY <1>8, <4>1, <4>2, <4>3 DEF LogInv, RingOk, TellsOfKill
      <4>5. \E c \in s.pending : c.pid = R[i].pid
        BY <4>2, <4>4
      <4> QED
        BY <1>8, <4>5 DEF ParseLine
    <3> QED
      BY <3>1, <3>2
  <2>3. u.events = a /\ u.pending = {}
    BY <2>2
  <2>4. e \in EventRecords /\ Told(e) /\ e.kill = R[i].kill
    <3>1. s.pending = {} \/ \E j \in 1..Len(R) : /\ s.pending = {R[j]} /\ R[j].kind # "other"
                                                 /\ R[j].kill = R[i].kill
      <4> SUFFICES ASSUME s.pending # {}
                   PROVE  \E j \in 1..Len(R) : /\ s.pending = {R[j]} /\ R[j].kind # "other"
                                               /\ R[j].kill = R[i].kill
        OBVIOUS
      <4>1. PICK j \in 1..(i - 1) : KillOpen(s, j, i - 1) /\ R[j].kill = R[i].kill
        BY <2>1
      <4> QED
        BY <1>1, <4>1 DEF KillOpen
    <3> QED
      BY <1>8, <3>1, LineTells
  <2>5. \A x \in 1..Len(s.events) : s.events[x].kill < e.kill
    <3>1. \A x \in 1..Len(s.events) : KilledIn(1..(i - 1), s.events[x].kill)
      BY DEF OomScanned
    <3> QED
      BY <1>8, <2>4, <3>1, KilledBefore
  <2> HIDE DEF e
  <2>6. /\ ToldInOrder(a) /\ Len(a) = Len(s.events) + 1 /\ a[Len(s.events) + 1] = e
        /\ \A x \in 1..Len(s.events) : a[x] = s.events[x]
    BY <1>2, <2>4, <2>5, EventJoins
  <2> HIDE DEF a, u
  <2>7. ASSUME NEW x \in 1..Len(a) PROVE KilledIn(1..i, a[x].kill)
    <3>1. x \in 1..Len(s.events) \/ x = Len(s.events) + 1
      BY <1>2, <2>6
    <3>2. KilledIn(1..i, e.kill)
      BY <1>1, <1>8, <2>4 DEF KilledIn
    <3>3. \A y \in 1..Len(s.events) : KilledIn(1..i, s.events[y].kill)
      BY <1>5 DEF OomScanned
    <3> QED
      BY <2>6, <3>1, <3>2, <3>3
  <2>8. ASSUME NEW m \in 1..i, R[m].kind = "killed" PROVE \E x \in 1..Len(a) : a[x].kill = R[m].kill
    <3>1. CASE m = i
      <4>1. Len(s.events) + 1 \in 1..Len(a)
        BY <1>2, <2>6
      <4> QED
        BY <2>4, <2>6, <3>1, <4>1
    <3>2. CASE m # i
      <4>1. PICK x \in 1..Len(s.events) : s.events[x].kill = R[m].kill
        BY <1>1, <2>8, <3>2 DEF OomScanned
      <4>2. x \in 1..Len(a)
        BY <1>2, <2>6
      <4> QED
        BY <2>6, <4>1, <4>2
    <3> QED
      BY <3>1, <3>2
  <2>9. ASSUME NEW m \in 1..i, R[m].kind = "context" PROVE KilledIn((m + 1)..i, R[m].kill)
    <3>1. m \in 1..(i - 1) /\ m \in 0..(i - 1)
      BY <1>1, <1>8, <2>9
    <3>2. CASE KillOpen(s, m, i - 1)
      <4>1. R[i].kill = R[m].kill
        BY <1>8, <3>1, <3>2, WaitingIsNext
      <4>2. i \in (m + 1)..i
        BY <1>1, <3>1
      <4> QED
        BY <1>8, <4>1, <4>2 DEF KilledIn
    <3>3. CASE KilledIn((m + 1)..(i - 1), R[m].kill)
      BY <1>4, <3>1, <3>3
    <3> QED
      BY <2>9, <3>1, <3>2, <3>3 DEF OomScanned
  <2> QED
    BY <1>3, <2>3, <2>6, <2>7, <2>8, <2>9 DEF OomScanned
<1> QED
  BY <1>1, <1>6, <1>7, <1>8 DEF LogLines

LEMMA RingIsScanned ==
    ASSUME LogInv PROVE OomScanned(Scan[Len(ringBuffer)], Len(ringBuffer))
<1> DEFINE n == Len(ringBuffer)
           S == {i \in Nat : i <= n => OomScanned(Scan[i], i)}
<1>1. n \in Nat
  BY DEF LogInv, RingOk
<1>2. 0 \in S
  <2>1. Scan[0] \in ScanStates /\ Scan[0].events = << >> /\ Scan[0].pending = {}
    <3>1. 0 \in 0..n
      BY <1>1
    <3>2. Scan[0] \in ScanStates
      BY <3>1, OomScanSteps
    <3> QED
      BY <3>2, OomScanSteps
  <2>2. ToldInOrder(<< >>)
    BY DEF ToldInOrder
  <2>3. Len(<< >>) = 0 /\ (\A m \in 1..0 : FALSE)
    OBVIOUS
  <2>4. OomScanned(Scan[0], 0)
    BY <2>1, <2>2, <2>3 DEF OomScanned
  <2> QED
    BY <2>4
<1>3. ASSUME NEW i \in Nat, i \in S PROVE i + 1 \in S
  <2> SUFFICES ASSUME i + 1 <= n PROVE OomScanned(Scan[i + 1], i + 1)
    OBVIOUS
  <2>1. OomScanned(Scan[i], (i + 1) - 1) /\ i + 1 \in 1..n
    <3>1. (i + 1) - 1 = i /\ i <= n /\ i + 1 \in 1..n
      BY <1>1
    <3> QED
      BY <1>3, <3>1
  <2>2. Scan[i + 1] = ParseLine(Scan[i], ringBuffer[i + 1])
    <3>1. (i + 1) - 1 = i
      OBVIOUS
    <3> QED
      BY <2>1, <3>1, OomScanSteps
  <2> QED
    BY <2>1, <2>2, ScanKeeps
<1>4. Nat \subseteq S
  <2> HIDE DEF S
  <2> QED
    BY <1>2, <1>3, EveryNumber
<1> QED
  BY <1>1, <1>4

LEMMA EveryKillIsTold ==
    ASSUME LogInv PROVE OomKillsCountedOnce
<1> DEFINE R == ringBuffer
           n == Len(R)
           s == Scan[n]
           ringKills == {R[i].kill : i \in DOMAIN R} \ {0}
<1>1. n \in Nat /\ DOMAIN R = 1..n /\ \A m \in 1..n : R[m] \in LogLines /\ TellsOfKill(R[m], kills)
  BY DEF LogInv, RingOk
<1>2. OomScanned(s, n)
  BY RingIsScanned
<1> HIDE DEF s
<1>3. s.events \in Seq(EventRecords) /\ ToldInOrder(s.events) /\ Len(s.events) \in Nat
  <2>1. s \in ScanStates /\ ToldInOrder(s.events)
    BY <1>2 DEF OomScanned
  <2>2. s.events \in Seq(EventRecords)
    BY <2>1 DEF ScanStates
  <2> HIDE DEF EventRecords
  <2> QED
    BY <2>1, <2>2
<1>4. /\ Flush(s) \in Seq(EventRecords) /\ ToldInOrder(Flush(s))
      /\ \A m \in 1..n : R[m].kind # "other" => \E x \in 1..Len(Flush(s)) : Flush(s)[x].kill = R[m].kill
      /\ \A x \in 1..Len(Flush(s)) : \E m \in 1..n : R[m].kind # "other" /\ Flush(s)[x].kill = R[m].kill
  <2>1. CASE s.pending = {}
    <3>1. Flush(s) = s.events
      BY <2>1 DEF Flush
    <3>2. ASSUME NEW m \in 1..n, R[m].kind # "other" PROVE \E x \in 1..Len(s.events) : s.events[x].kill = R[m].kill
      <4>1. CASE R[m].kind = "killed"
        BY <1>2, <4>1 DEF OomScanned
      <4>2. CASE R[m].kind = "context"
        <5>1. ~KillOpen(s, m, n)
          BY <2>1 DEF KillOpen
        <5>2. PICK q \in (m + 1)..n : R[q].kind = "killed" /\ R[q].kill = R[m].kill
          BY <1>2, <4>2, <5>1 DEF OomScanned, KilledIn
        <5>3. q \in 1..n
          BY <1>1
        <5> QED
          BY <1>2, <5>2, <5>3 DEF OomScanned
      <4> QED
        BY <1>1, <3>2, <4>1, <4>2 DEF LogLines
    <3>3. ASSUME NEW x \in 1..Len(s.events)
          PROVE \E m \in 1..n : R[m].kind # "other" /\ s.events[x].kill = R[m].kill
      BY <1>2 DEF OomScanned, KilledIn
    <3> QED
      BY <1>3, <3>1, <3>2, <3>3
  <2>2. CASE s.pending # {}
    <3>1. PICK j \in 1..n : KillOpen(s, j, n)
      BY <1>2, <2>2 DEF OomScanned
    <3>2. /\ s.pending = {R[j]} /\ R[j].kind = "context"
          /\ \A q \in (j + 1)..n : R[q].kind = "other"
      BY <3>1 DEF KillOpen
    <3> DEFINE e == Event(R[j], s.pending)
               a == Append(s.events, e)
    <3>3. Flush(s) = a
      <4>1. (CHOOSE c \in s.pending : TRUE) = R[j]
        BY <3>2
      <4> QED
        BY <2>2, <4>1 DEF Flush
    <3>4. e \in EventRecords /\ Told(e) /\ e.kill = R[j].kill
      BY <3>2, LineTells
    <3> HIDE DEF e
    <3>5. ASSUME NEW x \in 1..Len(s.events) PROVE s.events[x].kill < e.kill
      <4>1. PICK m \in 1..n : R[m].kind = "killed" /\ R[m].kill = s.events[x].kill
        BY <1>2 DEF OomScanned, KilledIn
      <4>2. m \in 1..(j - 1)
        BY <1>1, <3>2, <4>1
      <4>3. KilledIn(1..(j - 1), s.events[x].kill)
        BY <4>1, <4>2 DEF KilledIn
      <4> QED
        BY <3>2, <3>4, <4>3, KilledBefore
    <3>6. /\ a \in Seq(EventRecords) /\ ToldInOrder(a) /\ Len(a) = Len(s.events) + 1
          /\ a[Len(s.events) + 1] = e /\ \A x \in 1..Len(s.events) : a[x] = s.events[x]
      BY <1>3, <3>4, <3>5, EventJoins
    <3> HIDE DEF a
    <3>7. ASSUME NEW m \in 1..n, R[m].kind # "other" PROVE \E x \in 1..Len(a) : a[x].kill = R[m].kill
      <4>1. ASSUME NEW q \in 1..n, R[q].kind = "killed" PROVE \E x \in 1..Len(a) : a[x].kill = R[q].kill
        <5>1. PICK x \in 1..Len(s.events) : s.events[x].kill = R[q].kill
          BY <1>2, <4>1 DEF OomScanned
        <5>2. x \in 1..Len(a)
          BY <1>3, <3>6
        <5> QED
          BY <3>6, <5>1, <5>2
      <4>2. CASE R[m].kind = "context" /\ KillOpen(s, m, n)
        <5>1. R[m] = R[j]
          BY <3>2, <4>2 DEF KillOpen
        <5>2. Len(s.events) + 1 \in 1..Len(a)
          BY <1>3, <3>6
        <5> QED
          BY <3>4, <3>6, <5>1, <5>2
      <4>3. CASE R[m].kind = "context" /\ ~KillOpen(s, m, n)
        <5>1. PICK q \in (m + 1)..n : R[q].kind = "killed" /\ R[q].kill = R[m].kill
          BY <1>2, <4>3 DEF OomScanned, KilledIn
        <5>2. q \in 1..n
          BY <1>1
        <5>3. \E x \in 1..Len(a) : a[x].kill = R[q].kill
          BY <4>1, <5>1, <5>2
        <5> QED
          BY <5>1, <5>3
      <4> QED
        BY <1>1, <3>7, <4>1, <4>2, <4>3 DEF LogLines
    <3>8. ASSUME NEW x \in 1..Len(a) PROVE \E m \in 1..n : R[m].kind # "other" /\ a[x].kill = R[m].kill
      <4>1. x \in 1..Len(s.events) \/ x = Len(s.events) + 1
        BY <1>3, <3>6
      <4>2. CASE x \in 1..Len(s.events)
        <5>1. PICK m \in 1..n : R[m].kind = "killed" /\ R[m].kill = s.events[x].kill
          BY <1>2, <4>2 DEF OomScanned, KilledIn
        <5> QED
          BY <3>6, <4>2, <5>1
      <4>3. CASE x = Len(s.events) + 1
        BY <3>2, <3>4, <3>6, <4>3
      <4> QED
        BY <4>1, <4>2, <4>3
    <3> QED
      BY <3>3, <3>6, <3>7, <3>8
  <2> QED
    BY <2>1, <2>2
<1> DEFINE evs == Flush(s)
<1>5. evs = parseOOMEvents
  BY DEF parseOOMEvents, s
<1>6. DOMAIN evs = 1..Len(evs)
  <2> HIDE DEF EventRecords
  <2> QED
    BY <1>4
<1> HIDE DEF evs
<1>7. {evs[i].kill : i \in DOMAIN evs} = ringKills
  <2>1. ASSUME NEW x \in DOMAIN evs PROVE evs[x].kill \in ringKills
    <3>1. PICK m \in 1..n : R[m].kind # "other" /\ evs[x].kill = R[m].kill
      BY <1>4, <1>6 DEF evs
    <3>2. R[m].kill # 0
      BY <1>1, <3>1 DEF TellsOfKill
    <3> QED
      BY <1>1, <3>1, <3>2
  <2>2. ASSUME NEW k \in ringKills PROVE k \in {evs[i].kill : i \in DOMAIN evs}
    <3>1. PICK m \in 1..n : R[m].kill = k /\ k # 0
      BY <1>1
    <3>2. R[m].kind # "other"
      BY <1>1, <3>1 DEF TellsOfKill
    <3>3. \E x \in DOMAIN evs : evs[x].kill = k
      BY <1>4, <1>6, <3>1, <3>2 DEF evs
    <3> QED
      BY <3>3
  <2> QED
    BY <2>1, <2>2
<1>8. \A i, j \in DOMAIN evs : i < j => evs[i].kill < evs[j].kill
  BY <1>4, <1>6 DEF ToldInOrder, evs
<1>9. \A i \in DOMAIN evs : evs[i].scope = IF kills[evs[i].kill].memcg THEN "cgroup" ELSE "global"
  BY <1>4, <1>6 DEF ToldInOrder, Told, evs
<1> QED
  BY <1>5, <1>7, <1>8, <1>9 DEF OomKillsCountedOnce

-----------------------------------------------------------------------------
(***************************************************************************)
(* The lists of LogTools. In a strict order of a finite set the number of  *)
(* those before an element is its place, so that the first n are n, or     *)
(* all.                                                                    *)
(***************************************************************************)
Ranks(K, rel) == [k \in K |-> Cardinality({j \in K : <<j, k>> \in rel})]
FirstOf(K, rel, n) == {k \in K : Cardinality({j \in K : <<j, k>> \in rel}) < n}
Ordered(K, rel) ==
    /\ IsFiniteSet(K) /\ \A k \in K : <<k, k>> \notin rel
    /\ \A j, k \in K : j # k => <<j, k>> \in rel \/ <<k, j>> \in rel
    /\ \A i, j, k \in K : <<i, j>> \in rel /\ <<j, k>> \in rel => <<i, k>> \in rel

LEMMA RanksFollow ==
    ASSUME NEW K, NEW rel, Ordered(K, rel)
    PROVE  /\ Ranks(K, rel) \in [K -> 0..(Cardinality(K) - 1)]
           /\ \A j, k \in K : <<j, k>> \in rel => Ranks(K, rel)[j] < Ranks(K, rel)[k]
<1> DEFINE below(k) == {j \in K : <<j, k>> \in rel}
<1>1. IsFiniteSet(K) /\ Cardinality(K) \in Nat
  BY FS_CardinalityType DEF Ordered
<1>2. ASSUME NEW k \in K
      PROVE  /\ IsFiniteSet(below(k)) /\ Cardinality(below(k)) \in 0..(Cardinality(K) - 1)
  <2>1. below(k) \in SUBSET K /\ k \notin below(k)
    BY DEF Ordered
  <2>2. IsFiniteSet(below(k)) /\ Cardinality(below(k)) <= Cardinality(K) /\ Cardinality(K) # Cardinality(below(k))
    <3> HIDE DEF below
    <3> QED
      BY <1>1, <2>1, FS_Subset
  <2>3. Cardinality(below(k)) \in Nat
    BY <2>2, FS_CardinalityType
  <2> QED
    BY <1>1, <2>2, <2>3
<1>3. ASSUME NEW j \in K, NEW k \in K, <<j, k>> \in rel
      PROVE  Cardinality(below(j)) < Cardinality(below(k))
  <2>1. below(j) \in SUBSET below(k) /\ j \in below(k) /\ j \notin below(j)
    BY <1>3 DEF Ordered
  <2>2. Cardinality(below(j)) <= Cardinality(below(k)) /\ Cardinality(below(k)) # Cardinality(below(j))
    <3>1. IsFiniteSet(below(k))
      BY <1>2
    <3> HIDE DEF below
    <3> QED
      BY <2>1, <3>1, FS_Subset
  <2>3. Cardinality(below(j)) \in 0..(Cardinality(K) - 1) /\ Cardinality(below(k)) \in 0..(Cardinality(K) - 1)
    BY <1>2
  <2> QED
    BY <1>1, <2>2, <2>3
<1>4. Ranks(K, rel) = [k \in K |-> Cardinality(below(k))]
  BY DEF Ranks
<1> HIDE DEF below
<1> QED
  BY <1>2, <1>3, <1>4

LEMMA FirstAreCounted ==
    ASSUME NEW K, NEW rel, Ordered(K, rel), NEW n \in Nat
    PROVE  /\ FirstOf(K, rel, n) = K \/ Cardinality(FirstOf(K, rel, n)) = n
           /\ \A j, k \in K : <<j, k>> \in rel /\ k \in FirstOf(K, rel, n) => j \in FirstOf(K, rel, n)
<1> DEFINE f == Ranks(K, rel)
           C == FirstOf(K, rel, n)
           m == Cardinality(K)
<1>1. IsFiniteSet(K) /\ m \in Nat
  BY FS_CardinalityType DEF Ordered
<1>2. C = {k \in K : f[k] < n}
  BY DEF FirstOf, Ranks
<1>3. f \in [K -> 0..(m - 1)] /\ \A j, k \in K : <<j, k>> \in rel => f[j] < f[k]
  BY RanksFollow
<1> HIDE DEF f, C
<1>a. \A j \in K : f[j] \in Int
  BY <1>1, <1>3
<1>b. \A j, k \in K : j # k => <<j, k>> \in rel \/ <<k, j>> \in rel
  BY DEF Ordered
<1>c. \A j, k \in K : <<j, k>> \in rel => f[j] < f[k]
  BY <1>3
<1>4. \A j, k \in K : f[j] \in Int /\ (f[j] = f[k] => j = k)
  <2> SUFFICES ASSUME NEW j \in K, NEW k \in K, f[j] = f[k], j # k PROVE FALSE
    BY <1>a
  <2>1. f[j] < f[k] \/ f[k] < f[j]
    BY <1>b, <1>c
  <2> QED
    BY <1>a, <2>1
<1>5. \A j, k \in K : <<j, k>> \in rel /\ k \in C => j \in C
  BY <1>1, <1>2, <1>3, <1>4
<1>6. ASSUME n < m PROVE Cardinality(C) = n
  <2>1. f \in Injection(K, 0..(m - 1))
    BY <1>3, <1>4 DEF Injection, IsInjective
  <2>2. IsFiniteSet(0..(m - 1)) /\ Cardinality(0..(m - 1)) = m
    BY <1>1, FS_Interval
  <2>3. f \in Surjection(K, 0..(m - 1))
    BY <2>1, <2>2, FS_Injection
  <2> DEFINE g == [k \in C |-> f[k]]
  <2>4. g \in [C -> 0..(n - 1)]
    BY <1>1, <1>2, <1>3
  <2>5. \A j, k \in C : g[j] = g[k] => j = k
    BY <1>2, <1>4
  <2>6. \A i \in 0..(n - 1) : \E k \in C : g[k] = i
    BY <1>1, <1>2, <1>6, <2>3 DEF Surjection
  <2> HIDE DEF g
  <2>7. g \in Bijection(C, 0..(n - 1))
    BY <2>4, <2>5, <2>6 DEF Bijection, Injection, Surjection, IsInjective
  <2>8. IsFiniteSet(C)
    BY <1>1, <1>2, FS_Subset
  <2>9. Cardinality(0..(n - 1)) = Cardinality(C)
    BY <2>7, <2>8, FS_Bijection DEF ExistsBijection
  <2>10. Cardinality(0..(n - 1)) = n
    BY FS_Interval
  <2> QED
    BY <2>9, <2>10
<1>7. ASSUME n >= m PROVE C = K
  BY <1>1, <1>2, <1>3, <1>7
<1> QED
  BY <1>1, <1>5, <1>6, <1>7 DEF C

LEMMA LastAreCounted ==
    ASSUME NEW K \in SUBSET Nat, IsFiniteSet(K), NEW n \in Nat
    PROVE  /\ LastOf(K, n) = K \/ Cardinality(LastOf(K, n)) = n
           /\ \A j, k \in K : j > k /\ k \in LastOf(K, n) => j \in LastOf(K, n)
<1> DEFINE rel == {p \in K \X K : p[1] > p[2]}
<1>1. \A j, k \in K : <<j, k>> \in rel <=> j > k
  OBVIOUS
<1> HIDE DEF rel
<1>2. Ordered(K, rel)
  BY <1>1 DEF Ordered
<1>3. FirstOf(K, rel, n) = LastOf(K, n)
  <2>1. \A k \in K : {j \in K : <<j, k>> \in rel} = {j \in K : j > k}
    BY <1>1
  <2> QED
    BY <2>1 DEF FirstOf, LastOf
<1>4. /\ FirstOf(K, rel, n) = K \/ Cardinality(FirstOf(K, rel, n)) = n
      /\ \A j, k \in K : <<j, k>> \in rel /\ k \in FirstOf(K, rel, n) => j \in FirstOf(K, rel, n)
  BY <1>2, FirstAreCounted
<1> QED
  BY <1>1, <1>3, <1>4

-----------------------------------------------------------------------------
\* A dump is later than those before it, and its time is one the clock showed.
DumpRecords == [time : Nat, exe : {"a", "b"}, present : BOOLEAN, micro : BOOLEAN]
DumpInv ==
    /\ sel \in Seq([critical : BOOLEAN])
    /\ dumps \in Seq(DumpRecords)
    /\ logEvents \in 0..MaxLogEvents
    /\ \A k \in 1..Len(dumps) : ClockStart <= dumps[k].time /\ dumps[k].time <= ClockStart + logEvents
    /\ \A j, k \in 1..Len(dumps) : j < k => dumps[j].time < dumps[k].time

LEMMA LogBounds ==
    ASSUME LogToolsAssumption
    PROVE  /\ SelRecords \in Nat \ {0} /\ MaxItemised \in Nat /\ \A n \in LastNs : Clamp(n) \in Nat \ {0}
           /\ MaxLogEvents \in Nat /\ UsecFrom \in Nat /\ UsecPerSec \in Nat /\ ClockStart \in Nat /\ UsecPerSec > 0
           /\ UsecFrom <= ClockStart * UsecPerSec /\ ClockStart + MaxLogEvents < UsecFrom
  BY DEF LogToolsAssumption, Clamp

LEMMA DumpTimes ==
    ASSUME DumpInv
    PROVE  /\ Len(dumps) \in Nat /\ DOMAIN dumps = 1..Len(dumps)
           /\ \A k \in 1..Len(dumps) : dumps[k] \in DumpRecords /\ dumps[k].time \in Nat
<1>1. \A k \in 1..Len(dumps) : dumps[k] \in DumpRecords
  <2> HIDE DEF DumpRecords
  <2> QED
    BY ElementOfSeq DEF DumpInv
<1>2. \A d \in DumpRecords : d.time \in Nat
  BY DEF DumpRecords
<1>3. Len(dumps) \in Nat /\ DOMAIN dumps = 1..Len(dumps)
  BY DEF DumpInv
<1> QED
  BY <1>1, <1>2, <1>3

LEMMA DumpInitInv == LogToolsAssumption /\ LogInit => DumpInv
  BY LogBounds DEF LogInit, DumpInv

\* Time goes on.
LEMMA ClockGoesOn ==
    ASSUME LogToolsAssumption, DumpInv, LogEvent \/ UNCHANGED logEvents
    PROVE  /\ logEvents' \in 0..MaxLogEvents /\ ClockStart \in Nat
           /\ \A k \in 1..Len(dumps) :
                ClockStart <= dumps[k].time /\ dumps[k].time <= ClockStart + logEvents'
<1>1. logEvents \in Nat /\ logEvents' \in 0..MaxLogEvents /\ logEvents <= logEvents' /\ ClockStart \in Nat
  BY LogBounds DEF LogEvent, DumpInv
<1>2. ASSUME NEW k \in 1..Len(dumps)
      PROVE  ClockStart <= dumps[k].time /\ dumps[k].time <= ClockStart + logEvents'
  <2>1. ClockStart <= dumps[k].time /\ dumps[k].time <= ClockStart + logEvents
    BY DEF DumpInv
  <2>2. dumps[k].time \in Nat
    BY DumpTimes
  <2> QED
    BY <1>1, <2>1, <2>2
<1> QED
  BY <1>1, <1>2

LEMMA DumpInvStep ==
    ASSUME LogToolsAssumption, DumpInv, KernelNext \/ DumpNext \/ UNCHANGED logVars PROVE DumpInv'
<1>1. ASSUME UNCHANGED dumps, sel' \in Seq([critical : BOOLEAN]), LogEvent \/ UNCHANGED logEvents PROVE DumpInv'
  BY <1>1, ClockGoesOn DEF DumpInv
<1>2. ASSUME KernelNext \/ UNCHANGED logVars
      PROVE  UNCHANGED <<sel, dumps>> /\ (LogEvent \/ UNCHANGED logEvents)
  BY <1>2 DEF KernelNext, OomContext, OomKilled, OomKilledAlone, KernelMessage, logVars
<1>3. ASSUME NEW c \in BOOLEAN, SelEvent(c)
      PROVE  UNCHANGED dumps /\ LogEvent /\ sel' \in Seq([critical : BOOLEAN])
  <2> DEFINE T == [critical : BOOLEAN]
             a == Append(sel, [critical |-> c])
  <2>1. a \in Seq(T) /\ Len(a) \in Nat
    BY DEF DumpInv
  <2>2. Newest(a, SelRecords) \in Seq(T)
    <3> HIDE DEF a, T
    <3>1. Len(a) > SelRecords => SubSeq(a, Len(a) - SelRecords + 1, Len(a)) \in Seq(T)
      BY <2>1, LogBounds
    <3> QED
      BY <2>1, <3>1 DEF Newest
  <2> QED
    BY <1>3, <2>2 DEF SelEvent
<1>4. ASSUME NEW e \in {"a", "b"}, NEW m \in BOOLEAN, ProcessCrashes(e, m) PROVE DumpInv'
  <2> DEFINE d == [time |-> ClockStart + logEvents', exe |-> e, present |-> TRUE, micro |-> m]
             n == Len(dumps)
  <2>1. /\ UNCHANGED sel /\ LogEvent /\ logEvents' = logEvents + 1 /\ dumps' = Append(dumps, d)
        /\ logEvents \in Nat /\ ClockStart \in Nat
    BY <1>4, LogBounds DEF ProcessCrashes, LogEvent, DumpInv
  <2>2. d \in DumpRecords /\ d.time = ClockStart + logEvents'
    BY <2>1 DEF DumpRecords
  <2>3. n \in Nat /\ \A k \in 1..n : dumps[k].time \in Nat /\ dumps[k].time <= ClockStart + logEvents
    BY DumpTimes DEF DumpInv
  <2> HIDE DEF d
  <2>4. /\ dumps' \in Seq(DumpRecords) /\ Len(dumps') = n + 1
        /\ dumps'[n + 1] = d /\ \A k \in 1..n : dumps'[k] = dumps[k]
    <3> HIDE DEF DumpRecords
    <3> QED
      BY <2>1, <2>2 DEF DumpInv
  <2>5. \A k \in 1..Len(dumps') : k \in 1..n \/ k = n + 1
    BY <2>3, <2>4
  <2>6. \A k \in 1..Len(dumps') :
          ClockStart <= dumps'[k].time /\ dumps'[k].time <= ClockStart + logEvents'
    <3> SUFFICES ASSUME NEW k \in 1..Len(dumps')
                 PROVE  ClockStart <= dumps'[k].time /\ dumps'[k].time <= ClockStart + logEvents'
      OBVIOUS
    <3>1. CASE k \in 1..n
      BY <2>1, <2>4, <3>1, ClockGoesOn
    <3>2. CASE k = n + 1
      BY <2>1, <2>2, <2>4, <3>2
    <3> QED
      BY <2>5, <3>1, <3>2
  <2>7. \A j, k \in 1..Len(dumps') : j < k => dumps'[j].time < dumps'[k].time
    <3> SUFFICES ASSUME NEW j \in 1..Len(dumps'), NEW k \in 1..Len(dumps'), j < k
                 PROVE  dumps'[j].time < dumps'[k].time
      OBVIOUS
    <3>1. j \in 1..n /\ (k \in 1..n \/ k = n + 1)
      <4>1. n \in Nat /\ Len(dumps') = n + 1
        BY <2>3, <2>4
      <4> HIDE DEF n
      <4> QED
        BY <4>1
    <3>2. CASE k \in 1..n
      BY <2>4, <3>1, <3>2 DEF DumpInv
    <3>3. CASE k = n + 1
      BY <2>1, <2>2, <2>3, <2>4, <3>1, <3>3
    <3> QED
      BY <3>1, <3>2, <3>3
  <2>8. logEvents' \in 0..MaxLogEvents /\ sel' \in Seq([critical : BOOLEAN])
    BY <2>1, ClockGoesOn DEF DumpInv
  <2> QED
    BY <2>4, <2>6, <2>7, <2>8 DEF DumpInv
<1>5. ASSUME NEW k \in DOMAIN dumps, DumpRemoved(k) PROVE DumpInv'
  <2>1. k \in 1..Len(dumps) /\ Len(dumps) \in Nat /\ \A i \in 1..Len(dumps) : dumps[i] \in DumpRecords
    BY DumpTimes
  <2> DEFINE d == [dumps[k] EXCEPT !.present = FALSE]
  <2>2. d \in DumpRecords /\ d.time = dumps[k].time
    BY <2>1 DEF DumpRecords
  <2>3. UNCHANGED sel /\ LogEvent /\ dumps' = [dumps EXCEPT ![k] = d]
    BY <1>5 DEF DumpRemoved
  <2> HIDE DEF d
  <2>4. /\ dumps' \in Seq(DumpRecords) /\ Len(dumps') = Len(dumps)
        /\ \A i \in 1..Len(dumps) : dumps'[i] = IF i = k THEN d ELSE dumps[i]
    <3> HIDE DEF DumpRecords
    <3> QED
      BY <2>1, <2>2, <2>3, ExceptSeq DEF DumpInv
  <2>5. \A i \in 1..Len(dumps) : dumps'[i].time = dumps[i].time
    BY <2>2, <2>4
  <2>6. \A i \in 1..Len(dumps') :
          ClockStart <= dumps'[i].time /\ dumps'[i].time <= ClockStart + logEvents'
    BY <2>3, <2>4, <2>5, ClockGoesOn
  <2>7. \A i, j \in 1..Len(dumps') : i < j => dumps'[i].time < dumps'[j].time
    BY <2>4, <2>5 DEF DumpInv
  <2>8. logEvents' \in 0..MaxLogEvents /\ sel' \in Seq([critical : BOOLEAN])
    BY <2>3, ClockGoesOn DEF DumpInv
  <2> QED
    BY <2>4, <2>6, <2>7, <2>8 DEF DumpInv
<1>6. ASSUME KernelNext \/ UNCHANGED logVars PROVE DumpInv'
  <2>1. sel' \in Seq([critical : BOOLEAN])
    BY <1>2, <1>6 DEF DumpInv
  <2> QED
    BY <1>1, <1>2, <1>6, <2>1
<1> QED
  BY <1>1, <1>3, <1>4, <1>5, <1>6 DEF DumpNext

\* A file's time is taken for microseconds exactly if it is in microseconds.
LEMMA UsecIsOfTime ==
    ASSUME LogToolsAssumption, DumpInv, NEW k \in ListedDumps
    PROVE  k \in 1..Len(dumps) /\ Usec(k) = dumps[k].time * UsecPerSec
<1>1. k \in 1..Len(dumps)
  BY DumpTimes DEF ListedDumps, scanCoredumpDir
<1> DEFINE t == dumps[k].time
<1>2. t \in Nat /\ t >= ClockStart /\ t <= ClockStart + MaxLogEvents
  <2>1. t \in Nat /\ t >= ClockStart /\ t <= ClockStart + logEvents /\ logEvents \in 0..MaxLogEvents
    BY <1>1, DumpTimes, LogBounds DEF DumpInv
  <2> HIDE DEF t
  <2> QED
    BY <2>1, LogBounds
<1>3. /\ MaxLogEvents \in Nat /\ UsecFrom \in Nat /\ UsecPerSec \in Nat /\ ClockStart \in Nat
      /\ UsecFrom <= ClockStart * UsecPerSec /\ ClockStart + MaxLogEvents < UsecFrom
  BY LogBounds
<1>4. t * UsecPerSec >= UsecFrom /\ t * UsecPerSec \in Nat /\ t < UsecFrom
  <2>1. t - ClockStart \in Nat /\ (t - ClockStart) * UsecPerSec \in Nat /\ ClockStart * UsecPerSec \in Nat
    BY <1>2, <1>3
  <2>2. t * UsecPerSec = (t - ClockStart) * UsecPerSec + ClockStart * UsecPerSec
    BY <1>2, <1>3
  <2> HIDE DEF t
  <2> QED
    BY <1>2, <1>3, <2>1, <2>2
<1>5. parseCoreFilename(dumps[k]) = t * UsecPerSec
  <2> DEFINE u == t * UsecPerSec
  <2>1. parseCoreFilename(dumps[k]) = IF (IF dumps[k].micro THEN u ELSE t) < UsecFrom
                                      THEN (IF dumps[k].micro THEN u ELSE t) * UsecPerSec
                                      ELSE (IF dumps[k].micro THEN u ELSE t)
    BY DEF parseCoreFilename
  <2>2. u \in Nat /\ u >= UsecFrom /\ t < UsecFrom /\ u = t * UsecPerSec
    BY <1>4
  <2>3. CASE dumps[k].micro
    <3>1. ~(u < UsecFrom)
      <4> HIDE DEF u
      <4> QED
        BY <1>3, <2>2
    <3> QED
      BY <2>1, <2>3, <3>1
  <2>4. CASE ~dumps[k].micro
    BY <2>1, <2>2, <2>4
  <2> QED
    BY <2>3, <2>4
<1> QED
  BY <1>1, <1>5 DEF Usec

\* Times are compared by one unit, so the later dump is before the earlier one.
LEMMA LaterIsBefore ==
    ASSUME LogToolsAssumption, DumpInv, NEW j \in ListedDumps, NEW k \in ListedDumps
    PROVE  /\ DumpBefore(j, k) <=> dumps[j].time > dumps[k].time
           /\ dumps[j].time > dumps[k].time <=> j > k
<1> DEFINE s == dumps[j].time
           t == dumps[k].time
           u == UsecPerSec
<1>1. /\ j \in 1..Len(dumps) /\ k \in 1..Len(dumps) /\ s \in Nat /\ t \in Nat /\ Len(dumps) \in Nat
      /\ Usec(j) = s * u /\ Usec(k) = t * u
  BY UsecIsOfTime, DumpTimes
<1>2. u \in Nat /\ u > 0
  BY LogBounds
<1>3. j < k => s < t
  BY <1>1 DEF DumpInv
<1>4. k < j => t < s
  BY <1>1 DEF DumpInv
<1> HIDE DEF s, t, u
<1>5. \A a, b \in Nat : a > b => a * u > b * u
  <2> SUFFICES ASSUME NEW a \in Nat, NEW b \in Nat, a > b PROVE a * u > b * u
    OBVIOUS
  <2>1. (a - b) - 1 \in Nat /\ ((a - b) - 1) * u \in Nat /\ b * u \in Nat
    BY <1>2
  <2>2. a * u = b * u + u + ((a - b) - 1) * u
    BY <1>2
  <2> QED
    BY <1>2, <2>1, <2>2
<1>6. j = k \/ j < k \/ k < j
  BY <1>1
<1>7. s * u \in Nat /\ t * u \in Nat
  BY <1>1, <1>2
<1>8. j = k => s = t
  BY DEF s, t
<1>9. (s > t => s * u > t * u) /\ (t > s => t * u > s * u)
  BY <1>1, <1>5
<1>10. DumpBefore(j, k) <=> s * u > t * u \/ (s * u = t * u /\ j < k)
  BY <1>1 DEF DumpBefore
<1>11. (s > t <=> j > k) /\ (DumpBefore(j, k) <=> s > t)
  BY <1>1, <1>3, <1>4, <1>6, <1>7, <1>8, <1>9, <1>10
<1> QED
  BY <1>11 DEF s, t

LEMMA NewestDumps ==
    ASSUME LogToolsAssumption, DumpInv, NEW n \in LastNs
    PROVE  /\ CoreDumps(n) = ListedDumps \/ Cardinality(CoreDumps(n)) = Clamp(n)
           /\ \A j, k \in ListedDumps :
                /\ DumpBefore(j, k) <=> dumps[j].time > dumps[k].time
                /\ dumps[j].time > dumps[k].time /\ k \in CoreDumps(n) => j \in CoreDumps(n)
<1> DEFINE rel == {p \in ListedDumps \X ListedDumps : DumpBefore(p[1], p[2])}
<1>1. \A j, k \in ListedDumps : <<j, k>> \in rel <=> DumpBefore(j, k)
  OBVIOUS
<1> HIDE DEF rel
<1>2. \A j, k \in ListedDumps : (<<j, k>> \in rel <=> j > k) /\ (DumpBefore(j, k) <=> dumps[j].time > dumps[k].time)
  BY <1>1, LaterIsBefore
<1>3. ListedDumps \in SUBSET (1..Len(dumps)) /\ IsFiniteSet(ListedDumps) /\ ListedDumps \subseteq Nat
  <2>1. ListedDumps \in SUBSET (1..Len(dumps)) /\ Len(dumps) \in Nat
    BY DumpTimes DEF ListedDumps, scanCoredumpDir
  <2>2. IsFiniteSet(1..Len(dumps))
    BY <2>1, FS_Interval
  <2>3. ListedDumps \subseteq Nat
    BY <2>1
  <2> QED
    BY <2>1, <2>2, <2>3, FS_Subset
<1>4. Ordered(ListedDumps, rel)
  <2>1. \A k \in ListedDumps : k \in Int
    BY <1>3
  <2> QED
    BY <1>2, <1>3, <2>1 DEF Ordered
<1>5. CoreDumps(n) = FirstOf(ListedDumps, rel, Clamp(n))
  <2>1. \A k \in ListedDumps : {j \in ListedDumps : <<j, k>> \in rel} = {j \in ListedDumps : DumpBefore(j, k)}
    BY <1>1
  <2> QED
    BY <2>1 DEF CoreDumps, FirstOf
<1>6. Clamp(n) \in Nat
  BY LogBounds
<1>7. /\ FirstOf(ListedDumps, rel, Clamp(n)) = ListedDumps \/ Cardinality(FirstOf(ListedDumps, rel, Clamp(n))) = Clamp(n)
      /\ \A j, k \in ListedDumps : <<j, k>> \in rel /\ k \in FirstOf(ListedDumps, rel, Clamp(n))
                              => j \in FirstOf(ListedDumps, rel, Clamp(n))
  BY <1>4, <1>6, FirstAreCounted
<1> QED
  BY <1>1, <1>2, <1>5, <1>7

LEMMA NewestLines ==
    ASSUME NEW T, NEW log \in Seq(T), NEW lvl, NEW n \in Nat
    PROVE  /\ \A i \in Matching(log, lvl) \cap LastOf(DOMAIN log, n), j \in Matching(log, lvl) :
                j > i => j \in Matching(log, lvl) \cap LastOf(DOMAIN log, n)
           /\ \/ LastOf(Matching(log, lvl), n) = Matching(log, lvl)
              \/ Cardinality(LastOf(Matching(log, lvl), n)) = n
           /\ \A i \in LastOf(Matching(log, lvl), n), j \in Matching(log, lvl) :
                j > i => j \in LastOf(Matching(log, lvl), n)
<1> DEFINE M == Matching(log, lvl)
<1>1. DOMAIN log = 1..Len(log) /\ Len(log) \in Nat
  OBVIOUS
<1>2. IsFiniteSet(DOMAIN log) /\ DOMAIN log \in SUBSET Nat
  BY <1>1, FS_Interval
<1>3. M \in SUBSET DOMAIN log
  BY DEF Matching
<1>4. IsFiniteSet(M) /\ M \in SUBSET Nat
  BY <1>2, <1>3, FS_Subset
<1> HIDE DEF M
<1>5. /\ LastOf(M, n) = M \/ Cardinality(LastOf(M, n)) = n
      /\ \A j, k \in M : j > k /\ k \in LastOf(M, n) => j \in LastOf(M, n)
  BY <1>4, LastAreCounted
<1>6. \A j, k \in DOMAIN log : j > k /\ k \in LastOf(DOMAIN log, n) => j \in LastOf(DOMAIN log, n)
  BY <1>2, LastAreCounted
<1>7. LastOf(M, n) \subseteq M
  BY DEF LastOf
<1> QED
  BY <1>3, <1>5, <1>6, <1>7 DEF M

LEMMA NewestFirst ==
    ASSUME NEW T, NEW s \in Seq(T), NEW n \in Nat \ {0}
    PROVE  LET r == Reverse(Newest(s, n)) IN
           /\ Len(r) = Len(s) \/ (Len(r) = n /\ Len(s) > n)
           /\ \A i \in DOMAIN r : r[i] = s[Len(s) + 1 - i]
<1> DEFINE N == Newest(s, n)
           m == Len(N)
           r == Reverse(N)
<1>1. Len(s) \in Nat
  OBVIOUS
<1>2. /\ m \in Nat /\ m <= Len(s) /\ (m = Len(s) \/ (m = n /\ Len(s) > n))
      /\ \A i \in 1..m : N[i] = s[Len(s) - m + i]
  <2>1. CASE Len(s) > n
    <3> DEFINE k == Len(s) - n + 1
    <3>1. N = SubSeq(s, k, Len(s)) /\ k \in 1..Len(s) /\ (Len(s) - k) + 1 = n
      BY <1>1, <2>1 DEF Newest
    <3>2. \A i \in k..Len(s) : s[i] \in T
      BY <1>1, <3>1, ElementOfSeq
    <3>3. Len(N) = n /\ \A i \in 1..n : N[i] = s[k + i - 1]
      BY <1>1, <2>1, <3>1, <3>2
    <3> QED
      BY <1>1, <2>1, <3>3
  <2>2. CASE ~(Len(s) > n)
    <3>1. N = s
      BY <2>2 DEF Newest
    <3> QED
      BY <1>1, <3>1
  <2> QED
    BY <2>1, <2>2
<1> HIDE DEF N
<1>3. r = [i \in 1..m |-> N[(m - i) + 1]]
  BY DEF Reverse
<1>4. DOMAIN r = 1..m /\ Len(r) = m
  BY <1>2, <1>3
<1>5. ASSUME NEW i \in 1..m PROVE r[i] = s[Len(s) + 1 - i]
  <2>1. r[i] = N[(m - i) + 1] /\ (m - i) + 1 \in 1..m
    BY <1>2, <1>3
  <2>2. N[(m - i) + 1] = s[Len(s) - m + ((m - i) + 1)] /\ Len(s) - m + ((m - i) + 1) = Len(s) + 1 - i
    BY <1>1, <1>2, <2>1
  <2> QED
    BY <2>1, <2>2
<1> HIDE DEF r, m
<1>6. Len(r) = Len(s) \/ (Len(r) = n /\ Len(s) > n)
  BY <1>2, <1>4
<1> QED
  BY <1>4, <1>5, <1>6 DEF r, N

LEMMA CriticalsAreCounted ==
    ASSUME LogToolsAssumption, DumpInv, NEW n
    PROVE  /\ IpmiSel(n).analysis.itemised + IpmiSel(n).analysis.more = Criticals
           /\ (\E k \in DOMAIN sel : sel[k].critical) => IpmiSel(n).status = "warning"
<1> DEFINE C == {k \in DOMAIN sel : sel[k].critical}
<1>1. DOMAIN sel = 1..Len(sel) /\ Len(sel) \in Nat
  BY DEF DumpInv
<1>2. IsFiniteSet(C)
  <2>1. IsFiniteSet(DOMAIN sel) /\ C \in SUBSET DOMAIN sel
    BY <1>1, FS_Interval
  <2> QED
    BY <2>1, FS_Subset
<1>3. Criticals = Cardinality(C)
  BY DEF Criticals
<1>4. Criticals \in Nat /\ (Criticals = 0 <=> C = {})
  BY <1>2, <1>3, FS_CardinalityType, FS_EmptySet
<1>5. IpmiSel(n).analysis = analyzeRecords
      /\ IpmiSel(n).status = IF Criticals > 0 \/ SelFull THEN "warning" ELSE "ok"
  BY DEF IpmiSel
<1>6. analyzeRecords.itemised + analyzeRecords.more = Criticals
  <2>1. analyzeRecords.itemised = (IF Criticals <= MaxItemised THEN Criticals ELSE MaxItemised)
        /\ analyzeRecords.more = IF Criticals > MaxItemised THEN Criticals - MaxItemised ELSE 0
    BY DEF analyzeRecords
  <2>2. MaxItemised \in Nat
    BY LogBounds
  <2> QED
    BY <1>4, <2>1, <2>2
<1>7. C # {} => Criticals > 0
  BY <1>4
<1> QED
  BY <1>5, <1>6, <1>7

\* The lists of the five tools (oomevents.go 213-241, ipmisel.go 201-249,
\* coredumps.go 190-243, querydmesg.go 182-208).
LEMMA CutsFollow ==
    ASSUME LogToolsAssumption, LogInv, DumpInv PROVE CutListsAreNewest
<1> SUFFICES ASSUME NEW n \in LastNs
             PROVE
        /\ LET r == OomEvents(n)
           IN /\ klog # "none" => r.total = Len(parseOOMEvents)
              /\ Len(r.events) = r.total \/ (Len(r.events) = Clamp(n) /\ r.total > Clamp(n))
              /\ \A i \in DOMAIN r.events : r.events[i] = parseOOMEvents[r.total + 1 - i]
        /\ IpmiSel(n).analysis.itemised + IpmiSel(n).analysis.more = Criticals
        /\ (\E k \in DOMAIN sel : sel[k].critical) => IpmiSel(n).status = "warning"
        /\ CoreDumps(n) = ListedDumps \/ Cardinality(CoreDumps(n)) = Clamp(n)
        /\ \A j, k \in ListedDumps :
             /\ DumpBefore(j, k) <=> dumps[j].time > dumps[k].time
             /\ dumps[j].time > dumps[k].time /\ k \in CoreDumps(n) => j \in CoreDumps(n)
        /\ \A lvl \in {"", "info", "err"} : \A i \in QueryJournal(lvl, n), j \in Matching(journal, lvl) :
             j > i => j \in QueryJournal(lvl, n)
        /\ klog # "none" => \A lvl \in {"", "info", "err"} :
             LET all == Matching(ringBuffer, lvl)
             IN /\ QueryDmesg(lvl, n) = all \/ Cardinality(QueryDmesg(lvl, n)) = Clamp(n)
                /\ \A i \in QueryDmesg(lvl, n), j \in all : j > i => j \in QueryDmesg(lvl, n)
  BY DEF CutListsAreNewest
<1>1. Clamp(n) \in Nat \ {0}
  BY LogBounds
<1>a. journal \in Seq(LogLines) /\ ringBuffer \in Seq(LogLines)
  BY DEF LogInv, RingOk
<1>b. parseOOMEvents \in Seq(EventRecords)
  <2>1. Scan[Len(ringBuffer)] \in ScanStates
    BY RingIsScanned DEF OomScanned
  <2> QED
    BY <2>1, FlushIsTyped DEF parseOOMEvents
<1>2. LET r == OomEvents(n)
      IN /\ klog # "none" => r.total = Len(parseOOMEvents)
         /\ Len(r.events) = r.total \/ (Len(r.events) = Clamp(n) /\ r.total > Clamp(n))
         /\ \A i \in DOMAIN r.events : r.events[i] = parseOOMEvents[r.total + 1 - i]
  <2>1. CASE klog = "none"
    <3>1. OomEvents(n).events = << >> /\ OomEvents(n).total = 0
      BY <2>1 DEF OomEvents
    <3> QED
      BY <2>1, <3>1
  <2>2. CASE klog # "none"
    <3>1. OomEvents(n).events = Reverse(Newest(parseOOMEvents, Clamp(n)))
          /\ OomEvents(n).total = Len(parseOOMEvents)
      BY <2>2 DEF OomEvents
    <3> QED
      BY <1>1, <1>b, <3>1, NewestFirst
  <2> QED
    BY <2>1, <2>2
<1>3. \A lvl : \A i \in QueryJournal(lvl, n), j \in Matching(journal, lvl) :
        j > i => j \in QueryJournal(lvl, n)
  BY <1>1, <1>a, NewestLines DEF QueryJournal
<1>4. ASSUME klog # "none", NEW lvl
      PROVE  /\ \/ QueryDmesg(lvl, n) = Matching(ringBuffer, lvl)
                \/ Cardinality(QueryDmesg(lvl, n)) = Clamp(n)
             /\ \A i \in QueryDmesg(lvl, n), j \in Matching(ringBuffer, lvl) :
                  j > i => j \in QueryDmesg(lvl, n)
  <2>1. QueryDmesg(lvl, n) = LastOf(Matching(ringBuffer, lvl), Clamp(n))
    BY <1>4 DEF QueryDmesg
  <2> QED
    BY <1>1, <1>a, <2>1, NewestLines
<1> QED
  BY <1>2, <1>3, <1>4, CriticalsAreCounted, NewestDumps

LogSpec == LogInit /\ [][KernelNext \/ DumpNext]_logVars

(* Whatever the ring has lost and the kernel has not written yet, an OOM kill *)
(* of which it holds a line is told once, with its scope; and what a list of  *)
(* the log tools leaves out for its limit is older than what it shows         *)
(* (oomevents.go, querydmesg.go, ipmisel.go, coredumps.go).                   *)
THEOREM LogSafety == LogSpec => [](OomKillsCountedOnce /\ CutListsAreNewest)
<1>1. LogInv /\ DumpInv /\ [KernelNext \/ DumpNext]_logVars => LogInv' /\ DumpInv'
  BY KernelStep, DumpStep, DumpInvStep, LogToolsAssumption
<1>2. LogInv /\ DumpInv => OomKillsCountedOnce /\ CutListsAreNewest
  BY EveryKillIsTold, CutsFollow, LogToolsAssumption
<1>3. LogInit => LogInv /\ DumpInv
  BY LogInitInv, DumpInitInv, LogToolsAssumption
<1> QED
  BY <1>1, <1>2, <1>3, PTL DEF LogSpec

-----------------------------------------------------------------------------
(***************************************************************************)
(* HostHealth. What the tools compare is of the right kind; the clock of   *)
(* the kernel and of the daemon are one; a bond whose slaves are all up is *)
(* up.                                                                     *)
(***************************************************************************)
PsiResources == {"cpu", "memory", "io", "irq"}
BondSlaves == [up : BOOLEAN, failures : Nat]
KernelClocks == [available : BOOLEAN, synced : BOOLEAN, raw : Int, nano : BOOLEAN]
NtpDaemons == [kind : {"chrony", "timedatectl", ""}, works : BOOLEAN, synced : BOOLEAN, offset : Int]
PsiFiles == [some : Nat, full : Nat, file : {"ok", "missing", "malformed"}]
Bonds == [up : BOOLEAN, slaves : [Range(Slaves) -> BondSlaves]]
PciLinks == [link : BOOLEAN, speed : Nat, top : Nat, corrected : Nat, serious : Nat, wanted : BOOLEAN]
Sensors == [raw : Nat, max : Nat, crit : Nat]
Ports == [up : BOOLEAN, linked : BOOLEAN, errors : Nat]
Hcas == [listed : BOOLEAN, ports : [IBPorts -> Ports]]
Trackings == [count : 0..TrackMax, maxRead : BOOLEAN, stat : BOOLEAN, drops : [TrackCPUs -> Nat]]

ClockInv ==
    /\ kernelClock \in KernelClocks /\ ntp \in NtpDaemons
    /\ kernelClock.synced = ntp.synced
    /\ kernelClock.raw = ntp.offset * (IF kernelClock.nano THEN NanoPerMs ELSE MicroPerMs)
PsiInv == psi \in [PsiResources -> PsiFiles]
BondInv ==
    /\ bond \in Bonds
    /\ (\A s \in Range(Slaves) : bond.slaves[s].up) => bond.up
PciInv == pci \in [Range(PciDevices) -> PciLinks]
TempInv == temps \in [Range(TempSensors) -> Sensors]
PortInv == ib \in Hcas
TrackInv == track \in Trackings

HostInv ==
    /\ shmFiles \in BOOLEAN
    /\ ClockInv /\ PsiInv /\ BondInv /\ PciInv /\ TempInv /\ PortInv /\ TrackInv

LEMMA HostInitInv == HostInit => HostInv
<1> SUFFICES ASSUME HostInit PROVE HostInv
  OBVIOUS
<1>1. ClockInv
  <2>1. kernelClock \in [available : BOOLEAN, synced : {TRUE}, raw : {0}, nano : BOOLEAN]
    BY DEF HostInit
  <2>2. ntp \in [kind : {"chrony", "timedatectl", ""}, works : BOOLEAN, synced : {TRUE}, offset : {0}]
    BY DEF HostInit
  <2>3. kernelClock.raw = 0 /\ ntp.offset = 0 /\ kernelClock.synced = ntp.synced
    BY <2>1, <2>2
  <2>4. 0 = 0 * NanoPerMs /\ 0 = 0 * MicroPerMs
    BY HostHealthAssumption
  <2>5. kernelClock \in KernelClocks
    <3>1. {0} \subseteq Int /\ {TRUE} \subseteq BOOLEAN
      OBVIOUS
    <3> QED
      BY <2>1, <3>1, Zenon DEF KernelClocks
  <2>6. ntp \in NtpDaemons
    <3>1. {0} \subseteq Int /\ {TRUE} \subseteq BOOLEAN
      OBVIOUS
    <3> QED
      BY <2>2, <3>1, Zenon DEF NtpDaemons
  <2> QED
    BY <2>3, <2>4, <2>5, <2>6 DEF ClockInv
<1>2. PsiInv
  <2>1. psi = [r \in PsiResources |-> [some |-> 0, full |-> 0, file |-> "ok"]]
    BY DEF HostInit, PsiResources
  <2> QED
    BY <2>1 DEF PsiInv, PsiFiles
<1>3. BondInv
  <2>1. bond = [up |-> TRUE, slaves |-> [s \in Range(Slaves) |-> [up |-> TRUE, failures |-> 0]]]
    BY DEF HostInit
  <2> QED
    BY <2>1 DEF BondInv, Bonds, BondSlaves
<1>4. PciInv
  <2>1. pci \in [Range(PciDevices) -> [link : BOOLEAN, speed : {2}, top : {0, 2}, corrected : {0},
                                      serious : {0}, wanted : BOOLEAN]]
    BY DEF HostInit
  <2>2. [link : BOOLEAN, speed : {2}, top : {0, 2}, corrected : {0}, serious : {0}, wanted : BOOLEAN]
        \subseteq PciLinks
    BY DEF PciLinks
  <2> QED
    BY <2>1, <2>2 DEF PciInv
<1>5. TempInv
  <2>1. temps = [x \in Range(TempSensors) |-> [raw |-> 0, max |-> 0, crit |-> 0]]
    BY DEF HostInit
  <2> QED
    BY <2>1 DEF TempInv, Sensors
<1>6. PortInv
  <2> DEFINE P == [p \in IBPorts |-> [up |-> TRUE, linked |-> TRUE, errors |-> 0]]
  <2>1. ib \in [listed : BOOLEAN, ports : {P}]
    BY DEF HostInit
  <2>2. P \in [IBPorts -> Ports]
    BY DEF Ports
  <2> HIDE DEF P
  <2> QED
    BY <2>1, <2>2 DEF PortInv, Hcas
<1>7. TrackInv
  <2> DEFINE D == [c \in TrackCPUs |-> 0]
  <2>1. track \in [count : {0}, maxRead : BOOLEAN, stat : BOOLEAN, drops : {D}]
    BY DEF HostInit
  <2>2. D \in [TrackCPUs -> Nat] /\ 0 \in 0..TrackMax
    BY HostHealthAssumption
  <2> HIDE DEF D
  <2> QED
    BY <2>1, <2>2 DEF TrackInv, Trackings
<1>8. shmFiles \in BOOLEAN
  BY DEF HostInit
<1> QED
  BY <1>1, <1>2, <1>3, <1>4, <1>5, <1>6, <1>7, <1>8 DEF HostInv

LEMMA ShmStep == HostInv /\ ShmNext => HostInv'
  BY DEF ShmNext, ShmCreate, ShmAttach, ProcessEnds, hardwareVars, HostInv, ClockInv, PsiInv, BondInv,
         PciInv, TempInv, PortInv, TrackInv

LEMMA ClockStep == HostInv /\ ClockNext => HostInv'
<1> SUFFICES ASSUME HostInv, NEW o \in OffsetsMs, NEW s \in BOOLEAN, ClockDrifts(o, s) PROVE HostInv'
  BY DEF ClockNext
<1>1. UNCHANGED <<shmFiles, psi, bond, pci, temps, ib, track>>
  BY DEF ClockDrifts, hardwareVars
<1>2. ClockInv'
  <2> DEFINE unit == IF kernelClock.nano THEN NanoPerMs ELSE MicroPerMs
  <2>1. o \in Int /\ unit \in Int /\ o * unit \in Int
    BY HostHealthAssumption
  <2>2. /\ kernelClock' = [kernelClock EXCEPT !.synced = s, !.raw = o * unit]
        /\ ntp' = [ntp EXCEPT !.offset = o, !.synced = s]
    BY DEF ClockDrifts
  <2> HIDE DEF unit
  <2>3. /\ kernelClock' \in KernelClocks /\ ntp' \in NtpDaemons
        /\ kernelClock'.synced = ntp'.synced /\ kernelClock'.raw = ntp'.offset * unit
        /\ kernelClock'.nano = kernelClock.nano
    BY <2>1, <2>2 DEF HostInv, ClockInv, KernelClocks, NtpDaemons
  <2> QED
    BY <2>3 DEF ClockInv, unit
<1> QED
  BY <1>1, <1>2 DEF HostInv, PsiInv, BondInv, PciInv, TempInv, PortInv, TrackInv

LEMMA PressureStep == HostInv /\ PressureNext => HostInv'
<1> SUFFICES ASSUME HostInv, NEW r \in DOMAIN psi, NEW a \in PSILevels, NEW b \in PSILevels,
                    NEW f \in {"ok", "missing", "malformed"}, PressureChanges(r, a, b, f)
             PROVE  HostInv'
  BY DEF PressureNext
<1>1. UNCHANGED <<shmFiles, kernelClock, ntp, bond, pci, temps, ib, track>>
  BY DEF PressureChanges, hardwareVars
<1>2. PsiInv'
  BY HostHealthAssumption DEF PressureChanges, HostInv, PsiInv, PsiFiles
<1> QED
  BY <1>1, <1>2 DEF HostInv, ClockInv, BondInv, PciInv, TempInv, PortInv, TrackInv

LEMMA LinkStep == HostInv /\ LinkNext => HostInv'
<1> SUFFICES ASSUME HostInv, NEW s \in Range(Slaves), LinkChanges(s) PROVE HostInv'
  BY DEF LinkNext
<1>1. UNCHANGED <<shmFiles, kernelClock, ntp, psi, pci, temps, ib, track>>
  BY DEF LinkChanges, hardwareVars
<1>2. BondInv'
  <2> DEFINE sl == [bond.slaves EXCEPT ![s] = [up |-> ~bond.slaves[s].up,
                                               failures |-> @.failures + IF bond.slaves[s].up THEN 1 ELSE 0]]
  <2>1. bond' = [up |-> \E t \in DOMAIN sl : sl[t].up, slaves |-> sl]
    BY DEF LinkChanges
  <2>2. bond.slaves \in [Range(Slaves) -> BondSlaves]
    BY DEF HostInv, BondInv, Bonds
  <2>3. sl \in [Range(Slaves) -> BondSlaves]
    BY <2>2 DEF BondSlaves
  <2> HIDE DEF sl
  <2>4. bond'.slaves = sl /\ bond'.up = (\E t \in DOMAIN sl : sl[t].up)
    BY <2>1
  <2>5. (\A t \in Range(Slaves) : sl[t].up) => \E t \in DOMAIN sl : sl[t].up
    BY <2>3
  <2>6. bond' \in Bonds
    BY <2>1, <2>3 DEF Bonds
  <2> QED
    BY <2>4, <2>5, <2>6 DEF BondInv
<1> QED
  BY <1>1, <1>2 DEF HostInv, ClockInv, PsiInv, PciInv, TempInv, PortInv, TrackInv

LEMMA PciStep == HostInv /\ PciNext => HostInv'
<1> SUFFICES ASSUME HostInv, NEW d \in Range(PciDevices), NEW sp \in 0..2, NEW c \in 0..1, NEW e \in 0..1,
                    PciChanges(d, sp, c, e)
             PROVE  HostInv'
  BY DEF PciNext
<1>1. UNCHANGED <<shmFiles, kernelClock, ntp, psi, bond, temps, ib, track>>
  BY DEF PciChanges, softVars
<1>2. PciInv'
  <2>1. pci[d] \in PciLinks /\ sp \in Nat /\ c \in Nat /\ e \in Nat
    BY DEF HostInv, PciInv
  <2>2. [pci[d] EXCEPT !.speed = sp, !.corrected = @ + c, !.serious = @ + e] \in PciLinks
    <3>1. pci[d].corrected + c \in Nat /\ pci[d].serious + e \in Nat
      BY <2>1 DEF PciLinks
    <3>2. \A a, b \in Nat : [pci[d] EXCEPT !.speed = sp, !.corrected = a, !.serious = b] \in PciLinks
      BY <2>1 DEF PciLinks
    <3>3. [pci[d] EXCEPT !.speed = sp, !.corrected = @ + c, !.serious = @ + e]
          = [pci[d] EXCEPT !.speed = sp, !.corrected = pci[d].corrected + c, !.serious = pci[d].serious + e]
      BY <2>1 DEF PciLinks
    <3> QED
      BY <3>1, <3>2, <3>3
  <2>3. pci' = [pci EXCEPT ![d] = [pci[d] EXCEPT !.speed = sp, !.corrected = @ + c, !.serious = @ + e]]
    BY <2>1 DEF PciChanges, HostInv, PciInv, PciLinks
  <2> QED
    BY <2>2, <2>3 DEF HostInv, PciInv
<1> QED
  BY <1>1, <1>2 DEF HostInv, ClockInv, PsiInv, BondInv, TempInv, PortInv, TrackInv

LEMMA TempStep == HostInv /\ TempNext => HostInv'
<1> SUFFICES ASSUME HostInv, NEW x \in Range(TempSensors), NEW r \in RawTemps, NEW m \in RawTemps,
                    NEW c \in RawTemps, TempChanges(x, r, m, c)
             PROVE  HostInv'
  BY DEF TempNext
<1>1. UNCHANGED <<shmFiles, kernelClock, ntp, psi, bond, pci, ib, track>>
  BY DEF TempChanges, softVars
<1>2. TempInv'
  BY HostHealthAssumption DEF TempChanges, HostInv, TempInv, Sensors
<1> QED
  BY <1>1, <1>2 DEF HostInv, ClockInv, PsiInv, BondInv, PciInv, PortInv, TrackInv

LEMMA PortStep == HostInv /\ PortNext => HostInv'
<1> SUFFICES ASSUME HostInv, NEW p \in IBPorts, NEW u \in BOOLEAN, NEW l \in BOOLEAN, NEW e \in 0..1,
                    PortChanges(p, u, l, e)
             PROVE  HostInv'
  BY DEF PortNext
<1>1. UNCHANGED <<shmFiles, kernelClock, ntp, psi, bond, pci, temps, track>>
  BY DEF PortChanges, softVars
<1>2. PortInv'
  BY DEF PortChanges, HostInv, PortInv, Hcas, Ports
<1> QED
  BY <1>1, <1>2 DEF HostInv, ClockInv, PsiInv, BondInv, PciInv, TempInv, TrackInv

LEMMA TrackStep == HostInv /\ TrackNext => HostInv'
<1> SUFFICES ASSUME HostInv, TrackNext PROVE HostInv'
  OBVIOUS
<1>1. UNCHANGED <<shmFiles, kernelClock, ntp, psi, bond, pci, temps, ib>>
  BY DEF TrackNext, TrackGrows, TrackExpires, TrackDrops, softVars
<1>2. TrackMax \in Nat /\ TrackInv
  BY HostHealthAssumption DEF HostInv
<1>3. ASSUME NEW n \in 1..TrackMax, TrackGrows(n) \/ TrackExpires(n) PROVE TrackInv'
  BY <1>2, <1>3 DEF TrackGrows, TrackExpires, TrackInv, Trackings
<1>4. ASSUME NEW c \in TrackCPUs, TrackDrops(c) PROVE TrackInv'
  BY <1>2, <1>4 DEF TrackDrops, TrackInv, Trackings
<1>5. TrackInv'
  BY <1>3, <1>4 DEF TrackNext
<1> QED
  BY <1>1, <1>5 DEF HostInv, ClockInv, PsiInv, BondInv, PciInv, TempInv, PortInv

HostParts ==
    ShmNext \/ ClockNext \/ PressureNext \/ LinkNext \/ PciNext \/ TempNext \/ PortNext \/ TrackNext

LEMMA HostStep == HostInv /\ (HostParts \/ UNCHANGED hostVars) => HostInv'
<1>1. HostInv /\ UNCHANGED hostVars => HostInv'
  BY DEF hostVars, hardwareVars, HostInv, ClockInv, PsiInv, BondInv, PciInv, TempInv, PortInv, TrackInv
<1> QED
  BY <1>1, ShmStep, ClockStep, PressureStep, LinkStep, PciStep, TempStep, PortStep, TrackStep DEF HostParts

-----------------------------------------------------------------------------
\* The drops of all CPUs are at least those of each.
LEMMA DropSums ==
    ASSUME HostInv
    PROVE  /\ \A r \in 0..TrackRows : DropSum[r] \in Nat
           /\ \A c \in TrackCPUs : DropSum[TrackRows] >= track.drops[c]
<1> DEFINE n == TrackRows
           step == [x \in (1..n) \X Nat |-> x[2] + track.drops[x[1]]]
<1>1. n \in Nat /\ TrackCPUs = 1..n
  BY HostHealthAssumption DEF TrackCPUs
<1>2. \A r \in 1..n : track.drops[r] \in Nat
  BY <1>1 DEF HostInv, TrackInv, Trackings
<1>3. step \in [(1..n) \X Nat -> Nat]
  <2>1. ASSUME NEW r \in 1..n, NEW v \in Nat PROVE v + track.drops[r] \in Nat
    BY <1>2
  <2> QED
    BY <2>1
<1>4. \A r \in 1..n, v \in Nat : step[<<r, v>>] = v + track.drops[r]
  OBVIOUS
<1> HIDE DEF step
<1>5. PICK f : Stepwise(f, n, Nat, 0, step)
  <2>1. n \in Nat /\ 0 \in Nat
    BY <1>1
  <2> HIDE DEF n
  <2> QED
    BY <2>1, <1>3, StepByStep
<1>6. f \in [0..n -> Nat] /\ f[0] = 0 /\ \A r \in 1..n : f[r] = step[<<r, f[r - 1]>>]
  BY <1>5 DEF Stepwise
<1>7. f = [r \in 0..n |-> IF r = 0 THEN 0 ELSE f[r - 1] + track.drops[r]]
  <2>1. ASSUME NEW r \in 0..n PROVE f[r] = IF r = 0 THEN 0 ELSE f[r - 1] + track.drops[r]
    <3>1. r # 0 => r \in 1..n /\ r - 1 \in 0..n
      BY <1>1
    <3> QED
      BY <1>4, <1>6, <3>1
  <2> QED
    BY <1>6, <2>1
<1>8. DropSum = CHOOSE g : g = [r \in 0..n |-> IF r = 0 THEN 0 ELSE g[r - 1] + track.drops[r]]
  BY DEF DropSum
<1>9. DropSum = [r \in 0..n |-> IF r = 0 THEN 0 ELSE DropSum[r - 1] + track.drops[r]]
  BY <1>7, <1>8
<1> HIDE DEF n
<1>10. DropSum[0] = 0 /\ \A r \in 1..n : DropSum[r] = DropSum[r - 1] + track.drops[r]
  <2>1. 0 \in 0..n /\ \A r \in 1..n : r \in 0..n /\ r # 0
    BY <1>1
  <2> QED
    BY <1>9, <2>1
<1> DEFINE S == {r \in Nat : r <= n => DropSum[r] \in Nat /\ \A c \in 1..r : DropSum[r] >= track.drops[c]}
<1>11. 0 \in S
  BY <1>10
<1>12. ASSUME NEW r \in Nat, r \in S PROVE r + 1 \in S
  <2> SUFFICES ASSUME r + 1 <= n
               PROVE  DropSum[r + 1] \in Nat /\ \A c \in 1..(r + 1) : DropSum[r + 1] >= track.drops[c]
    OBVIOUS
  <2>1. r + 1 \in 1..n /\ (r + 1) - 1 = r /\ r <= n
    BY <1>1
  <2>2. DropSum[r] \in Nat /\ \A c \in 1..r : DropSum[r] >= track.drops[c]
    BY <1>12, <2>1
  <2>3. DropSum[r + 1] = DropSum[r] + track.drops[r + 1] /\ track.drops[r + 1] \in Nat
    BY <1>2, <1>10, <2>1
  <2>4. ASSUME NEW c \in 1..(r + 1) PROVE DropSum[r + 1] >= track.drops[c]
    <3>1. CASE c = r + 1
      BY <2>2, <2>3, <3>1
    <3>2. CASE c \in 1..r
      <4>1. DropSum[r] >= track.drops[c] /\ track.drops[c] \in Nat
        BY <1>1, <1>2, <2>1, <2>2, <3>2
      <4> QED
        BY <2>2, <2>3, <4>1
    <3> QED
      BY <3>1, <3>2
  <2> QED
    BY <2>2, <2>3, <2>4
<1>13. Nat \subseteq S
  <2> HIDE DEF S
  <2> QED
    BY <1>11, <1>12, EveryNumber
<1>14. \A r \in 0..n : DropSum[r] \in Nat /\ \A c \in 1..r : DropSum[r] >= track.drops[c]
  BY <1>1, <1>13
<1>15. n \in 0..n
  BY <1>1
<1>16. \A r \in 0..n : DropSum[r] \in Nat
  BY <1>14
<1>17. \A c \in 1..n : DropSum[n] >= track.drops[c]
  BY <1>14, <1>15
<1> QED
  BY <1>1, <1>16, <1>17 DEF n

LEMMA FullTableIsTold ==
    ASSUME HostInv, ConntrackSummary = "ok"
    PROVE  /\ track.stat => \A c \in TrackCPUs : track.drops[c] = 0
           /\ track.maxRead => track.count < TrackMax
<1>1. ~(computeUsagePct > 100 * TrackWarn) /\ ~(parseConntrackStat > 0)
  BY DEF ConntrackSummary, TrackWarns
<1>2. TrackMax \in Nat \ {0} /\ TrackWarn \in 0..99 /\ TrackRows \in Nat /\ track \in Trackings
  BY HostHealthAssumption DEF HostInv, TrackInv
<1>3. ASSUME track.stat, NEW c \in TrackCPUs PROVE track.drops[c] = 0
  <2>1. TrackRows \in 0..TrackRows
    BY <1>2
  <2>2. DropSum[TrackRows] \in Nat /\ DropSum[TrackRows] >= track.drops[c]
    BY <2>1, DropSums
  <2>3. track.drops[c] \in Nat
    BY <1>2 DEF Trackings
  <2>4. parseConntrackStat = DropSum[TrackRows]
    BY <1>3 DEF parseConntrackStat
  <2> QED
    BY <1>1, <2>2, <2>3, <2>4
<1>4. ASSUME track.maxRead, ~(track.count < TrackMax) PROVE FALSE
  <2>1. track.count = TrackMax
    BY <1>2, <1>4 DEF Trackings
  <2>2. computeUsagePct = (20000 * TrackMax + TrackMax) \div (2 * TrackMax)
    BY <1>4, <2>1 DEF computeUsagePct
  <2>3. \A m \in Nat \ {0} : (20000 * m + m) \div (2 * m) = 10000
    OBVIOUS
  <2>4. computeUsagePct = 10000
    BY <1>2, <2>2, <2>3
  <2> QED
    BY <1>1, <1>2, <2>4
<1> QED
  BY <1>3, <1>4

-----------------------------------------------------------------------------
\* What k lines of the file of a bond tell: the lines of slave i are the
\* lines 3i - 1, 3i and 3i + 1.
SlaveKnown(i, k) ==
    [name |-> Slaves[i],
     up |-> IF 3 * i <= k THEN bond.slaves[Slaves[i]].up ELSE FALSE,
     failures |-> IF 3 * i + 1 <= k THEN bond.slaves[Slaves[i]].failures ELSE 0]
SlavesKnown(k) == [i \in 1..((k + 1) \div 3) |-> SlaveKnown(i, k)]
BondKnown(k) == [up |-> IF k = 0 THEN FALSE ELSE bond.up, slaves |-> SlavesKnown(k)]
SlaveRecords == [name : Range(Slaves), up : BOOLEAN, failures : Nat]

LEMMA SlavesKnownAre ==
    ASSUME HostInv, NEW k \in 0..(1 + 3 * Len(Slaves))
    PROVE  /\ Len(Slaves) \in Nat /\ (k + 1) \div 3 \in 0..Len(Slaves)
           /\ SlavesKnown(k) \in Seq(SlaveRecords) /\ Len(SlavesKnown(k)) = (k + 1) \div 3
           /\ \A i \in 1..((k + 1) \div 3) : /\ SlavesKnown(k)[i] = SlaveKnown(i, k)
                                             /\ SlaveKnown(i, k) \in SlaveRecords
<1>1. Slaves \in Seq(Range(Slaves)) /\ Len(Slaves) \in Nat
  BY HostHealthAssumption
<1>2. \A i \in 1..Len(Slaves) : Slaves[i] \in Range(Slaves)
  BY <1>1 DEF Range
<1>3. \A s \in Range(Slaves) : bond.slaves[s] \in BondSlaves
  BY DEF HostInv, BondInv, Bonds
<1>4. (k + 1) \div 3 \in 0..Len(Slaves)
  BY <1>1
<1>5. ASSUME NEW i \in 1..((k + 1) \div 3) PROVE SlaveKnown(i, k) \in SlaveRecords
  <2>1. i \in 1..Len(Slaves)
    BY <1>1, <1>4
  <2>2. bond.slaves[Slaves[i]] \in BondSlaves
    BY <1>2, <1>3, <2>1
  <2>3. bond.slaves[Slaves[i]].up \in BOOLEAN /\ bond.slaves[Slaves[i]].failures \in Nat
    BY <2>2 DEF BondSlaves
  <2> QED
    BY <1>2, <2>1, <2>3 DEF SlaveKnown, SlaveRecords
<1> DEFINE m == (k + 1) \div 3
<1>6. m \in Nat /\ \A i \in 1..m : SlaveKnown(i, k) \in SlaveRecords
  BY <1>1, <1>4, <1>5
<1> HIDE DEF m
<1>7. [i \in 1..m |-> SlaveKnown(i, k)] \in Seq(SlaveRecords) /\ Len([i \in 1..m |-> SlaveKnown(i, k)]) = m
  BY <1>6
<1>8. \A i \in 1..m : [j \in 1..m |-> SlaveKnown(j, k)][i] = SlaveKnown(i, k)
  OBVIOUS
<1>9. SlavesKnown(k) = [i \in 1..m |-> SlaveKnown(i, k)]
  BY DEF SlavesKnown, m
<1> QED
  BY <1>1, <1>4, <1>6, <1>7, <1>8, <1>9 DEF m

LEMMA BondLinesAre ==
    ASSUME HostInv
    PROVE  /\ Len(BondFile) = 1 + 3 * Len(Slaves) /\ Len(BondFile) \in Nat
           /\ BondFile[1] = BondLine("mii_status", bond.up)
           /\ \A i \in 1..Len(Slaves) :
                /\ {3 * i - 1, 3 * i, 3 * i + 1} \subseteq 2..Len(BondFile)
                /\ BondFile[3 * i - 1] = BondLine("slave_interface", Slaves[i])
                /\ BondFile[3 * i] = BondLine("mii_status", bond.slaves[Slaves[i]].up)
                /\ BondFile[3 * i + 1] = BondLine("link_failure_count", bond.slaves[Slaves[i]].failures)
<1> DEFINE n == 1 + 3 * Len(Slaves)
           line(k) == LET s == Slaves[(k + 1) \div 3]
                      IN IF k = 1 THEN BondLine("mii_status", bond.up)
                         ELSE IF k % 3 = 2 THEN BondLine("slave_interface", s)
                         ELSE IF k % 3 = 0 THEN BondLine("mii_status", bond.slaves[s].up)
                         ELSE BondLine("link_failure_count", bond.slaves[s].failures)
<1>1. Len(Slaves) \in Nat /\ n \in Nat
  BY HostHealthAssumption
<1>2. BondFile = [k \in 1..n |-> line(k)]
  BY DEF BondFile
<1>3. line(1) = BondLine("mii_status", bond.up)
  OBVIOUS
<1>4. ASSUME NEW i \in 1..Len(Slaves)
      PROVE  /\ 3 * i - 1 \in 2..n /\ 3 * i \in 2..n /\ 3 * i + 1 \in 2..n
             /\ line(3 * i - 1) = BondLine("slave_interface", Slaves[i])
             /\ line(3 * i) = BondLine("mii_status", bond.slaves[Slaves[i]].up)
             /\ line(3 * i + 1) = BondLine("link_failure_count", bond.slaves[Slaves[i]].failures)
  <2>1. /\ ((3 * i - 1) + 1) \div 3 = i /\ (3 * i + 1) \div 3 = i /\ ((3 * i + 1) + 1) \div 3 = i
        /\ (3 * i - 1) % 3 = 2 /\ (3 * i) % 3 = 0 /\ (3 * i + 1) % 3 = 1
    OBVIOUS
  <2>2. 3 * i - 1 \in 2..n /\ 3 * i \in 2..n /\ 3 * i + 1 \in 2..n
    BY <1>1
  <2>3. ASSUME NEW k \in 2..n
        PROVE  /\ k % 3 = 2 => line(k) = BondLine("slave_interface", Slaves[(k + 1) \div 3])
               /\ k % 3 = 0 => line(k) = BondLine("mii_status", bond.slaves[Slaves[(k + 1) \div 3]].up)
               /\ k % 3 = 1 => line(k) = BondLine("link_failure_count",
                                                bond.slaves[Slaves[(k + 1) \div 3]].failures)
    <3>1. k # 1
      BY <1>1
    <3>2. ASSUME k % 3 = 2 PROVE line(k) = BondLine("slave_interface", Slaves[(k + 1) \div 3])
      BY <3>1, <3>2
    <3>3. ASSUME k % 3 = 0 PROVE line(k) = BondLine("mii_status", bond.slaves[Slaves[(k + 1) \div 3]].up)
      <4>1. ~(k % 3 = 2)
        BY <3>3
      <4> QED
        BY <3>1, <3>3, <4>1
    <3>4. ASSUME k % 3 = 1
          PROVE  line(k) = BondLine("link_failure_count", bond.slaves[Slaves[(k + 1) \div 3]].failures)
      <4>1. ~(k % 3 = 2) /\ ~(k % 3 = 0)
        BY <3>4
      <4> QED
        BY <3>1, <3>4, <4>1
    <3> QED
      BY <3>2, <3>3, <3>4
  <2> HIDE DEF line, n
  <2> QED
    BY <2>1, <2>2, <2>3
<1> HIDE DEF line, n
<1>5. Len(BondFile) = n
  BY <1>1, <1>2
<1>6. \A k \in 1..n : BondFile[k] = line(k)
  BY <1>2
<1>7. 1 \in 1..n /\ \A k \in 2..n : k \in 1..n
  BY <1>1 DEF n
<1>8. BondFile[1] = BondLine("mii_status", bond.up)
  BY <1>3, <1>6, <1>7
<1>9. \A i \in 1..Len(Slaves) :
                /\ {3 * i - 1, 3 * i, 3 * i + 1} \subseteq 2..n
                /\ BondFile[3 * i - 1] = BondLine("slave_interface", Slaves[i])
                /\ BondFile[3 * i] = BondLine("mii_status", bond.slaves[Slaves[i]].up)
                /\ BondFile[3 * i + 1] = BondLine("link_failure_count", bond.slaves[Slaves[i]].failures)
  BY <1>4, <1>6, <1>7
<1> QED
  BY <1>1, <1>5, <1>8, <1>9 DEF n

LEMMA BondLineTells ==
    ASSUME NEW c, NEW v PROVE BondLine(c, v).key = c /\ BondLine(c, v).value = v
  BY DEF BondLine

LEMMA BondLength == HostInv => Len(BondFile) = 1 + 3 * Len(Slaves)
  BY BondLinesAre, Zenon

LEMMA SlavesAreListed == Len(Slaves) \in Nat /\ DOMAIN Slaves = 1..Len(Slaves)
  BY HostHealthAssumption

LEMMA LineIsKnown ==
    ASSUME HostInv, NEW k \in 1..Len(BondFile)
    PROVE  BondKnown(k) = ParseBondLine(BondKnown(k - 1), BondFile[k])
<1> DEFINE n == Len(Slaves)
           b == BondKnown(k - 1)
           s == SlavesKnown(k - 1)
           t == SlavesKnown(k)
<1>1. Len(BondFile) = 1 + 3 * n /\ n \in Nat /\ k - 1 \in 0..(1 + 3 * n) /\ k \in 0..(1 + 3 * n)
  <2>1. Len(BondFile) = 1 + 3 * n /\ n \in Nat
    BY BondLength, SlavesAreListed
  <2> QED
    BY <2>1
<1>2. /\ s \in Seq(SlaveRecords) /\ Len(s) = k \div 3
      /\ \A i \in 1..(k \div 3) : s[i] = SlaveKnown(i, k - 1) /\ SlaveKnown(i, k - 1) \in SlaveRecords
  <2>1. (k - 1) + 1 = k
    OBVIOUS
  <2> QED
    BY <1>1, <2>1, SlavesKnownAre
<1>3. /\ t \in Seq(SlaveRecords) /\ Len(t) = (k + 1) \div 3 /\ (k + 1) \div 3 \in 0..n
      /\ \A i \in 1..((k + 1) \div 3) : t[i] = SlaveKnown(i, k) /\ SlaveKnown(i, k) \in SlaveRecords
  BY <1>1, SlavesKnownAre
<1>4. b.slaves = s /\ b.up = (IF k - 1 = 0 THEN FALSE ELSE bond.up) /\ b = [up |-> b.up, slaves |-> s]
  BY DEF BondKnown
<1>5. BondKnown(k) = [up |-> bond.up, slaves |-> t]
  <2>1. k # 0
    BY <1>1
  <2> QED
    BY <2>1 DEF BondKnown
<1> HIDE DEF b, s, t
<1>6. CASE k = 1
  <2>1. Len(s) = 0 /\ Len(t) = 0
    BY <1>2, <1>3, <1>6
  <2>2. s = t
    BY <1>2, <1>3, <2>1, SeqEqual
  <2>3. ParseBondLine(b, BondFile[k]) = [b EXCEPT !.up = bond.up]
    <3>1. BondFile[k] = BondLine("mii_status", bond.up)
      BY <1>6, BondLinesAre, Zenon
    <3>2. BondFile[k].key = "mii_status" /\ BondFile[k].value = bond.up
      BY <3>1, BondLineTells
    <3>3. Len(b.slaves) = 0
      BY <1>4, <2>1
    <3>4. ParseBondLine(b, BondFile[k]) = [b EXCEPT !.up = BondFile[k].value]
      BY <3>2, <3>3 DEF ParseBondLine
    <3> QED
      BY <3>2, <3>4
  <2> QED
    BY <1>4, <1>5, <2>2, <2>3 DEF b
<1>7. CASE k # 1 /\ k % 3 = 2
  <2> DEFINE i == (k + 1) \div 3
  <2>1. i \in 1..n /\ k = 3 * i - 1 /\ k \div 3 = i - 1
    BY <1>1, <1>7
  <2> HIDE DEF i
  <2>2. BondFile[k].key = "slave_interface" /\ BondFile[k].value = Slaves[i]
    <3>1. BondFile[k] = BondLine("slave_interface", Slaves[i])
      BY <2>1, BondLinesAre, Zenon
    <3> QED
      BY <3>1, BondLineTells
  <2> DEFINE r == [name |-> Slaves[i], up |-> FALSE, failures |-> 0]
  <2>3. ParseBondLine(b, BondFile[k]) = [b EXCEPT !.slaves = Append(s, r)]
    BY <1>4, <2>2 DEF ParseBondLine
  <2>4. t[i] = r /\ r \in SlaveRecords /\ Len(t) = i /\ Len(s) = i - 1
    <3>1. ~(3 * i <= k) /\ ~(3 * i + 1 <= k) /\ (k + 1) \div 3 = i
      BY <2>1
    <3>2. SlaveKnown(i, k) = r
      BY <3>1 DEF SlaveKnown
    <3> QED
      BY <1>2, <1>3, <2>1, <3>1, <3>2
  <2> HIDE DEF r
  <2>5. ASSUME NEW j \in 1..(i - 1) PROVE s[j] = t[j]
    <3>1. /\ 3 * j <= k - 1 /\ 3 * j + 1 <= k - 1 /\ 3 * j <= k /\ 3 * j + 1 <= k
          /\ j \in 1..(k \div 3) /\ j \in 1..((k + 1) \div 3)
      BY <2>1
    <3>2. SlaveKnown(j, k - 1) = SlaveKnown(j, k)
      BY <3>1 DEF SlaveKnown
    <3> QED
      BY <1>2, <1>3, <3>1, <3>2
  <2>6. Append(s, r) = t
    <3> DEFINE a == Append(s, r)
    <3>1. /\ a \in Seq(SlaveRecords) /\ Len(a) = Len(s) + 1
          /\ (\A j \in 1..Len(s) : a[j] = s[j]) /\ a[Len(s) + 1] = r
      BY <1>2, <2>4, AppendProperties
    <3> HIDE DEF a
    <3>2. ASSUME NEW j \in 1..Len(a) PROVE a[j] = t[j]
      <4>1. j \in 1..(i - 1) \/ j = i
        BY <2>1, <2>4, <3>1
      <4> QED
        BY <2>1, <2>4, <2>5, <3>1, <4>1
    <3>3. Len(a) = Len(t)
      BY <2>1, <2>4, <3>1
    <3>4. a = t
      BY <1>3, <3>1, <3>2, <3>3, SeqEqual
    <3> QED
      BY <3>4 DEF a
  <2>7. b.up = bond.up
    BY <1>1, <1>4, <1>7
  <2> QED
    BY <1>4, <1>5, <2>3, <2>6, <2>7 DEF b
<1>8. CASE k # 1 /\ k % 3 = 0
  <2> DEFINE i == k \div 3
  <2>1. i \in 1..n /\ k = 3 * i /\ (k + 1) \div 3 = i
    BY <1>1, <1>8
  <2> HIDE DEF i
  <2>2. BondFile[k].key = "mii_status" /\ BondFile[k].value = bond.slaves[Slaves[i]].up
    <3>1. BondFile[k] = BondLine("mii_status", bond.slaves[Slaves[i]].up)
      BY <2>1, BondLinesAre, Zenon
    <3> QED
      BY <3>1, BondLineTells
  <2>3. Len(s) = i /\ Len(t) = i /\ i > 0
    BY <1>2, <1>3, <2>1 DEF i
  <2> DEFINE a == [s EXCEPT ![i] = [s[i] EXCEPT !.up = bond.slaves[Slaves[i]].up]]
  <2>4. ParseBondLine(b, BondFile[k]) = [b EXCEPT !.slaves = a]
    <3>1. Len(b.slaves) = i /\ ~(i = 0) /\ i > 0 /\ b.slaves = s
      BY <1>4, <2>3
    <3> QED
      BY <2>2, <3>1 DEF ParseBondLine
  <2>5. [s[i] EXCEPT !.up = bond.slaves[Slaves[i]].up] = t[i]
    <3>1. 3 * i <= k /\ ~(3 * i <= k - 1) /\ ~(3 * i + 1 <= k) /\ ~(3 * i + 1 <= k - 1)
      BY <2>1
    <3>2. i \in 1..(k \div 3) /\ i \in 1..((k + 1) \div 3)
      BY <2>1 DEF i
    <3>3. s[i] = SlaveKnown(i, k - 1) /\ t[i] = SlaveKnown(i, k)
      BY <1>2, <1>3, <3>2
    <3>4. s[i] = [name |-> Slaves[i], up |-> FALSE, failures |-> 0]
      BY <3>1, <3>3 DEF SlaveKnown
    <3>5. t[i] = [name |-> Slaves[i], up |-> bond.slaves[Slaves[i]].up, failures |-> 0]
      BY <3>1, <3>3 DEF SlaveKnown
    <3> QED
      BY <3>4, <3>5
  <2>6. ASSUME NEW j \in 1..i, j # i PROVE s[j] = t[j]
    <3>1. /\ 3 * j <= k - 1 /\ 3 * j + 1 <= k - 1 /\ 3 * j <= k /\ 3 * j + 1 <= k
          /\ j \in 1..(k \div 3) /\ j \in 1..((k + 1) \div 3)
      BY <2>1, <2>6
    <3>2. SlaveKnown(j, k - 1) = SlaveKnown(j, k)
      BY <3>1 DEF SlaveKnown
    <3> QED
      BY <1>2, <1>3, <3>1, <3>2
  <2>7. a = t
    <3>1. t[i] \in SlaveRecords /\ i \in 1..Len(s)
      BY <1>3, <2>1, <2>3
    <3>2. a \in Seq(SlaveRecords) /\ Len(a) = Len(s) /\ \A j \in 1..Len(s) : a[j] = IF j = i THEN t[i] ELSE s[j]
      BY <1>2, <2>5, <3>1
    <3> HIDE DEF a
    <3>3. \A j \in 1..Len(a) : a[j] = t[j]
      BY <2>3, <2>6, <3>2
    <3> QED
      BY <1>3, <2>3, <3>2, <3>3, SeqEqual
  <2> HIDE DEF a
  <2>8. b.up = bond.up
    BY <1>1, <1>4, <1>8
  <2> QED
    BY <1>4, <1>5, <2>4, <2>7, <2>8 DEF b
<1>9. CASE k # 1 /\ k % 3 = 1
  <2> DEFINE i == k \div 3
  <2>1. i \in 1..n /\ k = 3 * i + 1 /\ (k + 1) \div 3 = i
    BY <1>1, <1>9
  <2> HIDE DEF i
  <2>2. BondFile[k].key = "link_failure_count" /\ BondFile[k].value = bond.slaves[Slaves[i]].failures
    <3>1. BondFile[k] = BondLine("link_failure_count", bond.slaves[Slaves[i]].failures)
      BY <2>1, BondLinesAre, Zenon
    <3> QED
      BY <3>1, BondLineTells
  <2>3. Len(s) = i /\ Len(t) = i /\ i > 0
    BY <1>2, <1>3, <2>1 DEF i
  <2> DEFINE a == [s EXCEPT ![i] = [s[i] EXCEPT !.failures = bond.slaves[Slaves[i]].failures]]
  <2>4. ParseBondLine(b, BondFile[k]) = [b EXCEPT !.slaves = a]
    <3>1. Len(b.slaves) = i /\ ~(i = 0) /\ i > 0 /\ b.slaves = s
      BY <1>4, <2>3
    <3> QED
      BY <2>2, <3>1 DEF ParseBondLine
  <2>5. [s[i] EXCEPT !.failures = bond.slaves[Slaves[i]].failures] = t[i]
    <3>1. 3 * i <= k /\ 3 * i <= k - 1 /\ 3 * i + 1 <= k /\ ~(3 * i + 1 <= k - 1)
      BY <2>1
    <3>2. i \in 1..(k \div 3) /\ i \in 1..((k + 1) \div 3)
      BY <2>1 DEF i
    <3>3. s[i] = SlaveKnown(i, k - 1) /\ t[i] = SlaveKnown(i, k)
      BY <1>2, <1>3, <3>2
    <3>4. s[i] = [name |-> Slaves[i], up |-> bond.slaves[Slaves[i]].up, failures |-> 0]
      BY <3>1, <3>3 DEF SlaveKnown
    <3>5. t[i] = [name |-> Slaves[i], up |-> bond.slaves[Slaves[i]].up,
                  failures |-> bond.slaves[Slaves[i]].failures]
      BY <3>1, <3>3 DEF SlaveKnown
    <3> QED
      BY <3>4, <3>5
  <2>6. ASSUME NEW j \in 1..i, j # i PROVE s[j] = t[j]
    <3>1. /\ 3 * j <= k - 1 /\ 3 * j + 1 <= k - 1 /\ 3 * j <= k /\ 3 * j + 1 <= k
          /\ j \in 1..(k \div 3) /\ j \in 1..((k + 1) \div 3)
      BY <2>1, <2>6
    <3>2. SlaveKnown(j, k - 1) = SlaveKnown(j, k)
      BY <3>1 DEF SlaveKnown
    <3> QED
      BY <1>2, <1>3, <3>1, <3>2
  <2>7. a = t
    <3>1. t[i] \in SlaveRecords /\ i \in 1..Len(s)
      BY <1>3, <2>1, <2>3
    <3>2. a \in Seq(SlaveRecords) /\ Len(a) = Len(s) /\ \A j \in 1..Len(s) : a[j] = IF j = i THEN t[i] ELSE s[j]
      BY <1>2, <2>5, <3>1
    <3> HIDE DEF a
    <3>3. \A j \in 1..Len(a) : a[j] = t[j]
      BY <2>3, <2>6, <3>2
    <3> QED
      BY <1>3, <2>3, <3>2, <3>3, SeqEqual
  <2> HIDE DEF a
  <2>8. b.up = bond.up
    BY <1>1, <1>4, <1>9
  <2> QED
    BY <1>4, <1>5, <2>4, <2>7, <2>8 DEF b
<1>10. k % 3 \in 0..2
  BY <1>1
<1> QED
  BY <1>6, <1>7, <1>8, <1>9, <1>10 DEF b

LEMMA BondIsParsed ==
    ASSUME HostInv
    PROVE  parseBondFile = [up |-> bond.up, slaves |-> [i \in DOMAIN Slaves |->
              [name |-> Slaves[i], up |-> bond.slaves[Slaves[i]].up,
               failures |-> bond.slaves[Slaves[i]].failures]]]
<1> DEFINE n == Len(BondFile)
           empty == [up |-> FALSE, slaves |-> << >>]
           F == [k \in 0..n |-> BondKnown(k)]
<1>1. n = 1 + 3 * Len(Slaves) /\ Len(Slaves) \in Nat /\ DOMAIN Slaves = 1..Len(Slaves) /\ n \in Nat
  <2>1. n = 1 + 3 * Len(Slaves) /\ Len(Slaves) \in Nat /\ DOMAIN Slaves = 1..Len(Slaves)
    BY BondLength, SlavesAreListed
  <2> QED
    BY <2>1
<1>2. BondKnown(0) = empty
  <2>1. (0 + 1) \div 3 = 0 /\ 0 \in 0..(1 + 3 * Len(Slaves))
    BY <1>1
  <2>2. SlavesKnown(0) \in Seq(SlaveRecords) /\ Len(SlavesKnown(0)) = 0
    BY <2>1, SlavesKnownAre
  <2>3. SlavesKnown(0) = << >>
    BY <2>2
  <2> QED
    BY <2>3 DEF BondKnown
<1>3. F = [k \in 0..n |-> IF k = 0 THEN empty ELSE ParseBondLine(F[k - 1], BondFile[k])]
  <2>1. ASSUME NEW k \in 0..n
        PROVE BondKnown(k) = IF k = 0 THEN empty ELSE ParseBondLine(F[k - 1], BondFile[k])
    <3>1. CASE k = 0
      BY <1>2, <3>1
    <3>2. CASE k # 0
      <4>1. k \in 1..n /\ k - 1 \in 0..n
        BY <1>1, <3>2
      <4>2. F[k - 1] = BondKnown(k - 1)
        BY <4>1
      <4> QED
        BY <3>2, <4>1, <4>2, LineIsKnown
    <3> QED
      BY <3>1, <3>2
  <2> QED
    BY <2>1
<1> HIDE DEF F
<1>4. BondScan = CHOOSE g : g = [k \in 0..n |-> IF k = 0 THEN empty ELSE ParseBondLine(g[k - 1], BondFile[k])]
  BY DEF BondScan
<1>5. BondScan = [k \in 0..n |-> IF k = 0 THEN empty ELSE ParseBondLine(BondScan[k - 1], BondFile[k])]
  BY <1>3, <1>4
<1> HIDE DEF n, empty
<1>6. BondScan[0] = empty /\ \A k \in 1..n : BondScan[k] = ParseBondLine(BondScan[k - 1], BondFile[k])
  <2>1. 0 \in 0..n /\ \A k \in 1..n : k \in 0..n /\ k # 0
    BY <1>1
  <2> QED
    BY <1>5, <2>1
<1> DEFINE S == {k \in Nat : k <= n => BondScan[k] = BondKnown(k)}
<1>7. 0 \in S
  BY <1>2, <1>6
<1>8. ASSUME NEW k \in Nat, k \in S PROVE k + 1 \in S
  <2> SUFFICES ASSUME k + 1 <= n PROVE BondScan[k + 1] = BondKnown(k + 1)
    OBVIOUS
  <2>1. k + 1 \in 1..n /\ (k + 1) - 1 = k /\ BondScan[k] = BondKnown(k)
    BY <1>1, <1>8
  <2>2. BondKnown(k + 1) = ParseBondLine(BondKnown(k), BondFile[k + 1])
    BY <2>1, LineIsKnown DEF n
  <2> QED
    BY <1>6, <2>1, <2>2
<1>9. Nat \subseteq S
  <2> HIDE DEF S
  <2> QED
    BY <1>7, <1>8, EveryNumber
<1>10. parseBondFile = BondKnown(n)
  BY <1>1, <1>9 DEF parseBondFile, n
<1>11. SlavesKnown(n) = [i \in DOMAIN Slaves |-> [name |-> Slaves[i], up |-> bond.slaves[Slaves[i]].up,
                                                failures |-> bond.slaves[Slaves[i]].failures]]
  <2>1. (n + 1) \div 3 = Len(Slaves)
    <3>1. \A m \in Nat : ((1 + 3 * m) + 1) \div 3 = m
      OBVIOUS
    <3> QED
      BY <1>1, <3>1
  <2>2. ASSUME NEW i \in 1..Len(Slaves)
        PROVE SlaveKnown(i, n) = [name |-> Slaves[i], up |-> bond.slaves[Slaves[i]].up,
                                  failures |-> bond.slaves[Slaves[i]].failures]
    <3>1. 3 * i <= n /\ 3 * i + 1 <= n
      BY <1>1
    <3> QED
      BY <3>1 DEF SlaveKnown
  <2>3. SlavesKnown(n) = [i \in 1..Len(Slaves) |-> SlaveKnown(i, n)]
    BY <2>1 DEF SlavesKnown
  <2> QED
    BY <1>1, <2>2, <2>3
<1>12. n # 0
  BY <1>1
<1> QED
  BY <1>10, <1>11, <1>12 DEF BondKnown

\* The records of a link and of a port that have nothing to report.
LEMMA WholeSlave ==
    ASSUME NEW x \in BondSlaves PROVE x = [up |-> TRUE, failures |-> 0] <=> x.up /\ ~(x.failures > 0)
<1>1. x.up \in BOOLEAN /\ x.failures \in Nat /\ x = [up |-> x.up, failures |-> x.failures]
  BY DEF BondSlaves
<1>2. ASSUME x.up, ~(x.failures > 0) PROVE x = [up |-> TRUE, failures |-> 0]
  <2>1. x.failures = 0
    BY <1>1, <1>2
  <2>2. x.up = TRUE
    BY <1>1, <1>2, Zenon
  <2> QED
    BY <1>1, <2>1, <2>2, Zenon
<1>3. ASSUME x = [up |-> TRUE, failures |-> 0] PROVE x.up /\ ~(x.failures > 0)
  <2>1. x.failures = 0 /\ x.up = TRUE
    BY <1>3
  <2> QED
    BY <2>1
<1> QED
  BY <1>2, <1>3

LEMMA WholePort ==
    ASSUME NEW x \in Ports, x.up, x.linked, ~(x.errors > 0)
    PROVE  x = [up |-> TRUE, linked |-> TRUE, errors |-> 0]
<1>1. /\ x.up \in BOOLEAN /\ x.linked \in BOOLEAN /\ x.errors \in Nat
      /\ x = [up |-> x.up, linked |-> x.linked, errors |-> x.errors]
  BY DEF Ports
<1>2. x.errors = 0
  BY <1>1
<1>3. x.up = TRUE /\ x.linked = TRUE
  BY <1>1, Zenon
<1> QED
  BY <1>1, <1>2, <1>3, Zenon

LEMMA BondTroubleIsTold ==
    ASSUME HostInv
    PROVE  BondStatus = "ok" <=> \A s \in DOMAIN bond.slaves : bond.slaves[s] = [up |-> TRUE, failures |-> 0]
<1> DEFINE b == parseBondFile
<1>1. /\ b.up = bond.up /\ DOMAIN b.slaves = DOMAIN Slaves
      /\ \A i \in DOMAIN Slaves : /\ b.slaves[i].up = bond.slaves[Slaves[i]].up
                                  /\ b.slaves[i].failures = bond.slaves[Slaves[i]].failures
  BY BondIsParsed
<1>2. /\ DOMAIN bond.slaves = Range(Slaves) /\ \A s \in Range(Slaves) : bond.slaves[s] \in BondSlaves
      /\ (\A s \in Range(Slaves) : bond.slaves[s].up) => bond.up
  BY DEF HostInv, BondInv, Bonds
<1> HIDE DEF b
<1>3. BondStatus = "ok" <=> ~BondWarns(b)
  BY DEF BondStatus, b
<1>4. BondWarns(b) <=> \/ ~bond.up
                       \/ \E i \in DOMAIN Slaves : \/ ~bond.slaves[Slaves[i]].up
                                                   \/ bond.slaves[Slaves[i]].failures > 0
  BY <1>1 DEF BondWarns
<1>5. \A s \in Range(Slaves) : bond.slaves[s] = [up |-> TRUE, failures |-> 0]
                               <=> bond.slaves[s].up /\ ~(bond.slaves[s].failures > 0)
  BY <1>2, WholeSlave
<1>6. (\E i \in DOMAIN Slaves : ~bond.slaves[Slaves[i]].up \/ bond.slaves[Slaves[i]].failures > 0)
      <=> \E s \in Range(Slaves) : ~bond.slaves[s].up \/ bond.slaves[s].failures > 0
  BY DEF Range
<1> QED
  BY <1>2, <1>3, <1>4, <1>5, <1>6

LEMMA SharedMemoryIsTold ==
    ASSUME HostInv
    PROVE  /\ (\E s \in DOMAIN shm : shm[s].attached = {}) => SharedMemory = "warning"
           /\ SharedMemory = "ok" => shmFiles
  BY DEF SharedMemory, buildSysv, listPosixShm

LEMMA ClockIsTold ==
    ASSUME HostInv
    PROVE  LET said == kernelClock.available \/ (ntp.works /\ ntp.kind # "")
               offsetTold == kernelClock.available \/ (ntp.works /\ ntp.kind = "chrony")
           IN /\ TimeSync = "ok" => said /\ kernelClock.synced
              /\ offsetTold /\ kernelClock.synced => (TimeSync = "warning" <=> Abs(ntp.offset) > OffsetWarn)
<1>1. kernelClock \in KernelClocks /\ ntp \in NtpDaemons /\ kernelClock.synced = ntp.synced
  BY DEF HostInv, ClockInv
<1>2. collectKernel = ntp.offset
  <2> DEFINE unit == IF kernelClock.nano THEN NanoPerMs ELSE MicroPerMs
  <2>1. unit \in Nat \ {0} /\ ntp.offset \in Int /\ kernelClock.raw = ntp.offset * unit
    BY <1>1, HostHealthAssumption DEF HostInv, ClockInv, NtpDaemons
  <2>2. collectKernel = kernelClock.raw \div unit
    BY DEF collectKernel
  <2> HIDE DEF unit
  <2>3. \A o \in Int, u \in Nat \ {0} : (o * u) \div u = o
    OBVIOUS
  <2> QED
    BY <2>1, <2>2, <2>3
<1>3. kernelClock.synced \in BOOLEAN /\ ntp.synced \in BOOLEAN /\ ntp.works \in BOOLEAN
      /\ kernelClock.available \in BOOLEAN /\ ntp.kind \in {"chrony", "timedatectl", ""}
  BY <1>1 DEF KernelClocks, NtpDaemons
<1>4. collectDaemon = "yes" <=> ntp.kind # "" /\ ntp.works /\ ntp.synced
  BY <1>3 DEF collectDaemon
<1>5. kernelClock.available => (Synchronized <=> kernelClock.synced) /\ ClockOffset = ntp.offset
  BY <1>2 DEF Synchronized, ClockOffset
<1>6. ~kernelClock.available =>
        /\ Synchronized <=> (ntp.kind # "" /\ ntp.works /\ kernelClock.synced)
        /\ (ntp.works /\ ntp.kind = "chrony") => ClockOffset = ntp.offset
  BY <1>1, <1>4 DEF Synchronized, ClockOffset
<1>7. /\ TimeSync = "ok" <=> Synchronized /\ ~(Abs(ClockOffset) > OffsetWarn)
      /\ TimeSync = "warning" <=> ~Synchronized \/ Abs(ClockOffset) > OffsetWarn
  BY DEF TimeSync
<1>8. TimeSync = "ok" => (kernelClock.available \/ (ntp.works /\ ntp.kind # "")) /\ kernelClock.synced
  <2>1. CASE kernelClock.available
    BY <1>5, <1>7, <2>1
  <2>2. CASE ~kernelClock.available
    BY <1>6, <1>7, <2>2, Zenon
  <2> QED
    BY <2>1, <2>2
<1>9. ASSUME kernelClock.available \/ (ntp.works /\ ntp.kind = "chrony"), kernelClock.synced
      PROVE  TimeSync = "warning" <=> Abs(ntp.offset) > OffsetWarn
  <2>1. Synchronized /\ ClockOffset = ntp.offset
    <3>1. CASE kernelClock.available
      BY <1>5, <1>9, <3>1
    <3>2. CASE ~kernelClock.available
      <4>1. ntp.works /\ ntp.kind = "chrony"
        BY <1>9, <3>2
      <4>2. ntp.kind # ""
        BY <4>1
      <4>3. Synchronized
        BY <1>6, <1>9, <3>2, <4>1, <4>2, Zenon
      <4> QED
        BY <1>6, <3>2, <4>1, <4>3, Zenon
    <3> QED
      BY <3>1, <3>2
  <2> QED
    BY <1>7, <2>1
<1> QED
  BY <1>8, <1>9

LEMMA PressureIsTold ==
    ASSUME HostInv, PressureStall = "ok"
    PROVE  /\ psi["cpu"].file = "ok" => psi["cpu"].some <= CpuSome
           /\ psi["memory"].file = "ok" => psi["memory"].full <= MemFull
           /\ psi["io"].file = "ok" => psi["io"].full <= IoFull
<1>1. ~evaluateWarnings
  BY DEF PressureStall
<1>2. /\ DOMAIN psi = PsiResources /\ psi["cpu"] \in PsiFiles /\ psi["memory"] \in PsiFiles
      /\ psi["io"] \in PsiFiles /\ {"cpu", "memory", "io"} \subseteq DOMAIN psi
  BY DEF HostInv, PsiInv, PsiResources
<1>3. /\ psi["cpu"].some \in Nat /\ psi["memory"].full \in Nat /\ psi["io"].full \in Nat
      /\ CpuSome \in Nat /\ MemFull \in Nat /\ IoFull \in Nat
  BY <1>2, HostHealthAssumption DEF PsiFiles
<1> QED
  BY <1>1, <1>2, <1>3 DEF evaluateWarnings, Readable

LEMMA PciIsTold ==
    ASSUME HostInv, NEW d \in Range(PciDevices), PciLinkStatus = "ok", pci[d].link
    PROVE  /\ ~(pci[d].speed > 0 /\ pci[d].speed < pci[d].top)
           /\ pci[d].serious > 0 => Cardinality(PciListed) > PciCap
<1>1. /\ pci[d] \in PciLinks /\ PciDevices \in Seq(Range(PciDevices)) /\ PciCap \in Nat
      /\ DOMAIN PciDevices = 1..Len(PciDevices) /\ Len(PciDevices) \in Nat
  BY HostHealthAssumption DEF HostInv, PciInv
<1>2. /\ pci[d].speed \in Nat /\ pci[d].top \in Nat /\ pci[d].corrected \in Nat /\ pci[d].serious \in Nat
  BY <1>1 DEF PciLinks
<1>3. /\ ~(collectDevice(d).ok /\ collectDevice(d).downtrained)
      /\ \A k \in PciShown : ~collectDevice(PciDevices[k]).serious
  BY DEF PciLinkStatus
<1>4. ~(pci[d].speed > 0 /\ pci[d].speed < pci[d].top)
  <2>1. collectDevice(d).ok /\ ~collectDevice(d).downtrained
    <3>1. collectDevice(d).ok
      BY DEF collectDevice
    <3> QED
      BY <1>3, <3>1
  <2>2. ~Downtrained(pci[d])
    BY <2>1 DEF collectDevice
  <2>3. pci[d].speed < pci[d].top /\ pci[d].speed > 0 => pci[d].top > 0
    BY <1>2
  <2> QED
    BY <2>2, <2>3 DEF Downtrained
<1>5. ASSUME pci[d].serious > 0, ~(Cardinality(PciListed) > PciCap) PROVE FALSE
  <2>1. PICK k \in DOMAIN PciDevices : PciDevices[k] = d
    BY DEF Range
  <2>2. collectDevice(d).ok /\ collectDevice(d).aer > 0 /\ collectDevice(d).serious
    <3>1. collectDevice(d).ok
      BY DEF collectDevice
    <3>2. collectDevice(d).aer = pci[d].corrected + pci[d].serious
      BY DEF collectDevice
    <3>3. collectDevice(d).serious
      BY <1>5 DEF collectDevice
    <3>4. pci[d].corrected + pci[d].serious > 0
      BY <1>2, <1>5
    <3> QED
      BY <3>1, <3>2, <3>3, <3>4
  <2>3. k \in PciListed
    BY <2>1, <2>2 DEF PciListed
  <2> DEFINE B == {j \in PciListed : j < k}
  <2>4. PciListed \subseteq 1..Len(PciDevices) /\ IsFiniteSet(1..Len(PciDevices))
    BY <1>1, FS_Interval DEF PciListed
  <2>5. IsFiniteSet(PciListed)
    BY <2>4, FS_Subset
  <2>6. B \subseteq PciListed \ {k} /\ k \in Int
    BY <1>1, <2>3, <2>4
  <2>7. IsFiniteSet(PciListed \ {k}) /\ Cardinality(PciListed \ {k}) = Cardinality(PciListed) - 1
    BY <2>3, <2>5, FS_RemoveElement
  <2>8. IsFiniteSet(B) /\ Cardinality(B) <= Cardinality(PciListed \ {k})
    BY <2>6, <2>7, FS_Subset
  <2>9. Cardinality(B) \in Nat /\ Cardinality(PciListed) \in Nat
    BY <2>5, <2>8, FS_CardinalityType
  <2>10. Cardinality(B) < PciCap
    BY <1>1, <1>5, <2>7, <2>8, <2>9
  <2>11. k \in PciShown
    BY <2>3, <2>10 DEF PciShown, FirstIn
  <2> QED
    BY <1>3, <2>1, <2>2, <2>11
<1> QED
  BY <1>4, <1>5

LEMMA TemperatureIsTold ==
    ASSUME HostInv
    PROVE  /\ \A x \in collectChip :
                /\ temps[x].crit > 0 /\ temps[x].raw >= temps[x].crit => SensorReadings = "error"
                /\ temps[x].max > 0 /\ temps[x].raw >= temps[x].max => SensorReadings # "ok"
           /\ SensorReadings = "error"
              => \E x \in collectChip : temps[x].crit > 0 /\ temps[x].raw + RawPerTenth > temps[x].crit
<1> DEFINE said == {sensorStatus(temps[x]) : x \in collectChip}
<1>1. \A x \in collectChip : temps[x].raw \in Nat /\ temps[x].max \in Nat /\ temps[x].crit \in Nat
  <2>1. collectChip \subseteq Range(TempSensors)
    BY DEF collectChip, FirstIn, Range
  <2>2. \A x \in Range(TempSensors) : temps[x] \in Sensors
    BY DEF HostInv, TempInv
  <2> QED
    BY <2>1, <2>2 DEF Sensors
<1>2. RawPerTenth \in Nat \ {0}
  BY HostHealthAssumption
<1>3. \A a, b \in Nat : a >= b => round1(a) >= round1(b)
  <2>1. \A q \in Nat \ {0} : \A a, b \in Nat : a >= b => (a + q \div 2) \div q >= (b + q \div 2) \div q
    OBVIOUS
  <2> QED
    BY <1>2, <2>1 DEF round1
<1>4. \A a, b \in Nat : round1(a) >= round1(b) => a + RawPerTenth > b
  <2>1. \A q \in Nat \ {0} : \A a, b \in Nat : (a + q \div 2) \div q >= (b + q \div 2) \div q => a + q > b
    OBVIOUS
  <2> QED
    BY <1>2, <2>1 DEF round1
<1>5. SensorReadings = IF "critical" \in said THEN "error" ELSE IF "warning" \in said THEN "warning" ELSE "ok"
  BY DEF SensorReadings
<1>6. \A x \in collectChip : sensorStatus(temps[x]) \in said
  OBVIOUS
<1>7. ASSUME NEW x \in collectChip, temps[x].crit > 0, temps[x].raw >= temps[x].crit
      PROVE  SensorReadings = "error"
  <2>1. sensorStatus(temps[x]) = "critical"
    BY <1>1, <1>3, <1>7 DEF sensorStatus
  <2>2. "critical" \in said
    BY <1>6, <2>1
  <2> HIDE DEF said
  <2> QED
    BY <1>5, <2>2
<1>8. ASSUME NEW x \in collectChip, temps[x].max > 0, temps[x].raw >= temps[x].max
      PROVE  SensorReadings # "ok"
  <2>1. sensorStatus(temps[x]) \in {"critical", "warning"}
    BY <1>1, <1>3, <1>8 DEF sensorStatus
  <2>2. "critical" \in said \/ "warning" \in said
    BY <1>6, <2>1
  <2> HIDE DEF said
  <2> QED
    BY <1>5, <2>2
<1>9. ASSUME SensorReadings = "error"
      PROVE  \E x \in collectChip : temps[x].crit > 0 /\ temps[x].raw + RawPerTenth > temps[x].crit
  <2>1. "critical" \in said
    <3> HIDE DEF said
    <3> QED
      BY <1>5, <1>9
  <2>2. PICK x \in collectChip : sensorStatus(temps[x]) = "critical"
    BY <2>1
  <2>3. temps[x].crit > 0 /\ round1(temps[x].raw) >= round1(temps[x].crit)
    BY <2>2 DEF sensorStatus
  <2> QED
    BY <1>1, <1>4, <2>3
<1> QED
  BY <1>7, <1>8, <1>9

LEMMA PortsAreTold ==
    ASSUME HostInv, InfinibandStatus = "ok", ib.listed, NEW p \in IBPorts
    PROVE  ib.ports[p] = [up |-> TRUE, linked |-> TRUE, errors |-> 0]
<1>1. ib.ports[p] \in Ports
  BY DEF HostInv, PortInv, Hcas
<1>2. ~collectPort(ib.ports[p])
  BY DEF InfinibandStatus
<1> QED
  BY <1>1, <1>2, WholePort DEF collectPort

LEMMA HostTroubleFollows == HostInv => HostTroubleIsReported
<1> SUFFICES ASSUME HostInv PROVE HostTroubleIsReported
  OBVIOUS
<1> QED
  BY SharedMemoryIsTold, ClockIsTold, PressureIsTold, BondTroubleIsTold, BondIsParsed, PciIsTold,
     TemperatureIsTold, PortsAreTold, FullTableIsTold DEF HostTroubleIsReported

HostSpec == HostInit /\ [][HostParts]_hostVars

(* A host in trouble is told to be, for every value of the thresholds, caps   *)
(* and units: get_shared_memory, get_time_sync, get_pressure_stall,           *)
(* get_bond_status, get_pci_link_status, get_sensor_readings,                 *)
(* get_infiniband_status and get_conntrack_summary.                           *)
THEOREM HostSafety == HostSpec => []HostTroubleIsReported
<1>1. HostInv /\ [HostParts]_hostVars => HostInv'
  BY HostStep
<1> QED
  BY HostInitInv, HostTroubleFollows, <1>1, PTL DEF HostSpec
-----------------------------------------------------------------------------
(***************************************************************************)
(* FileHolders. What is told of a process that stood still is so, and who  *)
(* is not told yet is still to be scanned.                                 *)
(***************************************************************************)
\* Who is gone has nothing open, what is held is
\* remembered, and a lock has an owner.
LockRecords == [file : HeldFiles, type : LockTypes, mode : LockModes,
                owner : HolderPIDs, blocked : BOOLEAN]
HolderProcs == [comm : {"", "a", "b"}, readable : BOOLEAN]
FdTables == [HolderPIDs -> [HolderFDs -> Objects \union {""}]]
GoneIsClosed == \A p \in HolderPIDs : hproc[p] = Gone => \A d \in HolderFDs : fdTable[p][d] = ""
WorldOk ==
    /\ hproc \in [HolderPIDs -> HolderProcs] /\ fdTable \in FdTables /\ GoneIsClosed
    /\ listens \subseteq Sockets /\ Holding \subseteq everHeld
    /\ locks \in SUBSET LockRecords /\ IsFiniteSet(locks)
    /\ \A l \in locks : hproc[l.owner] # Gone
    /\ heldStep = "idle" => renewed = {} /\ touched = {} /\ moved = {}

\* Where a call is. Only a scan has a process at hand, and until it begins
\* nothing was found or told.
CallOk ==
    /\ held.tool \in {"sockets", "files", "locks"} /\ held.limit \in Int
    /\ heldStep \in {"idle", "tables", "listing", "scan", "names", "done", "error"}
    /\ held.tool = "files" => heldStep \notin {"tables", "names"}
    /\ held.tool = "locks" => heldStep \notin {"tables", "listing", "scan"}
    /\ pidsLeft \subseteq HolderPIDs /\ fdsLeft \subseteq HolderFDs /\ skipped \in Nat
    /\ curPid \in HolderPIDs \union {0} /\ curPid \notin pidsLeft
    /\ curPid # 0 => heldStep = "scan"
    /\ tally \in [count : Nat, deleted : Nat]
    /\ curPid = 0 \/ held.tool = "sockets" => tally = NoTally
    /\ heldStep \in {"idle", "tables", "listing"} => told = {} /\ DOMAIN found = {} /\ pidsLeft = {}
    /\ heldStep = "idle" => rows = {} /\ tablesRead = 0
    /\ heldStep \in {"names", "done"} => pidsLeft = {}
    /\ IsFiniteSet(told)

\* get_listening_services: the rows are of the tables read so far; of a socket
\* that did not move, a process that did not change is still to be scanned, or
\* its descriptor is, or a process was found, or one was skipped.
ToScan(p, s) ==
    heldStep = "scan" /\ (p \in pidsLeft \/ (curPid = p /\ \E d \in fdsLeft : fdTable[p][d] = s))
RowsOk ==
    /\ \A r \in rows : r.sock \in Sockets /\ r.table = SockTable[r.sock]
    /\ tablesRead \in 0..4
    /\ heldStep = "tables" => tablesRead < 4
    /\ heldStep \in {"listing", "scan", "names", "done"} => tablesRead = 4
    /\ heldStep # "error" => \A s \in listens \ moved, i \in 1..tablesRead :
         SockTable[s] = SocketTables[i] /\ SockTable[s] \in held.tables => \E r \in rows : r.sock = s
FoundOk ==
    /\ \A s \in DOMAIN found : s \in Sockets /\ found[s] \in HolderPIDs /\ <<found[s], s>> \in everHeld
    /\ heldStep \in {"scan", "names", "done"} =>
         \A s \in Sockets \ moved : \A p \in HoldersOf(s) \ renewed :
           IF hproc[p].readable THEN ToScan(p, s) \/ s \in DOMAIN found
           ELSE (heldStep = "scan" /\ p \in pidsLeft) \/ skipped > 0
JoinedOk ==
    /\ heldStep \notin {"names", "done"} => told = {}
    /\ \A e \in told :
         /\ e.sock \in Sockets /\ e.table = SockTable[e.sock] /\ \A k \in told : k.sock = e.sock => k = e
         /\ e.pid = IF e.sock \in DOMAIN found THEN found[e.sock] ELSE 0
         /\ e.pid = 0 \/ e.pid \in renewed \/ e.comm = hproc[e.pid].comm
    /\ heldStep = "done" => shown \in ListenerCuts /\ \A r \in rows : Joined(r)

\* get_open_files: the descriptors of a process that stood still are counted as
\* far as they are read.
ReadySteps == {"scan", "done"}
CountedOk(p, left, t) ==
    /\ hproc[p].readable
    /\ t.count + Cardinality(FdsUnder(p, UnderPath) \cap left) = Cardinality(FdsUnder(p, UnderPath))
    /\ moved \cap unlinked = {} =>
         t.deleted + Cardinality(FdsUnder(p, UnderPath \cap unlinked) \cap left)
           = Cardinality(FdsUnder(p, UnderPath \cap unlinked))
OpenersOk ==
    /\ \A e \in told :
         /\ e.pid \in HolderPIDs \ pidsLeft /\ e.pid # curPid /\ e.count \in Nat \ {0} /\ e.deleted \in Nat
         /\ \A k \in told : k.pid = e.pid => k = e
         /\ e.pid \notin renewed \union touched => e.comm = hproc[e.pid].comm /\ CountedOk(e.pid, {}, e)
    /\ curPid \notin {0} \union renewed \union touched => CountedOk(curPid, fdsLeft, tally)
    /\ heldStep \in ReadySteps => \A p \in HolderPIDs \ (renewed \union touched) :
         hproc[p].readable => \/ p \in pidsLeft \/ p = curPid \/ FdsUnder(p, UnderPath) = {}
                              \/ \E e \in told : e.pid = p
    /\ heldStep = "done" => shown \in FileCuts

\* get_file_locks: who had a lock when the table was read has its name, unless
\* it changed hands.
LocksOk ==
    /\ rows \in SUBSET LockRecords /\ IsFiniteSet(rows)
    /\ heldStep \in {"names", "done"} => waiters \in WaiterCuts(rows) /\ shown \in HolderCuts(rows)
    /\ \A l \in rows : l.owner \in renewed \/ hproc[l.owner] # Gone
    /\ heldStep \notin {"names", "done"} => told = {}
    /\ \A e \in told :
         /\ \E l \in rows : e.name.pid = PidOf(l)
         /\ IF e.name.pid < 0 THEN e.comm = "OFD" ELSE e.name.pid \in renewed \/ e.comm = hproc[e.name.pid].comm
    /\ heldStep = "done" => \A n \in LocksNamed : Named(n)

HoldersInv ==
    /\ WorldOk /\ CallOk
    /\ held.tool = "sockets" => RowsOk /\ FoundOk /\ JoinedOk
    /\ held.tool = "files" => OpenersOk
    /\ held.tool = "locks" => LocksOk

LEMMA ObjectsAreNamed == "" \notin Objects
  BY FileHoldersAssumption, Zenon DEF Objects
LEMMA LimitsAreIntegers ==
    FileLimits \subseteq Int /\ DefaultLimit \in Nat /\ MaxLimit \in Nat /\ ListedMax \in Nat
<1>1. FileLimits \subseteq Int /\ {DefaultLimit, MaxLimit, ListedMax} \subseteq Nat
  BY FileHoldersAssumption, Zenon
<1> QED
  BY <1>1
LEMMA PidsArePositive == \A p \in HolderPIDs : p \in Nat /\ p > 0
<1>1. HolderPIDs \subseteq Nat \ {0}
  BY FileHoldersAssumption, Zenon
<1> QED
  BY <1>1
LEMMA TheyAreFinite == IsFiniteSet(HolderPIDs) /\ IsFiniteSet(HolderFDs) /\ IsFiniteSet(Sockets)
  BY FileHoldersAssumption, Zenon
LEMMA SocketsArePlaced ==
    SockPort \in [Sockets -> Nat] /\ \A s \in Sockets : \E i \in 1..4 : SockTable[s] = SocketTables[i]
<1>1. SockPort \in [Sockets -> Nat] /\ SockTable \in [Sockets -> {SocketTables[i] : i \in 1..4}]
  BY FileHoldersAssumption, Zenon
<1> QED
  BY <1>1
LEMMA FilesAreNotSockets == UnderPath \subseteq HeldFiles /\ Sockets \cap HeldFiles = {}
  BY FileHoldersAssumption, Zenon

\* A step of the world: what is not noted as changed is as it was.
WorldMoves ==
    /\ heldStep \notin {"done", "error"} /\ UNCHANGED callVars
    /\ heldStep = "idle" => renewed' = {} /\ touched' = {} /\ moved' = {}
    /\ heldStep # "idle" =>
         /\ renewed \subseteq renewed' /\ \A p \in HolderPIDs \ renewed' : hproc'[p] = hproc[p]
         /\ touched \subseteq touched' /\ \A p \in HolderPIDs \ touched' : fdTable'[p] = fdTable[p]
         /\ moved \subseteq moved' /\ everHeld \subseteq everHeld' /\ unlinked \subseteq unlinked'
         /\ \A o \in Objects \ moved' :
              /\ o \in listens' => o \in listens
              /\ o \in unlinked' <=> o \in unlinked
              /\ \A p \in HolderPIDs, d \in HolderFDs : fdTable'[p][d] = o <=> fdTable[p][d] = o

LEMMA HoldsWithFd ==
    ASSUME NEW p \in HolderPIDs, NEW o \in Objects
    PROVE  /\ p \in HoldersOf(o) <=> \E d \in HolderFDs : fdTable[p][d] = o
           /\ p \in HoldersOf(o) <=> <<p, o>> \in Holding
  BY DEF HoldersOf, Holding

\* All but these are as they were.
Spared(pids, fdPids, objs) ==
    /\ unlinked \subseteq unlinked' /\ \A p \in HolderPIDs \ pids : hproc'[p] = hproc[p]
    /\ \A p \in HolderPIDs \ fdPids : fdTable'[p] = fdTable[p]
    /\ \A o \in Objects \ objs :
         /\ o \in listens' => o \in listens
         /\ o \in unlinked' <=> o \in unlinked
         /\ \A p \in HolderPIDs, d \in HolderFDs : fdTable'[p][d] = o <=> fdTable[p][d] = o

LEMMA EventMoves ==
    ASSUME NEW pids, NEW fdPids, NEW objs, HolderEvent(pids, fdPids, objs), Spared(pids, fdPids, objs), WorldOk
    PROVE  /\ WorldMoves /\ Holding' \subseteq everHeld'
           /\ heldStep' = "idle" => renewed' = {} /\ touched' = {} /\ moved' = {}
<1>1. heldStep' = heldStep /\ UNCHANGED callVars /\ heldStep \notin {"done", "error"}
  BY DEF HolderEvent, callVars
<1>2. Holding' \subseteq everHeld' /\ (heldStep # "idle" => everHeld \subseteq everHeld')
  BY DEF HolderEvent
<1>3. CASE heldStep = "idle"
  BY <1>1, <1>2, <1>3 DEF HolderEvent, WorldMoves
<1>4. CASE heldStep # "idle"
  <2>1. renewed' = renewed \union pids /\ touched' = touched \union fdPids /\ moved' = moved \union objs
    BY <1>4 DEF HolderEvent
  <2> QED
    BY <1>1, <1>2, <1>4, <2>1 DEF WorldMoves, Spared
<1> QED
  BY <1>3, <1>4

LEMMA GrantedAreLocks ==
    ASSUME NEW ls \in SUBSET LockRecords, IsFiniteSet(ls), NEW new \in Granted(ls)
    PROVE  /\ new \in SUBSET LockRecords /\ IsFiniteSet(new)
           /\ \A l \in new : \E k \in ls : l.owner = k.owner
<1>1. PICK G \in SUBSET {l \in ls : l.blocked} : new = {[l EXCEPT !.blocked = @ /\ l \notin G] : l \in ls}
  BY DEF Granted
<1> DEFINE f == [l \in ls |-> [l EXCEPT !.blocked = @ /\ l \notin G]]
<1>2. f \in Surjection(ls, new)
  BY <1>1 DEF Surjection
<1>3. IsFiniteSet(new)
  <2> HIDE DEF f
  <2> QED
    BY <1>2, FS_Surjection
<1>4. ASSUME NEW l \in ls
      PROVE  [l EXCEPT !.blocked = @ /\ l \notin G] \in LockRecords /\ [l EXCEPT !.blocked = @ /\ l \notin G].owner = l.owner
  <2>1. l \in LockRecords
    OBVIOUS
  <2>2. (l.blocked /\ l \notin G) \in BOOLEAN
    OBVIOUS
  <2> QED
    BY <2>1, <2>2 DEF LockRecords
<1> QED
  BY <1>1, <1>3, <1>4

LEMMA WorldSteps ==
    ASSUME WorldOk, CallOk, WorldNext PROVE WorldOk' /\ WorldMoves
<1> DEFINE Idle == heldStep' = "idle" => renewed' = {} /\ touched' = {} /\ moved' = {}
<1>a. "" \notin Objects
  BY ObjectsAreNamed
<1>g. Gone \in HolderProcs
  BY DEF HolderProcs, Gone
<1>n. NoneOpen \in [HolderFDs -> Objects \union {""}] /\ \A d \in HolderFDs : NoneOpen[d] = ""
  BY DEF NoneOpen
<1>2. /\ hproc \in [HolderPIDs -> HolderProcs] /\ fdTable \in FdTables
      /\ locks \in SUBSET LockRecords /\ IsFiniteSet(locks) /\ listens \subseteq Sockets
  BY DEF WorldOk
<1>3. \A l \in locks : l.owner \in HolderPIDs /\ hproc[l.owner] # Gone
  BY <1>2 DEF WorldOk, LockRecords
<1>4. ASSUME NEW p \in HolderPIDs, NEW c \in {"a", "b"}, NEW r \in BOOLEAN, Started(p, c, r)
      PROVE  WorldOk' /\ WorldMoves
  <2> DEFINE new == [comm |-> c, readable |-> r]
  <2>1. /\ hproc[p] = Gone /\ hproc' = [hproc EXCEPT ![p] = new] /\ new \in HolderProcs /\ new # Gone
        /\ fdTable' = fdTable /\ listens' = listens /\ unlinked' = unlinked /\ locks' = locks
        /\ HolderEvent({p}, {p}, {})
    BY <1>4 DEF Started, Gone, HolderProcs
  <2> HIDE DEF new
  <2>2. WorldMoves /\ Holding' \subseteq everHeld' /\ Idle
    <3>1. \A q \in HolderPIDs \ {p} : hproc'[q] = hproc[q]
      BY <1>2, <2>1
    <3>2. Spared({p}, {p}, {})
      BY <2>1, <3>1 DEF Spared
    <3> QED
      BY <2>1, <3>2, EventMoves
  <2>3. hproc' \in [HolderPIDs -> HolderProcs] /\ \A q \in HolderPIDs : hproc'[q] = Gone => hproc[q] = Gone
    <3> QED
      BY <1>2, <2>1
  <2> QED
    BY <1>2, <1>3, <2>1, <2>2, <2>3 DEF WorldOk, GoneIsClosed
<1>5. ASSUME NEW p \in HolderPIDs, Exited(p) PROVE WorldOk' /\ WorldMoves
  <2> DEFINE kept == {l \in locks : l.owner # p}
             owners == {p} \union {l.owner : l \in locks}
             objs == {o \in Objects : p \in HoldersOf(o)}
  <2>1. /\ hproc' = [hproc EXCEPT ![p] = Gone] /\ fdTable' = [fdTable EXCEPT ![p] = NoneOpen]
        /\ locks' \in Granted(kept) /\ listens' \subseteq listens /\ unlinked' = unlinked
        /\ HolderEvent({p}, owners, objs)
    BY <1>5 DEF Exited
  <2>2. kept \in SUBSET LockRecords /\ IsFiniteSet(kept) /\ \A l \in kept : l.owner # p /\ l \in locks
    BY <1>2, FS_Subset
  <2>3. /\ locks' \in SUBSET LockRecords /\ IsFiniteSet(locks')
        /\ \A l \in locks' : \E k \in kept : l.owner = k.owner
    <3> HIDE DEF kept
    <3> QED
      BY <2>1, <2>2, GrantedAreLocks
  <2>4. /\ hproc' \in [HolderPIDs -> HolderProcs] /\ hproc'[p] = Gone
        /\ \A q \in HolderPIDs \ {p} : hproc'[q] = hproc[q]
    BY <1>g, <1>2, <2>1
  <2>5. /\ fdTable' \in FdTables /\ fdTable'[p] = NoneOpen
        /\ \A q \in HolderPIDs \ {p} : fdTable'[q] = fdTable[q]
    BY <1>n, <1>2, <2>1 DEF FdTables
  <2>6. ASSUME NEW o \in Objects \ objs
        PROVE  /\ o \in listens' => o \in listens
               /\ o \in unlinked' <=> o \in unlinked
               /\ \A q \in HolderPIDs, d \in HolderFDs : fdTable'[q][d] = o <=> fdTable[q][d] = o
    <3>1. \A d \in HolderFDs : fdTable[p][d] # o
      BY HoldsWithFd
    <3>2. \A d \in HolderFDs : fdTable'[p][d] # o
      BY <1>a, <1>n, <2>5
    <3> QED
      BY <2>1, <2>5, <3>1, <3>2
  <2>7. WorldMoves /\ Holding' \subseteq everHeld' /\ Idle
    <3>1. \A q \in HolderPIDs \ owners : fdTable'[q] = fdTable[q]
      BY <2>5
    <3> HIDE DEF objs, owners
    <3>2. Spared({p}, owners, objs)
      BY <2>1, <2>4, <2>6, <3>1 DEF Spared
    <3> QED
      BY <2>1, <3>2, EventMoves
  <2>8. GoneIsClosed'
    <3>1. ASSUME NEW q \in HolderPIDs, hproc'[q] = Gone PROVE \A d \in HolderFDs : fdTable'[q][d] = ""
      <4>1. CASE q = p
        BY <1>n, <2>5, <4>1
      <4>2. CASE q # p
        <5>1. hproc[q] = Gone /\ fdTable'[q] = fdTable[q]
          BY <2>4, <2>5, <3>1, <4>2
        <5>2. \A d \in HolderFDs : fdTable[q][d] = ""
          BY <5>1 DEF WorldOk, GoneIsClosed
        <5> QED
          BY <5>1, <5>2
      <4> QED
        BY <4>1, <4>2
    <3> QED
      BY <3>1 DEF GoneIsClosed
  <2>9. \A l \in locks' : hproc'[l.owner] # Gone
    BY <1>3, <2>2, <2>3, <2>4
  <2> HIDE DEF objs, owners, kept
  <2> QED
    BY <1>2, <2>1, <2>3, <2>4, <2>5, <2>7, <2>8, <2>9 DEF WorldOk, GoneIsClosed
<1>6. ASSUME NEW p \in HolderPIDs, NEW d \in HolderFDs, NEW o \in Seen, Opened(p, d, o)
      PROVE  WorldOk' /\ WorldMoves
  <2>1. /\ hproc[p] # Gone /\ fdTable[p][d] = "" /\ fdTable' = [fdTable EXCEPT ![p][d] = o] /\ o \in Objects
        /\ hproc' = hproc /\ listens' = listens /\ unlinked' = unlinked /\ locks' = locks
        /\ HolderEvent({}, {p}, {o})
    BY <1>6 DEF Opened, Seen, Objects
  <2>2. /\ fdTable' \in FdTables /\ \A q \in HolderPIDs \ {p} : fdTable'[q] = fdTable[q]
        /\ \A e \in HolderFDs : fdTable'[p][e] = IF e = d THEN o ELSE fdTable[p][e]
    BY <1>2, <2>1 DEF FdTables
  <2>3. WorldMoves /\ Holding' \subseteq everHeld' /\ Idle
    <3>1. \A x \in Objects \ {o} : \A q \in HolderPIDs, e \in HolderFDs : fdTable'[q][e] = x <=> fdTable[q][e] = x
      BY <1>a, <2>1, <2>2
    <3>2. \A x \in Objects \ {o} :
           /\ x \in listens' => x \in listens
           /\ x \in unlinked' <=> x \in unlinked
           /\ \A q \in HolderPIDs, e \in HolderFDs : fdTable'[q][e] = x <=> fdTable[q][e] = x
      BY <2>1, <3>1
    <3>3. \A q \in HolderPIDs \ {} : hproc'[q] = hproc[q]
      BY <2>1
    <3>4. Spared({}, {p}, {o})
      BY <2>1, <2>2, <3>2, <3>3 DEF Spared
    <3> QED
      BY <2>1, <3>4, EventMoves
  <2>4. GoneIsClosed'
    <3>1. GoneIsClosed
      BY DEF WorldOk
    <3>2. ASSUME NEW q \in HolderPIDs, hproc'[q] = Gone PROVE \A e \in HolderFDs : fdTable'[q][e] = ""
      <4>1. hproc[q] = Gone
        BY <2>1, <3>2
      <4>2. q # p
        BY <2>1, <4>1
      <4>3. fdTable'[q] = fdTable[q]
        BY <2>2, <4>2
      <4>4. \A e \in HolderFDs : fdTable[q][e] = ""
        BY <3>1, <4>1 DEF GoneIsClosed
      <4> QED
        BY <4>3, <4>4
    <3> QED
      BY <3>2 DEF GoneIsClosed
  <2> QED
    BY <1>2, <1>3, <2>1, <2>2, <2>3, <2>4 DEF WorldOk, GoneIsClosed
<1>7. ASSUME NEW p \in HolderPIDs, NEW d \in HolderFDs, Closed(p, d) PROVE WorldOk' /\ WorldMoves
  <2> DEFINE o == fdTable[p][d]
             kept == {l \in locks : ~(l.owner = p /\ l.file = o)}
             owners == {p} \union {l.owner : l \in locks}
  <2>1. /\ o # "" /\ fdTable' = [fdTable EXCEPT ![p][d] = ""]
        /\ locks' \in Granted(kept) /\ listens' \subseteq listens
        /\ hproc' = hproc /\ unlinked' = unlinked /\ HolderEvent({}, owners, {o})
    BY <1>7 DEF Closed
  <2>2. kept \in SUBSET LockRecords /\ IsFiniteSet(kept) /\ \A l \in kept : l \in locks
    BY <1>2, FS_Subset
  <2>3. /\ locks' \in SUBSET LockRecords /\ IsFiniteSet(locks')
        /\ \A l \in locks' : \E k \in kept : l.owner = k.owner
    <3> HIDE DEF kept
    <3> QED
      BY <2>1, <2>2, GrantedAreLocks
  <2>4. /\ fdTable' \in FdTables /\ \A q \in HolderPIDs \ {p} : fdTable'[q] = fdTable[q]
        /\ \A e \in HolderFDs : fdTable'[p][e] = IF e = d THEN "" ELSE fdTable[p][e]
    BY <1>2, <2>1 DEF FdTables
  <2>5. WorldMoves /\ Holding' \subseteq everHeld' /\ Idle
    <3>1. \A x \in Objects \ {o} : \A q \in HolderPIDs, e \in HolderFDs : fdTable'[q][e] = x <=> fdTable[q][e] = x
      BY <1>a, <2>1, <2>4
    <3>2. \A q \in HolderPIDs \ owners : fdTable'[q] = fdTable[q]
      BY <2>4
    <3> HIDE DEF owners, o
    <3>3. \A x \in Objects \ {o} :
           /\ x \in listens' => x \in listens
           /\ x \in unlinked' <=> x \in unlinked
           /\ \A q \in HolderPIDs, e \in HolderFDs : fdTable'[q][e] = x <=> fdTable[q][e] = x
      BY <2>1, <3>1
    <3>4. \A q \in HolderPIDs \ {} : hproc'[q] = hproc[q]
      BY <2>1
    <3>5. Spared({}, owners, {o})
      BY <2>1, <3>2, <3>3, <3>4 DEF Spared
    <3> QED
      BY <2>1, <3>5, EventMoves
  <2>6. GoneIsClosed'
    <3>1. ASSUME NEW q \in HolderPIDs, hproc'[q] = Gone PROVE \A e \in HolderFDs : fdTable'[q][e] = ""
      <4>1. \A e \in HolderFDs : fdTable[q][e] = ""
        BY <2>1, <3>1 DEF WorldOk, GoneIsClosed
      <4> QED
        BY <2>4, <4>1
    <3> QED
      BY <3>1 DEF GoneIsClosed
  <2>7. \A l \in locks' : hproc'[l.owner] # Gone
    BY <1>3, <2>1, <2>2, <2>3
  <2> HIDE DEF o, kept, owners
  <2> QED
    BY <1>2, <2>1, <2>3, <2>4, <2>5, <2>6, <2>7 DEF WorldOk, GoneIsClosed
<1>8. ASSUME NEW s \in Sockets, Listened(s) PROVE WorldOk' /\ WorldMoves
  <2>1. /\ listens' = listens \union {s} /\ hproc' = hproc /\ fdTable' = fdTable
        /\ unlinked' = unlinked /\ locks' = locks /\ HolderEvent({}, {}, {s})
    BY <1>8 DEF Listened
  <2>2. Spared({}, {}, {s})
    BY <2>1 DEF Spared
  <2>3. WorldMoves /\ Holding' \subseteq everHeld' /\ Idle
    BY <2>1, <2>2, EventMoves
  <2> QED
    BY <1>2, <2>1, <2>3 DEF WorldOk, GoneIsClosed
<1>9. ASSUME NEW f \in HeldFiles, Unlinked(f) PROVE WorldOk' /\ WorldMoves
  <2>1. /\ unlinked' = unlinked \union {f} /\ hproc' = hproc /\ fdTable' = fdTable
        /\ listens' = listens /\ locks' = locks /\ HolderEvent({}, {}, {f})
    BY <1>9 DEF Unlinked
  <2>2. Spared({}, {}, {f})
    BY <2>1 DEF Spared
  <2>3. WorldMoves /\ Holding' \subseteq everHeld' /\ Idle
    BY <2>1, <2>2, EventMoves
  <2> QED
    BY <1>2, <2>1, <2>3 DEF WorldOk, GoneIsClosed
<1>10. ASSUME NEW p \in HolderPIDs, NEW f \in HeldFiles, NEW t \in LockTypes, NEW m \in LockModes, Locked(p, f, t, m)
       PROVE  WorldOk' /\ WorldMoves
  <2> DEFINE l == [file |-> f, type |-> t, mode |-> m, owner |-> p, blocked |-> FALSE]
             new == [l EXCEPT !.blocked = Against(l, locks)]
  <2>1. /\ p \in HoldersOf(f) /\ locks' = locks \union {new} /\ hproc' = hproc /\ fdTable' = fdTable
        /\ listens' = listens /\ unlinked' = unlinked /\ HolderEvent({}, {p}, {f})
    BY <1>10 DEF Locked
  <2>2. new \in LockRecords /\ new.owner = p
    <3>1. Against(l, locks) \in BOOLEAN
      BY Zenon DEF Against
    <3> QED
      BY <3>1 DEF LockRecords
  <2> HIDE DEF new, l
  <2>3. hproc[p] # Gone
    <3>1. f \in Objects
      BY DEF Objects
    <3>2. PICK d \in HolderFDs : fdTable[p][d] = f
      BY <2>1, <3>1, HoldsWithFd
    <3> QED
      BY <1>a, <3>1, <3>2 DEF WorldOk, GoneIsClosed
  <2>4. WorldMoves /\ Holding' \subseteq everHeld' /\ Idle
    <3>1. Spared({}, {p}, {f})
      BY <2>1 DEF Spared
    <3> QED
      BY <2>1, <3>1, EventMoves
  <2>5. locks' \in SUBSET LockRecords /\ IsFiniteSet(locks')
    BY <1>2, <2>1, <2>2, FS_AddElement
  <2> QED
    BY <1>3, <2>1, <2>2, <2>3, <2>4, <2>5 DEF WorldOk, GoneIsClosed
<1>12. (\E p \in HolderPIDs, d \in HolderFDs : Closed(p, d)) => WorldOk' /\ WorldMoves
  BY <1>7
<1>13. (\E p \in HolderPIDs, d \in HolderFDs, o \in Seen : Opened(p, d, o)) => WorldOk' /\ WorldMoves
  BY <1>6
<1>14. (\E p \in HolderPIDs, c \in {"a", "b"}, r \in BOOLEAN : Started(p, c, r)) => WorldOk' /\ WorldMoves
  BY <1>4
<1>15. ASSUME \E p \in HolderPIDs, f \in HeldFiles, t \in LockTypes, m \in LockModes :
                 held.tool = "locks" /\ Locked(p, f, t, m)
       PROVE  WorldOk' /\ WorldMoves
  <2>1. PICK p \in HolderPIDs, f \in HeldFiles, t \in LockTypes, m \in LockModes : Locked(p, f, t, m)
    BY <1>15, Zenon
  <2> QED
    BY <1>10, <2>1, Zenon
<1> QED
  BY <1>5, <1>8, <1>9, <1>12, <1>13, <1>14, <1>15, Zenon DEF WorldNext

LEMMA NothingFound == DOMAIN << >> = {}
<1>1. << >> \in Seq({}) /\ Len(<< >>) = 0
  OBVIOUS
<1> QED
  BY <1>1

LEMMA HoldersInitInv == HoldersInit => HoldersInv
<1> SUFFICES ASSUME HoldersInit PROVE HoldersInv
  OBVIOUS
<1>1. /\ listens = {s \in Sockets : HoldersOf(s) # {}} /\ unlinked = {} /\ locks = {}
      /\ renewed = {} /\ touched = {} /\ moved = {} /\ everHeld = Holding
      /\ heldStep = "idle" /\ tablesRead = 0 /\ pidsLeft = {} /\ fdsLeft = {} /\ curPid = 0
      /\ tally = NoTally /\ found = << >> /\ skipped = 0
      /\ rows = {} /\ waiters = {} /\ told = {} /\ shown = {}
  BY DEF HoldersInit
<1>2. held.tool \in {"sockets", "files", "locks"} /\ held.limit \in Int
  <2>1. \/ held \in [tool : {"sockets"}, tables : TableSets, path : {TRUE}, limit : {0}]
        \/ held \in [tool : {"files"}, tables : {{}}, path : {TRUE}, limit : FileLimits]
        \/ held \in [tool : {"files"}, tables : {{}}, path : {FALSE}, limit : {0}]
        \/ held \in [tool : {"locks"}, tables : {{}}, path : {TRUE}, limit : {0}]
    BY DEF HoldersInit
  <2>2. ASSUME NEW t, NEW ts, NEW ps, NEW ls, held \in [tool : {t}, tables : ts, path : ps, limit : ls]
        PROVE  held.tool = t /\ held.limit \in ls
    BY <2>2
  <2>4. held.limit \in Int
    <3>1. held.limit \in {0} \/ held.limit \in FileLimits
      BY <2>1, <2>2
    <3>2. held.limit = 0 \/ held.limit \in FileLimits
      BY <3>1
    <3>3. CASE held.limit = 0
      BY <3>3
    <3>4. CASE held.limit \in FileLimits
      BY <3>4, LimitsAreIntegers
    <3> QED
      BY <3>2, <3>3, <3>4
  <2> QED
    BY <2>1, <2>2, <2>4
<1>3. hproc \in [HolderPIDs -> HolderProcs]
  <2>1. PICK other \in {Gone} \union [comm : {"b"}, readable : BOOLEAN] :
           hproc = [p \in HolderPIDs |-> IF p = CHOOSE q \in HolderPIDs : TRUE
                                         THEN [comm |-> "a", readable |-> TRUE] ELSE other]
    BY DEF HoldersInit
  <2>2. other \in HolderProcs
    <3>1. CASE other = Gone
      BY <3>1 DEF HolderProcs, Gone
    <3>2. CASE other \in [comm : {"b"}, readable : BOOLEAN]
      BY <3>2 DEF HolderProcs
    <3> QED
      BY <3>1, <3>2
  <2>3. [comm |-> "a", readable |-> TRUE] \in HolderProcs
    BY DEF HolderProcs
  <2> QED
    BY <2>1, <2>2, <2>3
<1>7. fdTable \in FdTables /\ GoneIsClosed
  <2>1. PICK open \in [HolderPIDs -> Seen \union {""}] :
          /\ \A p \in HolderPIDs : hproc[p] = Gone => open[p] = ""
          /\ fdTable = [p \in HolderPIDs |-> [NoneOpen EXCEPT ![CHOOSE d \in HolderFDs : TRUE] = open[p]]]
    BY DEF HoldersInit
  <2>2. \A p \in HolderPIDs : open[p] \in Objects \union {""}
    BY DEF Seen, Objects
  <2>3. ASSUME NEW p \in HolderPIDs
        PROVE  /\ fdTable[p] \in [HolderFDs -> Objects \union {""}]
               /\ open[p] = "" => \A d \in HolderFDs : fdTable[p][d] = ""
    BY <2>1, <2>2 DEF NoneOpen
  <2> QED
    BY <2>1, <2>3 DEF FdTables, GoneIsClosed
<1>9. WorldOk
  <2>1. IsFiniteSet({})
    BY FS_EmptySet
  <2> QED
    BY <1>1, <1>3, <1>7, <2>1 DEF WorldOk
<1>10. CallOk
  <2>1. IsFiniteSet({})
    BY FS_EmptySet
  <2>2. DOMAIN found = {}
    BY <1>1, NothingFound
  <2>3. tally \in [count : Nat, deleted : Nat]
    BY <1>1 DEF NoTally
  <2> QED
    BY <1>1, <1>2, <2>1, <2>2, <2>3 DEF CallOk
<1>11. RowsOk /\ FoundOk /\ JoinedOk
  <2>1. DOMAIN found = {}
    BY <1>1, NothingFound
  <2>2. RowsOk
    <3>1. rows = {} /\ tablesRead = 0 /\ heldStep = "idle"
      BY <1>1
    <3>2. tablesRead \in 0..4 /\ 1..tablesRead = {}
      <4>1. tablesRead = 0
        BY <1>1
      <4>2. tablesRead \in 0..4
        BY <4>1
      <4>3. 1..tablesRead = {}
        BY <4>1
      <4> QED
        BY <4>2, <4>3
    <3> QED
      BY <3>1, <3>2 DEF RowsOk
  <2> QED
    BY <1>1, <2>1, <2>2 DEF FoundOk, JoinedOk
<1>12. OpenersOk
  BY <1>1 DEF OpenersOk, ReadySteps
<1>13. LocksOk
  <2>1. IsFiniteSet({})
    BY FS_EmptySet
  <2> QED
    BY <1>1, <2>1 DEF LocksOk
<1> QED
  BY <1>9, <1>10, <1>11, <1>12, <1>13 DEF HoldersInv

\* What the world does leaves what a call knows in order.
LEMMA RowsKeep == ASSUME CallOk, RowsOk, WorldMoves, WorldOk' PROVE RowsOk'
<1>1. UNCHANGED <<rows, tablesRead, heldStep, held>> /\ (heldStep # "idle" => moved \subseteq moved')
  BY DEF WorldMoves, callVars
<1>2. CASE heldStep = "idle"
  <2>1. rows = {} /\ tablesRead = 0 /\ heldStep' = "idle"
    BY <1>1, <1>2 DEF CallOk
  <2> QED
    BY <1>1, <2>1 DEF RowsOk
<1>3. CASE heldStep # "idle"
  <2>1. \A s \in Sockets \ moved' : s \in listens' => s \in listens
    BY <1>3 DEF WorldMoves, Objects
  <2>2. ASSUME heldStep # "error", NEW s \in listens' \ moved', NEW i \in 1..tablesRead,
               SockTable[s] = SocketTables[i], SockTable[s] \in held.tables
        PROVE  \E r \in rows : r.sock = s
    <3>1. s \in Sockets /\ s \notin moved /\ s \in listens
      BY <1>1, <1>3, <2>1, <2>2 DEF WorldOk
    <3> QED
      BY <2>2, <3>1 DEF RowsOk
  <2> QED
    BY <1>1, <2>2 DEF RowsOk, SocketTables
<1> QED
  BY <1>2, <1>3

LEMMA HeldAsBefore ==
    ASSUME WorldMoves, heldStep # "idle", NEW o \in Objects \ moved', NEW p \in HolderPIDs
    PROVE  p \in HoldersOf(o)' <=> p \in HoldersOf(o)
<1>1. \A d \in HolderFDs : fdTable'[p][d] = o <=> fdTable[p][d] = o
  BY DEF WorldMoves
<1>2. p \in HoldersOf(o)' <=> \E d \in HolderFDs : fdTable'[p][d] = o
  BY DEF HoldersOf, Holding
<1> QED
  BY <1>1, <1>2, HoldsWithFd

LEMMA FoundKeep == ASSUME CallOk, FoundOk, WorldMoves PROVE FoundOk'
<1>1. UNCHANGED <<found, heldStep, pidsLeft, fdsLeft, curPid, skipped>>
  BY DEF WorldMoves, callVars, scanVars
<1>2. CASE heldStep = "idle"
  BY <1>1, <1>2 DEF CallOk, FoundOk
<1>3. CASE heldStep # "idle"
  <2>1. \A s \in DOMAIN found : <<found[s], s>> \in everHeld'
    BY <1>3 DEF FoundOk, WorldMoves
  <2>2. ASSUME heldStep \in {"scan", "names", "done"}, NEW s \in Sockets \ moved', NEW p \in HoldersOf(s)' \ renewed'
        PROVE  IF hproc'[p].readable THEN ToScan(p, s)' \/ s \in DOMAIN found
               ELSE (heldStep = "scan" /\ p \in pidsLeft) \/ skipped > 0
    <3>1. s \in Objects \ moved' /\ s \in Sockets \ moved /\ p \in HolderPIDs /\ p \notin renewed'
      BY <1>3, <2>2 DEF WorldMoves, Objects, HoldersOf
    <3>2. p \in HoldersOf(s) \ renewed /\ hproc'[p] = hproc[p]
      BY <1>3, <2>2, <3>1, HeldAsBefore DEF WorldMoves
    <3>3. \A d \in HolderFDs : fdTable'[p][d] = s <=> fdTable[p][d] = s
      BY <1>3, <3>1 DEF WorldMoves
    <3>4. ToScan(p, s) => ToScan(p, s)'
      BY <1>1, <3>3 DEF ToScan, CallOk
    <3>5. IF hproc[p].readable THEN ToScan(p, s) \/ s \in DOMAIN found
          ELSE (heldStep = "scan" /\ p \in pidsLeft) \/ skipped > 0
      BY <2>2, <3>1, <3>2 DEF FoundOk
    <3> QED
      BY <3>2, <3>4, <3>5
  <2> QED
    BY <1>1, <2>1, <2>2 DEF FoundOk
<1> QED
  BY <1>2, <1>3

LEMMA JoinedKeep == ASSUME CallOk, JoinedOk, FoundOk, WorldMoves PROVE JoinedOk'
<1>1. UNCHANGED <<found, heldStep, told, rows, shown>> /\ heldStep # "done"
  BY DEF WorldMoves, callVars, scanVars
<1>2. CASE heldStep = "idle"
  BY <1>1, <1>2 DEF CallOk, JoinedOk
<1>3. CASE heldStep # "idle"
  <2>1. ASSUME NEW e \in told
        PROVE  e.pid = 0 \/ e.pid \in renewed' \/ e.comm = hproc'[e.pid].comm
    <3>1. e.pid = 0 \/ e.pid \in HolderPIDs
      BY DEF JoinedOk, FoundOk
    <3>2. e.pid = 0 \/ e.pid \in renewed \/ e.comm = hproc[e.pid].comm
      BY DEF JoinedOk
    <3> QED
      BY <1>3, <3>1, <3>2 DEF WorldMoves
  <2> QED
    BY <1>1, <2>1 DEF JoinedOk
<1> QED
  BY <1>2, <1>3

\* Descriptors of a process that did not change are under the same paths.
LEMMA CountsKeep ==
    ASSUME WorldMoves, heldStep # "idle", NEW p \in HolderPIDs \ (renewed' \union touched'),
           NEW left, NEW t, CountedOk(p, left, t)
    PROVE  CountedOk(p, left, t)'
<1>1. hproc'[p] = hproc[p] /\ fdTable'[p] = fdTable[p]
  BY DEF WorldMoves
<1>2. FdsUnder(p, UnderPath)' = FdsUnder(p, UnderPath)
  BY <1>1 DEF FdsUnder
<1>3. ASSUME (moved \cap unlinked = {})'
      PROVE  moved \cap unlinked = {} /\ FdsUnder(p, UnderPath \cap unlinked)' = FdsUnder(p, UnderPath \cap unlinked)
  <2>1. moved \cap unlinked = {}
    BY <1>3 DEF WorldMoves
  <2>2. \A o \in UnderPath : o \in unlinked' <=> o \in unlinked
    BY <1>3, FilesAreNotSockets DEF WorldMoves, Objects
  <2> QED
    BY <1>1, <2>1, <2>2 DEF FdsUnder
<1> QED
  BY <1>1, <1>2, <1>3 DEF CountedOk

LEMMA OpenersKeep == ASSUME CallOk, OpenersOk, WorldMoves PROVE OpenersOk'
<1>1. UNCHANGED <<told, pidsLeft, fdsLeft, curPid, tally, heldStep, held, shown>> /\ heldStep # "done"
  BY DEF WorldMoves, callVars, scanVars
<1>2. CASE heldStep = "idle"
  <2>1. told = {} /\ curPid = 0
    BY <1>2 DEF CallOk
  <2> QED
    BY <1>1, <1>2, <2>1 DEF OpenersOk, ReadySteps
<1>3. CASE heldStep # "idle"
  <2>1. ASSUME NEW p \in HolderPIDs, p \notin renewed' \union touched'
        PROVE  /\ p \notin renewed \union touched /\ hproc'[p] = hproc[p]
               /\ FdsUnder(p, UnderPath)' = FdsUnder(p, UnderPath)
    BY <1>3, <2>1 DEF WorldMoves, FdsUnder
  <2>2. ASSUME NEW e \in told
        PROVE  e.pid \notin renewed' \union touched' => e.comm = hproc'[e.pid].comm /\ CountedOk(e.pid, {}, e)'
    <3>1. e.pid \in HolderPIDs
      BY DEF OpenersOk
    <3>2. e.pid \notin renewed \union touched => e.comm = hproc[e.pid].comm /\ CountedOk(e.pid, {}, e)
      BY DEF OpenersOk
    <3> QED
      BY <1>3, <2>1, <3>1, <3>2, CountsKeep
  <2>3. curPid \notin {0} \union renewed' \union touched' => CountedOk(curPid, fdsLeft, tally)'
    <3> SUFFICES ASSUME curPid \notin {0} \union renewed' \union touched' PROVE CountedOk(curPid, fdsLeft, tally)'
      OBVIOUS
    <3>1. curPid \in HolderPIDs \ (renewed' \union touched')
      BY DEF CallOk
    <3>2. CountedOk(curPid, fdsLeft, tally)
      BY <2>1, <3>1 DEF OpenersOk
    <3>3. \A p \in HolderPIDs \ (renewed' \union touched') : \A left, t :
             CountedOk(p, left, t) => CountedOk(p, left, t)'
      BY <1>3, CountsKeep
    <3> QED
      BY <1>1, <3>1, <3>2, <3>3
  <2>4. ASSUME heldStep \in ReadySteps, NEW p \in HolderPIDs \ (renewed' \union touched'), hproc'[p].readable
        PROVE  \/ p \in pidsLeft \/ p = curPid \/ FdsUnder(p, UnderPath)' = {}
               \/ \E e \in told : e.pid = p
    BY <2>1, <2>4 DEF OpenersOk
  <2>5. \A e \in told :
         /\ e.pid \in HolderPIDs \ pidsLeft /\ e.pid # curPid /\ e.count \in Nat \ {0} /\ e.deleted \in Nat
         /\ \A k \in told : k.pid = e.pid => k = e
    BY DEF OpenersOk
  <2> QED
    BY <1>1, <2>2, <2>3, <2>4, <2>5 DEF OpenersOk, ReadySteps
<1> QED
  BY <1>2, <1>3

LEMMA PidOfLock ==
    ASSUME NEW l \in LockRecords
    PROVE  PidOf(l) < 0 \/ (PidOf(l) = l.owner /\ l.owner \in HolderPIDs /\ ~(l.owner < 0))
  BY PidsArePositive DEF PidOf, LockRecords

LEMMA LocksKeep == ASSUME CallOk, LocksOk, WorldMoves PROVE LocksOk'
<1>1. UNCHANGED <<told, rows, waiters, shown, heldStep>> /\ heldStep # "done"
  BY DEF WorldMoves, callVars
<1>2. CASE heldStep = "idle"
  <2>1. told = {} /\ rows = {}
    BY <1>2 DEF CallOk
  <2> QED
    BY <1>1, <1>2, <2>1 DEF LocksOk
<1>3. CASE heldStep # "idle"
  <2>1. \A p \in HolderPIDs : p \in renewed' \/ (p \notin renewed /\ hproc'[p] = hproc[p])
    BY <1>3 DEF WorldMoves
  <2>2. \A l \in rows : l.owner \in renewed' \/ hproc'[l.owner] # Gone
    BY <2>1 DEF LocksOk, LockRecords
  <2>3. ASSUME NEW e \in told
        PROVE  IF e.name.pid < 0 THEN e.comm = "OFD" ELSE e.name.pid \in renewed' \/ e.comm = hproc'[e.name.pid].comm
    <3>1. PICK l \in rows : e.name.pid = PidOf(l)
      BY DEF LocksOk
    <3>2. IF e.name.pid < 0 THEN e.comm = "OFD" ELSE e.name.pid \in renewed \/ e.comm = hproc[e.name.pid].comm
      BY DEF LocksOk
    <3>3. e.name.pid < 0 \/ e.name.pid \in HolderPIDs
      BY <3>1, PidOfLock DEF LocksOk
    <3> QED
      BY <2>1, <3>2, <3>3
  <2>4. (heldStep \in {"names", "done"} => waiters \in WaiterCuts(rows) /\ shown \in HolderCuts(rows))'
    BY <1>1 DEF LocksOk
  <2> QED
    BY <1>1, <2>2, <2>3, <2>4 DEF LocksOk
<1> QED
  BY <1>2, <1>3

LEMMA HoldersWorldStep == HoldersInv /\ WorldNext => HoldersInv'
<1> SUFFICES ASSUME HoldersInv, WorldNext PROVE HoldersInv'
  OBVIOUS
<1>1. WorldOk /\ CallOk
  BY DEF HoldersInv
<1>2. WorldOk' /\ WorldMoves
  BY <1>1, WorldSteps
<1>3. UNCHANGED callVars
  BY <1>2 DEF WorldMoves
<1>4. CallOk' /\ held' = held
  BY <1>1, <1>3 DEF CallOk, callVars, scanVars
<1>5. held.tool = "sockets" => RowsOk' /\ FoundOk' /\ JoinedOk'
  BY <1>1, <1>2, RowsKeep, FoundKeep, JoinedKeep DEF HoldersInv
<1>6. held.tool = "files" => OpenersOk'
  BY <1>1, <1>2, OpenersKeep DEF HoldersInv
<1>7. held.tool = "locks" => LocksOk'
  BY <1>1, <1>2, LocksKeep DEF HoldersInv
<1> QED
  BY <1>2, <1>4, <1>5, <1>6, <1>7 DEF HoldersInv

\* A step of the call leaves the world alone.
LEMMA CallLeavesWorld ==
    ASSUME WorldOk, UNCHANGED worldVars, heldStep' # "idle" PROVE WorldOk'
<1>1. /\ UNCHANGED <<hproc, fdTable, listens, unlinked, locks, renewed, touched, moved, everHeld>>
  BY DEF worldVars
<1>2. Holding' = Holding
  BY <1>1 DEF Holding
<1> QED
  BY <1>1, <1>2 DEF WorldOk, GoneIsClosed

LEMMA StartCallInv == HoldersInv /\ (StartSockets \/ StartFiles) => HoldersInv'
<1> SUFFICES ASSUME HoldersInv, StartSockets \/ StartFiles PROVE HoldersInv'
  OBVIOUS
<1>1. /\ UNCHANGED <<worldVars, held, tablesRead, scanVars, rows, waiters, told, shown>>
      /\ heldStep = "idle" /\ heldStep' \in {"tables", "listing", "error"}
      /\ heldStep' = "tables" => held.tool = "sockets"
      /\ held.tool \in {"sockets", "files"}
  BY DEF StartSockets, StartFiles
<1>2. WorldOk /\ CallOk /\ WorldOk'
  BY <1>1, CallLeavesWorld DEF HoldersInv
<1>3. /\ told = {} /\ DOMAIN found = {} /\ pidsLeft = {} /\ rows = {} /\ tablesRead = 0 /\ curPid = 0
      /\ UNCHANGED <<told, found, pidsLeft, fdsLeft, curPid, tally, skipped, rows, tablesRead, held>>
  BY <1>1, <1>2 DEF CallOk, scanVars
<1>4. CallOk'
  BY <1>1, <1>2, <1>3 DEF CallOk
<1>5. held.tool = "sockets" => RowsOk' /\ FoundOk' /\ JoinedOk'
  <2> SUFFICES ASSUME held.tool = "sockets" PROVE RowsOk' /\ FoundOk' /\ JoinedOk'
    OBVIOUS
  <2>1. heldStep' = "tables"
    BY <1>1 DEF StartSockets, StartFiles
  <2>2. RowsOk'
    <3>1. tablesRead' \in 0..4 /\ tablesRead' < 4
      BY <1>3
    <3>2. 1..tablesRead' = {}
      BY <1>3
    <3> QED
      BY <1>3, <2>1, <3>1, <3>2 DEF RowsOk
  <2> QED
    BY <1>3, <2>1, <2>2 DEF FoundOk, JoinedOk
<1>6. held.tool = "files" => OpenersOk'
  BY <1>1, <1>3 DEF OpenersOk, ReadySteps
<1> QED
  BY <1>1, <1>2, <1>3, <1>4, <1>5, <1>6 DEF HoldersInv

LEMMA CollectInv == HoldersInv /\ collectSockets => HoldersInv'
<1> SUFFICES ASSUME HoldersInv, collectSockets PROVE HoldersInv'
  OBVIOUS
<1> DEFINE t == SocketTables[tablesRead + 1]
<1>1. WorldOk /\ CallOk /\ held.tool = "sockets" /\ RowsOk /\ FoundOk /\ JoinedOk
  BY DEF HoldersInv, collectSockets, CallOk
<1>2. tablesRead \in 0..3 /\ heldStep = "tables"
  BY <1>1 DEF collectSockets, RowsOk
<1>3. /\ UNCHANGED <<worldVars, held, scanVars, waiters, told, shown>> /\ tablesRead' = tablesRead + 1
      /\ rows' = rows \union (IF t \in held.tables THEN {[table |-> t, sock |-> s] : s \in ListedIn(t)} ELSE {})
  BY DEF collectSockets
<1>4. heldStep' = "error" \/ heldStep' = IF tablesRead' = 4 THEN "listing" ELSE "tables"
  <2>1. Len(SocketTables) = 4
    BY DEF SocketTables
  <2> QED
    BY <2>1 DEF collectSockets
<1>5. heldStep' \in {"error", "listing", "tables"}
  BY <1>4
<1>6. WorldOk'
  BY <1>1, <1>3, <1>5, CallLeavesWorld
<1>7. /\ UNCHANGED <<told, found, pidsLeft, fdsLeft, curPid, tally, skipped, held, listens, moved>>
      /\ told = {} /\ DOMAIN found = {} /\ pidsLeft = {} /\ curPid = 0
  BY <1>1, <1>2, <1>3 DEF scanVars, worldVars, CallOk
<1>8. CallOk'
  BY <1>1, <1>5, <1>7 DEF CallOk
<1>9. FoundOk' /\ JoinedOk'
  BY <1>5, <1>7 DEF FoundOk, JoinedOk
<1>10. RowsOk'
  <2>1. \A r \in rows' : r.sock \in Sockets /\ r.table = SockTable[r.sock]
    <3>1. \A s \in ListedIn(t) : s \in Sockets /\ SockTable[s] = t
      BY <1>1 DEF ListedIn, WorldOk
    <3> HIDE DEF t
    <3> QED
      BY <1>1, <1>3, <3>1 DEF RowsOk
  <2>2. tablesRead' \in 0..4 /\ (heldStep' = "tables" => tablesRead' < 4) /\ (heldStep' = "listing" => tablesRead' = 4)
    BY <1>2, <1>3, <1>4
  <2>3. ASSUME NEW s \in listens \ moved, NEW i \in 1..(tablesRead + 1),
               SockTable[s] = SocketTables[i], SockTable[s] \in held.tables
        PROVE  \E r \in rows' : r.sock = s
    <3>1. CASE i \in 1..tablesRead
      BY <1>1, <1>2, <1>3, <2>3, <3>1 DEF RowsOk
    <3>2. CASE i = tablesRead + 1
      <4>1. s \in ListedIn(t) /\ t \in held.tables
        BY <2>3, <3>2 DEF ListedIn
      <4>2. [table |-> t, sock |-> s] \in rows'
        <5> HIDE DEF t
        <5> QED
          BY <1>3, <4>1
      <4> QED
        BY <4>2
    <3> QED
      BY <1>2, <3>1, <3>2
  <2> QED
    BY <1>3, <1>5, <1>7, <2>1, <2>2, <2>3 DEF RowsOk
<1> QED
  BY <1>1, <1>6, <1>7, <1>8, <1>9, <1>10 DEF HoldersInv

LEMMA ListInv == HoldersInv /\ ListProcesses => HoldersInv'
<1> SUFFICES ASSUME HoldersInv, ListProcesses PROVE HoldersInv'
  OBVIOUS
<1>1. /\ heldStep = "listing" /\ heldStep' = "scan" /\ pidsLeft' = {p \in HolderPIDs : hproc[p] # Gone}
      /\ UNCHANGED <<worldVars, held, tablesRead, fdsLeft, curPid, tally, found, skipped, rows, waiters, told, shown>>
  BY DEF ListProcesses
<1>2. WorldOk /\ CallOk /\ WorldOk'
  BY <1>1, CallLeavesWorld DEF HoldersInv
<1>3. /\ told = {} /\ DOMAIN found = {} /\ curPid = 0 /\ held.tool \in {"sockets", "files"}
      /\ UNCHANGED <<hproc, fdTable, listens, unlinked, renewed, touched, moved, everHeld>>
  BY <1>1, <1>2 DEF CallOk, worldVars
<1>4. CallOk'
  <2>1. 0 \notin HolderPIDs
    BY PidsArePositive
  <2> QED
    BY <1>1, <1>2, <1>3, <2>1 DEF CallOk
<1>5. held.tool = "sockets" => RowsOk' /\ FoundOk' /\ JoinedOk'
  <2> SUFFICES ASSUME held.tool = "sockets" PROVE RowsOk' /\ FoundOk' /\ JoinedOk'
    OBVIOUS
  <2>1. RowsOk
    BY DEF HoldersInv
  <2>2. RowsOk'
    BY <1>1, <1>3, <2>1 DEF RowsOk
  <2>3. ASSUME NEW s \in Sockets, NEW p \in HoldersOf(s) PROVE p \in pidsLeft'
    <3>1. p \in HolderPIDs /\ \E d \in HolderFDs : fdTable[p][d] = s
      BY HoldsWithFd DEF HoldersOf, Objects
    <3>2. s # ""
      BY ObjectsAreNamed DEF Objects
    <3> QED
      BY <1>1, <1>2, <3>1, <3>2 DEF WorldOk, GoneIsClosed
  <2>4. \A s \in Sockets : HoldersOf(s)' = HoldersOf(s)
    BY <1>3 DEF HoldersOf, Holding
  <2>5. FoundOk'
    BY <1>1, <1>3, <2>3, <2>4 DEF FoundOk, ToScan
  <2> QED
    BY <1>1, <1>3, <2>2, <2>5 DEF JoinedOk
<1>6. held.tool = "files" => OpenersOk'
  <2>1. \A p \in HolderPIDs : hproc[p].readable => p \in pidsLeft'
    <3>1. ~Gone.readable
      BY DEF Gone
    <3> QED
      BY <1>1, <3>1
  <2> QED
    BY <1>1, <1>3, <2>1 DEF OpenersOk, ReadySteps
<1> QED
  BY <1>1, <1>2, <1>3, <1>4, <1>5, <1>6 DEF HoldersInv

LEMMA FdsAreFinite ==
    ASSUME NEW p, NEW fs PROVE IsFiniteSet(FdsUnder(p, fs)) /\ Cardinality(FdsUnder(p, fs)) \in Nat
<1>1. FdsUnder(p, fs) \in SUBSET HolderFDs
  BY DEF FdsUnder
<1> QED
  BY <1>1, TheyAreFinite, FS_Subset, FS_CardinalityType

\* A process whose descriptors are about to be read has all of them left.
LEMMA AllAreLeft ==
    ASSUME NEW p, hproc[p].readable PROVE CountedOk(p, OpenFds(p), NoTally)
<1>1. ASSUME NEW fs, "" \notin fs PROVE NoTally.count + Cardinality(FdsUnder(p, fs) \cap OpenFds(p)) = Cardinality(FdsUnder(p, fs))
  <2>1. FdsUnder(p, fs) \cap OpenFds(p) = FdsUnder(p, fs)
    BY <1>1 DEF FdsUnder, OpenFds
  <2>2. NoTally.count = 0
    BY DEF NoTally
  <2> QED
    BY <2>1, <2>2, FdsAreFinite
<1>2. NoTally.deleted = NoTally.count
  BY DEF NoTally
<1>3. "" \notin UnderPath /\ "" \notin UnderPath \cap unlinked
  BY ObjectsAreNamed, FilesAreNotSockets DEF Objects
<1> QED
  BY <1>1, <1>2, <1>3 DEF CountedOk

LEMMA OpenDirInv == ASSUME HoldersInv, NEW p \in pidsLeft, OpenFdDir(p) PROVE HoldersInv'
<1>1. /\ heldStep = "scan" /\ heldStep' = "scan" /\ curPid = 0 /\ pidsLeft' = pidsLeft \ {p}
      /\ curPid' = IF hproc[p].readable THEN p ELSE 0
      /\ fdsLeft' = IF hproc[p].readable THEN OpenFds(p) ELSE {}
      /\ skipped' = skipped + IF hproc[p] # Gone /\ ~hproc[p].readable THEN 1 ELSE 0
      /\ UNCHANGED <<worldVars, held, tablesRead, tally, found, rows, waiters, told, shown>>
  BY DEF OpenFdDir
<1>2. WorldOk /\ CallOk /\ WorldOk'
  BY <1>1, CallLeavesWorld DEF HoldersInv
<1>3. /\ p \in HolderPIDs /\ p # 0 /\ held.tool \in {"sockets", "files"} /\ tally = NoTally
      /\ UNCHANGED <<hproc, fdTable, listens, unlinked, renewed, touched, moved, everHeld>>
  BY <1>1, <1>2, PidsArePositive DEF CallOk, worldVars
<1>4. skipped \in Nat /\ skipped' \in Nat /\ skipped' >= skipped
      /\ (hproc[p] # Gone /\ ~hproc[p].readable => skipped' > 0)
  BY <1>1, <1>2 DEF CallOk
<1>5. CallOk'
  <2>1. OpenFds(p) \subseteq HolderFDs
    BY DEF OpenFds
  <2> QED
    BY <1>1, <1>2, <1>3, <1>4, <2>1 DEF CallOk
<1>6. held.tool = "sockets" => RowsOk' /\ FoundOk' /\ JoinedOk'
  <2> SUFFICES ASSUME held.tool = "sockets" PROVE RowsOk' /\ FoundOk' /\ JoinedOk'
    OBVIOUS
  <2>1. RowsOk /\ FoundOk /\ JoinedOk
    BY DEF HoldersInv
  <2>2. RowsOk'
    BY <1>1, <1>3, <2>1 DEF RowsOk
  <2>3. ASSUME NEW s \in Sockets \ moved, NEW q \in HoldersOf(s) \ renewed
        PROVE  IF hproc[q].readable THEN ToScan(q, s)' \/ s \in DOMAIN found
               ELSE (heldStep' = "scan" /\ q \in pidsLeft') \/ skipped' > 0
    <3>1. IF hproc[q].readable THEN q \in pidsLeft \/ s \in DOMAIN found
          ELSE q \in pidsLeft \/ skipped > 0
      BY <1>1, <1>3, <2>1, PidsArePositive DEF FoundOk, ToScan, HoldersOf
    <3>2. q \in HolderPIDs /\ \E d \in HolderFDs : fdTable[q][d] = s
      BY HoldsWithFd DEF HoldersOf, Objects
    <3>3. s # ""
      BY ObjectsAreNamed DEF Objects
    <3>4. CASE q = p
      <4>1. hproc[p] # Gone
        BY <1>2, <3>2, <3>3, <3>4 DEF WorldOk, GoneIsClosed
      <4>2. \E d \in OpenFds(p) : fdTable[p][d] = s
        BY <3>2, <3>3, <3>4 DEF OpenFds
      <4> QED
        BY <1>1, <1>3, <1>4, <3>4, <4>1, <4>2 DEF ToScan
    <3>5. CASE q # p
      BY <1>1, <1>3, <1>4, <3>1, <3>5 DEF ToScan
    <3> QED
      BY <3>4, <3>5
  <2>4. \A s \in Sockets : HoldersOf(s)' = HoldersOf(s)
    BY <1>3 DEF HoldersOf, Holding
  <2>5. FoundOk'
    BY <1>1, <1>3, <2>1, <2>3, <2>4 DEF FoundOk
  <2> QED
    BY <1>1, <1>3, <2>1, <2>2, <2>5 DEF JoinedOk
<1>7. held.tool = "files" => OpenersOk'
  <2> SUFFICES ASSUME held.tool = "files" PROVE OpenersOk'
    OBVIOUS
  <2>1. OpenersOk
    BY DEF HoldersInv
  <2>2. \A q, left, t : CountedOk(q, left, t)' <=> CountedOk(q, left, t)
    BY <1>3 DEF CountedOk, FdsUnder
  <2>3. curPid' \notin {0} \union renewed \union touched => CountedOk(curPid', fdsLeft', tally')
    BY <1>1, <1>3, AllAreLeft
  <2>4. \A e \in told : e.pid \notin pidsLeft' /\ e.pid # curPid'
    BY <1>1, <1>3, <2>1, PidsArePositive DEF OpenersOk
  <2>5. \A q \in HolderPIDs \ (renewed \union touched) :
         hproc[q].readable => \/ q \in pidsLeft' \/ q = curPid' \/ FdsUnder(q, UnderPath) = {}
                              \/ \E e \in told : e.pid = q
    BY <1>1, <1>3, <2>1, PidsArePositive DEF OpenersOk, ReadySteps
  <2> QED
    BY <1>1, <1>3, <2>1, <2>2, <2>3, <2>4, <2>5 DEF OpenersOk, FdsUnder
<1> QED
  BY <1>1, <1>2, <1>3, <1>5, <1>6, <1>7 DEF HoldersInv

\* A descriptor that is read is counted and no longer left.
LEMMA OneIsCounted ==
    ASSUME NEW p, NEW fs, NEW left, NEW d \in left, NEW n \in Nat,
           n + Cardinality(FdsUnder(p, fs) \cap left) = Cardinality(FdsUnder(p, fs))
    PROVE  (n + IF d \in FdsUnder(p, fs) THEN 1 ELSE 0) + Cardinality(FdsUnder(p, fs) \cap (left \ {d}))
             = Cardinality(FdsUnder(p, fs))
<1> DEFINE S == FdsUnder(p, fs) \cap left
<1>1. IsFiniteSet(S) /\ Cardinality(S) \in Nat
  BY FdsAreFinite, FS_Intersection, FS_CardinalityType
<1>2. FdsUnder(p, fs) \cap (left \ {d}) = S \ {d}
  OBVIOUS
<1>3. Cardinality(S \ {d}) = IF d \in S THEN Cardinality(S) - 1 ELSE Cardinality(S)
  BY <1>1, FS_RemoveElement
<1>4. d \in S <=> d \in FdsUnder(p, fs)
  OBVIOUS
<1>5. n + Cardinality(S) = Cardinality(FdsUnder(p, fs))
  OBVIOUS
<1> HIDE DEF S
<1>7. CASE d \in S
  BY <1>1, <1>2, <1>3, <1>4, <1>5, <1>7
<1>8. CASE d \notin S
  <2>1. Cardinality(S \ {d}) = Cardinality(S)
    BY <1>3, <1>8
  <2>2. n + 0 = n
    OBVIOUS
  <2> QED
    BY <1>2, <1>4, <1>5, <1>8, <2>1, <2>2
<1> QED
  BY <1>7, <1>8

LEMMA ReadFdInv == ASSUME HoldersInv, NEW d \in fdsLeft, ReadFd(d) PROVE HoldersInv'
<1> DEFINE o == IF hproc[curPid].readable THEN fdTable[curPid][d] ELSE ""
<1>1. /\ curPid # 0 /\ fdsLeft' = fdsLeft \ {d}
      /\ found' = IF held.tool = "sockets" /\ o \in Sockets THEN FoundWith(o) ELSE found
      /\ tally' = IF held.tool = "files" /\ o \in UnderPath THEN TallyWith(o) ELSE tally
      /\ UNCHANGED <<worldVars, held, heldStep, tablesRead, pidsLeft, curPid, skipped, rows, waiters, told, shown>>
  BY DEF ReadFd
<1>2. WorldOk /\ CallOk /\ heldStep = "scan" /\ WorldOk'
  BY <1>1, CallLeavesWorld DEF HoldersInv, CallOk
<1>3. /\ curPid \in HolderPIDs /\ d \in HolderFDs /\ held.tool \in {"sockets", "files"}
      /\ UNCHANGED <<hproc, fdTable, listens, unlinked, renewed, touched, moved, everHeld>>
  BY <1>1, <1>2 DEF CallOk, worldVars
<1>4. o \in Objects => hproc[curPid].readable /\ fdTable[curPid][d] = o
  BY ObjectsAreNamed
<1> HIDE DEF o
<1>5. tally' \in [count : Nat, deleted : Nat] /\ (held.tool = "sockets" => tally' = NoTally)
  <2>1. tally \in [count : Nat, deleted : Nat]
    BY <1>2 DEF CallOk
  <2>2. TallyWith(o) \in [count : Nat, deleted : Nat]
    BY <2>1 DEF TallyWith
  <2> QED
    BY <1>1, <1>2, <2>1, <2>2 DEF CallOk
<1>6. CallOk'
  BY <1>1, <1>2, <1>3, <1>5 DEF CallOk
<1>7. held.tool = "sockets" => RowsOk' /\ FoundOk' /\ JoinedOk'
  <2> SUFFICES ASSUME held.tool = "sockets" PROVE RowsOk' /\ FoundOk' /\ JoinedOk'
    OBVIOUS
  <2>1. RowsOk /\ FoundOk /\ JoinedOk
    BY DEF HoldersInv
  <2>2. RowsOk'
    BY <1>1, <1>3, <2>1 DEF RowsOk
  <2>3. /\ DOMAIN found' = IF o \in Sockets THEN DOMAIN found \union {o} ELSE DOMAIN found
        /\ \A s \in DOMAIN found' : found'[s] = IF s = o /\ o \in Sockets THEN curPid ELSE found[s]
    BY <1>1 DEF FoundWith
  <2>4. o \in Sockets => <<curPid, o>> \in everHeld
    <3> SUFFICES ASSUME o \in Sockets PROVE <<curPid, o>> \in everHeld
      OBVIOUS
    <3>1. o \in Objects
      BY DEF Objects
    <3>2. <<curPid, o>> \in Holding
      BY <1>3, <1>4, <3>1, HoldsWithFd
    <3> QED
      BY <1>2, <3>2 DEF WorldOk
  <2>5. \A s \in DOMAIN found' : s \in Sockets /\ found'[s] \in HolderPIDs /\ <<found'[s], s>> \in everHeld
    BY <1>3, <2>1, <2>3, <2>4 DEF FoundOk
  <2>6. ASSUME NEW s \in Sockets \ moved, NEW q \in HoldersOf(s) \ renewed
        PROVE  IF hproc[q].readable THEN ToScan(q, s)' \/ s \in DOMAIN found'
               ELSE (heldStep' = "scan" /\ q \in pidsLeft') \/ skipped' > 0
    <3>1. IF hproc[q].readable THEN ToScan(q, s) \/ s \in DOMAIN found
          ELSE (heldStep = "scan" /\ q \in pidsLeft) \/ skipped > 0
      BY <1>2, <2>1 DEF FoundOk
    <3>2. ASSUME hproc[q].readable, ToScan(q, s) PROVE ToScan(q, s)' \/ s \in DOMAIN found'
      <4>1. CASE q \in pidsLeft
        BY <1>1, <1>2, <4>1 DEF ToScan
      <4>2. CASE q = curPid /\ \E e \in fdsLeft : fdTable[q][e] = s
        <5>1. PICK e \in fdsLeft : fdTable[q][e] = s
          BY <4>2
        <5>2. CASE e = d
          <6>1. o = s
            BY <3>2, <4>2, <5>1, <5>2 DEF o
          <6> QED
            BY <2>3, <6>1
        <5>3. CASE e # d
          BY <1>1, <1>2, <1>3, <4>2, <5>1, <5>3 DEF ToScan
        <5> QED
          BY <5>2, <5>3
      <4> QED
        BY <3>2, <4>1, <4>2 DEF ToScan
    <3>3. s \in DOMAIN found => s \in DOMAIN found'
      BY <2>3
    <3> QED
      BY <1>1, <3>1, <3>2, <3>3
  <2>7. \A s \in Sockets : HoldersOf(s)' = HoldersOf(s)
    BY <1>3 DEF HoldersOf, Holding
  <2>8. FoundOk'
    BY <1>1, <1>3, <2>5, <2>6, <2>7 DEF FoundOk
  <2> QED
    BY <1>1, <1>2, <2>1, <2>2, <2>8 DEF JoinedOk
<1>8. held.tool = "files" => OpenersOk'
  <2> SUFFICES ASSUME held.tool = "files" PROVE OpenersOk'
    OBVIOUS
  <2>1. OpenersOk
    BY DEF HoldersInv
  <2>2. \A q, left, t : CountedOk(q, left, t)' <=> CountedOk(q, left, t)
    BY <1>3 DEF CountedOk, FdsUnder
  <2>3. ASSUME curPid \notin {0} \union renewed \union touched PROVE CountedOk(curPid, fdsLeft', tally')
    <3>1. CountedOk(curPid, fdsLeft, tally)
      BY <2>1, <2>3 DEF OpenersOk
    <3>2. hproc[curPid].readable /\ o = fdTable[curPid][d]
      BY <3>1 DEF CountedOk, o
    <3>3. \A fs : d \in FdsUnder(curPid, fs) <=> o \in fs
      BY <1>3, <3>2 DEF FdsUnder
    <3>4. tally.count \in Nat /\ tally.deleted \in Nat
      BY <1>2 DEF CallOk
    <3>5. /\ tally'.count = tally.count + IF o \in UnderPath THEN 1 ELSE 0
          /\ tally'.deleted = tally.deleted + IF o \in UnderPath \cap unlinked THEN 1 ELSE 0
      <4>1. CASE o \in UnderPath
        BY <1>1, <4>1 DEF TallyWith
      <4>2. CASE o \notin UnderPath
        BY <1>1, <3>4, <4>2
      <4> QED
        BY <4>1, <4>2
    <3>6. tally'.count + Cardinality(FdsUnder(curPid, UnderPath) \cap (fdsLeft \ {d})) = Cardinality(FdsUnder(curPid, UnderPath))
      BY <3>1, <3>3, <3>4, <3>5, OneIsCounted DEF CountedOk
    <3>7. moved \cap unlinked = {} =>
            tally'.deleted + Cardinality(FdsUnder(curPid, UnderPath \cap unlinked) \cap (fdsLeft \ {d}))
              = Cardinality(FdsUnder(curPid, UnderPath \cap unlinked))
      <4> SUFFICES ASSUME moved \cap unlinked = {}
                   PROVE  tally'.deleted + Cardinality(FdsUnder(curPid, UnderPath \cap unlinked) \cap (fdsLeft \ {d}))
                            = Cardinality(FdsUnder(curPid, UnderPath \cap unlinked))
        OBVIOUS
      <4> DEFINE fs == UnderPath \cap unlinked
      <4>1. tally.deleted + Cardinality(FdsUnder(curPid, fs) \cap fdsLeft) = Cardinality(FdsUnder(curPid, fs))
        BY <3>1 DEF CountedOk
      <4>2. d \in FdsUnder(curPid, fs) <=> o \in UnderPath \cap unlinked
        BY <3>3
      <4> HIDE DEF fs
      <4>3. ASSUME NEW n \in Nat, n + Cardinality(FdsUnder(curPid, fs) \cap fdsLeft) = Cardinality(FdsUnder(curPid, fs))
            PROVE  (n + IF d \in FdsUnder(curPid, fs) THEN 1 ELSE 0) + Cardinality(FdsUnder(curPid, fs) \cap (fdsLeft \ {d}))
                     = Cardinality(FdsUnder(curPid, fs))
        BY <4>3, OneIsCounted
      <4>4. (tally.deleted + IF d \in FdsUnder(curPid, fs) THEN 1 ELSE 0) + Cardinality(FdsUnder(curPid, fs) \cap (fdsLeft \ {d}))
              = Cardinality(FdsUnder(curPid, fs))
        BY <3>4, <4>1, <4>3
      <4> QED
        BY <3>5, <4>2, <4>4 DEF fs
    <3> QED
      BY <1>1, <3>2, <3>6, <3>7 DEF CountedOk
  <2>4. heldStep' = "scan" /\ \A q \in HolderPIDs \ (renewed \union touched) :
         hproc[q].readable => \/ q \in pidsLeft \/ q = curPid \/ FdsUnder(q, UnderPath) = {}
                              \/ \E e \in told : e.pid = q
    BY <1>1, <1>2, <2>1 DEF OpenersOk, ReadySteps
  <2> QED
    BY <1>1, <1>3, <2>1, <2>2, <2>3, <2>4 DEF OpenersOk, FdsUnder
<1> QED
  BY <1>1, <1>2, <1>3, <1>6, <1>7, <1>8 DEF HoldersInv

LEMMA DirDoneInv == HoldersInv /\ FdDirDone => HoldersInv'
<1> SUFFICES ASSUME HoldersInv, FdDirDone PROVE HoldersInv'
  OBVIOUS
<1> DEFINE e == [pid |-> curPid, comm |-> readComm(curPid, "unknown"), count |-> tally.count, deleted |-> tally.deleted]
<1>1. /\ curPid # 0 /\ fdsLeft = {} /\ curPid' = 0 /\ tally' = NoTally
      /\ told' = told \union (IF tally.count = 0 THEN {} ELSE {e})
      /\ UNCHANGED <<worldVars, held, heldStep, tablesRead, pidsLeft, fdsLeft, found, skipped, rows, waiters, shown>>
  BY DEF FdDirDone
<1>2. WorldOk /\ CallOk /\ heldStep = "scan" /\ WorldOk'
  BY <1>1, CallLeavesWorld DEF HoldersInv, CallOk
<1>3. /\ curPid \in HolderPIDs \ pidsLeft /\ held.tool \in {"sockets", "files"}
      /\ tally.count \in Nat /\ tally.deleted \in Nat
      /\ UNCHANGED <<hproc, fdTable, listens, unlinked, renewed, touched, moved, everHeld>>
  BY <1>1, <1>2 DEF CallOk, worldVars
<1>e. e.pid = curPid /\ e.comm = readComm(curPid, "unknown") /\ e.count = tally.count /\ e.deleted = tally.deleted
  OBVIOUS
<1> HIDE DEF e
<1>4. CallOk'
  <2>1. IsFiniteSet(told')
    <3>1. told' = told \/ told' = told \union {e}
      BY <1>1
    <3> QED
      BY <1>2, <3>1, FS_AddElement DEF CallOk
  <2>2. NoTally \in [count : Nat, deleted : Nat] /\ 0 \notin pidsLeft
    BY <1>2, PidsArePositive DEF NoTally, CallOk
  <2> QED
    BY <1>1, <1>2, <1>3, <2>1, <2>2 DEF CallOk
<1>5. held.tool = "sockets" => RowsOk' /\ FoundOk' /\ JoinedOk'
  <2> SUFFICES ASSUME held.tool = "sockets" PROVE RowsOk' /\ FoundOk' /\ JoinedOk'
    OBVIOUS
  <2>1. RowsOk /\ FoundOk /\ JoinedOk
    BY DEF HoldersInv
  <2>2. RowsOk'
    BY <1>1, <1>3, <2>1 DEF RowsOk
  <2>3. told' = {}
    <3>1. tally.count = 0
      BY <1>2 DEF CallOk, NoTally
    <3> QED
      BY <1>1, <1>2, <2>1, <3>1 DEF JoinedOk
  <2>4. \A s, q : ToScan(q, s) => ToScan(q, s)'
    BY <1>1, <1>2 DEF ToScan
  <2>5. \A s \in Sockets : HoldersOf(s)' = HoldersOf(s)
    BY <1>3 DEF HoldersOf, Holding
  <2>6. FoundOk'
    BY <1>1, <1>3, <2>1, <2>4, <2>5 DEF FoundOk
  <2> QED
    BY <1>1, <1>2, <2>2, <2>3, <2>6 DEF JoinedOk
<1>6. held.tool = "files" => OpenersOk'
  <2> SUFFICES ASSUME held.tool = "files" PROVE OpenersOk'
    OBVIOUS
  <2>1. OpenersOk
    BY DEF HoldersInv
  <2>2. \A q, left, t : CountedOk(q, left, t)' <=> CountedOk(q, left, t)
    BY <1>3 DEF CountedOk, FdsUnder
  <2>3. \A k \in told' : k \in told \/ (k = e /\ tally.count # 0)
    BY <1>1
  <2>4. ASSUME NEW k \in told'
        PROVE  /\ k.pid \in HolderPIDs \ pidsLeft /\ k.pid # 0 /\ k.count \in Nat \ {0} /\ k.deleted \in Nat
               /\ \A j \in told' : j.pid = k.pid => j = k
    <3>1. \A j \in told : j.pid # curPid
      BY <2>1 DEF OpenersOk
    <3>2. CASE k \in told
      <4>1. /\ k.pid \in HolderPIDs \ pidsLeft /\ k.count \in Nat \ {0} /\ k.deleted \in Nat
            /\ \A j \in told : j.pid = k.pid => j = k
        BY <2>1, <3>2 DEF OpenersOk
      <4> QED
        BY <1>e, <2>3, <3>1, <3>2, <4>1, PidsArePositive
    <3>3. CASE k = e /\ tally.count # 0
      BY <1>3, <1>e, <2>3, <3>1, <3>3, PidsArePositive
    <3> QED
      BY <2>3, <3>2, <3>3
  <2>5. curPid \notin renewed \union touched => CountedOk(curPid, {}, tally)
    BY <1>1, <2>1 DEF OpenersOk
  <2>6. ASSUME NEW k \in told', k.pid \notin renewed \union touched
        PROVE  k.comm = hproc[k.pid].comm /\ CountedOk(k.pid, {}, k)
    <3>1. CASE k \in told
      BY <2>1, <2>6, <3>1 DEF OpenersOk
    <3>2. CASE k = e
      <4>1. CountedOk(curPid, {}, tally)
        BY <1>e, <2>5, <2>6, <3>2
      <4>2. CountedOk(curPid, {}, e)
        BY <1>e, <4>1 DEF CountedOk
      <4>3. hproc[curPid] # Gone
        <5>1. hproc[curPid].readable /\ ~Gone.readable
          BY <4>1 DEF CountedOk, Gone
        <5> QED
          BY <5>1
      <4> QED
        BY <1>e, <3>2, <4>2, <4>3 DEF readComm
    <3> QED
      BY <2>3, <3>1, <3>2
  <2>7. ASSUME NEW q \in HolderPIDs \ (renewed \union touched), hproc[q].readable
        PROVE  \/ q \in pidsLeft \/ FdsUnder(q, UnderPath) = {}
               \/ \E k \in told' : k.pid = q
    <3>1. CASE q = curPid /\ tally.count # 0
      BY <1>1, <1>e, <3>1
    <3>2. CASE q = curPid /\ tally.count = 0
      <4>1. 0 + Cardinality(FdsUnder(q, UnderPath) \cap {}) = Cardinality(FdsUnder(q, UnderPath))
        BY <2>5, <2>7, <3>2 DEF CountedOk
      <4>2. FdsUnder(q, UnderPath) \cap {} = {}
        OBVIOUS
      <4>3. Cardinality(FdsUnder(q, UnderPath)) = 0
        BY <4>1, <4>2, FS_EmptySet
      <4> QED
        BY <4>3, FdsAreFinite, FS_EmptySet
    <3>3. CASE q # curPid
      BY <1>1, <1>2, <2>1, <2>7, <3>3 DEF OpenersOk, ReadySteps
    <3> QED
      BY <3>1, <3>2, <3>3
  <2>8. OpenersOk'
    BY <1>1, <1>2, <1>3, <2>2, <2>4, <2>6, <2>7 DEF OpenersOk, FdsUnder
  <2> QED
    BY <2>8
<1> QED
  BY <1>1, <1>2, <1>3, <1>4, <1>5, <1>6 DEF HoldersInv

LEMMA EndsInv == HoldersInv /\ (ScanEnds \/ Cancelled) => HoldersInv'
<1> SUFFICES ASSUME HoldersInv, ScanEnds \/ Cancelled PROVE HoldersInv'
  OBVIOUS
<1>1. /\ UNCHANGED <<worldVars, held, tablesRead, scanVars, rows, waiters, told>> /\ curPid = 0
      /\ \/ heldStep = "scan" /\ held.tool = "sockets" /\ heldStep' = "names" /\ pidsLeft = {}
         \/ heldStep = "scan" /\ held.tool = "files" /\ heldStep' = "done" /\ shown' \in FileCuts /\ pidsLeft = {}
         \/ heldStep = "scan" /\ heldStep' = "error"
         \/ heldStep = "idle" /\ held.tool = "locks" /\ heldStep' = "error"
  <2>1. CallOk
    BY DEF HoldersInv
  <2> QED
    BY <2>1 DEF ScanEnds, Cancelled, CallOk
<1>2. WorldOk /\ CallOk /\ WorldOk'
  BY <1>1, CallLeavesWorld DEF HoldersInv
<1>3. /\ UNCHANGED <<told, found, pidsLeft, fdsLeft, curPid, tally, skipped, rows, tablesRead, held>>
      /\ UNCHANGED <<hproc, fdTable, listens, unlinked, renewed, touched, moved, everHeld>>
  BY <1>1 DEF scanVars, worldVars
<1>4. CallOk'
  BY <1>1, <1>2, <1>3 DEF CallOk
<1>5. held.tool = "sockets" => RowsOk' /\ FoundOk' /\ JoinedOk'
  <2> SUFFICES ASSUME held.tool = "sockets" PROVE RowsOk' /\ FoundOk' /\ JoinedOk'
    OBVIOUS
  <2>1. RowsOk /\ FoundOk /\ JoinedOk /\ heldStep = "scan" /\ heldStep' \in {"names", "error"}
    BY <1>1 DEF HoldersInv
  <2>2. RowsOk'
    BY <1>3, <2>1 DEF RowsOk
  <2>3. \A s \in Sockets : HoldersOf(s)' = HoldersOf(s)
    BY <1>3 DEF HoldersOf, Holding
  <2>4. ASSUME heldStep' = "names", NEW s \in Sockets \ moved, NEW q \in HoldersOf(s) \ renewed
        PROVE  IF hproc[q].readable THEN s \in DOMAIN found ELSE skipped > 0
    <3>1. q # 0 /\ pidsLeft = {}
      BY <1>1, <2>4, PidsArePositive DEF HoldersOf
    <3> QED
      BY <1>1, <2>1, <3>1 DEF FoundOk, ToScan
  <2>5. FoundOk'
    BY <1>3, <2>1, <2>3, <2>4 DEF FoundOk
  <2>6. told' = {}
    BY <1>3, <2>1 DEF JoinedOk
  <2> QED
    BY <2>1, <2>2, <2>5, <2>6 DEF JoinedOk
<1>6. held.tool = "files" => OpenersOk'
  <2> SUFFICES ASSUME held.tool = "files" PROVE OpenersOk'
    OBVIOUS
  <2>1. OpenersOk /\ heldStep = "scan"
    BY <1>1 DEF HoldersInv
  <2>2. \A q, left, t : CountedOk(q, left, t)' <=> CountedOk(q, left, t)
    BY <1>3 DEF CountedOk, FdsUnder
  <2>3. heldStep' = "done" => (shown \in FileCuts)'
    BY <1>1, <1>3 DEF FileCuts
  <2> QED
    BY <1>3, <2>1, <2>2, <2>3 DEF OpenersOk, ReadySteps, FdsUnder
<1>7. held.tool = "locks" => LocksOk'
  <2> SUFFICES ASSUME held.tool = "locks" PROVE LocksOk'
    OBVIOUS
  <2>1. LocksOk /\ heldStep = "idle" /\ heldStep' = "error" /\ rows = {} /\ told = {}
    BY <1>1, <1>2 DEF HoldersInv, CallOk
  <2> QED
    BY <1>3, <2>1 DEF LocksOk
<1> QED
  BY <1>2, <1>3, <1>4, <1>5, <1>6, <1>7 DEF HoldersInv

LEMMA JoinInv == ASSUME HoldersInv, NEW r \in rows, JoinSocket(r) PROVE HoldersInv'
<1> DEFINE p == IF r.sock \in DOMAIN found THEN found[r.sock] ELSE 0
           e == [sock |-> r.sock, table |-> r.table, pid |-> p, comm |-> IF p = 0 THEN "" ELSE readComm(p, "")]
<1>1. /\ held.tool = "sockets" /\ heldStep = "names" /\ ~Joined(r) /\ told' = told \union {e}
      /\ UNCHANGED <<worldVars, held, heldStep, tablesRead, scanVars, rows, waiters, shown>>
  BY DEF JoinSocket
<1>2. WorldOk /\ CallOk /\ RowsOk /\ FoundOk /\ JoinedOk /\ WorldOk'
  BY <1>1, CallLeavesWorld DEF HoldersInv
<1>3. /\ UNCHANGED <<found, pidsLeft, fdsLeft, curPid, tally, skipped, rows, tablesRead, held, heldStep>>
      /\ UNCHANGED <<hproc, fdTable, listens, unlinked, renewed, touched, moved, everHeld>>
  BY <1>1 DEF scanVars, worldVars
<1>4. /\ e.sock = r.sock /\ e.table = r.table /\ e.pid = IF e.sock \in DOMAIN found THEN found[e.sock] ELSE 0
      /\ e.sock \in Sockets /\ e.table = SockTable[e.sock]
  BY <1>2 DEF RowsOk
<1>5. e.pid = 0 \/ e.pid \in renewed \/ e.comm = hproc[e.pid].comm
  <2>1. p = 0 \/ p \in HolderPIDs
    BY <1>2 DEF FoundOk
  <2>2. p # 0 => e.comm = hproc[p].comm
    <3>1. Gone.comm = ""
      BY DEF Gone
    <3> QED
      BY <3>1 DEF readComm
  <2>3. e.pid = p
    OBVIOUS
  <2> HIDE DEF e, p
  <2> QED
    BY <2>2, <2>3
<1> HIDE DEF e, p
<1>6. CallOk'
  <2>1. IsFiniteSet(told')
    BY <1>1, <1>2, FS_AddElement DEF CallOk
  <2> QED
    BY <1>1, <1>2, <1>3, <2>1 DEF CallOk
<1>7. RowsOk'
  BY <1>2, <1>3 DEF RowsOk
<1>8. FoundOk'
  <2>1. \A s \in Sockets : HoldersOf(s)' = HoldersOf(s)
    BY <1>3 DEF HoldersOf, Holding
  <2>2. \A q, s : ToScan(q, s)' <=> ToScan(q, s)
    BY <1>3 DEF ToScan
  <2> QED
    BY <1>2, <1>3, <2>1, <2>2 DEF FoundOk
<1>9. JoinedOk'
  <2>1. \A k \in told : k.sock # r.sock
    <3> SUFFICES ASSUME NEW k \in told, k.sock = r.sock PROVE FALSE
      OBVIOUS
    <3>1. k.table = r.table
      BY <1>2, <1>4 DEF JoinedOk
    <3> QED
      BY <1>1, <3>1 DEF Joined
  <2>2. ASSUME NEW k \in told'
        PROVE  /\ k.sock \in Sockets /\ k.table = SockTable[k.sock] /\ \A j \in told' : j.sock = k.sock => j = k
               /\ k.pid = IF k.sock \in DOMAIN found THEN found[k.sock] ELSE 0
               /\ k.pid = 0 \/ k.pid \in renewed \/ k.comm = hproc[k.pid].comm
    <3>1. CASE k \in told
      <4>1. /\ k.sock \in Sockets /\ k.table = SockTable[k.sock] /\ \A j \in told : j.sock = k.sock => j = k
            /\ k.pid = IF k.sock \in DOMAIN found THEN found[k.sock] ELSE 0
            /\ k.pid = 0 \/ k.pid \in renewed \/ k.comm = hproc[k.pid].comm
        BY <1>2, <3>1 DEF JoinedOk
      <4>2. \A j \in told' : j.sock = k.sock => j = k
        BY <1>1, <1>4, <2>1, <3>1, <4>1
      <4> QED
        BY <4>1, <4>2
    <3>2. CASE k = e
      BY <1>1, <1>4, <1>5, <2>1, <3>2
    <3> QED
      BY <1>1, <3>1, <3>2
  <2> QED
    BY <1>1, <1>3, <2>2 DEF JoinedOk
<1> QED
  BY <1>1, <1>2, <1>3, <1>6, <1>7, <1>8, <1>9 DEF HoldersInv

LEMMA SocketsDoneInv == HoldersInv /\ SocketsDone => HoldersInv'
<1> SUFFICES ASSUME HoldersInv, SocketsDone PROVE HoldersInv'
  OBVIOUS
<1>1. /\ held.tool = "sockets" /\ heldStep = "names" /\ heldStep' = "done"
      /\ (\A r \in rows : Joined(r)) /\ shown' \in ListenerCuts
      /\ UNCHANGED <<worldVars, held, tablesRead, scanVars, rows, waiters, told>>
  BY DEF SocketsDone
<1>2. WorldOk /\ CallOk /\ RowsOk /\ FoundOk /\ JoinedOk /\ WorldOk'
  BY <1>1, CallLeavesWorld DEF HoldersInv
<1>3. /\ UNCHANGED <<found, pidsLeft, fdsLeft, curPid, tally, skipped, rows, tablesRead, held, told>>
      /\ UNCHANGED <<hproc, fdTable, listens, unlinked, renewed, touched, moved, everHeld>>
  BY <1>1 DEF scanVars, worldVars
<1>4. CallOk'
  BY <1>1, <1>2, <1>3 DEF CallOk
<1>5. RowsOk'
  BY <1>1, <1>2, <1>3 DEF RowsOk
<1>6. FoundOk'
  <2>1. \A s \in Sockets : HoldersOf(s)' = HoldersOf(s)
    BY <1>3 DEF HoldersOf, Holding
  <2>2. \A q, s : ~ToScan(q, s)
    BY <1>1 DEF ToScan
  <2> QED
    BY <1>1, <1>2, <1>3, <2>1, <2>2 DEF FoundOk
<1>7. JoinedOk'
  <2>1. (shown \in ListenerCuts)'
    BY <1>1, <1>3 DEF ListenerCuts
  <2>2. (\A r \in rows : Joined(r))'
    BY <1>1, <1>3 DEF Joined
  <2> QED
    BY <1>1, <1>2, <1>3, <2>1, <2>2 DEF JoinedOk
<1> QED
  BY <1>1, <1>2, <1>3, <1>4, <1>5, <1>6, <1>7 DEF HoldersInv

\* Names are asked for pids of locks that were read.
LEMMA NamesAreOfLocks ==
    ASSUME LocksOk, heldStep \in {"names", "done"}, NEW n \in LocksNamed
    PROVE  \E l \in rows : n.pid = PidOf(l)
<1>1. waiters \subseteq rows /\ shown \subseteq HolderPids(rows)
  BY DEF LocksOk, WaiterCuts, HolderCuts, Waiting
<1>2. \A p \in HolderPids(rows) : \E l \in rows : p = PidOf(l)
  BY DEF HolderPids
<1>3. (\E l \in waiters : n.pid = PidOf(l)) \/ (\E p \in shown : n.pid = p)
  BY DEF LocksNamed
<1> QED
  BY <1>1, <1>2, <1>3

LEMMA LocksCallInv ==
    ASSUME HoldersInv, parseLocks \/ (\E n \in LocksNamed : resolveComm(n)) \/ LocksDone PROVE HoldersInv'
<1>1. held.tool = "locks" /\ heldStep \in {"idle", "names"} /\ heldStep' \in {"names", "done"}
      /\ UNCHANGED <<worldVars, held, tablesRead, scanVars>>
  BY DEF parseLocks, resolveComm, LocksDone
<1>2. WorldOk /\ CallOk /\ LocksOk /\ WorldOk'
  BY <1>1, CallLeavesWorld DEF HoldersInv
<1>3. /\ UNCHANGED <<found, pidsLeft, fdsLeft, curPid, tally, skipped, tablesRead, held>>
      /\ UNCHANGED <<hproc, locks, renewed>>
  BY <1>1 DEF scanVars, worldVars
<1>4. pidsLeft = {} /\ curPid = 0
  BY <1>1, <1>2 DEF CallOk
<1>5. ASSUME IsFiniteSet(told') PROVE CallOk'
  BY <1>1, <1>2, <1>3, <1>4, <1>5 DEF CallOk
<1>6. ASSUME parseLocks PROVE LocksOk' /\ CallOk'
  <2>1. /\ heldStep = "idle" /\ heldStep' = "names" /\ told' = told /\ rows' = locks
        /\ waiters' \in WaiterCuts(locks) /\ shown' \in HolderCuts(locks)
    BY <1>6 DEF parseLocks
  <2>2. told = {} /\ IsFiniteSet(told')
    BY <1>2, <2>1 DEF CallOk
  <2>3. /\ locks \in SUBSET LockRecords /\ IsFiniteSet(locks) /\ \A l \in locks : hproc[l.owner] # Gone
    BY <1>2 DEF WorldOk
  <2>4. LocksOk'
    BY <1>3, <2>1, <2>2, <2>3 DEF LocksOk
  <2> QED
    BY <1>5, <2>2, <2>4
<1>7. ASSUME NEW n \in LocksNamed, resolveComm(n) PROVE LocksOk' /\ CallOk'
  <2> DEFINE e == [name |-> n, comm |-> IF n.pid < 0 THEN "OFD" ELSE readComm(n.pid, "unknown")]
  <2>1. /\ heldStep = "names" /\ heldStep' = "names" /\ told' = told \union {e}
        /\ UNCHANGED <<rows, waiters, shown>>
    BY <1>7 DEF resolveComm
  <2>2. IsFiniteSet(told')
    <3> HIDE DEF e
    <3> QED
      BY <1>2, <2>1, FS_AddElement DEF CallOk
  <2>3. PICK l \in rows : n.pid = PidOf(l)
    BY <1>2, <2>1, NamesAreOfLocks
  <2>4. e.name = n /\ IF n.pid < 0 THEN e.comm = "OFD" ELSE n.pid \in renewed \/ e.comm = hproc[n.pid].comm
    <3>1. CASE n.pid < 0
      BY <3>1
    <3>2. CASE ~(n.pid < 0)
      <4>1. n.pid = l.owner
        BY <1>2, <2>3, <3>2, PidOfLock DEF LocksOk
      <4>2. n.pid \in renewed \/ hproc[n.pid] # Gone
        BY <1>2, <4>1 DEF LocksOk
      <4>3. e.comm = readComm(n.pid, "unknown") /\ e.name = n
        BY <3>2
      <4> HIDE DEF e
      <4> QED
        BY <3>2, <4>2, <4>3 DEF readComm
    <3> QED
      BY <3>1, <3>2
  <2> HIDE DEF e
  <2>5. ASSUME NEW k \in told'
        PROVE  /\ \E j \in rows : k.name.pid = PidOf(j)
               /\ IF k.name.pid < 0 THEN k.comm = "OFD" ELSE k.name.pid \in renewed \/ k.comm = hproc[k.name.pid].comm
    <3>1. CASE k \in told
      BY <1>2, <3>1 DEF LocksOk
    <3>2. CASE k = e
      BY <2>3, <2>4, <3>2
    <3> QED
      BY <2>1, <3>1, <3>2
  <2>6. LocksOk'
    BY <1>2, <1>3, <2>1, <2>5 DEF LocksOk
  <2> QED
    BY <1>5, <2>2, <2>6
<1>8. ASSUME LocksDone PROVE LocksOk' /\ CallOk'
  <2>1. /\ heldStep = "names" /\ heldStep' = "done" /\ (\A n \in LocksNamed : Named(n))
        /\ UNCHANGED <<rows, waiters, told, shown>>
    BY <1>8 DEF LocksDone
  <2>2. (\A n \in LocksNamed : Named(n))'
    BY <2>1 DEF LocksNamed, Named
  <2>3. LocksOk'
    BY <1>2, <1>3, <2>1, <2>2 DEF LocksOk
  <2>4. IsFiniteSet(told')
    BY <1>2, <2>1 DEF CallOk
  <2> QED
    BY <1>5, <2>3, <2>4
<1>9. LocksOk' /\ CallOk'
  BY <1>6, <1>7, <1>8
<1> QED
  BY <1>1, <1>2, <1>3, <1>9 DEF HoldersInv

LEMMA HoldersStep == HoldersInv /\ (HoldersNext \/ UNCHANGED holderVars) => HoldersInv'
<1> SUFFICES ASSUME HoldersInv, HoldersNext \/ UNCHANGED holderVars PROVE HoldersInv'
  OBVIOUS
<1>1. CASE UNCHANGED holderVars
  <2>1. /\ UNCHANGED <<hproc, fdTable, listens, unlinked, locks, renewed, touched, moved, everHeld>>
        /\ UNCHANGED <<held, heldStep, tablesRead, pidsLeft, fdsLeft, curPid, tally, found, skipped>>
        /\ UNCHANGED <<rows, waiters, told, shown>>
    BY <1>1 DEF holderVars, worldVars, callVars, scanVars
  <2>2. Holding' = Holding /\ WorldOk'
    BY <2>1 DEF HoldersInv, WorldOk, Holding, GoneIsClosed
  <2>3. CallOk'
    BY <2>1 DEF HoldersInv, CallOk
  <2>4. held.tool = "sockets" => RowsOk'
    BY <2>1 DEF HoldersInv, RowsOk
  <2>5. held.tool = "sockets" => FoundOk'
    BY <2>1, <2>2 DEF HoldersInv, FoundOk, ToScan, HoldersOf
  <2>6. held.tool = "sockets" => JoinedOk'
    BY <2>1 DEF HoldersInv, JoinedOk, ListenerCuts, Joined
  <2>7. held.tool = "files" => OpenersOk'
    <3>1. \A q, left, t : CountedOk(q, left, t)' <=> CountedOk(q, left, t)
      BY <2>1 DEF CountedOk, FdsUnder
    <3>2. (shown \in FileCuts)' <=> shown \in FileCuts
      BY <2>1 DEF FileCuts
    <3> QED
      BY <2>1, <3>1, <3>2 DEF HoldersInv, OpenersOk, FdsUnder, ReadySteps
  <2>8. held.tool = "locks" => LocksOk'
    BY <2>1 DEF HoldersInv, LocksOk, LocksNamed, Named
  <2> QED
    BY <2>1, <2>2, <2>3, <2>4, <2>5, <2>6, <2>7, <2>8 DEF HoldersInv
<1>2. CASE WorldNext
  BY <1>2, HoldersWorldStep
<1>3. CASE CallNext
  <2>1. CASE StartSockets \/ StartFiles \/ collectSockets \/ ListProcesses
    BY <2>1, StartCallInv, CollectInv, ListInv
  <2>2. CASE FdDirDone \/ ScanEnds \/ Cancelled \/ SocketsDone
    BY <2>2, DirDoneInv, EndsInv, SocketsDoneInv
  <2>3. CASE \/ \E p \in pidsLeft : OpenFdDir(p)
             \/ \E d \in fdsLeft : ReadFd(d)
             \/ \E r \in rows : JoinSocket(r)
    BY <2>3, OpenDirInv, ReadFdInv, JoinInv
  <2>4. CASE parseLocks \/ (\E n \in LocksNamed : resolveComm(n)) \/ LocksDone
    BY <2>4, LocksCallInv
  <2> QED
    BY <1>3, <2>1, <2>2, <2>3, <2>4 DEF CallNext
<1> QED
  BY <1>1, <1>2, <1>3 DEF HoldersNext

\* What a cut leaves out is left out because the list is full.
LEMMA CutsAreFull ==
    ASSUME NEW S, IsFiniteSet(S), NEW L \in Nat, NEW C \in SUBSET S,
           Cardinality(C) = Lesser(Cardinality(S), L), NEW x \in S \ C
    PROVE  Cardinality(C) = L /\ Cardinality(S) > L
<1>1. IsFiniteSet(C) /\ Cardinality(C) <= Cardinality(S) /\ Cardinality(S) # Cardinality(C)
  BY FS_Subset
<1>2. Cardinality(S) \in Nat
  BY FS_CardinalityType
<1> HIDE DEF Lesser
<1>3. Cardinality(C) \in {Cardinality(S), L} /\ (Cardinality(C) = L => L <= Cardinality(S))
  BY <1>2 DEF Lesser
<1> QED
  BY <1>1, <1>2, <1>3

\* get_listening_services and get_open_files (listeningservices.go 174-272,
\* openfiles.go 139-200).
LEMMA InvListenersAreFound == HoldersInv => ListenersAreFound
<1> SUFFICES ASSUME HoldersInv, heldStep = "done", held.tool = "sockets"
             PROVE  /\ \A l \in told : l.pid # 0 => /\ <<l.pid, l.sock>> \in everHeld
                                                    /\ l.pid \in renewed \/ l.comm = hproc[l.pid].comm
                    /\ \A s \in listens \ moved : SockTable[s] \in held.tables =>
                         \E l \in told :
                           /\ l.sock = s /\ \A k \in told : k.sock = s => k = l
                           /\ l.pid = 0 => \A p \in HoldersOf(s) \ renewed : ~hproc[p].readable /\ skipped > 0
                           /\ \/ l \in shown
                              \/ Cardinality(told) > ListedMax /\ \A k \in shown : SockPort[k.sock] <= SockPort[s]
  BY DEF ListenersAreFound
<1>1. WorldOk /\ CallOk /\ RowsOk /\ FoundOk /\ JoinedOk
  BY DEF HoldersInv
<1>2. ASSUME NEW l \in told, l.pid # 0
      PROVE  <<l.pid, l.sock>> \in everHeld /\ (l.pid \in renewed \/ l.comm = hproc[l.pid].comm)
  <2>1. l.sock \in DOMAIN found /\ l.pid = found[l.sock]
    BY <1>1, <1>2 DEF JoinedOk
  <2> QED
    BY <1>1, <1>2, <2>1 DEF JoinedOk, FoundOk
<1>3. ASSUME NEW s \in listens \ moved, SockTable[s] \in held.tables
      PROVE  \E l \in told :
               /\ l.sock = s /\ \A k \in told : k.sock = s => k = l
               /\ l.pid = 0 => \A p \in HoldersOf(s) \ renewed : ~hproc[p].readable /\ skipped > 0
               /\ \/ l \in shown
                  \/ Cardinality(told) > ListedMax /\ \A k \in shown : SockPort[k.sock] <= SockPort[s]
  <2>1. s \in Sockets
    BY <1>1 DEF WorldOk
  <2>2. PICK i \in 1..4 : SockTable[s] = SocketTables[i]
    BY <2>1, SocketsArePlaced
  <2>3. tablesRead = 4
    BY <1>1 DEF RowsOk
  <2>4. PICK r \in rows : r.sock = s
    BY <1>1, <1>3, <2>2, <2>3 DEF RowsOk
  <2>5. PICK l \in told : l.sock = s
    BY <1>1, <2>4 DEF JoinedOk, Joined
  <2>6. \A k \in told : k.sock = s => k = l
    BY <1>1, <2>5 DEF JoinedOk
  <2>7. ASSUME l.pid = 0, NEW p \in HoldersOf(s) \ renewed
        PROVE  ~hproc[p].readable /\ skipped > 0
    <3>1. s \notin DOMAIN found
      <4>1. ASSUME s \in DOMAIN found PROVE FALSE
        <5>1. l.pid = found[s] /\ found[s] \in HolderPIDs
          BY <1>1, <2>5, <4>1 DEF JoinedOk, FoundOk
        <5> QED
          BY <2>7, <5>1, PidsArePositive
      <4> QED
        BY <4>1
    <3>2. ~ToScan(p, s)
      BY DEF ToScan
    <3> QED
      BY <1>1, <1>3, <2>1, <2>7, <3>1, <3>2 DEF FoundOk
  <2>8. ASSUME l \notin shown
        PROVE  Cardinality(told) > ListedMax /\ \A k \in shown : SockPort[k.sock] <= SockPort[s]
    <3>1. /\ shown \in SUBSET told /\ Cardinality(shown) = Lesser(Cardinality(told), ListedMax)
          /\ \A k \in shown, j \in told \ shown : ~ListenerBefore(j, k)
      BY <1>1 DEF JoinedOk, ListenerCuts
    <3>2. Cardinality(told) > ListedMax
      BY <1>1, <2>8, <3>1, CutsAreFull, LimitsAreIntegers DEF CallOk
    <3>3. ASSUME NEW k \in shown PROVE SockPort[k.sock] <= SockPort[s]
      <4>1. ~ListenerBefore(l, k) /\ k.sock \in Sockets
        BY <1>1, <2>8, <3>1, <3>3 DEF JoinedOk
      <4>2. SockPort[k.sock] \in Nat /\ SockPort[s] \in Nat
        BY <2>1, <4>1, SocketsArePlaced
      <4>3. ~(SockPort[s] < SockPort[k.sock])
        BY <2>5, <4>1 DEF ListenerBefore
      <4> QED
        BY <4>2, <4>3
    <3> QED
      BY <3>2, <3>3
  <2> QED
    BY <2>5, <2>6, <2>7, <2>8
<1> QED
  BY <1>2, <1>3

LEMMA LimitIsNatural == ASSUME NEW l \in Int PROVE limitOf(l) \in Nat
  BY LimitsAreIntegers DEF limitOf, Lesser

LEMMA InvOpenersAreFound == HoldersInv => OpenersAreFound
<1> SUFFICES ASSUME HoldersInv, heldStep = "done", held.tool = "files",
                    NEW p \in HolderPIDs \ (renewed \union touched)
             PROVE  LET n == Cardinality(FdsUnder(p, UnderPath)) IN
                    /\ hproc[p].readable /\ n > 0 =>
                         \E e \in told :
                           /\ e.pid = p /\ e.count = n /\ e.comm = hproc[p].comm /\ \A k \in told : k.pid = p => k = e
                           /\ moved \cap unlinked = {} => e.deleted = Cardinality(FdsUnder(p, UnderPath \cap unlinked))
                           /\ e \in shown \/ (Cardinality(told) > limitOf(held.limit) /\ \A k \in shown : k.count >= n)
                    /\ n = 0 \/ ~hproc[p].readable => \A e \in told : e.pid # p
  BY DEF OpenersAreFound
<1> DEFINE n == Cardinality(FdsUnder(p, UnderPath))
           u == Cardinality(FdsUnder(p, UnderPath \cap unlinked))
<1>1. CallOk /\ OpenersOk /\ pidsLeft = {} /\ curPid = 0 /\ limitOf(held.limit) \in Nat
  BY LimitIsNatural DEF HoldersInv, CallOk
<1>2. /\ IsFiniteSet(FdsUnder(p, UnderPath)) /\ n \in Nat
      /\ IsFiniteSet(FdsUnder(p, UnderPath \cap unlinked)) /\ u \in Nat
  <2>1. FdsUnder(p, UnderPath) \in SUBSET HolderFDs /\ FdsUnder(p, UnderPath \cap unlinked) \in SUBSET HolderFDs
    BY DEF FdsUnder
  <2> QED
    BY <2>1, TheyAreFinite, FS_Subset, FS_CardinalityType
<1>3. ASSUME NEW e \in told, e.pid = p
      PROVE  /\ hproc[p].readable /\ e.count = n /\ e.count > 0 /\ e.comm = hproc[p].comm
             /\ \A k \in told : k.pid = p => k = e
             /\ moved \cap unlinked = {} => e.deleted = u
  <2>1. /\ e.comm = hproc[p].comm /\ CountedOk(p, {}, e) /\ (\A k \in told : k.pid = p => k = e)
        /\ e.count \in Nat \ {0} /\ e.deleted \in Nat
    BY <1>1, <1>3 DEF OpenersOk
  <2>2. Cardinality(FdsUnder(p, UnderPath) \cap {}) = 0 /\ Cardinality(FdsUnder(p, UnderPath \cap unlinked) \cap {}) = 0
    <3>1. FdsUnder(p, UnderPath) \cap {} = {} /\ FdsUnder(p, UnderPath \cap unlinked) \cap {} = {}
      OBVIOUS
    <3> QED
      BY <3>1, FS_EmptySet
  <2>3. hproc[p].readable /\ e.count + 0 = n /\ (moved \cap unlinked = {} => e.deleted + 0 = u)
    BY <2>1, <2>2 DEF CountedOk
  <2> HIDE DEF n, u
  <2> QED
    BY <2>1, <2>3
<1>4. ASSUME hproc[p].readable, n > 0
      PROVE  \E e \in told :
               /\ e.pid = p /\ e.count = n /\ e.comm = hproc[p].comm /\ \A k \in told : k.pid = p => k = e
               /\ moved \cap unlinked = {} => e.deleted = u
               /\ e \in shown \/ (Cardinality(told) > limitOf(held.limit) /\ \A k \in shown : k.count >= n)
  <2>1. FdsUnder(p, UnderPath) # {}
    BY <1>4, FS_EmptySet
  <2>2. p # 0
    BY PidsArePositive
  <2>3. PICK e \in told : e.pid = p
    BY <1>1, <1>4, <2>1, <2>2 DEF OpenersOk, ReadySteps
  <2>4. ASSUME e \notin shown
        PROVE  Cardinality(told) > limitOf(held.limit) /\ \A k \in shown : k.count >= n
    <3>1. /\ shown \in SUBSET told /\ Cardinality(shown) = Lesser(Cardinality(told), limitOf(held.limit))
          /\ \A k \in shown, j \in told \ shown : ~FilesBefore(j, k)
      BY <1>1 DEF OpenersOk, FileCuts
    <3>2. Cardinality(told) > limitOf(held.limit)
      BY <1>1, <2>4, <3>1, CutsAreFull DEF CallOk
    <3>3. ASSUME NEW k \in shown PROVE k.count >= n
      <4>1. ~FilesBefore(e, k) /\ k.count \in Nat /\ e.count \in Nat
        BY <1>1, <2>4, <3>1, <3>3 DEF OpenersOk
      <4>2. ~(e.count > k.count)
        BY <4>1 DEF FilesBefore
      <4> QED
        BY <1>3, <2>3, <4>1, <4>2
    <3> QED
      BY <3>2, <3>3
  <2> HIDE DEF n, u
  <2> QED
    BY <1>3, <2>3, <2>4
<1>5. n = 0 \/ ~hproc[p].readable => \A e \in told : e.pid # p
  <2> HIDE DEF n
  <2> QED
    BY <1>2, <1>3
<1> QED
  BY <1>4, <1>5

\* get_file_locks (filelocks.go 145-295).
LEMMA InvLocksAreTold == HoldersInv => LocksAreTold
<1> SUFFICES ASSUME HoldersInv, heldStep = "done", held.tool = "locks" PROVE LocksAreTold
  BY DEF LocksAreTold
<1>1. LocksOk /\ IsFiniteSet(rows) /\ waiters \in WaiterCuts(rows) /\ shown \in HolderCuts(rows)
      /\ \A m \in LocksNamed : Named(m)
  BY DEF HoldersInv, LocksOk
<1>2. ASSUME NEW l \in rows, l.blocked
      PROVE  /\ LocksStatus = "warning"
             /\ Cardinality(waiters) = ListedMax \/ Named([pid |-> PidOf(l), lock |-> l])
  <2>1. l \in Waiting(rows)
    BY <1>2 DEF Waiting
  <2>2. LocksStatus = "warning"
    BY <2>1 DEF LocksStatus
  <2>3. CASE l \in waiters
    BY <1>1, <2>2, <2>3 DEF LocksNamed
  <2>4. CASE l \notin waiters
    <3>1. IsFiniteSet(Waiting(rows))
      <4>1. Waiting(rows) \in SUBSET rows
        BY DEF Waiting
      <4> QED
        BY <1>1, <4>1, FS_Subset
    <3>2. waiters \in SUBSET Waiting(rows) /\ Cardinality(waiters) = Lesser(Cardinality(Waiting(rows)), ListedMax)
      BY <1>1 DEF WaiterCuts
    <3>3. Cardinality(waiters) = ListedMax
      BY <2>1, <2>4, <3>1, <3>2, CutsAreFull, LimitsAreIntegers
    <3> QED
      BY <2>2, <3>3
  <2> QED
    BY <2>3, <2>4
<1>3. ASSUME NEW l \in rows, ~l.blocked
      PROVE  \/ Named([pid |-> PidOf(l)])
             \/ Cardinality(shown) = ListedMax /\ \A p \in shown : CountOf(rows, p) >= CountOf(rows, PidOf(l))
  <2>1. PidOf(l) \in HolderPids(rows)
    BY <1>3 DEF HolderPids, Waiting
  <2>2. CASE PidOf(l) \in shown
    BY <1>1, <2>2 DEF LocksNamed
  <2>3. CASE PidOf(l) \notin shown
    <3> DEFINE free == rows \ Waiting(rows)
    <3>1. IsFiniteSet(free)
      BY <1>1, FS_Difference
    <3>2. IsFiniteSet(HolderPids(rows))
      <4> DEFINE f == [k \in free |-> PidOf(k)]
      <4>1. f \in Surjection(free, HolderPids(rows))
        BY DEF Surjection, HolderPids
      <4> HIDE DEF f, free
      <4> QED
        BY <3>1, <4>1, FS_Surjection
    <3>3. /\ shown \in SUBSET HolderPids(rows) /\ Cardinality(shown) = Lesser(Cardinality(HolderPids(rows)), ListedMax)
          /\ \A p \in shown, q \in HolderPids(rows) \ shown : ~MoreLocks(rows, q, p)
      BY <1>1 DEF HolderCuts
    <3>4. Cardinality(shown) = ListedMax
      BY <2>1, <2>3, <3>2, <3>3, CutsAreFull, LimitsAreIntegers
    <3>5. \A p : CountOf(rows, p) \in Nat
      <4>1. \A p : {k \in free : PidOf(k) = p} \in SUBSET free
        OBVIOUS
      <4>2. \A p : IsFiniteSet({k \in free : PidOf(k) = p})
        <5> HIDE DEF free
        <5> QED
          BY <3>1, <4>1, FS_Subset
      <4> QED
        BY <4>2, FS_CardinalityType DEF CountOf
    <3>6. ASSUME NEW p \in shown PROVE CountOf(rows, p) >= CountOf(rows, PidOf(l))
      <4>1. ~MoreLocks(rows, PidOf(l), p)
        BY <2>1, <2>3, <3>3
      <4>2. ~(CountOf(rows, PidOf(l)) > CountOf(rows, p))
        BY <4>1 DEF MoreLocks
      <4> QED
        BY <3>5, <4>2
    <3> QED
      BY <3>4, <3>6
  <2> QED
    BY <2>2, <2>3
<1>4. \A e \in told : IF e.name.pid < 0 THEN e.comm = "OFD"
                      ELSE e.name.pid \in renewed \/ e.comm = hproc[e.name.pid].comm
  BY <1>1 DEF LocksOk
<1> QED
  BY <1>2, <1>3, <1>4 DEF LocksAreTold

HoldersSpec == HoldersInit /\ [][HoldersNext]_holderVars

(* Who listens, who has files open under a path and who holds or waits for a  *)
(* lock is told, of what stood still during the call, by the right name and   *)
(* number, and cut off only for others that come first                        *)
(* (listeningservices.go, openfiles.go, filelocks.go).                        *)
THEOREM HoldersSafety == HoldersSpec => [](HoldersAreFound /\ LocksAreTold)
<1>1. HoldersInv /\ [HoldersNext]_holderVars => HoldersInv'
  BY HoldersStep
<1>2. HoldersInv => HoldersAreFound /\ LocksAreTold
  BY InvListenersAreFound, InvOpenersAreFound, InvLocksAreTold DEF HoldersAreFound
<1> QED
  BY HoldersInitInv, <1>1, <1>2, PTL DEF HoldersSpec
=============================================================================
