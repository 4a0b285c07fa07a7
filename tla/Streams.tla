------------------------------ MODULE Streams -------------------------------
(***************************************************************************)
(* The bounded-memory stream primitives (internal/registry/stream): TopK,  *)
(* Dedup, RingBuffer, Aggregator and ThresholdEmitter.  One stream of      *)
(* keyed values is pushed into one of each.  input remembers the stream.   *)
(* The heap of TopK is a library (container/heap) and is modelled by the   *)
(* multiset it holds; a hash stands for the item it is computed from.      *)
(***************************************************************************)
EXTENDS Integers, Sequences, FiniteSets, SequencesExt

CONSTANTS Keys, Values,     \* what is pushed
          TopKSize,         \* NewTopK(k)
          StreamCap,        \* capacity of Dedup, RingBuffer and Aggregator
          ThrA, ThrB,       \* the thresholds in the order the caller gives them
          MaxPush           \* bound on the length of the stream

ASSUME StreamAssumption ==
    /\ TopKSize \in Nat \ {0} /\ StreamCap \in Nat \ {0}
    /\ Values \subseteq Nat /\ ThrA \in Nat /\ ThrB \in Nat

VARIABLES input,     \* history: the items pushed, [key, value]
          topk,      \* heap items as a bag: value |-> copies
          dedup,     \* Dedup.order (seen is its set of elements), and its last answer
          ring,      \* [items, head, full]
          agg,       \* Aggregator: [order, groups]
          thr        \* ThresholdEmitter's counters

streamVars == <<input, topk, dedup, ring, agg, thr>>

HeapMin == Min({v \in Values : topk[v] > 0})
HeapLen == FoldFunction(+, 0, topk)

(* Below k every item enters; then only one greater than the root, which   *)
(* it replaces.                                                            *)
TopKPush(v) ==
    IF HeapLen < TopKSize THEN [topk EXCEPT ![v] = @ + 1]
    ELSE IF HeapMin < v THEN [topk EXCEPT ![HeapMin] = @ - 1, ![v] = @ + 1]
    ELSE topk

(* Results sorts by exchanging every pair that is out of order. *)
TopKResults == SortSeq(FlattenSeq([i \in 1..Cardinality(Values) |->
                         LET v == SortSeq(SetToSeq(Values), <)[i] IN [j \in 1..topk[v] |-> v]]), >)

isDuplicateHash(k) ==
    IF k \in ToSet(dedup.order) THEN [dedup EXCEPT !.answer = TRUE]
    ELSE [order  |-> Append(IF Len(dedup.order) >= StreamCap THEN Tail(dedup.order)
                            ELSE dedup.order, k),
          answer |-> FALSE]

RingPush(x) ==
    LET head == (ring.head + 1) % StreamCap
    IN  [items |-> [ring.items EXCEPT ![ring.head] = x],
         head |-> head, full |-> ring.full \/ head = 0]

RingLen == IF ring.full THEN StreamCap ELSE ring.head

Snapshot ==
    IF ring.full
    THEN [i \in 1..StreamCap |-> ring.items[(ring.head + i - 1) % StreamCap]]
    ELSE [i \in 1..ring.head |-> ring.items[i - 1]]

Latest == ring.items[(ring.head - 1 + StreamCap) % StreamCap]

(* A new group evicts the oldest one when the table is full. *)
AggregatorAdd(k, v) ==
    LET known  == k \in DOMAIN agg.groups
        full   == Cardinality(DOMAIN agg.groups) >= StreamCap
        order  == IF known THEN agg.order
                  ELSE Append(IF full THEN Tail(agg.order) ELSE agg.order, k)
        before == IF known THEN agg.groups[k] ELSE [count |-> 0, sum |-> 0, min |-> v, max |-> v]
        after  == [count |-> before.count + 1, sum |-> before.sum + v,
                   min |-> Min({before.min, v}), max |-> Max({before.max, v})]
    IN  [order |-> order,
         groups |-> [g \in ToSet(order) |-> IF g = k THEN after ELSE agg.groups[g]]]

(* Thresholds given the wrong way round are exchanged. *)
Warn     == Min({ThrA, ThrB})
Critical == Max({ThrA, ThrB})

Evaluate(v) ==
    [seen     |-> thr.seen + 1,
     critical |-> thr.critical + (IF v >= Critical THEN 1 ELSE 0),
     warning  |-> thr.warning + (IF v >= Warn /\ v < Critical THEN 1 ELSE 0)]

StreamInit ==
    /\ input = <<>>
    /\ topk = [v \in Values |-> 0]
    /\ dedup = [order |-> <<>>, answer |-> FALSE]
    /\ ring = [items |-> [i \in 0..StreamCap - 1 |-> 0], head |-> 0, full |-> FALSE]
    /\ agg = [order |-> <<>>, groups |-> <<>>]
    /\ thr = [seen |-> 0, warning |-> 0, critical |-> 0]

StreamPush(k, v) ==
    /\ Len(input) < MaxPush
    /\ input' = Append(input, [key |-> k, value |-> v])
    /\ topk' = TopKPush(v)
    /\ dedup' = isDuplicateHash(k)
    /\ ring' = RingPush(v)
    /\ agg' = AggregatorAdd(k, v)
    /\ thr' = Evaluate(v)

StreamNext == \E k \in Keys, v \in Values : StreamPush(k, v)

-----------------------------------------------------------------------------
ValuesOf(s) == [i \in 1..Len(s) |-> s[i].value]

(* The pushes of key k since its group was last created. *)
GroupPushes(k) ==
    SelectSeq(SubSeq(input, 1 + Len(input) - Min({n \in 0..Len(input) :
                 Cardinality({j \in 1..n : input[Len(input) + 1 - j].key = k})
                   = agg.groups[k].count}), Len(input)),
              LAMBDA x : x.key = k)

(* Each primitive, in bounded memory, agrees with its definition over the  *)
(* whole stream: TopK holds the k largest values in order; the ring holds  *)
(* the last values, oldest first, also after wrapping around; Dedup never  *)
(* forgets one of the last StreamCap keys it admitted and never holds more;*)
(* the statistics of a group are those of its own most recent pushes; and  *)
(* the emitter's counters add up.                                          *)
StreamsMatchReference ==
    LET n == Len(input)
        sorted == SortSeq(ValuesOf(input), >)
    IN
    /\ TopKResults = SubSeq(sorted, 1, Min({n, TopKSize}))
    /\ Snapshot = ValuesOf(SubSeq(input, 1 + n - Min({n, StreamCap}), n))
    /\ n > 0 => Latest = input[n].value
    /\ Len(dedup.order) = Cardinality(ToSet(dedup.order))
    /\ Len(dedup.order) = Min({StreamCap, Cardinality({input[i].key : i \in 1..n})})
    /\ n > 0 => input[n].key \in ToSet(dedup.order)
    /\ \A i \in 2..n : (i = n /\ input[i].key = input[i - 1].key) => dedup.answer
    /\ DOMAIN agg.groups = ToSet(agg.order) /\ Cardinality(DOMAIN agg.groups) <= StreamCap
    /\ \A k \in DOMAIN agg.groups :
         LET vs == ValuesOf(GroupPushes(k)) IN
         /\ agg.groups[k].sum = FoldLeft(+, 0, vs)
         /\ agg.groups[k].min = Min(ToSet(vs)) /\ agg.groups[k].max = Max(ToSet(vs))
    /\ thr.seen = n
    /\ thr.seen - thr.warning - thr.critical
         = Cardinality({i \in 1..n : input[i].value < ThrA /\ input[i].value < ThrB})
=============================================================================
