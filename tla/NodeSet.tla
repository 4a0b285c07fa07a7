------------------------------ MODULE NodeSet -------------------------------
(***************************************************************************)
(* Node sets and their patterns (pkg/mesh/nodeset: rangeset.go,            *)
(* nodeset.go, parser.go, fold.go).                                        *)
(*                                                                         *)
(* Under the node sets are sorted range lists: a set of non-negative       *)
(* integers kept as inclusive ranges. A client holds two of them and calls *)
(* the methods in any order; elems remembers which integers a plain set    *)
(* would hold.                                                             *)
(*                                                                         *)
(* A numeral is a value and the number of digits it is written with, so    *)
(* that 7, 07 and 007 differ.  A name is a list of dimensions, each a      *)
(* literal followed by a numeral, and a trailing literal: rack1node02 has  *)
(* the dimensions <<"rack", 1>>, <<"node", 02>> and an empty tail.  In a   *)
(* pattern, a dimension has a bracket instead: a list of items lo-hi/step. *)
(* A single value is lo-lo/1, and a numeral outside brackets is written as *)
(* a bracket of that one value.  No literal is empty except the tail, and  *)
(* none contains another or ends in a digit.  Patterns are given as        *)
(* tokenize leaves them: terms and the operators between them.             *)
(***************************************************************************)
EXTENDS Integers, Sequences, FiniteSets, SequencesExt

CONSTANT MaxInt        \* bound: integers 0 .. MaxInt

ASSUME MaxIntAssumption == MaxInt \in Nat

Slots == {1, 2}

VARIABLES rsets,       \* rsets[s]: the ranges of slot s, a sequence of [lo, hi]
          elems        \* elems[s]: history, the integers put into slot s

rangeVars == <<rsets, elems>>

rang(lo, hi) == [lo |-> lo, hi |-> hi]

Lower(a, b) == IF a < b THEN a ELSE b
Upper(a, b) == IF a > b THEN a ELSE b

-----------------------------------------------------------------------------
(* Methods as operators on range lists. *)

rsLen(rs) == FoldLeft(LAMBDA n, r : n + (r.hi - r.lo + 1), 0, rs)

(* The binary search finds the first range that does not end before v. *)
rsContains(rs, v) ==
    LET notBefore == {i \in 1..Len(rs) : rs[i].hi >= v}
    IN  notBefore # {} /\ rs[Min(notBefore)].lo <= v

(* One round of Add's loop; new grows by every range it touches. *)
AddRound(acc, r) ==
    CASE r.hi < acc.new.lo - 1 -> [acc EXCEPT !.merged = Append(@, r)]
      [] r.lo > acc.new.hi + 1 ->
           [acc EXCEPT !.merged = (IF acc.inserted THEN @ ELSE Append(@, acc.new)) \o <<r>>,
                       !.inserted = TRUE]
      [] OTHER -> [acc EXCEPT !.new = rang(Lower(r.lo, @.lo), Upper(r.hi, @.hi))]

rsAdd(rs, lo, hi) ==
    IF lo > hi THEN rs
    ELSE LET round[i \in 0..Len(rs)] ==
               IF i = 0 THEN [merged |-> <<>>, new |-> rang(lo, hi), inserted |-> FALSE]
               ELSE AddRound(round[i - 1], rs[i])
             acc == round[Len(rs)]
         IN  IF acc.inserted THEN acc.merged ELSE Append(acc.merged, acc.new)

(* What Remove leaves of one range: all of it, or the parts on either side. *)
Remains(r, lo, hi) ==
    IF r.hi < lo \/ r.lo > hi THEN <<r>>
    ELSE (IF r.lo < lo THEN <<rang(r.lo, lo - 1)>> ELSE <<>>)
         \o (IF r.hi > hi THEN <<rang(hi + 1, r.hi)>> ELSE <<>>)

rsRemove(rs, lo, hi) ==
    IF lo > hi THEN rs
    ELSE FlattenSeq([i \in 1..Len(rs) |-> Remains(rs[i], lo, hi)])

rsExpand(rs) ==
    FlattenSeq([i \in 1..Len(rs) |-> [k \in 1..(rs[i].hi - rs[i].lo + 1) |-> rs[i].lo + k - 1]])

rsUnion(rs, other) ==
    LET sum[i \in 0..Len(other)] ==
          IF i = 0 THEN rs ELSE rsAdd(sum[i - 1], other[i].lo, other[i].hi)
    IN  sum[Len(other)]

rsDifference(rs, other) == FoldLeft(LAMBDA acc, r : rsRemove(acc, r.lo, r.hi), rs, other)

rsIntersection(rs, other) ==
    FoldLeft(LAMBDA acc, a :
                FoldLeft(LAMBDA acc2, b : rsAdd(acc2, Upper(a.lo, b.lo), Lower(a.hi, b.hi)),
                         acc, other),
             <<>>, rs)

rsSymmetricDifference(rs, other) ==
    rsDifference(rsUnion(rs, other), rsIntersection(rs, other))

rsIsSubset(rs, other) == rsDifference(rs, other) = <<>>

(* Equal compares the lists, which is set equality only for normal forms. *)
rsEqual(rs, other) == rs = other

(* The common distance of a sorted list of at least two values, or 0. *)
detectStep(vals) ==
    IF Len(vals) < 2 THEN 1
    ELSE LET step == vals[2] - vals[1]
         IN  IF step > 0 /\ \A i \in 3..Len(vals) : vals[i] - vals[i - 1] = step
             THEN step ELSE 0

(* Fold writes "lo-hi/step" when one step describes all values, else the   *)
(* ranges as they are stored.  An item is what stands between two commas.  *)
rsFold(rs) ==
    LET vals == rsExpand(rs)
        step == detectStep(vals)
    IN  IF Len(vals) > 1 /\ step > 1
        THEN <<[lo |-> vals[1], hi |-> Last(vals), step |-> step]>>
        ELSE [i \in 1..Len(rs) |-> [lo |-> rs[i].lo, hi |-> rs[i].hi, step |-> 1]]

-----------------------------------------------------------------------------

RangeInit ==
    /\ rsets = [s \in Slots |-> <<>>]
    /\ elems = [s \in Slots |-> {}]

RangeAdd(s, lo, hi) ==
    /\ rsets' = [rsets EXCEPT ![s] = rsAdd(@, lo, hi)]
    /\ elems' = [elems EXCEPT ![s] = @ \cup (lo..hi)]

RangeRemove(s, lo, hi) ==
    /\ rsets' = [rsets EXCEPT ![s] = rsRemove(@, lo, hi)]
    /\ elems' = [elems EXCEPT ![s] = @ \ (lo..hi)]

(* A client replaces slot 1 by a combination of both slots. *)
RangeCombine ==
    \/ /\ rsets' = [rsets EXCEPT ![1] = rsUnion(@, rsets[2])]
       /\ elems' = [elems EXCEPT ![1] = @ \cup elems[2]]
    \/ /\ rsets' = [rsets EXCEPT ![1] = rsDifference(@, rsets[2])]
       /\ elems' = [elems EXCEPT ![1] = @ \ elems[2]]
    \/ /\ rsets' = [rsets EXCEPT ![1] = rsIntersection(@, rsets[2])]
       /\ elems' = [elems EXCEPT ![1] = @ \cap elems[2]]
    \/ /\ rsets' = [rsets EXCEPT ![1] = rsSymmetricDifference(@, rsets[2])]
       /\ elems' = [elems EXCEPT ![1] = SymDiff(@, elems[2])]

RangeNext ==
    \/ \E s \in Slots, lo, hi \in 0..MaxInt : RangeAdd(s, lo, hi) \/ RangeRemove(s, lo, hi)
    \/ RangeCombine

-----------------------------------------------------------------------------
IntegersOf(rs) == UNION {rs[i].lo .. rs[i].hi : i \in 1..Len(rs)}

ItemIntegers(items) ==
    UNION {{v \in items[i].lo .. items[i].hi : (v - items[i].lo) % items[i].step = 0} :
           i \in 1..Len(items)}

(* Whatever sequence of Add, Remove and the four set operators produced    *)
(* them, the range lists of rangeset.go hold exactly the integers a plain  *)
(* set would hold, sorted and with a gap between neighbours; so the binary *)
(* search, Len, Expand, Fold, and Equal and IsSubset, which only look at   *)
(* the lists, all answer as the sets would.                                *)
RangesDenoteSets ==
    /\ \A s \in Slots :
         LET rs == rsets[s] IN
         /\ \A i \in 1..Len(rs) : rs[i].lo <= rs[i].hi
         /\ \A i \in 2..Len(rs) : rs[i - 1].hi + 1 < rs[i].lo
         /\ IntegersOf(rs) = elems[s]
         /\ rsLen(rs) = Cardinality(elems[s])
         /\ \A v \in 0..MaxInt + 1 : rsContains(rs, v) <=> v \in elems[s]
         /\ ToSet(rsExpand(rs)) = elems[s]
         /\ ItemIntegers(rsFold(rs)) = elems[s]
    /\ rsEqual(rsets[1], rsets[2]) <=> elems[1] = elems[2]
    /\ rsIsSubset(rsets[1], rsets[2]) <=> elems[1] \subseteq elems[2]

-----------------------------------------------------------------------------
(***************************************************************************)
(* Names and patterns.                                                     *)
(***************************************************************************)
CONSTANTS Exprs,       \* the patterns clients pass in
          Hosts,       \* the names clients pass in
          Groups,      \* Groups[g]: what the GroupResolver answers, a set of names
          MaxExpand    \* options.maxExpand

VARIABLES nodes,       \* NodeSet.nodes
          named        \* history: the names a plain set would hold

nodeVars == <<nodes, named>>

Digits(v) == CHOOSE d \in 1..9 : v < 10 ^ d /\ (d = 1 \/ v >= 10 ^ (d - 1))

(* %0*d : padded on the left to at least pad digits. *)
formatPadded(v, pad) == [v |-> v, w |-> Upper(pad, Digits(v))]

(* A leading zero makes the token's length the width. *)
detectPadding(n) == IF n.w > Digits(n.v) THEN n.w ELSE 0

MaxPadding(nums) == Max({0} \cup {detectPadding(n) : n \in nums})

Failed == [ok |-> FALSE, names |-> {}]
Result(S) == [ok |-> TRUE, names |-> S]

-----------------------------------------------------------------------------
(* Parsing. *)

BadBracket(items) ==
    items = <<>> \/ \E i \in 1..Len(items) : items[i].lo.v > items[i].hi.v \/ items[i].step <= 0

(* The values of a bracket in order, through the range set: a step adds     *)
(* its values one by one.                                                  *)
BracketInts(items) ==
    LET added(it) ==
          IF it.step = 1 THEN <<rang(it.lo.v, it.hi.v)>>
          ELSE [j \in 1..((it.hi.v - it.lo.v) \div it.step + 1) |->
                  rang(it.lo.v + (j - 1) * it.step, it.lo.v + (j - 1) * it.step)]
    IN  rsExpand(rsUnion(<<>>, FlattenSeq([i \in 1..Len(items) |-> added(items[i])])))

(* Only the first number of an item decides about padding. *)
BracketPadding(items) == MaxPadding({items[i].lo : i \in 1..Len(items)})

BracketValues(items) ==
    LET ints == BracketInts(items)
        pad  == BracketPadding(items)
    IN  [j \in 1..Len(ints) |-> formatPadded(ints[j], pad)]

(* cartesianExpand multiplies the dimensions one by one and stops before a *)
(* product exceeds the limit; then picks values by stride and modulus.     *)
Product(vals, k) ==
    LET product[i \in 0..k] == IF i = 0 THEN 1 ELSE product[i - 1] * Len(vals[i])
    IN  product[k]

ExceedsLimit(vals) ==
    MaxExpand > 0 /\ \E k \in 1..Len(vals) : Product(vals, k - 1) > MaxExpand \div Len(vals[k])

(* The stride of a dimension counts the dimension itself. *)
Stride_WithOwn(vals, k) == Product(SubSeq(vals, k, Len(vals)), Len(vals) - k + 1)

Stride(vals, k) == Product(SubSeq(vals, k + 1, Len(vals)), Len(vals) - k)

cartesianExpand(t, vals) ==
    IF ExceedsLimit(vals) THEN Failed
    ELSE Result({[dims |-> [k \in 1..Len(vals) |->
                              [lit |-> t.dims[k].lit,
                               num |-> vals[k][((i \div Stride(vals, k)) % Len(vals[k])) + 1]]],
                  tail |-> t.tail] : i \in 0..Product(vals, Len(vals)) - 1})

expandGroup(g) == IF g \in DOMAIN Groups THEN Result(Groups[g]) ELSE Failed

(* A literal, a glob included, stands for itself. *)
expandTerm(t) ==
    CASE t.group # "" -> expandGroup(t.group)
      [] t.group = "" /\ t.dims = <<>> -> Result({[dims |-> <<>>, tail |-> t.tail]})
      [] OTHER ->
           IF \E k \in 1..Len(t.dims) : BadBracket(t.dims[k].items) THEN Failed
           ELSE cartesianExpand(t, [k \in 1..Len(t.dims) |-> BracketValues(t.dims[k].items)])

Apply(op, S, T) ==
    CASE op = "," -> S \cup T
      [] op = "!" -> S \ T
      [] op = "&" -> S \cap T
      [] op = "^" -> SymDiff(S, T)

(* Left to right; the limit is on the final set only. *)
parseExpr(e) ==
    LET term == [i \in 1..Len(e.terms) |-> expandTerm(e.terms[i])]
        upTo[i \in 1..Len(e.terms)] ==
            IF i = 1 THEN term[1].names ELSE Apply(e.ops[i - 1], upTo[i - 1], term[i].names)
        names == upTo[Len(e.terms)]
    IN  IF (\A i \in 1..Len(e.terms) : term[i].ok) /\ Cardinality(names) <= MaxExpand
        THEN Result(names) ELSE Failed

(* The patterns that parse, with their names. *)
Parsed == [e \in {x \in Exprs : parseExpr(x).ok} |-> parseExpr(e).names]

-----------------------------------------------------------------------------
(* Folding. *)

(* The elements of a set in one fixed order: Nodes() sorts by name. *)
Listed(S) == FoldSet(LAMBDA x, seq : Append(seq, x), <<>>, S)

HasNumber(n) == n.dims # <<>> /\ n.tail = ""

(* The name without its trailing number: itself a name. *)
PrefixOf(n) == IF HasNumber(n) THEN [dims |-> Front(n.dims), tail |-> Last(n.dims).lit] ELSE n

One(num) == <<[lo |-> num, hi |-> num, step |-> 1]>>

Verbatim(n) ==
    [group |-> "", tail |-> n.tail,
     dims |-> [k \in 1..Len(n.dims) |-> [lit |-> n.dims[k].lit, items |-> One(n.dims[k].num)]]]

(* The terms of one prefix: a bracket for the numbered names, written with *)
(* the largest padding among them, and the name without number as it is.   *)
foldGroup(p, S) ==
    LET nums    == {Last(n.dims).num : n \in {m \in S : HasNumber(m)}}
        pad     == MaxPadding(nums)
        written(it) == [lo |-> formatPadded(it.lo, pad), hi |-> formatPadded(it.hi, pad),
                        step |-> it.step]
        values  == Listed({n.v : n \in nums})
        rs      == rsUnion(<<>>, [i \in 1..Len(values) |-> rang(values[i], values[i])])
        folded  == rsFold(rs)
        bracket == [group |-> "", tail |-> "",
                    dims |-> Append(Verbatim([dims |-> p.dims, tail |-> ""]).dims,
                                    [lit |-> p.tail,
                                     items |-> [i \in 1..Len(folded) |-> written(folded[i])]])]
    IN  (IF nums = {} THEN {} ELSE {bracket})
        \cup {Verbatim(n) : n \in {m \in S : ~HasNumber(m)}}

Fold(S) ==
    IF Cardinality(S) = 1 THEN {Verbatim(n) : n \in S}
    ELSE UNION {foldGroup(p, {n \in S : PrefixOf(n) = p}) : p \in {PrefixOf(n) : n \in S}}

-----------------------------------------------------------------------------
(* Matching without expanding. *)

(* parseInt ignores leading zeros, and a padded bracket wants its width. *)
checkNumStr(num, items) ==
    /\ BracketPadding(items) > 0 => num.w = BracketPadding(items)
    /\ num.v \in ToSet(BracketInts(items))

(* The first dimension at which the walk over pattern and name stops. *)
Mismatch(t, n) ==
    LET Agrees(k) == /\ k <= Len(n.dims) /\ n.dims[k].lit = t.dims[k].lit
                     /\ ~BadBracket(t.dims[k].items)
                     /\ checkNumStr(n.dims[k].num, t.dims[k].items)
    IN  Min({k \in 1..Len(t.dims) : ~Agrees(k)} \cup {Len(t.dims) + 1})

(* matchFast cuts at every comma, also at those inside a bracket, and      *)
(* finds the first piece of such a bracket unclosed - if the walk gets     *)
(* there.  The other pieces match no name.                                 *)
matchSimplePattern(t, n) ==
    LET stop == Mismatch(t, n)
        cut  == {k \in 1..Len(t.dims) : Len(t.dims[k].items) > 1}
        Reaches(k) == stop >= k /\ k <= Len(n.dims) /\ n.dims[k].lit = t.dims[k].lit
    IN  [ok |-> ~\E k \in 1..Len(t.dims) :
                   Reaches(k) /\ (k \in cut \/ BadBracket(t.dims[k].items)),
         hit |-> /\ cut = {} /\ stop = Len(t.dims) + 1
                 /\ Len(n.dims) = Len(t.dims) /\ n.tail = t.tail]

IsComplex(e) ==
    \/ \E i \in 1..Len(e.ops) : e.ops[i] # ","
    \/ \E i \in 1..Len(e.terms) : e.terms[i].group # ""

(* Unions of plain terms take the fast path, in order up to the first hit  *)
(* or failure; everything else is expanded.  Globs go to filepath.Match    *)
(* and are left out.                                                       *)
Match(e, n) ==
    IF IsComplex(e)
    THEN [ok |-> e \in DOMAIN Parsed, hit |-> e \in DOMAIN Parsed /\ n \in Parsed[e]]
    ELSE FoldLeft(LAMBDA acc, t : IF ~acc.ok \/ acc.hit THEN acc ELSE matchSimplePattern(t, n),
                  [ok |-> TRUE, hit |-> FALSE], e.terms)

-----------------------------------------------------------------------------
(* Splitting. *)

(* n roughly equal parts of the sorted names; for an empty set the code    *)
(* divides by zero.                                                        *)
Split(names, n) ==
    LET parts == IF n <= 0 \/ n > Len(names) THEN Len(names) ELSE n
        size  == Len(names) \div parts
        extra == Len(names) % parts
        Start(i) == i * size + Lower(i, extra)
    IN  [i \in 1..parts |-> ToSet(SubSeq(names, Start(i - 1) + 1, Start(i)))]

(* Runs of consecutive numbers with one prefix; equal numbers (1 and 01)   *)
(* are not consecutive.                                                    *)
Contiguous(S) ==
    LET numbered(p) == {n \in S : HasNumber(n) /\ PrefixOf(n) = p}
        value(n)    == Last(n.dims).num.v
        runs(p)     ==
          LET sorted == SortSeq(Listed(numbered(p)), LAMBDA a, b : value(a) < value(b))
              joins(i) == value(sorted[i]) = value(sorted[i - 1]) + 1
          IN  FoldLeft(LAMBDA acc, i :
                          IF joins(i) THEN [acc EXCEPT ![Len(acc)] = @ \cup {sorted[i]}]
                          ELSE Append(acc, {sorted[i]}),
                       <<{sorted[1]}>>, [j \in 1..Len(sorted) - 1 |-> j + 1])
    IN  {{n} : n \in {m \in S : ~HasNumber(m)}}
        \cup UNION {ToSet(runs(p)) : p \in {PrefixOf(n) : n \in {m \in S : HasNumber(m)}}}

-----------------------------------------------------------------------------
(* What a pattern means, without ranges, strides or limits. *)
Means(t) ==
    IF t.group # "" THEN Groups[t.group]
    ELSE LET num(items) == {formatPadded(v, BracketPadding(items)) : v \in
                              UNION {{x \in items[i].lo.v .. items[i].hi.v :
                                      (x - items[i].lo.v) % items[i].step = 0} : i \in 1..Len(items)}}
         IN  {[dims |-> d, tail |-> t.tail] : d \in
                {f \in [1..Len(t.dims) ->
                        UNION {[lit : {t.dims[k].lit}, num : num(t.dims[k].items)] :
                               k \in 1..Len(t.dims)}] :
                 \A k \in 1..Len(t.dims) : f[k].lit = t.dims[k].lit /\ f[k].num \in num(t.dims[k].items)}}

Meaning(e) ==
    FoldLeft(LAMBDA S, i : Apply(e.ops[i], S, Means(e.terms[i + 1])), Means(e.terms[1]),
             [i \in 1..Len(e.ops) |-> i])

(* What the patterns that parse mean. *)
Meant == [e \in DOMAIN Parsed |-> Meaning(e)]

NodeInit == nodes = {} /\ named = {}

(* New and Add leave the set alone when the pattern fails. *)
NodeAdd(e) ==
    /\ e \in DOMAIN Parsed
    /\ nodes' = nodes \cup Parsed[e]
    /\ named' = named \cup Meant[e]

NodeRemove(e) ==
    /\ e \in DOMAIN Parsed
    /\ nodes' = nodes \ Parsed[e]
    /\ named' = named \ Meant[e]

AddNode(n) ==
    /\ nodes' = nodes \cup {n}
    /\ named' = named \cup {n}

NodeNext ==
    \/ \E e \in Exprs : NodeAdd(e) \/ NodeRemove(e)
    \/ \E n \in Hosts : AddNode(n)

-----------------------------------------------------------------------------
(* A set built from any sequence of patterns holds exactly the names the   *)
(* patterns mean: range merging, the stride arithmetic of cartesianExpand  *)
(* and the left-to-right operators of parser.go lose and invent nothing.   *)
NodesAsWritten == nodes = named

(* Names of one prefix that one padding can write. *)
Uniform(S) ==
    \A n, m \in {x \in S : HasNumber(x)} : PrefixOf(n) = PrefixOf(m) =>
        Last(n.dims).num.w = Upper(detectPadding(Last(m.dims).num), Digits(Last(n.dims).num.v))

(* Folding a set and expanding the result gives the set back, if the names *)
(* of a prefix are padded alike (fold.go writes them all with the largest  *)
(* padding it finds); Split and Contiguous partition the set, Split into   *)
(* parts whose sizes differ by at most one.                                *)
FoldRoundTrips ==
    nodes # {} =>
    /\ Uniform(nodes) => UNION {expandTerm(t).names : t \in Fold(nodes)} = nodes
    /\ \A k \in 0..3 :
         LET parts == Split(Listed(nodes), k) IN
         /\ UNION ToSet(parts) = nodes
         /\ \A i, j \in 1..Len(parts) :
              /\ i # j => parts[i] \cap parts[j] = {}
              /\ Cardinality(parts[i]) <= Cardinality(parts[j]) + 1
    /\ UNION Contiguous(nodes) = nodes
    /\ \A A, B \in Contiguous(nodes) : A # B => A \cap B = {}

(* Match answers, without expanding, whether a name is in the set, up to    *)
(* zeros before its numbers, except for a pattern with a comma inside a     *)
(* bracket, which matchFast cuts in two (nodeset.go:450): such a pattern    *)
(* fails or misses names. It never accepts a name whose numbers are not     *)
(* meant (nodeset.go 356-543).                                              *)
ValuesIn(n) == [lits |-> [k \in DOMAIN n.dims |-> <<n.dims[k].lit, n.dims[k].num.v>>], tail |-> n.tail]
MatchIsSound ==
    \A e \in DOMAIN Parsed, n \in Hosts :
        LET answer == Match(e, n)
            cut == \E i \in 1..Len(e.terms) : \E k \in DOMAIN e.terms[i].dims : Len(e.terms[i].dims[k].items) > 1
        IN  /\ answer.hit => \E m \in Meant[e] : ValuesIn(m) = ValuesIn(n)
            /\ ~cut \/ IsComplex(e) => answer.ok /\ (n \in Meant[e] => answer.hit)
=============================================================================
