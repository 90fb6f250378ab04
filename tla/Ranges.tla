------------------------------- MODULE Ranges -------------------------------
(***************************************************************************)
(* Which bytes of a file are present (packages/client/src/ranges.ts):      *)
(* half-open ranges <<start, end>>, sorted and apart.  A loop of the code  *)
(* that carries variables from one range to the next is a fold over them.  *)
(***************************************************************************)
EXTENDS Integers, SequencesExt

CONSTANT Edge   \* bound: the ends of ranges that RangesAgree tries

Lesser(a, b) == IF a < b THEN a ELSE b
Greater(a, b) == IF a > b THEN a ELSE b

\* Touching counts as overlapping: what is before goes out, what is after
\* takes the place of what has been gathered.
Gather(acc, r) ==
    IF r[2] < acc.s THEN [acc EXCEPT !.out = Append(@, r)]
    ELSE IF r[1] > acc.e
    THEN [out |-> Append(acc.out, <<acc.s, acc.e>>), s |-> r[1], e |-> r[2]]
    ELSE [acc EXCEPT !.s = Lesser(@, r[1]), !.e = Greater(@, r[2])]

\* sort((x, y) => x[0] - y[0]), which leaves a list alone that is in order.
Sorted(list) == \A i, j \in DOMAIN list: i < j => list[i][1] <= list[j][1]
InOrder(list) ==
    LET order == CHOOSE p \in Bijection(DOMAIN list, DOMAIN list): Sorted([i \in DOMAIN list |-> list[p[i]]])
    IN IF Sorted(list) THEN list ELSE [i \in DOMAIN list |-> list[order[i]]]

Add(ranges, start, end) ==
    LET acc == FoldLeft(Gather, [out |-> <<>>, s |-> start, e |-> end], ranges) IN
    IF end <= start THEN ranges
    ELSE InOrder(Append(acc.out, <<acc.s, acc.e>>))

\* The parts of [start, end) that are not held.
Missing(ranges, start, end) ==
    LET Skip(acc, r) ==
            IF r[2] <= acc.at \/ r[1] >= end \/ acc.at >= end THEN acc
            ELSE [gaps |-> IF r[1] > acc.at
                           THEN Append(acc.gaps, <<acc.at, Lesser(r[1], end)>>)
                           ELSE acc.gaps,
                  at |-> Greater(acc.at, r[2])]
        acc == FoldLeft(Skip, [gaps |-> <<>>, at |-> start], ranges)
    IN IF acc.at < end THEN Append(acc.gaps, <<acc.at, end>>) ELSE acc.gaps

Total(ranges) == FoldLeft(LAMBDA n, r: n + r[2] - r[1], 0, ranges)

\* How far an uninterrupted run extends from `at'.
ContiguousFrom(ranges, at) ==
    FoldLeft(LAMBDA n, r: IF n = 0 /\ r[1] <= at /\ at < r[2] THEN r[2] - at ELSE n, 0, ranges)

-----------------------------------------------------------------------------
\* What they mean: the set of the bytes.
Bytes(ranges) == UNION {r[1] .. r[2] - 1 : r \in ToSet(ranges)}

\* "Kept sorted and non-overlapping" (ranges.ts:9): none empty, none touching.
Tidy(ranges) ==
    \A i, j \in DOMAIN ranges: /\ ranges[i][1] < ranges[i][2]
                               /\ i < j => ranges[i][2] < ranges[j][1]

\* The ranges of a set: a start where the byte before is not in it.
RangesOf(S) ==
    LET starts == {a \in S: a - 1 \notin S}
        End(a) == CHOOSE b \in 0 .. Edge: a < b /\ a .. b - 1 \subseteq S /\ b \notin S
    IN SortSeq(SetToSeq({<<a, End(a)>> : a \in starts}), LAMBDA x, y: x[1] < y[1])

\* Over every set of bytes and every range added to it, or asked for, the lists
\* are those of the sets: sorted, apart, and neither a byte more nor one less.
ASSUME RangesAgree ==
    \A S \in SUBSET (0 .. Edge - 1), a, b \in 0 .. Edge:
        LET ranges == RangesOf(S) IN
        /\ Bytes(ranges) = S /\ Total(ranges) = Cardinality(S)
        /\ Add(ranges, a, b) = RangesOf(S \cup a .. b - 1)
        /\ Missing(ranges, a, b) = RangesOf(a .. b - 1 \ S)
        /\ ContiguousFrom(ranges, a) = CHOOSE n \in 0 .. Edge:
                a .. a + n - 1 \subseteq S /\ a + n \notin S

=============================================================================
