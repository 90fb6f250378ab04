--------------------------- MODULE TransportsProofs --------------------------
(***************************************************************************)
(* What either transport promises, promised by the machine that has one of *)
(* them.  First the lists of ranges: they are the sets of their bytes.     *)
(* Then the relay transport: its inductive invariant, and one lemma per    *)
(* action.  Last the swarm.                                                *)
(***************************************************************************)
EXTENDS Transports, FoldLemmas, FiniteSetTheorems

-----------------------------------------------------------------------------
(* Adding a range (ranges.ts:17).                                          *)

Pair == Int \X Int
Gathered == [out: Seq(Pair), s: Int, e: Int]

\* What add gathers is a list of ranges, and a range.
LEMMA GatherType == ASSUME NEW acc \in Gathered, NEW r \in Pair PROVE Gather(acc, r) \in Gathered
<1>1. acc.out \in Seq(Pair) /\ acc.s \in Int /\ acc.e \in Int /\ r[1] \in Int /\ r[2] \in Int
  BY DEF Gathered, Pair
<1>2. CASE r[2] < acc.s
  BY <1>1, <1>2 DEF Gather, Gathered
<1>3. CASE ~ (r[2] < acc.s) /\ r[1] > acc.e
  <2>1. <<acc.s, acc.e>> \in Pair
    BY <1>1 DEF Pair
  <2>2. Append(acc.out, <<acc.s, acc.e>>) \in Seq(Pair)
    BY <1>1, <2>1
  <2> QED BY <1>1, <1>3, <2>2 DEF Gather, Gathered
<1>4. CASE ~ (r[2] < acc.s) /\ ~ (r[1] > acc.e)
  BY <1>1, <1>4 DEF Gather, Gathered, Lesser, Greater
<1> QED BY <1>2, <1>3, <1>4

\* The loop of add (ranges.ts:20) takes one range at a time, in their order.
LEMMA GatherFolds ==
  ASSUME NEW ranges \in Seq(Pair), NEW base \in Gathered
  PROVE  \E f \in [0 .. Len(ranges) -> Gathered] :
            /\ f[0] = base /\ \A n \in 0 .. Len(ranges) - 1 : f[n + 1] = Gather(f[n], ranges[n + 1])
            /\ FoldLeft(Gather, base, ranges) = f[Len(ranges)]
<1> DEFINE N == Len(ranges)
           step == [p \in Gathered \X (1 .. N) |-> Gather(p[1], ranges[p[2]])]
           iter == CHOOSE iter : iter = [s \in SUBSET DOMAIN ranges |-> IF s = {} THEN base
                                  ELSE Gather(iter[s \ {Max(s)}], ranges[Max(s)])]
<1>1. FoldLeft(Gather, base, ranges) = iter[DOMAIN ranges]
  BY DEF FoldLeft, MapThenFoldSet
<1>2. N \in Nat /\ DOMAIN ranges = 1 .. N
  OBVIOUS
<1>3. step \in [Gathered \X (1 .. N) -> Gathered]
  <2> SUFFICES ASSUME NEW p \in Gathered \X (1 .. N) PROVE Gather(p[1], ranges[p[2]]) \in Gathered
    OBVIOUS
  <2> QED BY GatherType
<1>4. PICK g \in [SUBSET (1 .. N) -> Gathered] : Folds(g, N, base, step)
  <2> HIDE DEF N, step
  <2> QED BY <1>2, <1>3, FoldExists
<1>5. g = [s \in SUBSET DOMAIN ranges |-> IF s = {} THEN base ELSE Gather(g[s \ {Max(s)}], ranges[Max(s)])]
  <2> SUFFICES ASSUME NEW s \in SUBSET (1 .. N)
               PROVE g[s] = IF s = {} THEN base ELSE Gather(g[s \ {Max(s)}], ranges[Max(s)])
    BY <1>2
  <2>1. CASE s = {}
    BY <1>4, <2>1 DEF Folds
  <2>2. CASE s # {}
    <3>1. g[s] = step[<<g[s \ {Max(s)}], Max(s)>>]
      BY <1>4, <2>2 DEF Folds
    <3>2. Max(s) \in 1 .. N
      BY <1>2, <2>2, MaxIsGreatest
    <3>3. s \ {Max(s)} \in SUBSET (1 .. N)
      OBVIOUS
    <3>4. <<g[s \ {Max(s)}], Max(s)>> \in Gathered \X (1 .. N)
      BY <3>2, <3>3
    <3> QED BY <2>2, <3>1, <3>4
  <2> QED BY <2>1, <2>2
<1>6. iter = [s \in SUBSET DOMAIN ranges |-> IF s = {} THEN base ELSE Gather(iter[s \ {Max(s)}], ranges[Max(s)])]
  BY <1>5
<1> HIDE DEF iter
<1>7. iter[{}] = base
  BY <1>6
<1>8. ASSUME NEW n \in 0 .. N - 1, iter[1 .. n] \in Gathered
      PROVE  iter[1 .. n + 1] = step[<<iter[1 .. n], n + 1>>]
  <2>1. n \in Nat /\ n + 1 \in 1 .. N
    BY <1>2
  <2>2. Max(1 .. n + 1) = n + 1 /\ (1 .. n + 1) \ {n + 1} = 1 .. n
    BY <2>1, MaxOfFirst
  <2>3. 1 .. n + 1 # {} /\ 1 .. n + 1 \in SUBSET DOMAIN ranges
    BY <1>2, <2>1
  <2>4. iter[1 .. n + 1] = Gather(iter[(1 .. n + 1) \ {Max(1 .. n + 1)}], ranges[Max(1 .. n + 1)])
    BY <1>6, <2>3
  <2> QED BY <1>8, <2>1, <2>2, <2>4
<1>9. PICK f \in [0 .. N -> Gathered] : Chain(f, N, base, step, iter[1 .. N])
  <2>1. Unfolds(iter, N, Gathered, base, step)
    BY <1>7, <1>8 DEF Unfolds
  <2> HIDE DEF N, step
  <2> QED BY <1>2, <1>3, <2>1, FoldUnrolled
<1>10. \A n \in 0 .. N - 1 : f[n + 1] = Gather(f[n], ranges[n + 1])
  <2> TAKE n \in 0 .. N - 1
  <2>1. n \in 0 .. N /\ n + 1 \in 1 .. N
    BY <1>2
  <2>2. <<f[n], n + 1>> \in Gathered \X (1 .. N)
    BY <2>1
  <2>3. step[<<f[n], n + 1>>] = Gather(f[n], ranges[n + 1])
    BY <2>2
  <2> QED BY <1>9, <2>3 DEF Chain
<1>11. FoldLeft(Gather, base, ranges) = f[Len(ranges)]
  BY <1>1, <1>2, <1>9 DEF Chain
<1> QED BY <1>9, <1>10, <1>11 DEF Chain

-----------------------------------------------------------------------------
\* A byte of one of the ranges.
Covers(ranges, x) == \E i \in DOMAIN ranges : ranges[i][1] <= x /\ x < ranges[i][2]

\* The bytes of a list are those that one of its ranges covers.
LEMMA BytesCovered ==
  ASSUME NEW ranges \in Seq(Pair)
  PROVE  Bytes(ranges) \subseteq Int /\ \A x \in Int : x \in Bytes(ranges) <=> Covers(ranges, x)
<1>1. \A i \in DOMAIN ranges : ranges[i][1] \in Int /\ ranges[i][2] \in Int
  BY DEF Pair
<1>2. \A x : x \in Bytes(ranges) <=> \E i \in DOMAIN ranges : x \in ranges[i][1] .. ranges[i][2] - 1
  BY DEF Bytes, ToSet
<1>3. \A i \in DOMAIN ranges, x \in Int :
         x \in ranges[i][1] .. ranges[i][2] - 1 <=> ranges[i][1] <= x /\ x < ranges[i][2]
  BY <1>1
<1>4. Bytes(ranges) \subseteq Int
  BY <1>1, <1>2
<1> QED BY <1>2, <1>3, <1>4 DEF Covers

\* `more' is the tidy list `out' with a range after all of it.
Longer(more, out, s, e) ==
  /\ more \in Seq(Pair) /\ Tidy(more)
  /\ \A x \in Int : Covers(more, x) <=> Covers(out, x) \/ (s <= x /\ x < e)
  /\ \A k \in DOMAIN more : (k \in DOMAIN out /\ more[k] = out[k]) \/ more[k] = <<s, e>>

\* A range after all others of a tidy list makes a tidy list with them.
LEMMA TidyAppend ==
  ASSUME NEW out \in Seq(Pair), Tidy(out), NEW s \in Int, NEW e \in Int, s < e,
         \A k \in DOMAIN out : out[k][2] < s
  PROVE  Longer(Append(out, <<s, e>>), out, s, e)
<1> DEFINE more == Append(out, <<s, e>>)
           n == Len(out)
<1>1. <<s, e>> \in Pair
  BY DEF Pair
<1>2. more \in Seq(Pair) /\ DOMAIN more = 1 .. n + 1 /\ DOMAIN out = 1 .. n /\ n \in Nat
  BY <1>1
<1>3. more[n + 1] = <<s, e>> /\ \A k \in 1 .. n : more[k] = out[k]
  BY <1>1
<1>4. \A k \in 1 .. n : out[k][1] \in Int /\ out[k][2] \in Int
  BY DEF Pair
<1> HIDE DEF more, n
<1>5. Tidy(more)
  <2> SUFFICES ASSUME NEW i \in 1 .. n + 1, NEW j \in 1 .. n + 1
               PROVE  more[i][1] < more[i][2] /\ (i < j => more[i][2] < more[j][1])
    BY <1>2 DEF Tidy
  <2>1. more[i][1] < more[i][2]
    <3>1. CASE i = n + 1
      BY <1>3, <3>1
    <3>2. CASE i \in 1 .. n
      BY <1>2, <1>3, <3>2 DEF Tidy
    <3> QED BY <1>2, <3>1, <3>2
  <2>2. ASSUME i < j PROVE more[i][2] < more[j][1]
    <3>1. i \in 1 .. n
      BY <1>2, <2>2
    <3>2. CASE j = n + 1
      BY <1>2, <1>3, <3>1, <3>2
    <3>3. CASE j \in 1 .. n
      BY <1>2, <1>3, <2>2, <3>1, <3>3 DEF Tidy
    <3> QED BY <1>2, <3>2, <3>3
  <2> QED BY <2>1, <2>2
<1>6. ASSUME NEW x \in Int PROVE Covers(more, x) <=> Covers(out, x) \/ (s <= x /\ x < e)
  <2>1. Covers(more, x) <=> \/ \E i \in 1 .. n : more[i][1] <= x /\ x < more[i][2]
                            \/ more[n + 1][1] <= x /\ x < more[n + 1][2]
    BY <1>2 DEF Covers
  <2>2. Covers(out, x) <=> \E i \in 1 .. n : more[i][1] <= x /\ x < more[i][2]
    BY <1>2, <1>3 DEF Covers
  <2> QED BY <1>3, <2>1, <2>2
<1>7. \A k \in DOMAIN more : (k \in DOMAIN out /\ more[k] = out[k]) \/ more[k] = <<s, e>>
  BY <1>2, <1>3
<1>8. Longer(more, out, s, e)
  BY <1>2, <1>5, <1>6, <1>7 DEF Longer
<1> QED BY <1>8 DEF more

\* A tidy list is in order, so that sorting leaves it alone.
LEMMA OrderKept == ASSUME NEW list \in Seq(Pair), Tidy(list) PROVE InOrder(list) = list
<1>1. \A i \in DOMAIN list : list[i][1] \in Int /\ list[i][2] \in Int
  BY DEF Pair
<1>2. Sorted(list)
  BY <1>1 DEF Tidy, Sorted
<1> QED BY <1>2 DEF InOrder

\* What add has when it has seen n ranges: those before what it gathers, which
\* has taken up the ones that touch, and nothing of the others.
GatheredSoFar(acc, ranges, n, a, b) ==
  /\ acc \in Gathered /\ acc.s < acc.e /\ Tidy(acc.out)
  /\ \A k \in DOMAIN acc.out : /\ acc.out[k][2] < acc.s
                               /\ \A i \in DOMAIN ranges : i > n => acc.out[k][2] < ranges[i][1]
  /\ \A x \in Int : Covers(acc.out, x) \/ (acc.s <= x /\ x < acc.e)
                    <=> (\E i \in 1 .. n : ranges[i][1] <= x /\ x < ranges[i][2]) \/ (a <= x /\ x < b)

\* One range more.
LEMMA GatherOne ==
  ASSUME NEW ranges \in Seq(Pair), Tidy(ranges), NEW n \in 0 .. Len(ranges) - 1, NEW a \in Int, NEW b \in Int,
         NEW acc, GatheredSoFar(acc, ranges, n, a, b)
  PROVE  GatheredSoFar(Gather(acc, ranges[n + 1]), ranges, n + 1, a, b)
<1> DEFINE r == ranges[n + 1]
           new == Gather(acc, r)
           Seen(m, x) == \E i \in 1 .. m : ranges[i][1] <= x /\ x < ranges[i][2]
<1>0. DOMAIN ranges = 1 .. Len(ranges) /\ n + 1 \in DOMAIN ranges /\ n \in Nat
  OBVIOUS
<1>1. \A i \in DOMAIN ranges : ranges[i][1] \in Int /\ ranges[i][2] \in Int
  BY DEF Pair
<1>2. acc.out \in Seq(Pair) /\ acc.s \in Int /\ acc.e \in Int /\ acc \in Gathered /\ acc.s < acc.e /\ Tidy(acc.out)
  BY DEF GatheredSoFar, Gathered
<1>3. ASSUME NEW k \in DOMAIN acc.out PROVE acc.out[k][1] \in Int /\ acc.out[k][2] \in Int
  <2>1. acc.out[k] \in Pair
    BY <1>2
  <2> QED BY <2>1 DEF Pair
<1>4. r \in Pair /\ r = <<r[1], r[2]>> /\ r[1] \in Int /\ r[2] \in Int /\ r[1] < r[2]
  <2>1. r \in Pair
    BY <1>0
  <2>2. r[1] < r[2]
    BY <1>0 DEF Tidy
  <2> QED BY <2>1, <2>2 DEF Pair
<1>5. new \in Gathered
  BY <1>2, <1>4, GatherType
<1>6. \A i \in DOMAIN ranges : i > n + 1 => r[2] < ranges[i][1]
  BY <1>0 DEF Tidy
<1>7. \A k \in DOMAIN acc.out : acc.out[k][2] < r[1] /\ acc.out[k][2] < acc.s
  BY <1>0 DEF GatheredSoFar
<1>8. \A k \in DOMAIN acc.out, i \in DOMAIN ranges : i > n + 1 => acc.out[k][2] < ranges[i][1]
  BY <1>0 DEF GatheredSoFar
<1>9. \A x : Seen(n + 1, x) <=> Seen(n, x) \/ (r[1] <= x /\ x < r[2])
  BY <1>0
<1>10. \A x \in Int : Covers(acc.out, x) \/ (acc.s <= x /\ x < acc.e) <=> Seen(n, x) \/ (a <= x /\ x < b)
  BY DEF GatheredSoFar
<1> HIDE DEF r, Seen
<1>11. /\ new.s < new.e /\ Tidy(new.out)
       /\ \A k \in DOMAIN new.out : /\ new.out[k][2] < new.s
                                    /\ \A i \in DOMAIN ranges : i > n + 1 => new.out[k][2] < ranges[i][1]
       /\ \A x \in Int : Covers(new.out, x) \/ (new.s <= x /\ x < new.e)
                         <=> Covers(acc.out, x) \/ (acc.s <= x /\ x < acc.e) \/ (r[1] <= x /\ x < r[2])
  <2>1. CASE r[2] < acc.s
    <3>1. new = [acc EXCEPT !.out = Append(acc.out, r)]
      BY <2>1 DEF Gather
    <3>2. new.out = Append(acc.out, <<r[1], r[2]>>) /\ new.s = acc.s /\ new.e = acc.e
      BY <1>2, <1>4, <3>1 DEF Gathered
    <3> HIDE DEF new
    <3>3. Longer(new.out, acc.out, r[1], r[2])
      BY <1>2, <1>4, <1>7, <3>2, TidyAppend
    <3>4. ASSUME NEW k \in DOMAIN new.out
          PROVE  new.out[k][2] < new.s /\ \A i \in DOMAIN ranges : i > n + 1 => new.out[k][2] < ranges[i][1]
      <4>1. CASE k \in DOMAIN acc.out /\ new.out[k] = acc.out[k]
        BY <1>7, <1>8, <3>2, <4>1
      <4>2. CASE new.out[k] = <<r[1], r[2]>>
        BY <1>6, <2>1, <3>2, <4>2
      <4> QED BY <3>3, <4>1, <4>2 DEF Longer
    <3> QED BY <1>2, <3>2, <3>3, <3>4 DEF Longer
  <2>2. CASE ~ (r[2] < acc.s) /\ r[1] > acc.e
    <3>2. new.out = Append(acc.out, <<acc.s, acc.e>>) /\ new.s = r[1] /\ new.e = r[2]
      BY <2>2 DEF Gather
    <3> HIDE DEF new
    <3>3. Longer(new.out, acc.out, acc.s, acc.e)
      BY <1>2, <1>4, <1>7, <3>2, TidyAppend
    <3>4. ASSUME NEW k \in DOMAIN new.out
          PROVE  new.out[k][2] < new.s /\ \A i \in DOMAIN ranges : i > n + 1 => new.out[k][2] < ranges[i][1]
      <4>1. CASE k \in DOMAIN acc.out /\ new.out[k] = acc.out[k]
        BY <1>7, <1>8, <3>2, <4>1
      <4>2. CASE new.out[k] = <<acc.s, acc.e>>
        <5>1. new.out[k][2] = acc.e /\ acc.e < r[1] /\ acc.e < r[2]
          BY <1>2, <1>4, <2>2, <4>2
        <5>2. \A i \in DOMAIN ranges : i > n + 1 => acc.e < ranges[i][1]
          BY <1>1, <1>2, <1>4, <1>6, <5>1
        <5> QED BY <3>2, <5>1, <5>2
      <4> QED BY <3>3, <4>1, <4>2 DEF Longer
    <3> QED BY <1>4, <3>2, <3>3, <3>4 DEF Longer
  <2>3. CASE ~ (r[2] < acc.s) /\ ~ (r[1] > acc.e)
    <3>1. new = [acc EXCEPT !.s = Lesser(acc.s, r[1]), !.e = Greater(acc.e, r[2])]
      BY <2>3 DEF Gather
    <3>2. new.out = acc.out /\ new.s = Lesser(acc.s, r[1]) /\ new.e = Greater(acc.e, r[2])
      BY <1>2, <3>1 DEF Gathered
    <3> HIDE DEF new
    <3>3. new.s < new.e
      BY <1>2, <1>4, <3>2 DEF Lesser, Greater
    <3>4. \A k \in DOMAIN new.out : new.out[k][2] < new.s
      BY <1>3, <1>7, <3>2 DEF Lesser
    <3>5. \A x \in Int : new.s <= x /\ x < new.e <=> (acc.s <= x /\ x < acc.e) \/ (r[1] <= x /\ x < r[2])
      BY <1>2, <1>4, <2>3, <3>2 DEF Lesser, Greater
    <3> QED BY <1>2, <1>8, <3>2, <3>3, <3>4, <3>5
  <2> QED BY <2>1, <2>2, <2>3
<1> HIDE DEF new
<1>12. \A x \in Int : Covers(new.out, x) \/ (new.s <= x /\ x < new.e) <=> Seen(n + 1, x) \/ (a <= x /\ x < b)
  BY <1>9, <1>10, <1>11
<1>13. GatheredSoFar(new, ranges, n + 1, a, b)
  BY <1>5, <1>11, <1>12 DEF GatheredSoFar, Seen
<1> QED BY <1>13 DEF new, r

\* "Kept sorted and non-overlapping" (ranges.ts:9): adding a range to a tidy
\* list, of any length, gives a tidy list of the bytes of both, and no other.
THEOREM AddIsUnion ==
  ASSUME NEW ranges \in Seq(Pair), Tidy(ranges), NEW a \in Int, NEW b \in Int, a < b
  PROVE  /\ Add(ranges, a, b) \in Seq(Pair) /\ Tidy(Add(ranges, a, b))
         /\ Bytes(Add(ranges, a, b)) = Bytes(ranges) \cup a .. b - 1
<1> DEFINE base == [out |-> <<>>, s |-> a, e |-> b]
           N == Len(ranges)
           acc == FoldLeft(Gather, base, ranges)
<1>1. base \in Gathered /\ GatheredSoFar(base, ranges, 0, a, b)
  <2>1. base \in Gathered
    BY DEF Gathered
  <2>2. base.out = <<>> /\ DOMAIN base.out = {}
    OBVIOUS
  <2> QED BY <2>1, <2>2 DEF GatheredSoFar, Tidy, Covers
<1> HIDE DEF base
<1>2. PICK f \in [0 .. N -> Gathered] :
         /\ f[0] = base /\ \A n \in 0 .. N - 1 : f[n + 1] = Gather(f[n], ranges[n + 1])
         /\ acc = f[N]
  BY <1>1, GatherFolds
<1> DEFINE S == {n \in 0 .. N : GatheredSoFar(f[n], ranges, n, a, b)}
<1>3. N \in Nat /\ 0 \in S
  BY <1>1, <1>2
<1>4. ASSUME NEW n \in 0 .. N - 1, n \in S PROVE n + 1 \in S
  BY <1>2, <1>4, GatherOne
<1>5. N \in S
  <2> HIDE DEF S, N
  <2>1. N \in 0 .. N
    BY <1>3
  <2> QED BY <1>3, <1>4, <2>1, Induction
<1>6. GatheredSoFar(acc, ranges, N, a, b)
  BY <1>2, <1>5
<1> HIDE DEF acc, S
<1> DEFINE all == Append(acc.out, <<acc.s, acc.e>>)
<1>7. Add(ranges, a, b) = InOrder(all)
  BY DEF Add, acc, base
<1>8. acc.out \in Seq(Pair) /\ acc.s \in Int /\ acc.e \in Int /\ acc.s < acc.e /\ Tidy(acc.out)
      /\ \A k \in DOMAIN acc.out : acc.out[k][2] < acc.s
  BY <1>6 DEF GatheredSoFar, Gathered
<1>9. Longer(all, acc.out, acc.s, acc.e)
  BY <1>8, TidyAppend
<1>10. \A x \in Int : Covers(all, x) <=> Covers(ranges, x) \/ (a <= x /\ x < b)
  <2>1. \A x \in Int : Covers(acc.out, x) \/ (acc.s <= x /\ x < acc.e) <=> Covers(ranges, x) \/ (a <= x /\ x < b)
    BY <1>6 DEF GatheredSoFar, Covers
  <2> HIDE DEF all
  <2> QED BY <1>9, <2>1 DEF Longer
<1> HIDE DEF all
<1>11. /\ InOrder(all) \in Seq(Pair) /\ Tidy(InOrder(all))
       /\ \A x : Covers(InOrder(all), x) <=> Covers(all, x)
  BY <1>9, OrderKept DEF Longer
<1>12. Bytes(InOrder(all)) = Bytes(ranges) \cup a .. b - 1
  <2>1. \A x \in Int : x \in a .. b - 1 <=> a <= x /\ x < b
    OBVIOUS
  <2>2. Bytes(InOrder(all)) \subseteq Int /\ \A x \in Int : x \in Bytes(InOrder(all)) <=> Covers(InOrder(all), x)
    BY <1>11, BytesCovered
  <2>3. Bytes(ranges) \subseteq Int /\ \A x \in Int : x \in Bytes(ranges) <=> Covers(ranges, x)
    BY BytesCovered
  <2>4. \A x \in Int : x \in Bytes(InOrder(all)) <=> x \in Bytes(ranges) \/ x \in a .. b - 1
    BY <1>10, <1>11, <2>1, <2>2, <2>3
  <2> QED BY <2>2, <2>3, <2>4
<1> QED BY <1>7, <1>11, <1>12

-----------------------------------------------------------------------------
(* What is missing (ranges.ts:33).                                         *)

Skipped == [gaps: Seq(Pair), at: Int]

\* What missing does with one range (the operator it folds).
SkipTo(acc, r, end) ==
  IF r[2] <= acc.at \/ r[1] >= end \/ acc.at >= end THEN acc
  ELSE [gaps |-> IF r[1] > acc.at THEN Append(acc.gaps, <<acc.at, Lesser(r[1], end)>>) ELSE acc.gaps,
        at |-> Greater(acc.at, r[2])]

\* What missing has found is a list of gaps, and a place.
LEMMA SkipType == ASSUME NEW acc \in Skipped, NEW r \in Pair, NEW end \in Int PROVE SkipTo(acc, r, end) \in Skipped
<1>1. acc.gaps \in Seq(Pair) /\ acc.at \in Int /\ r[1] \in Int /\ r[2] \in Int
  BY DEF Skipped, Pair
<1>2. <<acc.at, Lesser(r[1], end)>> \in Pair
  BY <1>1 DEF Pair, Lesser
<1>3. Append(acc.gaps, <<acc.at, Lesser(r[1], end)>>) \in Seq(Pair)
  BY <1>1, <1>2
<1> QED BY <1>1, <1>3 DEF SkipTo, Skipped, Greater

\* What it has when it has seen n ranges, for every n, and what it returns.
Skips(f, ranges, start, end) ==
  /\ f[0] = [gaps |-> <<>>, at |-> start]
  /\ \A n \in 0 .. Len(ranges) - 1 : f[n + 1] = SkipTo(f[n], ranges[n + 1], end)
  /\ Missing(ranges, start, end) = LET acc == f[Len(ranges)] IN
        IF acc.at < end THEN Append(acc.gaps, <<acc.at, end>>) ELSE acc.gaps

\* The loop of missing (ranges.ts:36) takes one range at a time, in their order.
LEMMA SkipFolds ==
  ASSUME NEW ranges \in Seq(Pair), NEW start \in Int, NEW end \in Int
  PROVE  \E f \in [0 .. Len(ranges) -> Skipped] : Skips(f, ranges, start, end)
<1> DEFINE N == Len(ranges)
           base == [gaps |-> <<>>, at |-> start]
           step == [p \in Skipped \X (1 .. N) |-> SkipTo(p[1], ranges[p[2]], end)]
           iter == CHOOSE iter : iter = [s \in SUBSET DOMAIN ranges |-> IF s = {} THEN base
                                  ELSE SkipTo(iter[s \ {Max(s)}], ranges[Max(s)], end)]
<1>1. Missing(ranges, start, end) = LET acc == iter[DOMAIN ranges] IN
         IF acc.at < end THEN Append(acc.gaps, <<acc.at, end>>) ELSE acc.gaps
  BY DEF Missing, FoldLeft, MapThenFoldSet, SkipTo
<1>2. N \in Nat /\ DOMAIN ranges = 1 .. N
  OBVIOUS
<1>b. base \in Skipped
  BY DEF Skipped
<1>3. step \in [Skipped \X (1 .. N) -> Skipped]
  <2> SUFFICES ASSUME NEW p \in Skipped \X (1 .. N) PROVE SkipTo(p[1], ranges[p[2]], end) \in Skipped
    OBVIOUS
  <2> QED BY SkipType
<1>4. PICK g \in [SUBSET (1 .. N) -> Skipped] : Folds(g, N, base, step)
  <2> HIDE DEF N, step, base
  <2> QED BY <1>2, <1>b, <1>3, FoldExists
<1>5. g = [s \in SUBSET DOMAIN ranges |-> IF s = {} THEN base ELSE SkipTo(g[s \ {Max(s)}], ranges[Max(s)], end)]
  <2> SUFFICES ASSUME NEW s \in SUBSET (1 .. N)
               PROVE g[s] = IF s = {} THEN base ELSE SkipTo(g[s \ {Max(s)}], ranges[Max(s)], end)
    BY <1>2
  <2>1. CASE s = {}
    BY <1>4, <2>1 DEF Folds
  <2>2. CASE s # {}
    <3>1. g[s] = step[<<g[s \ {Max(s)}], Max(s)>>]
      BY <1>4, <2>2 DEF Folds
    <3>2. Max(s) \in 1 .. N
      BY <1>2, <2>2, MaxIsGreatest
    <3>3. s \ {Max(s)} \in SUBSET (1 .. N)
      OBVIOUS
    <3>4. <<g[s \ {Max(s)}], Max(s)>> \in Skipped \X (1 .. N)
      BY <3>2, <3>3
    <3> QED BY <2>2, <3>1, <3>4
  <2> QED BY <2>1, <2>2
<1>6. iter = [s \in SUBSET DOMAIN ranges |-> IF s = {} THEN base ELSE SkipTo(iter[s \ {Max(s)}], ranges[Max(s)], end)]
  BY <1>5
<1> HIDE DEF iter
<1>7. iter[{}] = base
  BY <1>6
<1>8. ASSUME NEW n \in 0 .. N - 1, iter[1 .. n] \in Skipped
      PROVE  iter[1 .. n + 1] = step[<<iter[1 .. n], n + 1>>]
  <2>1. n \in Nat /\ n + 1 \in 1 .. N
    BY <1>2
  <2>2. Max(1 .. n + 1) = n + 1 /\ (1 .. n + 1) \ {n + 1} = 1 .. n
    BY <2>1, MaxOfFirst
  <2>3. 1 .. n + 1 # {} /\ 1 .. n + 1 \in SUBSET DOMAIN ranges
    <3>1. 1 \in 1 .. n + 1 /\ \A i \in 1 .. n + 1 : i \in 1 .. N
      BY <2>1
    <3> QED BY <1>2, <3>1
  <2>4. iter[1 .. n + 1] = SkipTo(iter[(1 .. n + 1) \ {Max(1 .. n + 1)}], ranges[Max(1 .. n + 1)], end)
    BY <1>6, <2>3
  <2> QED BY <1>8, <2>1, <2>2, <2>4
<1>9. PICK f \in [0 .. N -> Skipped] : Chain(f, N, base, step, iter[1 .. N])
  <2>1. Unfolds(iter, N, Skipped, base, step)
    BY <1>7, <1>8 DEF Unfolds
  <2> HIDE DEF N, step, base
  <2> QED BY <1>2, <1>b, <1>3, <2>1, FoldUnrolled
<1>10. \A n \in 0 .. N - 1 : f[n + 1] = SkipTo(f[n], ranges[n + 1], end)
  <2> TAKE n \in 0 .. N - 1
  <2>1. n \in 0 .. N /\ n + 1 \in 1 .. N
    BY <1>2
  <2>2. <<f[n], n + 1>> \in Skipped \X (1 .. N)
    BY <2>1
  <2>3. step[<<f[n], n + 1>>] = SkipTo(f[n], ranges[n + 1], end)
    BY <2>2
  <2> QED BY <1>9, <2>3 DEF Chain
<1>11. Missing(ranges, start, end) = LET acc == f[Len(ranges)] IN
           IF acc.at < end THEN Append(acc.gaps, <<acc.at, end>>) ELSE acc.gaps
  BY <1>1, <1>2, <1>9 DEF Chain
<1> QED BY <1>9, <1>10, <1>11 DEF Chain, Skips

\* What missing has when it has seen n ranges: the gaps before `at'.
SkippedSoFar(acc, ranges, n, a, b) ==
  /\ acc \in Skipped /\ a <= acc.at /\ Tidy(acc.gaps)
  /\ \A k \in DOMAIN acc.gaps : acc.gaps[k][2] < acc.at
  /\ \A i \in 1 .. n : ranges[i][2] <= acc.at \/ ranges[i][1] >= b \/ acc.at >= b
  /\ \A x \in Int : Covers(acc.gaps, x) <=> a <= x /\ x < acc.at /\ x < b /\ ~ Covers(ranges, x)

\* One range more.
LEMMA SkipOne ==
  ASSUME NEW ranges \in Seq(Pair), Tidy(ranges), NEW n \in 0 .. Len(ranges) - 1, NEW a \in Int, NEW b \in Int,
         NEW acc, SkippedSoFar(acc, ranges, n, a, b)
  PROVE  SkippedSoFar(SkipTo(acc, ranges[n + 1], b), ranges, n + 1, a, b)
<1> DEFINE r == ranges[n + 1]
           new == SkipTo(acc, r, b)
<1>0. DOMAIN ranges = 1 .. Len(ranges) /\ n + 1 \in DOMAIN ranges /\ n \in Nat
  OBVIOUS
<1>1. \A i \in DOMAIN ranges : ranges[i][1] \in Int /\ ranges[i][2] \in Int
  BY DEF Pair
<1>2. acc.gaps \in Seq(Pair) /\ acc.at \in Int /\ acc \in Skipped /\ a <= acc.at /\ Tidy(acc.gaps)
  BY DEF SkippedSoFar, Skipped
<1>3. r \in Pair /\ r[1] \in Int /\ r[2] \in Int /\ r[1] < r[2]
  BY <1>0 DEF Pair, Tidy
<1>4. new \in Skipped
  BY <1>2, <1>3, SkipType
<1>5. \A i \in 1 .. n : ranges[i][2] <= acc.at \/ ranges[i][1] >= b \/ acc.at >= b
  BY DEF SkippedSoFar
<1>6. \A x \in Int : Covers(acc.gaps, x) <=> a <= x /\ x < acc.at /\ x < b /\ ~ Covers(ranges, x)
  BY DEF SkippedSoFar
<1>7. \A k \in DOMAIN acc.gaps : acc.gaps[k] \in Pair /\ acc.gaps[k][2] \in Int /\ acc.gaps[k][2] < acc.at
  BY <1>2 DEF SkippedSoFar, Pair
<1>8. \A i \in DOMAIN ranges : /\ i <= n => ranges[i][2] < r[1]
                               /\ i > n + 1 => r[2] < ranges[i][1]
  BY <1>0 DEF Tidy
<1> HIDE DEF r
<1>9. CASE r[2] <= acc.at \/ r[1] >= b \/ acc.at >= b
  <2>1. new = acc
    BY <1>9 DEF SkipTo
  <2>2. \A i \in 1 .. n + 1 : ranges[i][2] <= acc.at \/ ranges[i][1] >= b \/ acc.at >= b
    BY <1>0, <1>5, <1>9 DEF r
  <2> HIDE DEF new
  <2>3. SkippedSoFar(new, ranges, n + 1, a, b)
    BY <1>2, <1>6, <1>7, <2>1, <2>2 DEF SkippedSoFar
  <2> QED BY <2>3 DEF new, r
<1>10. CASE ~ (r[2] <= acc.at \/ r[1] >= b \/ acc.at >= b)
  <2>1. /\ new.gaps = IF r[1] > acc.at THEN Append(acc.gaps, <<acc.at, Lesser(r[1], b)>>) ELSE acc.gaps
        /\ new.at = r[2]
    BY <1>2, <1>3, <1>10 DEF SkipTo, Greater
  <2>2. Lesser(r[1], b) = r[1] /\ acc.at < r[2] /\ r[1] < b /\ acc.at < b
    BY <1>2, <1>3, <1>10 DEF Lesser
  <2> HIDE DEF new
  \* Nothing before r ends after `at', and nothing after r starts before its end.
  <2>3. ASSUME NEW x \in Int, acc.at <= x, x < r[2] PROVE Covers(ranges, x) <=> r[1] <= x
    <3>1. \A i \in 1 .. n : ~ (x < ranges[i][2])
      <4> TAKE i \in 1 .. n
      <4>1. ranges[i][2] <= acc.at \/ ranges[i][1] >= b
        BY <1>2, <1>5, <2>2
      <4>2. i \in DOMAIN ranges /\ ranges[i][1] < ranges[i][2] /\ ranges[i][2] < r[1]
        BY <1>0, <1>8 DEF Tidy
      <4> QED BY <1>1, <1>2, <1>3, <2>2, <2>3, <4>1, <4>2
    <3>2. \A i \in DOMAIN ranges : i > n + 1 => ~ (ranges[i][1] <= x)
      BY <1>1, <1>3, <1>8, <2>3
    <3>3. \A i \in DOMAIN ranges : i \in 1 .. n \/ i = n + 1 \/ i > n + 1
      BY <1>0
    <3> QED BY <1>0, <2>3, <3>1, <3>2, <3>3 DEF Covers, r
  <2>4. /\ Tidy(new.gaps) /\ new.gaps \in Seq(Pair)
        /\ \A k \in DOMAIN new.gaps : new.gaps[k][2] < r[2]
        /\ \A x \in Int : Covers(new.gaps, x) <=> a <= x /\ x < r[2] /\ x < b /\ ~ Covers(ranges, x)
    <3>1. CASE r[1] > acc.at
      <4>1. new.gaps = Append(acc.gaps, <<acc.at, r[1]>>)
        BY <2>1, <2>2, <3>1
      <4>2. Longer(new.gaps, acc.gaps, acc.at, r[1])
        BY <1>2, <1>3, <1>7, <3>1, <4>1, TidyAppend
      <4>3. \A k \in DOMAIN new.gaps : new.gaps[k][2] < r[2]
        <5> TAKE k \in DOMAIN new.gaps
        <5>1. CASE k \in DOMAIN acc.gaps /\ new.gaps[k] = acc.gaps[k]
          BY <1>2, <1>3, <1>7, <2>2, <5>1
        <5>2. CASE new.gaps[k] = <<acc.at, r[1]>>
          BY <1>3, <5>2
        <5> QED BY <4>2, <5>1, <5>2 DEF Longer
      <4>4. ASSUME NEW x \in Int
            PROVE  Covers(new.gaps, x) <=> a <= x /\ x < r[2] /\ x < b /\ ~ Covers(ranges, x)
        <5>1. Covers(new.gaps, x) <=> Covers(acc.gaps, x) \/ (acc.at <= x /\ x < r[1])
          BY <4>2 DEF Longer
        <5>2. CASE x < acc.at
          BY <1>2, <1>3, <1>6, <2>2, <5>1, <5>2
        <5>3. CASE acc.at <= x /\ x < r[2]
          BY <1>2, <1>3, <1>6, <2>2, <2>3, <5>1, <5>3
        <5>4. CASE acc.at <= x /\ ~ (x < r[2])
          BY <1>2, <1>3, <1>6, <5>1, <5>4
        <5> QED BY <1>2, <5>2, <5>3, <5>4
      <4> QED BY <4>2, <4>3, <4>4 DEF Longer
    <3>2. CASE ~ (r[1] > acc.at)
      <4>1. new.gaps = acc.gaps
        BY <2>1, <3>2
      <4>2. \A k \in DOMAIN new.gaps : new.gaps[k][2] < r[2]
        BY <1>2, <1>3, <1>7, <2>2, <4>1
      <4>3. ASSUME NEW x \in Int
            PROVE  Covers(new.gaps, x) <=> a <= x /\ x < r[2] /\ x < b /\ ~ Covers(ranges, x)
        <5>1. CASE x < acc.at
          BY <1>2, <1>3, <1>6, <2>2, <4>1, <5>1
        <5>2. CASE acc.at <= x /\ x < r[2]
          BY <1>2, <1>3, <1>6, <2>3, <3>2, <4>1, <5>2
        <5>3. CASE acc.at <= x /\ ~ (x < r[2])
          BY <1>2, <1>3, <1>6, <4>1, <5>3
        <5> QED BY <1>2, <5>1, <5>2, <5>3
      <4> QED BY <1>2, <4>1, <4>2, <4>3
    <3> QED BY <3>1, <3>2
  <2>5. \A i \in 1 .. n + 1 : ranges[i][2] <= new.at
    <3> TAKE i \in 1 .. n + 1
    <3>1. CASE i = n + 1
      BY <1>3, <2>1, <3>1 DEF r
    <3>2. CASE i \in 1 .. n
      BY <1>0, <1>1, <1>3, <1>8, <2>1, <3>2
    <3> QED BY <3>1, <3>2
  <2>6. a <= new.at
    BY <1>2, <1>3, <2>1, <2>2
  <2>7. SkippedSoFar(new, ranges, n + 1, a, b)
    BY <1>4, <2>1, <2>4, <2>5, <2>6 DEF SkippedSoFar, Skipped
  <2> QED BY <2>7 DEF new, r
<1> QED BY <1>9, <1>10

\* What is missing of a tidy list of any length is a tidy list of the bytes
\* asked for that it has not, and no other (ranges.ts:33).
THEOREM MissingIsDifference ==
  ASSUME NEW ranges \in Seq(Pair), Tidy(ranges), NEW a \in Int, NEW b \in Int
  PROVE  /\ Missing(ranges, a, b) \in Seq(Pair) /\ Tidy(Missing(ranges, a, b))
         /\ Bytes(Missing(ranges, a, b)) = (a .. b - 1) \ Bytes(ranges)
<1> DEFINE base == [gaps |-> <<>>, at |-> a]
           N == Len(ranges)
<1>1. SkippedSoFar(base, ranges, 0, a, b)
  <2>1. base \in Skipped
    BY DEF Skipped
  <2>2. base.gaps = <<>> /\ DOMAIN base.gaps = {} /\ base.at = a
    OBVIOUS
  <2> QED BY <2>1, <2>2 DEF SkippedSoFar, Tidy, Covers
<1>2. PICK f \in [0 .. N -> Skipped] : Skips(f, ranges, a, b)
  BY SkipFolds
<1> DEFINE S == {n \in 0 .. N : SkippedSoFar(f[n], ranges, n, a, b)}
<1>3. N \in Nat /\ 0 \in S
  BY <1>1, <1>2 DEF Skips
<1>4. ASSUME NEW n \in 0 .. N - 1, n \in S PROVE n + 1 \in S
  BY <1>2, <1>4, SkipOne DEF Skips
<1>5. N \in S
  <2> HIDE DEF S, N
  <2>1. N \in 0 .. N
    BY <1>3
  <2> QED BY <1>3, <1>4, <2>1, Induction
<1> DEFINE acc == f[N]
           all == Missing(ranges, a, b)
<1>6. SkippedSoFar(acc, ranges, N, a, b)
  BY <1>5
<1>7. all = IF acc.at < b THEN Append(acc.gaps, <<acc.at, b>>) ELSE acc.gaps
  BY <1>2 DEF Skips
<1> HIDE DEF acc, S, all
<1>8. acc.gaps \in Seq(Pair) /\ acc.at \in Int /\ Tidy(acc.gaps) /\ a <= acc.at
  BY <1>6 DEF SkippedSoFar, Skipped
<1>9. \A x \in Int : Covers(acc.gaps, x) <=> a <= x /\ x < acc.at /\ x < b /\ ~ Covers(ranges, x)
  BY <1>6 DEF SkippedSoFar
<1>10. /\ all \in Seq(Pair) /\ Tidy(all)
       /\ \A x \in Int : Covers(all, x) <=> a <= x /\ x < b /\ ~ Covers(ranges, x)
  <2>1. CASE acc.at < b
    <3>1. Longer(all, acc.gaps, acc.at, b)
      BY <1>6, <1>7, <1>8, <2>1, TidyAppend DEF SkippedSoFar
    <3>2. ASSUME NEW x \in Int, acc.at <= x, x < b PROVE ~ Covers(ranges, x)
      <4> SUFFICES ASSUME NEW i \in 1 .. N PROVE ~ (ranges[i][1] <= x /\ x < ranges[i][2])
        BY DEF Covers
      <4>1. ranges[i][1] \in Int /\ ranges[i][2] \in Int
        BY DEF Pair
      <4>2. ranges[i][2] <= acc.at \/ ranges[i][1] >= b
        BY <1>6, <1>8, <2>1 DEF SkippedSoFar
      <4> QED BY <1>8, <3>2, <4>1, <4>2
    <3>3. ASSUME NEW x \in Int PROVE Covers(all, x) <=> a <= x /\ x < b /\ ~ Covers(ranges, x)
      <4>1. Covers(all, x) <=> Covers(acc.gaps, x) \/ (acc.at <= x /\ x < b)
        BY <3>1 DEF Longer
      <4> QED BY <1>8, <1>9, <2>1, <3>2, <4>1
    <3> QED BY <3>1, <3>3 DEF Longer
  <2>2. CASE ~ (acc.at < b)
    BY <1>7, <1>8, <1>9, <2>2
  <2> QED BY <2>1, <2>2
<1>11. Bytes(all) = (a .. b - 1) \ Bytes(ranges)
  <2>1. \A x \in Int : x \in a .. b - 1 <=> a <= x /\ x < b
    OBVIOUS
  <2>2. Bytes(all) \subseteq Int /\ \A x \in Int : x \in Bytes(all) <=> Covers(all, x)
    BY <1>10, BytesCovered
  <2>3. Bytes(ranges) \subseteq Int /\ \A x \in Int : x \in Bytes(ranges) <=> Covers(ranges, x)
    BY BytesCovered
  <2>4. \A x \in Int : x \in Bytes(all) <=> x \in a .. b - 1 /\ x \notin Bytes(ranges)
    BY <1>10, <2>1, <2>2, <2>3
  <2> QED BY <2>2, <2>3, <2>4
<1> QED BY <1>10, <1>11 DEF all

-----------------------------------------------------------------------------
(* How many bytes there are (ranges.ts:51).                                *)

\* What total does with one range.
Plus(n, r) == n + r[2] - r[1]

\* A sum of lengths is a number.
LEMMA PlusType == ASSUME NEW n \in Int, NEW r \in Pair PROVE Plus(n, r) \in Int
BY DEF Plus, Pair

Adds(f, ranges) ==
  /\ f[0] = 0 /\ \A n \in 0 .. Len(ranges) - 1 : f[n + 1] = Plus(f[n], ranges[n + 1])
  /\ Total(ranges) = f[Len(ranges)]

\* Total adds one range at a time, in their order.
LEMMA TotalFolds ==
  ASSUME NEW ranges \in Seq(Pair)
  PROVE  \E f \in [0 .. Len(ranges) -> Int] : Adds(f, ranges)
<1> DEFINE N == Len(ranges)
           base == 0
           step == [p \in Int \X (1 .. N) |-> Plus(p[1], ranges[p[2]])]
           iter == CHOOSE iter : iter = [s \in SUBSET DOMAIN ranges |-> IF s = {} THEN base
                                  ELSE Plus(iter[s \ {Max(s)}], ranges[Max(s)])]
<1>1. Total(ranges) = iter[DOMAIN ranges]
  BY DEF Total, FoldLeft, MapThenFoldSet, Plus
<1>2. N \in Nat /\ DOMAIN ranges = 1 .. N
  OBVIOUS
<1>b. base \in Int
  OBVIOUS
<1>3. step \in [Int \X (1 .. N) -> Int]
  <2> SUFFICES ASSUME NEW p \in Int \X (1 .. N) PROVE Plus(p[1], ranges[p[2]]) \in Int
    OBVIOUS
  <2> QED BY PlusType
<1>4. PICK g \in [SUBSET (1 .. N) -> Int] : Folds(g, N, base, step)
  <2> HIDE DEF N, step, base
  <2> QED BY <1>2, <1>b, <1>3, FoldExists
<1>5. g = [s \in SUBSET DOMAIN ranges |-> IF s = {} THEN base ELSE Plus(g[s \ {Max(s)}], ranges[Max(s)])]
  <2> SUFFICES ASSUME NEW s \in SUBSET (1 .. N)
               PROVE g[s] = IF s = {} THEN base ELSE Plus(g[s \ {Max(s)}], ranges[Max(s)])
    BY <1>2
  <2>1. CASE s = {}
    BY <1>4, <2>1 DEF Folds
  <2>2. CASE s # {}
    <3>1. g[s] = step[<<g[s \ {Max(s)}], Max(s)>>]
      BY <1>4, <2>2 DEF Folds
    <3>2. Max(s) \in 1 .. N
      BY <1>2, <2>2, MaxIsGreatest
    <3>3. s \ {Max(s)} \in SUBSET (1 .. N)
      OBVIOUS
    <3>4. <<g[s \ {Max(s)}], Max(s)>> \in Int \X (1 .. N)
      BY <3>2, <3>3
    <3> QED BY <2>2, <3>1, <3>4
  <2> QED BY <2>1, <2>2
<1>6. iter = [s \in SUBSET DOMAIN ranges |-> IF s = {} THEN base ELSE Plus(iter[s \ {Max(s)}], ranges[Max(s)])]
  BY <1>5
<1> HIDE DEF iter
<1>7. iter[{}] = base
  BY <1>6
<1>8. ASSUME NEW n \in 0 .. N - 1, iter[1 .. n] \in Int
      PROVE  iter[1 .. n + 1] = step[<<iter[1 .. n], n + 1>>]
  <2>1. n \in Nat /\ n + 1 \in 1 .. N
    BY <1>2
  <2>2. Max(1 .. n + 1) = n + 1 /\ (1 .. n + 1) \ {n + 1} = 1 .. n
    BY <2>1, MaxOfFirst
  <2>3. 1 .. n + 1 # {} /\ 1 .. n + 1 \in SUBSET DOMAIN ranges
    <3>1. 1 \in 1 .. n + 1 /\ \A i \in 1 .. n + 1 : i \in 1 .. N
      BY <2>1
    <3> QED BY <1>2, <3>1
  <2>4. iter[1 .. n + 1] = Plus(iter[(1 .. n + 1) \ {Max(1 .. n + 1)}], ranges[Max(1 .. n + 1)])
    BY <1>6, <2>3
  <2> QED BY <1>8, <2>1, <2>2, <2>4
<1>9. PICK f \in [0 .. N -> Int] : Chain(f, N, base, step, iter[1 .. N])
  <2>1. Unfolds(iter, N, Int, base, step)
    BY <1>7, <1>8 DEF Unfolds
  <2> HIDE DEF N, step, base
  <2> QED BY <1>2, <1>b, <1>3, <2>1, FoldUnrolled
<1>10. \A n \in 0 .. N - 1 : f[n + 1] = Plus(f[n], ranges[n + 1])
  <2> TAKE n \in 0 .. N - 1
  <2>1. n \in 0 .. N /\ n + 1 \in 1 .. N
    BY <1>2
  <2>2. <<f[n], n + 1>> \in Int \X (1 .. N)
    BY <2>1
  <2>3. step[<<f[n], n + 1>>] = Plus(f[n], ranges[n + 1])
    BY <2>2
  <2> QED BY <1>9, <2>3 DEF Chain
<1>11. Total(ranges) = f[Len(ranges)]
  BY <1>1, <1>2, <1>9 DEF Chain
<1> QED BY <1>9, <1>10, <1>11 DEF Chain, Adds

\* How many numbers there are from one to another.
LEMMA Span ==
  ASSUME NEW a \in Int, NEW b \in Int, a <= b
  PROVE  IsFiniteSet(a .. b - 1) /\ Cardinality(a .. b - 1) = b - a
<1> DEFINE c == b - 1
<1>1. c \in Int
  OBVIOUS
<1> HIDE DEF c
<1>2. IsFiniteSet(a .. c) /\ Cardinality(a .. c) = IF a > c THEN 0 ELSE c - a + 1
  BY <1>1, FS_Interval
<1> QED BY <1>2 DEF c

\* The total of a tidy list of any length is how many bytes it has (ranges.ts:51).
THEOREM TotalIsCardinality ==
  ASSUME NEW ranges \in Seq(Pair), Tidy(ranges)
  PROVE  IsFiniteSet(Bytes(ranges)) /\ Total(ranges) = Cardinality(Bytes(ranges))
<1> DEFINE N == Len(ranges)
           Part(i) == ranges[i][1] .. ranges[i][2] - 1
           Until(n) == UNION {Part(i) : i \in 1 .. n}
<1>1. PICK f \in [0 .. N -> Int] : Adds(f, ranges)
  BY TotalFolds
<1> DEFINE S == {n \in 0 .. N : IsFiniteSet(Until(n)) /\ f[n] = Cardinality(Until(n))}
<1>2. N \in Nat /\ DOMAIN ranges = 1 .. N
  OBVIOUS
<1>3. 0 \in S
  <2>1. Until(0) = {}
    OBVIOUS
  <2>2. IsFiniteSet(Until(0)) /\ Cardinality(Until(0)) = 0
    BY <2>1, FS_EmptySet
  <2>3. f[0] = 0 /\ 0 \in 0 .. N
    BY <1>1, <1>2 DEF Adds
  <2> HIDE DEF Until
  <2> QED BY <2>2, <2>3
<1>4. ASSUME NEW n \in 0 .. N - 1, n \in S PROVE n + 1 \in S
  <2>1. n + 1 \in 0 .. N /\ n + 1 \in DOMAIN ranges /\ n \in Nat
    BY <1>2
  <2>2. ranges[n + 1][1] \in Int /\ ranges[n + 1][2] \in Int /\ ranges[n + 1][1] < ranges[n + 1][2]
    BY <2>1 DEF Pair, Tidy
  <2>3. IsFiniteSet(Part(n + 1)) /\ Cardinality(Part(n + 1)) = ranges[n + 1][2] - ranges[n + 1][1]
    <3> DEFINE lo == ranges[n + 1][1]
               hi == ranges[n + 1][2]
    <3> HIDE DEF lo, hi
    <3>1. lo \in Int /\ hi \in Int /\ lo <= hi
      BY <2>2 DEF lo, hi
    <3>2. IsFiniteSet(lo .. hi - 1) /\ Cardinality(lo .. hi - 1) = hi - lo
      BY <3>1, Span
    <3> QED BY <3>2 DEF lo, hi
  <2>4. Until(n + 1) = Until(n) \cup Part(n + 1)
    <3>1. 1 .. n + 1 = 1 .. n \cup {n + 1}
      BY <2>1
    <3> HIDE DEF Part
    <3> QED BY <3>1
  <2>5. Until(n) \cap Part(n + 1) = {}
    <3> SUFFICES ASSUME NEW i \in 1 .. n, NEW x \in Part(i), x \in Part(n + 1) PROVE FALSE
      OBVIOUS
    <3>1. i \in DOMAIN ranges /\ ranges[i][1] \in Int /\ ranges[i][2] \in Int /\ ranges[i][2] < ranges[n + 1][1]
      <4>1. i \in DOMAIN ranges /\ i < n + 1
        BY <1>2, <2>1
      <4>2. ranges[i] \in Pair /\ ranges[i][2] < ranges[n + 1][1]
        BY <2>1, <4>1 DEF Tidy
      <4> QED BY <4>1, <4>2 DEF Pair
    <3> QED BY <2>2, <3>1
  <2>6. IsFiniteSet(Until(n)) /\ f[n] = Cardinality(Until(n))
    BY <1>4
  <2> HIDE DEF Until, Part
  <2>7. /\ IsFiniteSet(Until(n + 1))
        /\ Cardinality(Until(n + 1)) = Cardinality(Until(n)) + Cardinality(Part(n + 1)) - Cardinality({})
    BY <2>3, <2>4, <2>5, <2>6, FS_Union
  <2>8. f[n] \in Int /\ f[n + 1] = f[n] + ranges[n + 1][2] - ranges[n + 1][1]
    BY <1>1, <1>2, <2>1 DEF Adds, Plus
  <2>9. f[n + 1] = Cardinality(Until(n + 1))
    BY <2>2, <2>3, <2>6, <2>7, <2>8, FS_EmptySet
  <2> QED BY <2>1, <2>7, <2>9
<1>5. N \in S
  <2> HIDE DEF S, N
  <2>1. N \in 0 .. N
    BY <1>2
  <2> QED BY <1>2, <1>3, <1>4, <2>1, Induction
<1>6. Bytes(ranges) = Until(N)
  BY <1>2 DEF Bytes, ToSet
<1> QED BY <1>1, <1>5, <1>6 DEF Adds

\* A film with less than all of its chunks lacks one of them.
LEMMA LacksSome ==
  ASSUME NEW ranges \in Seq(Pair), Tidy(ranges), NEW n \in Nat, Total(ranges) < n
  PROVE  /\ Missing(ranges, 0, n) # <<>>
         /\ Missing(ranges, 0, n)[1][1] \in (0 .. n - 1) \ Bytes(ranges)
<1> DEFINE all == Missing(ranges, 0, n)
<1>1. all \in Seq(Pair) /\ Tidy(all) /\ Bytes(all) = (0 .. n - 1) \ Bytes(ranges)
  BY MissingIsDifference
<1>2. IsFiniteSet(0 .. n - 1) /\ Cardinality(0 .. n - 1) = n
  <2>1. n \in Int /\ 0 \in Int /\ 0 <= n /\ n - 0 = n
    OBVIOUS
  <2>2. IsFiniteSet(0 .. n - 1) /\ Cardinality(0 .. n - 1) = n - 0
    BY <2>1, Span
  <2> QED BY <2>1, <2>2
<1>3. IsFiniteSet(Bytes(ranges)) /\ Total(ranges) = Cardinality(Bytes(ranges))
  BY TotalIsCardinality
<1> HIDE DEF all
<1>4. ~ (0 .. n - 1 \subseteq Bytes(ranges))
  <2> SUFFICES ASSUME 0 .. n - 1 \subseteq Bytes(ranges) PROVE FALSE
    OBVIOUS
  <2>1. Cardinality(0 .. n - 1) <= Cardinality(Bytes(ranges))
    BY <1>3, FS_Subset
  <2>2. Cardinality(Bytes(ranges)) \in Nat
    BY <1>3, FS_CardinalityType
  <2> QED BY <1>2, <1>3, <2>1, <2>2
<1>5. all # <<>>
  <2>1. Bytes(<<>>) = {}
    BY DEF Bytes, ToSet
  <2> QED BY <1>1, <1>4, <2>1
<1>6. all[1] \in Pair /\ 1 \in DOMAIN all /\ all[1][1] \in Int /\ all[1][2] \in Int /\ all[1][1] < all[1][2]
  BY <1>1, <1>5 DEF Pair, Tidy
<1>7. Covers(all, all[1][1])
  BY <1>6 DEF Covers
<1>8. all[1][1] \in Bytes(all)
  BY <1>1, <1>6, <1>7, BytesCovered
<1> QED BY <1>1, <1>5, <1>8 DEF all

-----------------------------------------------------------------------------
(* Lists of ranges of chunks of the film.                                  *)

\* The lists of the film are the tidy ones of its chunks.
LEMMA ListBytes ==
  ASSUME NEW ranges
  PROVE  ranges \in Lists <=> ranges \in Seq(Pair) /\ Tidy(ranges) /\ Bytes(ranges) \subseteq Chunk
<1>1. Size \in Nat /\ Size > 0
  BY OriginAssumption
<1>2. ASSUME ranges \in Lists PROVE ranges \in Seq(Pair) /\ Tidy(ranges) /\ Bytes(ranges) \subseteq Chunk
  <2>1. ranges \in Seq((0 .. Size) \X (0 .. Size)) /\ Tidy(ranges)
    BY <1>2 DEF Lists
  <2>2. \A i \in DOMAIN ranges : ranges[i] \in Pair /\ ranges[i][1] \in 0 .. Size /\ ranges[i][2] \in 0 .. Size
    BY <1>1, <2>1 DEF Pair
  <2>3. ranges \in Seq(Pair)
    BY <2>1, <2>2
  <2>4. Bytes(ranges) \subseteq Chunk
    <3>1. \A x \in Int : Covers(ranges, x) => x \in Chunk
      BY <1>1, <2>2 DEF Covers, Chunk
    <3> QED BY <2>3, <3>1, BytesCovered
  <2> QED BY <2>1, <2>3, <2>4
<1>3. ASSUME ranges \in Seq(Pair), Tidy(ranges), Bytes(ranges) \subseteq Chunk PROVE ranges \in Lists
  <2>1. ASSUME NEW i \in DOMAIN ranges PROVE ranges[i] \in (0 .. Size) \X (0 .. Size)
    <3>1. ranges[i] \in Pair /\ ranges[i][1] \in Int /\ ranges[i][2] \in Int /\ ranges[i][1] < ranges[i][2]
      BY <1>3, <2>1 DEF Pair, Tidy
    <3>2. Covers(ranges, ranges[i][1]) /\ Covers(ranges, ranges[i][2] - 1)
      BY <3>1 DEF Covers
    <3>3. ranges[i][1] \in Chunk /\ ranges[i][2] - 1 \in Chunk
      BY <1>3, <3>1, <3>2, BytesCovered
    <3> QED BY <1>1, <3>1, <3>3 DEF Chunk, Pair
  <2>2. ranges \in Seq((0 .. Size) \X (0 .. Size))
    BY <1>3, <2>1
  <2> QED BY <1>3, <2>2 DEF Lists
<1> QED BY <1>2, <1>3

\* Nothing is here at first.
LEMMA EmptyList == <<>> \in Lists /\ Bytes(<<>>) = {}
<1>1. <<>> \in Seq(Pair) /\ Tidy(<<>>) /\ Bytes(<<>>) = {}
  BY DEF Tidy, Bytes, ToSet
<1> QED BY <1>1, ListBytes

\* A chunk that was written is added, and no other (origin-transfer.ts:261).
LEMMA ChunkAdded ==
  ASSUME NEW ranges \in Lists, NEW c \in Chunk
  PROVE  Add(ranges, c, c + 1) \in Lists /\ Bytes(Add(ranges, c, c + 1)) = Bytes(ranges) \cup {c}
<1>1. ranges \in Seq(Pair) /\ Tidy(ranges) /\ Bytes(ranges) \subseteq Chunk
  BY ListBytes
<1>2. c \in Int /\ c + 1 \in Int /\ c < c + 1 /\ c .. (c + 1) - 1 = {c}
  BY OriginAssumption DEF Chunk
<1>3. /\ Add(ranges, c, c + 1) \in Seq(Pair) /\ Tidy(Add(ranges, c, c + 1))
      /\ Bytes(Add(ranges, c, c + 1)) = Bytes(ranges) \cup {c}
  BY <1>1, <1>2, AddIsUnion
<1> QED BY <1>1, <1>3, ListBytes

\* What is missing of the film is what is not in the list.
LEMMA ChunksLacked ==
  ASSUME NEW ranges \in Lists, NEW a \in Nat, NEW b \in Nat, b <= Size
  PROVE  Bytes(Missing(ranges, a, b)) = (a .. b - 1) \ Bytes(ranges) /\ a .. b - 1 \subseteq Chunk
<1>1. ranges \in Seq(Pair) /\ Tidy(ranges)
  BY ListBytes
<1>2. a .. b - 1 \subseteq Chunk
  BY OriginAssumption DEF Chunk
<1> QED BY <1>1, <1>2, MissingIsDifference

\* The chunk that ensure takes next is one it set out to fetch.
LEMMA LeastChunk == ASSUME NEW S \in SUBSET Chunk, S # {} PROVE Min(S) \in S /\ Min(S) \in Chunk
<1>1. S \in SUBSET Nat
  BY OriginAssumption DEF Chunk
<1> QED BY <1>1, MinIsLeast

-----------------------------------------------------------------------------
(* What holds of the jobs and of the entries they work on.                 *)

Busy(j) == jobs[j].at # "done"

\* Whoever reads the record, or opens the file, is the only one at work.
Alone(j) ==
  jobs[j].at \in {"reading", "opening"} =>
    /\ j \in CallId /\ jobs[j].kind = "receive" /\ held = 0 /\ \A i \in JobId : Busy(i) => i = j
    /\ jobs[j].at = "opening" => jobs[j].snap = disk.saved

\* A job's entry, its place among the jobs, and that it has a chunk in hand.
Placed(j) ==
  Busy(j) => /\ jobs[j].at \notin {"reading", "opening"} => jobs[j].e \in CallId
             /\ jobs[j].at \in {"fetching", "writing", "saving"} => jobs[j].todo # {}
             /\ jobs[j].at \in {"fetched", "closing"} => jobs[j].kind = "stop"
             /\ jobs[j].kind = "prefetch" <=> j \notin CallId
             /\ jobs[j].kind = "prefetch" => jobs[j].e = j - MaxCalls /\ jobs[j].from \in 0 .. 1

\* What a reader is about to get is there, or is being fetched, or the film is
\* no longer wanted.
Reading(j) ==
  Busy(j) /\ jobs[j].kind = "serve" =>
    /\ jobs[j].from \in Chunk
    /\ \/ entries[jobs[j].e].stopped \/ jobs[j].from \in Bytes(entries[jobs[j].e].ranges)
       \/ jobs[j].at \in {"fetching", "writing"} /\ jobs[j].todo = {jobs[j].from}

\* What is about to be recorded is on disk.
Snapped(j) == jobs[j].at = "saving" => Bytes(jobs[j].snap) \subseteq disk.bytes

Fine(j) == Alone(j) /\ Placed(j) /\ Reading(j) /\ Snapped(j)

\* What an entry somebody still works with has, is on disk.
InUse(e) == e = held \/ \E j \in JobId : Busy(j) /\ jobs[j].e = e
Backed(e) == InUse(e) => Bytes(entries[e].ranges) \subseteq disk.bytes

Work ==
  /\ disk \in [bytes: SUBSET Chunk, saved: Lists] /\ entries \in [CallId -> Held] /\ held \in CallId \cup {0}
  /\ jobs \in [JobId -> Job] /\ \A e \in CallId : entries[e].fetching = "yes" <=> jobs[MaxCalls + e].at # "done"
  /\ (\A j \in JobId : Fine(j)) /\ (\A e \in CallId : Backed(e)) /\ SavedIsOnDisk

\* A player that was given the stream has read no hole, nor is given the file.
Play ==
  /\ calls \in 0 .. MaxCalls /\ player \in [stream: BOOLEAN, has: {"nothing", "url", "path"}, hole: BOOLEAN]
  /\ PlaysNoHoles /\ (player.stream => player.has # "path")

IInv == Work /\ Play

\* The invariant gives the types.
LEMMA Typed == IInv => TypeOK
BY DEF IInv, Work, Play, TypeOK

-----------------------------------------------------------------------------
\* What ensure makes of a job between two chunks.
Looped(new, job, stopped) ==
  /\ new \in Job /\ new.kind = job.kind /\ new.e = job.e /\ new.from = job.from /\ new.snap = job.snap
  /\ \/ (stopped \/ job.todo = {}) /\ new.at = "ensured"
     \/ ~stopped /\ job.todo # {} /\ new.at = "fetching" /\ new.todo = job.todo

\* ensure goes on to the next chunk, or is through.
LEMMA LoopLoops == ASSUME NEW job \in Job, NEW stopped \in BOOLEAN PROVE Looped(Loop(job, stopped), job, stopped)
<1>1. CASE job.todo = {} \/ stopped
  <2>1. Loop(job, stopped) = [job EXCEPT !.at = "ensured", !.todo = {}]
    BY <1>1 DEF Loop
  <2> QED BY <1>1, <2>1 DEF Looped, Job
<1>2. CASE ~ (job.todo = {} \/ stopped)
  <2>1. Loop(job, stopped) = [job EXCEPT !.at = "fetching", !.tries = 0]
    BY <1>2 DEF Loop
  <2>0. 0 \in 0 .. 1 /\ "fetching" \in Waiting \cup {"ensured", "done"}
    BY DEF Waiting
  <2>2. /\ Loop(job, stopped) \in Job /\ Loop(job, stopped).kind = job.kind /\ Loop(job, stopped).e = job.e
        /\ Loop(job, stopped).from = job.from /\ Loop(job, stopped).snap = job.snap
        /\ Loop(job, stopped).at = "fetching" /\ Loop(job, stopped).todo = job.todo
    BY <2>0, <2>1 DEF Job
  <2> QED BY <1>2, <2>2 DEF Looped
<1> QED BY <1>1, <1>2

\* A step that leaves most jobs alone, and takes nothing away from an entry
\* somebody works with.
LEMMA Frame ==
  ASSUME Work,
         \A i \in JobId : \/ jobs'[i] = jobs[i] /\ jobs[i].at \notin {"reading", "opening"}
                          \/ Fine(i)',
         \A e \in CallId : InUse(e)' => InUse(e),
         \A e \in CallId : InUse(e) => /\ Bytes(entries[e].ranges) \subseteq Bytes(entries'[e].ranges)
                                       /\ Bytes(entries'[e].ranges) \subseteq disk'.bytes
                                       /\ entries[e].stopped => entries'[e].stopped,
         disk.bytes \subseteq disk'.bytes
  PROVE  (\A j \in JobId : Fine(j)') /\ (\A e \in CallId : Backed(e)')
<1>1. ASSUME NEW j \in JobId, jobs'[j] = jobs[j], jobs[j].at \notin {"reading", "opening"} PROVE Fine(j)'
  <2>1. Placed(j) /\ Reading(j) /\ Snapped(j)
    BY DEF Work, Fine
  <2>2. Alone(j)' /\ Placed(j)'
    BY <1>1, <2>1 DEF Alone, Placed, Busy
  <2>3. Snapped(j)'
    BY <1>1, <2>1 DEF Snapped
  <2>4. Reading(j)'
    <3> SUFFICES ASSUME Busy(j), jobs[j].kind = "serve" PROVE Reading(j)'
      BY <1>1 DEF Reading, Busy
    <3>1. jobs[j].e \in CallId
      BY <1>1, <2>1 DEF Placed
    <3>2. InUse(jobs[j].e)
      BY DEF InUse
    <3> QED BY <1>1, <2>1, <3>1, <3>2 DEF Reading, Busy
  <2> QED BY <2>2, <2>3, <2>4 DEF Fine
<1>2. \A e \in CallId : Backed(e)'
  BY DEF Backed
<1> QED BY <1>1, <1>2

\* Nobody reads the record or opens the file while somebody else is at work.
LEMMA NoReader ==
  ASSUME Work, \/ held # 0 
               \/ \E j \in JobId : Busy(j) /\ jobs[j].at \notin {"reading", "opening"}
  PROVE  \A i \in JobId : jobs[i].at \notin {"reading", "opening"}
BY DEF Work, Fine, Alone, Busy

\* One job moves on; entries keep their ranges, and the file its bytes.
LEMMA OneJob ==
  ASSUME Work, NEW j \in JobId, NEW new \in Job, jobs' = [jobs EXCEPT ![j] = new],
         \A i \in JobId : i # j => jobs[i].at \notin {"reading", "opening"},
         disk' \in [bytes: {disk.bytes}, saved: Lists], SavedIsOnDisk',
         entries' \in [CallId -> Held], held' \in {held, 0},
         \A e \in CallId : /\ entries'[e].ranges = entries[e].ranges
                           /\ entries[e].stopped => entries'[e].stopped
                           /\ entries'[e].fetching = "yes" <=> jobs'[MaxCalls + e].at # "done",
         new.at # "done" => InUse(new.e) \/ new.e = 0,
         Fine(j)'
  PROVE  Work'
<1>1. jobs' \in [JobId -> Job] /\ jobs'[j] = new /\ \A i \in JobId : i # j => jobs'[i] = jobs[i]
  BY DEF Work
<1>2. disk'.bytes = disk.bytes /\ disk' \in [bytes: SUBSET Chunk, saved: Lists]
  BY DEF Work
<1>3. \A e \in CallId : InUse(e)' => InUse(e)
  <2> SUFFICES ASSUME NEW e \in CallId, e # held', NEW i \in JobId, jobs'[i].at # "done", jobs'[i].e = e
               PROVE  InUse(e)
    BY OriginAssumption DEF InUse, Busy, CallId
  <2>1. CASE i = j
    BY <1>1, <2>1, OriginAssumption DEF CallId
  <2>2. CASE i # j
    BY <1>1, <2>2 DEF InUse, Busy
  <2> QED BY <2>1, <2>2
<1>4. \A i \in JobId : (jobs'[i] = jobs[i] /\ jobs[i].at \notin {"reading", "opening"}) \/ Fine(i)'
  BY <1>1
<1>5. \A e \in CallId : InUse(e) => /\ Bytes(entries[e].ranges) \subseteq Bytes(entries'[e].ranges)
                                    /\ Bytes(entries'[e].ranges) \subseteq disk'.bytes
                                    /\ entries[e].stopped => entries'[e].stopped
  BY <1>2 DEF Work, Backed
<1>6. (\A i \in JobId : Fine(i)') /\ (\A e \in CallId : Backed(e)')
  BY <1>2, <1>3, <1>4, <1>5, Frame
<1>7. held' \in CallId \cup {0}
  BY DEF Work
<1> QED BY <1>1, <1>2, <1>6, <1>7 DEF Work

-----------------------------------------------------------------------------
(* The actions of the relay transport.                                     *)

\* The jobs of calls, and those of prefetches.
LEMMA Jobs ==
  /\ Idle \in Job /\ Idle.at = "done" /\ Idle.kind = "receive" /\ Idle.e = 0 /\ Idle.from = 0
  /\ CallId \subseteq JobId /\ MaxCalls \in Nat /\ 0 \notin CallId
  /\ \A e \in CallId : MaxCalls + e \in JobId /\ MaxCalls + e \notin CallId
  /\ \A j \in JobId : j \notin CallId => j - MaxCalls \in CallId /\ MaxCalls + (j - MaxCalls) = j
<1>1. MaxCalls \in Nat /\ 0 \in 0 .. Size /\ 0 \in 0 .. 1
  BY OriginAssumption
<1>2. Idle \in Job
  BY <1>1, EmptyList DEF Idle, Job, Kind
<1>3. \A j \in JobId : j \notin CallId => j - MaxCalls \in CallId /\ MaxCalls + (j - MaxCalls) = j
  BY <1>1 DEF JobId, CallId
<1>4. CallId \subseteq JobId /\ 0 \notin CallId /\ \A e \in CallId : MaxCalls + e \in JobId /\ MaxCalls + e \notin CallId
  BY <1>1 DEF JobId, CallId
<1> QED BY <1>1, <1>2, <1>3, <1>4 DEF Idle

\* The prefetch of every entry runs, or does not, as before.
LEMMA FetchingKept ==
  ASSUME Work, NEW j \in JobId, NEW new, jobs' = [jobs EXCEPT ![j] = new],
         j \in CallId \/ (Busy(j) /\ new.at # "done"),
         \A e \in CallId : entries'[e].fetching = entries[e].fetching
  PROVE  \A e \in CallId : entries'[e].fetching = "yes" <=> jobs'[MaxCalls + e].at # "done"
<1> TAKE e \in CallId
<1>1. MaxCalls + e \in JobId /\ MaxCalls + e \notin CallId
  BY Jobs
<1>2. CASE MaxCalls + e = j
  BY <1>1, <1>2 DEF Work, Busy
<1>3. CASE MaxCalls + e # j
  BY <1>1, <1>3 DEF Work
<1> QED BY <1>2, <1>3

\* A job that is over.
LEMMA Over == ASSUME NEW j, jobs'[j].at = "done" PROVE Fine(j)'
BY DEF Fine, Alone, Placed, Reading, Snapped, Busy

\* A job moves on, and nothing else changes but what the player has.
LEMMA JobOnly ==
  ASSUME Work, NEW j \in JobId, NEW new \in Job, jobs' = [jobs EXCEPT ![j] = new],
         \A i \in JobId : i # j => jobs[i].at \notin {"reading", "opening"},
         j \in CallId \/ (Busy(j) /\ new.at # "done"),
         new.at # "done" => InUse(new.e) \/ new.e = 0,
         UNCHANGED <<disk, entries, held>>, Fine(j)'
  PROVE  Work'
<1>1. disk' \in [bytes: {disk.bytes}, saved: Lists] /\ SavedIsOnDisk'
  BY DEF Work, SavedIsOnDisk
<1>2. entries' \in [CallId -> Held] /\ held' \in {held, 0}
  BY DEF Work
<1>3. \A e \in CallId : entries'[e].fetching = "yes" <=> jobs'[MaxCalls + e].at # "done"
  BY FetchingKept
<1> QED BY <1>1, <1>2, <1>3, OneJob

\* receive: another call has the film already, or this one reads the record.
LEMMA Received == ASSUME Work, Play, Receive PROVE Work'
<1>0. calls + 1 \in CallId
  BY Jobs DEF Play, Receive, Call, CallId
<1>1. PICK j \in CallId : j = calls + 1
  BY <1>0
<1>2. CASE held # 0 /\ Call(Idle)
  <2>1. jobs' = [jobs EXCEPT ![j] = Idle]
    BY <1>1, <1>2 DEF Call
  <2>2. jobs'[j].at = "done"
    BY <1>1, <2>1, Jobs DEF Work
  <2> QED BY <1>1, <1>2, <2>1, <2>2, Jobs, Over, NoReader, JobOnly DEF Receive
<1>3. CASE held = 0 /\ Call([Idle EXCEPT !.at = "reading"]) /\ \A i \in JobId : jobs[i].at = "done"
  <2> DEFINE new == [Idle EXCEPT !.at = "reading"]
  <2>1. jobs' = [jobs EXCEPT ![j] = new]
    BY <1>1, <1>3 DEF Call
  <2>2. new \in Job /\ new.at = "reading" /\ new.kind = "receive" /\ new.e = 0
    BY Jobs DEF Job, Waiting
  <2> HIDE DEF new
  <2>3. jobs'[j] = new /\ \A i \in JobId : i # j => jobs'[i].at = "done"
    BY <1>1, <1>3, <2>1, Jobs DEF Work
  <2>4. UNCHANGED <<disk, entries, held>>
    BY DEF Receive
  <2>5. Fine(j)'
    BY <1>1, <1>3, <2>2, <2>3, <2>4 DEF Fine, Alone, Placed, Reading, Snapped, Busy
  <2>6. \A i \in JobId : i # j => jobs[i].at \notin {"reading", "opening"}
    BY <1>3
  <2> QED BY Jobs, <1>1, <2>1, <2>2, <2>4, <2>5, <2>6, JobOnly
<1> QED BY <1>2, <1>3 DEF Receive

\* No room on the disk.
LEMMA Refused == ASSUME Work, NEW j \in JobId, Refuse(j) PROVE Work'
<1>1. j \in CallId /\ \A i \in JobId : i # j => jobs[i].at = "done"
  BY DEF Refuse, Work, Fine, Alone, Busy
<1>2. jobs' = [jobs EXCEPT ![j] = Idle] /\ jobs'[j].at = "done"
  BY Jobs DEF Refuse, Go, Work
<1> QED BY <1>1, <1>2, Jobs, Over, JobOnly DEF Refuse

\* What was recorded, to be resumed from, is still what the record says.
LEMMA Loaded == ASSUME Work, NEW j \in JobId, LoadRanges(j) PROVE Work'
<1> DEFINE new == [jobs[j] EXCEPT !.at = "opening", !.snap = disk.saved]
<1>1. j \in CallId /\ jobs[j].kind = "receive" /\ held = 0 /\ \A i \in JobId : i # j => jobs[i].at = "done"
  BY DEF LoadRanges, Work, Fine, Alone, Busy
<1>2. jobs' = [jobs EXCEPT ![j] = new]
  BY DEF LoadRanges, Go
<1>3. new \in Job /\ new.at = "opening" /\ new.kind = "receive" /\ new.e = jobs[j].e /\ new.snap = disk.saved
  BY <1>1 DEF Work, Job, Waiting
<1> HIDE DEF new
<1>4. jobs'[j] = new /\ \A i \in JobId : i # j => jobs'[i].at = "done"
  BY <1>1, <1>2 DEF Work
<1>5. Fine(j)'
  BY <1>1, <1>3, <1>4 DEF LoadRanges, Fine, Alone, Placed, Reading, Snapped, Busy
<1>6. InUse(new.e) \/ new.e = 0
  BY <1>3 DEF InUse, Busy, LoadRanges
<1> QED BY <1>1, <1>2, <1>3, <1>5, <1>6, JobOnly DEF LoadRanges

\* A chunk has arrived.
LEMMA ArrivedWork == ASSUME Work, NEW j \in JobId, Arrives(j) PROVE Work'
<1> DEFINE new == IF Own(j).stopped THEN Loop(jobs[j], TRUE) ELSE [jobs[j] EXCEPT !.at = "writing"]
<1>1. jobs[j].at = "fetching" /\ jobs' = [jobs EXCEPT ![j] = new] /\ UNCHANGED <<disk, entries, held>>
  BY DEF Arrives, Go
<1>2. /\ jobs[j] \in Job /\ jobs[j].e \in CallId /\ jobs[j].todo # {}
      /\ Placed(j) /\ Reading(j)
  BY <1>1 DEF Work, Fine, Placed, Busy
<1>3. /\ new \in Job /\ new.kind = jobs[j].kind /\ new.e = jobs[j].e /\ new.from = jobs[j].from
      /\ \/ new.at = "ensured" /\ Own(j).stopped
         \/ new.at = "writing" /\ new.todo = jobs[j].todo
  <2>1. CASE Own(j).stopped
    BY <1>2, <2>1, LoopLoops DEF Looped
  <2>2. CASE ~ Own(j).stopped
    BY <1>2, <2>2 DEF Job, Waiting
  <2> QED BY <2>1, <2>2
<1> HIDE DEF new
<1>4. \A i \in JobId : jobs[i].at \notin {"reading", "opening"}
  BY <1>1, NoReader DEF Busy
<1>5. Busy(j) /\ InUse(new.e)
  BY <1>1, <1>3 DEF InUse, Busy
<1>6. jobs'[j] = new
  BY <1>1 DEF Work
<1>7. Fine(j)'
  <2>1. Alone(j)' /\ Snapped(j)'
    BY <1>3, <1>6 DEF Alone, Snapped
  <2>2. Placed(j)'
    BY <1>1, <1>2, <1>3, <1>6 DEF Placed, Busy
  <2>3. Reading(j)'
    BY <1>1, <1>2, <1>3, <1>6 DEF Reading, Busy, Own
  <2> QED BY <2>1, <2>2, <2>3 DEF Fine
<1> QED BY <1>1, <1>3, <1>4, <1>5, <1>7, JobOnly

\* The record is written, and may be spoilt by another that is.
LEMMA SavedWork == ASSUME Work, NEW j \in JobId, Saved(j) PROVE Work'
<1> DEFINE next == [jobs[j] EXCEPT !.todo = @ \ {Min(@)}, !.snap = <<>>]
           new == Loop(next, Own(j).stopped)
<1>1. jobs[j].at = "saving" /\ jobs' = [jobs EXCEPT ![j] = new] /\ UNCHANGED <<entries, held>>
  BY DEF Saved, Go
<1>2. /\ jobs[j] \in Job /\ jobs[j].e \in CallId /\ entries[jobs[j].e] \in Held
      /\ Placed(j) /\ Reading(j) /\ Snapped(j)
  BY <1>1 DEF Work, Fine, Placed, Busy
<1>3. next \in Job /\ next.kind = jobs[j].kind /\ next.e = jobs[j].e /\ next.from = jobs[j].from
  BY <1>2, EmptyList DEF Job
<1>4. Looped(new, next, Own(j).stopped)
  BY <1>2, <1>3, LoopLoops DEF Own, Held
<1> HIDE DEF next, new
<1>5. \A i \in JobId : jobs[i].at \notin {"reading", "opening"}
  BY <1>1, NoReader DEF Busy
<1>6. Busy(j) /\ InUse(new.e) /\ new.at # "done"
  BY <1>1, <1>3, <1>4 DEF InUse, Busy, Looped
<1>7. jobs'[j] = new
  BY <1>1 DEF Work
<1>8. disk' \in [bytes: {disk.bytes}, saved: Lists] /\ SavedIsOnDisk'
  <2>1. PICK saved \in {jobs[j].snap, <<>>} : disk' = [disk EXCEPT !.saved = saved]
    BY DEF Saved
  <2>2. saved \in Lists /\ Bytes(saved) \subseteq disk.bytes
    BY <1>1, <1>2, <2>1, EmptyList DEF Job, Snapped
  <2> QED BY <2>1, <2>2 DEF Work, SavedIsOnDisk
<1>9. Fine(j)'
  <2>1. Alone(j)' /\ Snapped(j)'
    BY <1>4, <1>7 DEF Alone, Snapped, Looped
  <2>2. Placed(j)'
    BY <1>1, <1>2, <1>3, <1>4, <1>7 DEF Placed, Busy, Looped
  <2>3. Reading(j)'
    BY <1>1, <1>2, <1>3, <1>4, <1>7 DEF Reading, Busy, Looped
  <2> QED BY <2>1, <2>2, <2>3 DEF Fine
<1>10. entries' \in [CallId -> Held] /\ held' \in {held, 0}
  BY <1>1 DEF Work
<1>11. \A e \in CallId : entries'[e].fetching = "yes" <=> jobs'[MaxCalls + e].at # "done"
  BY <1>1, <1>6, FetchingKept
<1>12. new \in Job
  BY <1>4 DEF Looped
<1> QED BY <1>1, <1>5, <1>6, <1>8, <1>9, <1>10, <1>11, <1>12, OneJob

\* The entry of a job in the middle of a call that fails, or ends.
LEMMA EndsWork ==
  ASSUME Work, NEW j \in JobId, Busy(j), jobs[j].at \notin {"reading", "opening"}, jobs' = [jobs EXCEPT ![j] = Idle],
         UNCHANGED disk, held' \in {held, 0}, NEW f \in {"no", "over"}, entries' \in [CallId -> Held],
         \A i \in CallId : /\ entries'[i].ranges = entries[i].ranges
                           /\ entries'[i].stopped = entries[i].stopped
                           /\ entries'[i].fetching = IF i = jobs[j].e /\ jobs[j].kind = "prefetch" THEN f
                                                     ELSE entries[i].fetching
  PROVE  Work'
<1> DEFINE e == jobs[j].e
<1>1. e \in CallId /\ Placed(j) /\ entries[e] \in Held
  BY DEF Work, Fine, Placed, Busy
<1>4. jobs'[j].at = "done" /\ \A i \in JobId : i # j => jobs'[i] = jobs[i]
  BY Jobs DEF Work
<1>5. \A i \in CallId : entries'[i].fetching = "yes" <=> jobs'[MaxCalls + i].at # "done"
  <2> TAKE i \in CallId
  <2>1. MaxCalls + i \in JobId /\ MaxCalls + i \notin CallId
    BY Jobs
  <2>2. CASE MaxCalls + i = j
    <3>1. jobs[j].kind = "prefetch" /\ e = j - MaxCalls /\ MaxCalls \in Nat
      BY <1>1, <2>1, <2>2, Jobs DEF Placed
    <3>2. i = e
      BY <2>2, <3>1, Jobs DEF CallId
    <3> QED BY <1>4, <2>2, <3>1, <3>2
  <2>3. CASE MaxCalls + i # j
    <3>1. ~ (i = e /\ jobs[j].kind = "prefetch")
      BY <1>1, <2>3, Jobs DEF Placed
    <3> QED BY <1>4, <2>1, <2>3, <3>1 DEF Work
  <2> QED BY <2>2, <2>3
<1>6. disk' \in [bytes: {disk.bytes}, saved: Lists] /\ SavedIsOnDisk'
  BY DEF Work, SavedIsOnDisk
<1>7. \A i \in JobId : jobs[i].at \notin {"reading", "opening"}
  BY NoReader
<1> QED BY <1>4, <1>5, <1>6, <1>7, Jobs, Over, OneJob

-----------------------------------------------------------------------------
\* What ensure sets out to fetch.
\* The chunks of a stretch that ensure sets out to fetch.
LEMMA Lacking ==
  ASSUME NEW entry \in Held, NEW a \in Nat, NEW b \in Nat
  PROVE  Lacks(entry, a, b) = (a .. Lesser(b, Size) - 1) \ Bytes(entry.ranges) /\ Lacks(entry, a, b) \subseteq Chunk
<1>1. Lesser(b, Size) \in Nat /\ Lesser(b, Size) <= Size /\ entry.ranges \in Lists
  BY OriginAssumption DEF Lesser, Held
<1> QED BY <1>1, ChunksLacked DEF Lacks

\* Of one chunk: that one, unless it is here.
LEMMA OneLacked ==
  ASSUME NEW entry \in Held, NEW c \in Chunk
  PROVE  Lacks(entry, c, c + 1) = {c} \ Bytes(entry.ranges) /\ Lacks(entry, c, c + 1) \subseteq Chunk
<1>1. c \in Nat /\ c + 1 \in Nat /\ Lesser(c + 1, Size) = c + 1 /\ c .. (c + 1) - 1 = {c}
  BY OriginAssumption DEF Chunk, Lesser
<1> QED BY <1>1, Lacking

\* The window of the prefetch is within the film.
LEMMA WindowLacking == ASSUME NEW entry \in Held PROVE Window(entry) \subseteq Chunk
<1>1. CASE entry.aim = -1
  BY <1>1, OriginAssumption, Lacking DEF Window
<1>2. CASE entry.aim # -1
  <2>1. entry.aim \in Nat /\ entry.aim + Ahead \in Nat
    BY <1>2, OriginAssumption DEF Held, Chunk
  <2> QED BY <1>2, <2>1, Lacking DEF Window
<1> QED BY <1>1, <1>2

\* A chunk could not be fetched: again, or the call is over.
LEMMA FailsWork == ASSUME Work, NEW j \in JobId, Fails(j) PROVE Work'
<1>1. jobs[j].at = "fetching" /\ UNCHANGED <<disk, held>>
  BY DEF Fails
<1>2. jobs[j] \in Job /\ jobs[j].e \in CallId /\ Fine(j) /\ Busy(j)
  BY <1>1 DEF Work, Fine, Placed, Busy
<1>3. \A i \in JobId : jobs[i].at \notin {"reading", "opening"}
  BY <1>1, <1>2, NoReader
<1>4. CASE Go(j, [jobs[j] EXCEPT !.tries = 1]) /\ UNCHANGED entries
  <2> DEFINE new == [jobs[j] EXCEPT !.tries = 1]
  <2>1. jobs' = [jobs EXCEPT ![j] = new]
    BY <1>4 DEF Go
  <2>2. /\ new \in Job /\ new.kind = jobs[j].kind /\ new.e = jobs[j].e /\ new.from = jobs[j].from
        /\ new.at = "fetching" /\ new.todo = jobs[j].todo
    BY <1>1, <1>2 DEF Job
  <2> HIDE DEF new
  <2>3. jobs'[j] = new
    BY <2>1 DEF Work
  <2>4. Fine(j)'
    <3>1. Alone(j)' /\ Snapped(j)' /\ Placed(j)'
      BY <1>1, <1>2, <2>2, <2>3 DEF Fine, Alone, Snapped, Placed, Busy
    <3>2. Reading(j)'
      BY <1>1, <1>2, <1>4, <2>2, <2>3 DEF Fine, Reading, Busy
    <3> QED BY <3>1, <3>2 DEF Fine
  <2>5. InUse(new.e)
    BY <1>2, <2>2 DEF InUse
  <2> QED BY <1>1, <1>2, <1>3, <1>4, <2>1, <2>2, <2>4, <2>5, JobOnly
<1>5. CASE /\ Go(j, Idle)
           /\ entries' = [entries EXCEPT ![jobs[j].e].fetching = IF jobs[j].kind = "prefetch" THEN "no" ELSE @]
  <2>1. entries' \in [CallId -> Held]
    BY <1>2, <1>5 DEF Work, Held
  <2>2. \A i \in CallId : /\ entries'[i].ranges = entries[i].ranges
                          /\ entries'[i].stopped = entries[i].stopped
                          /\ entries'[i].fetching = IF i = jobs[j].e /\ jobs[j].kind = "prefetch" THEN "no"
                                                    ELSE entries[i].fetching
    BY <1>2, <1>5 DEF Work, Held
  <2> QED BY <1>1, <1>2, <1>3, <1>5, <2>1, <2>2, EndsWork DEF Go
<1> QED BY <1>4, <1>5 DEF Fails

\* A prefetch of an entry in use begins.
LEMMA PrefetchBegins ==
  ASSUME Work, NEW e \in CallId, InUse(e), \A i \in JobId : jobs[i].at \notin {"reading", "opening"},
         NEW todo \in SUBSET Chunk, UNCHANGED <<disk, held>>, entries' \in [CallId -> Held],
         \A i \in CallId : /\ entries'[i].ranges = entries[i].ranges
                           /\ entries'[i].stopped = entries[i].stopped
                           /\ entries'[i].fetching = IF i = e THEN "yes" ELSE entries[i].fetching,
         jobs' \in [JobId -> Job],
         jobs'[MaxCalls + e] = Loop([Idle EXCEPT !.kind = "prefetch", !.e = e, !.todo = todo], FALSE),
         \A i \in JobId : i # MaxCalls + e => jobs'[i] = jobs[i] \/ (i \in CallId /\ jobs'[i].at = "done")
  PROVE  Work'
<1> DEFINE first == [Idle EXCEPT !.kind = "prefetch", !.e = e, !.todo = todo]
           j == MaxCalls + e
           new == Loop(first, FALSE)
<1>1. j \in JobId /\ j \notin CallId /\ j - MaxCalls = e
  BY Jobs DEF CallId
<1>2. first \in Job /\ first.kind = "prefetch" /\ first.e = e /\ first.from = 0 /\ first.todo = todo
  BY Jobs DEF Job, Kind
<1>3. Looped(new, first, FALSE)
  BY <1>2, LoopLoops
<1>4. jobs'[j] = new
  OBVIOUS
<1> HIDE DEF first, new, j
<1>5. Fine(j)'
  <2>1. 0 \in 0 .. 1
    OBVIOUS
  <2>2. Alone(j)' /\ Snapped(j)' /\ Reading(j)'
    BY <1>2, <1>3, <1>4 DEF Looped, Alone, Snapped, Reading
  <2>3. Placed(j)'
    BY <1>1, <1>2, <1>3, <1>4, <2>1 DEF Looped, Placed
  <2> QED BY <2>2, <2>3 DEF Fine
<1>6. \A i \in JobId : (jobs'[i] = jobs[i] /\ jobs[i].at \notin {"reading", "opening"}) \/ Fine(i)'
  BY <1>5, Over DEF j
<1>7. \A i \in CallId : InUse(i)' => InUse(i)
  <2> SUFFICES ASSUME NEW i \in CallId, i # held, NEW k \in JobId, jobs'[k].at # "done", jobs'[k].e = i
               PROVE  InUse(i)
    BY DEF InUse, Busy
  <2>1. CASE k = j
    BY <1>2, <1>3, <1>4, <2>1 DEF Looped
  <2>2. CASE k # j
    BY <2>2 DEF InUse, Busy, j
  <2> QED BY <2>1, <2>2
<1>8. \A i \in CallId : InUse(i) => /\ Bytes(entries[i].ranges) \subseteq Bytes(entries'[i].ranges)
                                    /\ Bytes(entries'[i].ranges) \subseteq disk'.bytes
                                    /\ entries[i].stopped => entries'[i].stopped
  BY DEF Work, Backed
<1>9. (\A i \in JobId : Fine(i)') /\ (\A i \in CallId : Backed(i)')
  BY <1>6, <1>7, <1>8, Frame
<1>10. \A i \in CallId : entries'[i].fetching = "yes" <=> jobs'[MaxCalls + i].at # "done"
  <2> TAKE i \in CallId
  <2>1. MaxCalls + i \in JobId /\ MaxCalls + i \notin CallId
    BY Jobs
  <2>2. CASE i = e
    BY <1>3, <1>4, <2>2 DEF Looped, j
  <2>3. CASE i # e
    <3>1. MaxCalls + i # MaxCalls + e
      BY <2>3, Jobs DEF CallId
    <3> QED BY <2>1, <2>3, <3>1 DEF Work
  <2> QED BY <2>2, <2>3
<1>11. SavedIsOnDisk'
  BY DEF Work, SavedIsOnDisk
<1> QED BY <1>9, <1>10, <1>11 DEF Work

\* The jobs go on as they were, and what is in the entries stays.
LEMMA JobsStay ==
  ASSUME Work, UNCHANGED <<disk, jobs, held>>, \A i \in JobId : jobs[i].at \notin {"reading", "opening"},
         entries' \in [CallId -> Held],
         \A i \in CallId : /\ entries'[i].ranges = entries[i].ranges
                           /\ entries'[i].stopped = entries[i].stopped
                           /\ entries'[i].fetching = "yes" <=> entries[i].fetching = "yes"
  PROVE  Work'
<1>1. \A i \in CallId : InUse(i)' => InUse(i)
  BY DEF InUse, Busy
<1>2. \A i \in CallId : InUse(i) => /\ Bytes(entries[i].ranges) \subseteq Bytes(entries'[i].ranges)
                                    /\ Bytes(entries'[i].ranges) \subseteq disk'.bytes
                                    /\ entries[i].stopped => entries'[i].stopped
  BY DEF Work, Backed
<1>3. (\A i \in JobId : Fine(i)') /\ (\A i \in CallId : Backed(i)')
  BY <1>1, <1>2, Frame
<1> QED BY <1>3 DEF Work, SavedIsOnDisk

\* receive resolves, and the prefetch begins.
LEMMA HeadWork == ASSUME Work, NEW j \in JobId, HeadEnsured(j) PROVE Work'
<1> DEFINE e == jobs[j].e
           old == [jobs EXCEPT ![j] = Idle]
<1>1. jobs[j].at = "ensured" /\ jobs[j].kind = "receive" /\ Prefetch(e, old) /\ UNCHANGED <<disk, held>>
  BY DEF HeadEnsured, Ensured
<1>2. e \in CallId /\ Busy(j) /\ j \in CallId /\ InUse(e) /\ entries[e] \in Held
  BY <1>1 DEF Work, Fine, Placed, Busy, InUse
<1>3. \A i \in JobId : jobs[i].at \notin {"reading", "opening"}
  BY <1>1, <1>2, NoReader
<1>4. old \in [JobId -> Job] /\ old[j].at = "done" /\ \A i \in JobId : i # j => old[i] = jobs[i]
  BY Jobs DEF Work
<1>5. CASE entries[e].fetching # "no"
  <2>1. jobs' = old /\ UNCHANGED entries
    BY <1>1, <1>5 DEF Prefetch
  <2> QED BY <1>1, <1>2, <1>3, <1>4, <2>1, Jobs, Over, JobOnly
<1>6. CASE entries[e].fetching = "no" /\ (entries[e].stopped \/ Complete(entries[e]))
  <2>1. jobs' = old /\ entries' = [entries EXCEPT ![e].fetching = "over"]
    BY <1>1, <1>6 DEF Prefetch
  <2>2. entries' \in [CallId -> Held]
    BY <1>2, <2>1 DEF Work, Held
  <2>3. \A i \in CallId : /\ entries'[i].ranges = entries[i].ranges
                          /\ entries'[i].stopped = entries[i].stopped
                          /\ entries'[i].fetching = "yes" <=> entries[i].fetching = "yes"
    BY <1>2, <1>6, <2>1 DEF Work, Held
  <2>4. \A i \in CallId : entries'[i].fetching = "yes" <=> jobs'[MaxCalls + i].at # "done"
    BY <1>2, <1>4, <2>1, <2>3, Jobs DEF Work
  <2>5. disk' \in [bytes: {disk.bytes}, saved: Lists] /\ SavedIsOnDisk' /\ held' \in {held, 0}
    BY <1>1 DEF Work, SavedIsOnDisk
  <2>6. Fine(j)' /\ jobs' = [jobs EXCEPT ![j] = Idle]
    BY <1>4, <2>1, Over
  <2> QED BY <1>3, <2>2, <2>3, <2>4, <2>5, <2>6, Jobs, OneJob
<1>7. CASE entries[e].fetching = "no" /\ ~ (entries[e].stopped \/ Complete(entries[e]))
  <2> DEFINE todo == Window(entries[e])
  <2>1. /\ entries' = [entries EXCEPT ![e].fetching = "yes"]
        /\ jobs' = [old EXCEPT ![MaxCalls + e] = Loop([Idle EXCEPT !.kind = "prefetch", !.e = e, !.todo = todo], FALSE)]
    BY <1>1, <1>7 DEF Prefetch
  <2>2. todo \in SUBSET Chunk
    BY <1>2, WindowLacking
  <2> HIDE DEF todo, old
  <2>3. [Idle EXCEPT !.kind = "prefetch", !.e = e, !.todo = todo] \in Job
    BY <1>2, <2>2, Jobs DEF Job, Kind
  <2>4. Loop([Idle EXCEPT !.kind = "prefetch", !.e = e, !.todo = todo], FALSE) \in Job
    BY <2>3, LoopLoops DEF Looped
  <2>5. MaxCalls + e \in JobId
    BY <1>2, Jobs
  <2>6. /\ jobs' \in [JobId -> Job]
        /\ jobs'[MaxCalls + e] = Loop([Idle EXCEPT !.kind = "prefetch", !.e = e, !.todo = todo], FALSE)
        /\ \A i \in JobId : i # MaxCalls + e => jobs'[i] = old[i]
    BY <1>4, <2>1, <2>4, <2>5
  <2>7. \A i \in JobId : i # MaxCalls + e => jobs'[i] = jobs[i] \/ (i \in CallId /\ jobs'[i].at = "done")
    BY <1>2, <1>4, <2>6
  <2>8. entries' \in [CallId -> Held]
    BY <1>2, <2>1 DEF Work, Held
  <2>9. \A i \in CallId : /\ entries'[i].ranges = entries[i].ranges
                          /\ entries'[i].stopped = entries[i].stopped
                          /\ entries'[i].fetching = IF i = e THEN "yes" ELSE entries[i].fetching
    BY <1>2, <2>1 DEF Work, Held
  <2>10. PICK k \in CallId : k = e
    BY <1>2
  <2>11. UNCHANGED <<disk, held>> /\ InUse(k)
    BY <1>1, <1>2, <2>10
  <2> HIDE DEF e
  <2>12. /\ jobs'[MaxCalls + k] = Loop([Idle EXCEPT !.kind = "prefetch", !.e = k, !.todo = todo], FALSE)
         /\ \A i \in JobId : i # MaxCalls + k => jobs'[i] = jobs[i] \/ (i \in CallId /\ jobs'[i].at = "done")
         /\ \A i \in CallId : /\ entries'[i].ranges = entries[i].ranges
                              /\ entries'[i].stopped = entries[i].stopped
                              /\ entries'[i].fetching = IF i = k THEN "yes" ELSE entries[i].fetching
    BY <2>6, <2>7, <2>9, <2>10
  <2>13. PICK chunks \in SUBSET Chunk : chunks = todo
    BY <2>2
  <2>14. jobs'[MaxCalls + k] = Loop([Idle EXCEPT !.kind = "prefetch", !.e = k, !.todo = chunks], FALSE)
    BY <2>12, <2>13
  <2> QED BY <1>3, <2>6, <2>8, <2>11, <2>12, <2>14, PrefetchBegins
<1> QED BY <1>5, <1>6, <1>7

\* A window of the prefetch is here.
LEMMA WindowWork == ASSUME Work, NEW j \in JobId, WindowEnsured(j) PROVE Work'
<1> DEFINE entry == Own(j)
           goes == ~ entry.stopped /\ ~ Complete(entry)
<1>1. jobs[j].kind = "prefetch" /\ jobs[j].at = "ensured" /\ UNCHANGED <<disk, held>>
  BY DEF WindowEnsured, Ensured
<1>2. jobs[j] \in Job /\ jobs[j].e \in CallId /\ Fine(j) /\ Busy(j) /\ InUse(jobs[j].e) /\ entry \in Held
  BY <1>1 DEF Work, Fine, Placed, Busy, InUse, Own
<1>3. \A i \in JobId : jobs[i].at \notin {"reading", "opening"}
  BY <1>1, <1>2, NoReader
<1>4. CASE goes
  <2> DEFINE todo == IF jobs[j].from = 0 THEN {Missing(entry.ranges, 0, Size)[1][1]} ELSE Window(entry)
             next == [jobs[j] EXCEPT !.from = 1 - @, !.todo = todo]
             new == Loop(next, FALSE)
  <2>1. jobs' = [jobs EXCEPT ![j] = new] /\ UNCHANGED entries
    BY <1>4 DEF WindowEnsured, Go
  <2>2. todo \in SUBSET Chunk
    <3>1. entry.ranges \in Seq(Pair) /\ Tidy(entry.ranges) /\ Size \in Nat /\ Total(entry.ranges) \in Int
      BY <1>2, ListBytes, OriginAssumption, TotalIsCardinality, FS_CardinalityType DEF Held
    <3>2. Total(entry.ranges) < Size
      BY <1>4, <3>1 DEF Complete
    <3>3. Missing(entry.ranges, 0, Size)[1][1] \in Chunk
      BY <3>1, <3>2, LacksSome DEF Chunk
    <3>4. Window(entry) \subseteq Chunk
      BY <1>2, WindowLacking
    <3> QED BY <3>3, <3>4
  <2> HIDE DEF todo
  <2>3. jobs[j].from \in 0 .. 1 /\ jobs[j].e = j - MaxCalls /\ j \notin CallId
    BY <1>1, <1>2 DEF Fine, Placed
  <2>4. 1 - jobs[j].from \in 0 .. 1 /\ 1 - jobs[j].from \in 0 .. Size
    BY <2>3, OriginAssumption
  <2>5. next \in Job /\ next.kind = jobs[j].kind /\ next.e = jobs[j].e /\ next.from = 1 - jobs[j].from
    BY <1>2, <2>2, <2>4 DEF Job
  <2>6. Looped(new, next, FALSE)
    BY <2>5, LoopLoops
  <2> HIDE DEF next, new
  <2>7. jobs'[j] = new
    BY <2>1 DEF Work
  <2>8. Fine(j)'
    <3>1. Alone(j)' /\ Snapped(j)' /\ Reading(j)'
      BY <1>1, <2>5, <2>6, <2>7 DEF Looped, Alone, Snapped, Reading
    <3>2. Placed(j)'
      BY <1>1, <1>2, <2>3, <2>4, <2>5, <2>6, <2>7 DEF Looped, Placed
    <3> QED BY <3>1, <3>2 DEF Fine
  <2>9. InUse(new.e) /\ new \in Job /\ new.at # "done"
    BY <1>2, <2>5, <2>6 DEF Looped
  <2> QED BY <1>1, <1>2, <1>3, <2>1, <2>8, <2>9, JobOnly
<1>5. CASE ~ goes
  <2>1. jobs' = [jobs EXCEPT ![j] = Idle] /\ entries' = [entries EXCEPT ![jobs[j].e].fetching = "no"]
    BY <1>5 DEF WindowEnsured, Go
  <2>2. entries' \in [CallId -> Held]
    BY <1>2, <2>1 DEF Work, Held
  <2>3. \A i \in CallId : /\ entries'[i].ranges = entries[i].ranges
                          /\ entries'[i].stopped = entries[i].stopped
                          /\ entries'[i].fetching = IF i = jobs[j].e /\ jobs[j].kind = "prefetch" THEN "no"
                                                    ELSE entries[i].fetching
    BY <1>1, <1>2, <2>1 DEF Work, Held
  <2> QED BY <1>1, <1>2, <1>3, <2>1, <2>2, <2>3, EndsWork
<1> QED BY <1>4, <1>5

\* Where playback is, and a prefetch from there.
LEMMA PlayheadWork == ASSUME Work, NEW c \in Chunk, UpdatePlayhead(c) PROVE Work'
<1> DEFINE aimed == [entries[held] EXCEPT !.aim = c]
           idle == entries[held].fetching = "no" /\ ~ Complete(entries[held])
<1>1. held \in CallId /\ entries[held] \in Held /\ InUse(held) /\ UNCHANGED <<disk, held>>
  BY DEF UpdatePlayhead, Work, InUse
<1>2. \A i \in JobId : jobs[i].at \notin {"reading", "opening"}
  BY <1>1, Jobs, NoReader
<1>3. /\ aimed \in Held /\ aimed.ranges = entries[held].ranges /\ aimed.stopped = entries[held].stopped
      /\ aimed.fetching = entries[held].fetching
  BY <1>1 DEF Held
<1>4. CASE idle /\ aimed.stopped
  <2>1. entries' = [entries EXCEPT ![held] = [aimed EXCEPT !.fetching = "over"]] /\ UNCHANGED jobs
    BY <1>4 DEF UpdatePlayhead
  <2> HIDE DEF aimed
  <2>2. entries' \in [CallId -> Held]
    BY <1>1, <1>3, <2>1 DEF Work, Held
  <2>3. \A i \in CallId : /\ entries'[i].ranges = entries[i].ranges
                          /\ entries'[i].stopped = entries[i].stopped
                          /\ entries'[i].fetching = "yes" <=> entries[i].fetching = "yes"
    BY <1>1, <1>3, <1>4, <2>1 DEF Work, Held
  <2> QED BY <1>1, <1>2, <2>1, <2>2, <2>3, JobsStay
<1>5. CASE idle /\ ~ aimed.stopped
  <2> DEFINE new == Loop([Idle EXCEPT !.kind = "prefetch", !.e = held, !.todo = Window(aimed)], FALSE)
  <2>1. /\ entries' = [entries EXCEPT ![held] = [aimed EXCEPT !.fetching = "yes"]]
        /\ jobs' = [jobs EXCEPT ![MaxCalls + held] = new]
    BY <1>5 DEF UpdatePlayhead, Go
  <2>2. Window(aimed) \subseteq Chunk
    BY <1>3, WindowLacking
  <2>3. PICK e \in CallId, todo \in SUBSET Chunk : e = held /\ todo = Window(aimed)
    BY <1>1, <2>2
  <2>4. new = Loop([Idle EXCEPT !.kind = "prefetch", !.e = e, !.todo = todo], FALSE)
    BY <2>3
  <2> HIDE DEF aimed, new
  <2>5. [Idle EXCEPT !.kind = "prefetch", !.e = e, !.todo = todo] \in Job
    BY <2>3, Jobs DEF Job, Kind
  <2>6. new \in Job
    BY <2>4, <2>5, LoopLoops DEF Looped
  <2>7. MaxCalls + e \in JobId
    BY Jobs
  <2>8. /\ jobs' \in [JobId -> Job] /\ jobs'[MaxCalls + e] = new
        /\ \A i \in JobId : i # MaxCalls + e => jobs'[i] = jobs[i] \/ (i \in CallId /\ jobs'[i].at = "done")
    BY <2>1, <2>3, <2>6, <2>7 DEF Work
  <2>9. entries' \in [CallId -> Held]
    BY <1>1, <1>3, <2>1 DEF Work, Held
  <2>10. \A i \in CallId : /\ entries'[i].ranges = entries[i].ranges
                           /\ entries'[i].stopped = entries[i].stopped
                           /\ entries'[i].fetching = IF i = e THEN "yes" ELSE entries[i].fetching
    BY <1>1, <1>3, <2>1, <2>3 DEF Work, Held
  <2>11. UNCHANGED <<disk, held>> /\ InUse(e)
    BY <1>1, <2>3
  <2> QED BY <1>2, <2>4, <2>8, <2>9, <2>10, <2>11, PrefetchBegins
<1>6. CASE ~ idle
  <2>1. entries' = [entries EXCEPT ![held].aim = c] /\ UNCHANGED jobs
    BY <1>6 DEF UpdatePlayhead
  <2>2. entries' \in [CallId -> Held]
    BY <1>1, <2>1 DEF Work, Held
  <2>3. \A i \in CallId : /\ entries'[i].ranges = entries[i].ranges
                          /\ entries'[i].stopped = entries[i].stopped
                          /\ entries'[i].fetching = "yes" <=> entries[i].fetching = "yes"
    BY <1>1, <2>1 DEF Work, Held
  <2> QED BY <1>1, <1>2, <2>1, <2>2, <2>3, JobsStay
<1> QED BY <1>4, <1>5, <1>6

\* A Held object before there is one.
LEMMA Blank == Nobody \in Held /\ Nobody.fetching = "no" /\ Nobody.stopped = FALSE /\ Nobody.ranges = <<>>
BY EmptyList DEF Nobody, Held

\* The file is emptied only if nothing was recorded: what is, is on disk.
LEMMA OpenWork == ASSUME Work, NEW j \in JobId, Open(j) PROVE Work'
<1> DEFINE ranges == jobs[j].snap
           first == [Idle EXCEPT !.e = j, !.todo = Bytes(Missing(ranges, 0, 1))]
           new == Loop(first, FALSE)
           entry == [Nobody EXCEPT !.ranges = ranges, !.open = TRUE]
<1>1. /\ j \in CallId /\ held = 0 /\ ranges = disk.saved
      /\ \A i \in JobId : i # j => jobs[i].at = "done"
  BY DEF Open, Work, Fine, Alone, Busy
<1>2. /\ disk' = IF ranges = <<>> THEN [disk EXCEPT !.bytes = {}] ELSE disk
      /\ entries' = [entries EXCEPT ![j] = entry] /\ held' = j /\ jobs' = [jobs EXCEPT ![j] = new]
  BY DEF Open, Go
<1>3. ranges \in Lists /\ disk.bytes \in SUBSET Chunk /\ Bytes(ranges) \subseteq disk.bytes
  BY <1>1 DEF Work, SavedIsOnDisk
<1>4. Bytes(Missing(ranges, 0, 1)) \subseteq Chunk
  <2>1. 0 \in Nat /\ 1 \in Nat /\ 1 <= Size
    BY OriginAssumption
  <2> QED BY <1>3, <2>1, ChunksLacked
<1>5. first \in Job /\ first.kind = "receive" /\ first.e = j
  BY <1>1, <1>4, Jobs DEF Job
<1>6. Looped(new, first, FALSE)
  BY <1>5, LoopLoops
<1>7. entry \in Held /\ entry.ranges = ranges /\ entry.fetching = "no"
  BY <1>3, Blank DEF Held
<1> HIDE DEF first, new, entry
<1>8. jobs'[j] = new /\ (\A i \in JobId : i # j => jobs'[i].at = "done") /\ jobs' \in [JobId -> Job]
  BY <1>1, <1>2, <1>6 DEF Work, Looped
<1>9. entries'[j] = entry /\ (\A e \in CallId : e # j => entries'[e] = entries[e]) /\ entries' \in [CallId -> Held]
  BY <1>1, <1>2, <1>7 DEF Work
<1>10. disk' \in [bytes: SUBSET Chunk, saved: Lists] /\ disk'.saved = ranges /\ Bytes(ranges) \subseteq disk'.bytes
  BY <1>1, <1>2, <1>3, EmptyList DEF Work
<1>11. Fine(j)'
  <2>1. Alone(j)' /\ Snapped(j)' /\ Reading(j)'
    BY <1>5, <1>6, <1>8 DEF Looped, Alone, Snapped, Reading
  <2>2. Placed(j)'
    BY <1>1, <1>5, <1>6, <1>8 DEF Looped, Placed
  <2> QED BY <2>1, <2>2 DEF Fine
<1>12. \A i \in JobId : Fine(i)'
  BY <1>8, <1>11, Over
<1>13. \A e \in CallId : Backed(e)'
  <2>1. ASSUME NEW e \in CallId, InUse(e)' PROVE e = j
    BY <1>2, <1>5, <1>6, <1>8, <2>1 DEF InUse, Busy, Looped
  <2> QED BY <1>7, <1>9, <1>10, <2>1 DEF Backed
<1>14. \A e \in CallId : entries'[e].fetching = "yes" <=> jobs'[MaxCalls + e].at # "done"
  <2> TAKE e \in CallId
  <2>1. MaxCalls + e \in JobId /\ MaxCalls + e # j
    BY <1>1, Jobs
  <2>2. entries'[e].fetching # "yes"
    BY <1>1, <1>7, <1>9, <2>1 DEF Work
  <2> QED BY <1>8, <2>1, <2>2
<1>15. SavedIsOnDisk' /\ held' \in CallId \cup {0}
  BY <1>1, <1>2, <1>10 DEF SavedIsOnDisk
<1> QED BY <1>8, <1>9, <1>10, <1>12, <1>13, <1>14, <1>15 DEF Work

\* A chunk is on disk before the entry has it, and before it is recorded.
LEMMA WrittenWork == ASSUME Work, NEW j \in JobId, Written(j) PROVE Work'
<1> DEFINE c == Min(jobs[j].todo)
           e == jobs[j].e
           more == Add(entries[e].ranges, c, c + 1)
           new == [jobs[j] EXCEPT !.at = "saving", !.snap = more]
<1>1. /\ jobs[j].at = "writing" /\ disk' = [disk EXCEPT !.bytes = @ \cup {c}]
      /\ entries' = [entries EXCEPT ![e].ranges = more] /\ jobs' = [jobs EXCEPT ![j] = new] /\ UNCHANGED held
  BY DEF Written, Go
<1>2. jobs[j] \in Job /\ e \in CallId /\ entries[e] \in Held /\ Placed(j) /\ Reading(j) /\ Busy(j) /\ InUse(e)
  BY <1>1 DEF Work, Fine, Placed, Busy, InUse
<1>3. c \in jobs[j].todo /\ c \in Chunk
  BY <1>1, <1>2, LeastChunk DEF Job, Placed
<1>4. more \in Lists /\ Bytes(more) = Bytes(entries[e].ranges) \cup {c}
  BY <1>2, <1>3, ChunkAdded DEF Held
<1> HIDE DEF c, more
<1>5. /\ new \in Job /\ new.kind = jobs[j].kind /\ new.e = e /\ new.from = jobs[j].from /\ new.todo = jobs[j].todo
      /\ new.at = "saving" /\ new.snap = more
  BY <1>2, <1>4 DEF Job, Waiting
<1> HIDE DEF new
<1>6. jobs'[j] = new /\ (\A i \in JobId : i # j => jobs'[i] = jobs[i]) /\ jobs' \in [JobId -> Job]
  BY <1>1, <1>5 DEF Work
<1>7. /\ entries' \in [CallId -> Held] /\ entries'[e].ranges = more
      /\ \A i \in CallId : i # e => entries'[i].ranges = entries[i].ranges
      /\ \A i \in CallId : entries'[i].stopped = entries[i].stopped /\ entries'[i].fetching = entries[i].fetching
  BY <1>1, <1>2, <1>4 DEF Work, Held
<1>8. disk' \in [bytes: SUBSET Chunk, saved: Lists] /\ disk'.bytes = disk.bytes \cup {c} /\ disk'.saved = disk.saved
  BY <1>1, <1>3 DEF Work
<1>9. Bytes(entries[e].ranges) \subseteq disk.bytes
  BY <1>2 DEF Work, Backed
<1>10. Fine(j)'
  <2>1. Alone(j)' /\ Placed(j)'
    BY <1>1, <1>2, <1>5, <1>6 DEF Alone, Placed, Busy
  <2>2. Snapped(j)'
    BY <1>4, <1>5, <1>6, <1>8, <1>9 DEF Snapped
  <2>3. Reading(j)'
    <3> SUFFICES ASSUME new.kind = "serve" PROVE Reading(j)'
      BY <1>6 DEF Reading
    <3>1. /\ jobs[j].from \in Chunk
          /\ entries[e].stopped \/ jobs[j].from \in Bytes(entries[e].ranges) \/ jobs[j].todo = {jobs[j].from}
      BY <1>2, <1>5 DEF Reading
    <3>2. jobs[j].todo = {jobs[j].from} => jobs[j].from = c
      BY <1>3
    <3>3. entries'[e].stopped \/ jobs[j].from \in Bytes(entries'[e].ranges)
      BY <1>2, <1>4, <1>7, <3>1, <3>2
    <3> QED BY <1>5, <1>6, <3>1, <3>3 DEF Reading
  <2> QED BY <2>1, <2>2, <2>3 DEF Fine
<1>11. \A i \in JobId : jobs[i].at \notin {"reading", "opening"}
  BY <1>1, <1>2, NoReader
<1>12. \A i \in JobId : (jobs'[i] = jobs[i] /\ jobs[i].at \notin {"reading", "opening"}) \/ Fine(i)'
  BY <1>6, <1>10, <1>11
<1>13. \A i \in CallId : InUse(i)' => InUse(i)
  <2> SUFFICES ASSUME NEW i \in CallId, i # held, NEW k \in JobId, jobs'[k].at # "done", jobs'[k].e = i
               PROVE  InUse(i)
    BY <1>1 DEF InUse, Busy
  <2>1. CASE k = j
    BY <1>2, <1>5, <1>6, <2>1
  <2>2. CASE k # j
    BY <1>6, <2>2 DEF InUse, Busy
  <2> QED BY <2>1, <2>2
<1>14. ASSUME NEW i \in CallId, InUse(i)
       PROVE  /\ Bytes(entries[i].ranges) \subseteq Bytes(entries'[i].ranges)
              /\ Bytes(entries'[i].ranges) \subseteq disk'.bytes
              /\ entries[i].stopped => entries'[i].stopped
  <2>1. Bytes(entries[i].ranges) \subseteq disk.bytes
    BY <1>14 DEF Work, Backed
  <2>2. CASE i = e
    BY <1>4, <1>7, <1>8, <2>1, <2>2
  <2>3. CASE i # e
    BY <1>7, <1>8, <2>1, <2>3
  <2> QED BY <2>2, <2>3
<1>15. (\A i \in JobId : Fine(i)') /\ (\A i \in CallId : Backed(i)')
  BY <1>8, <1>12, <1>13, <1>14, Frame
<1>16. SavedIsOnDisk' /\ held' \in CallId \cup {0}
  BY <1>1, <1>8 DEF Work, SavedIsOnDisk
<1>17. \A i \in CallId : entries'[i].fetching = "yes" <=> jobs'[MaxCalls + i].at # "done"
  <2>1. new.at # "done"
    BY <1>5
  <2> QED BY <1>1, <1>2, <1>7, <2>1, FetchingKept
<1> QED BY <1>6, <1>7, <1>8, <1>15, <1>16, <1>17 DEF Work

\* A reader begins with the chunk it asks for.
LEMMA ServeWork == ASSUME Work, Play, Serve PROVE Work'
<1>1. PICK c \in Chunk :
        /\ Call(Loop([Idle EXCEPT !.kind = "serve", !.e = held, !.from = c,
                                  !.todo = Lacks(entries[held], c, c + 1)], entries[held].stopped))
        /\ entries' = [entries EXCEPT ![held].aim = IF @ = -1 THEN @ ELSE c]
  BY DEF Serve
<1>2. calls + 1 \in CallId
  BY <1>1, Jobs DEF Play, Call, CallId
<1>3. PICK j \in CallId : j = calls + 1
  BY <1>2
<1>4. PICK e \in CallId : e = held
  BY DEF Serve, Work
<1> DEFINE first == [Idle EXCEPT !.kind = "serve", !.e = e, !.from = c, !.todo = Lacks(entries[e], c, c + 1)]
           new == Loop(first, entries[e].stopped)
<1>5. entries[e] \in Held /\ Lacks(entries[e], c, c + 1) = {c} \ Bytes(entries[e].ranges)
      /\ Lacks(entries[e], c, c + 1) \subseteq Chunk /\ UNCHANGED <<disk, held>> /\ InUse(e)
  BY <1>4, OneLacked DEF Work, Serve, InUse
<1>6. c \in 0 .. Size
  BY OriginAssumption DEF Chunk
<1>7. first \in Job /\ first.kind = "serve" /\ first.e = e /\ first.from = c /\ first.todo = {c} \ Bytes(entries[e].ranges)
  BY <1>5, <1>6, Jobs DEF Job, Kind
<1>8. Looped(new, first, entries[e].stopped)
  BY <1>5, <1>7, LoopLoops DEF Held
<1>9. jobs' = [jobs EXCEPT ![j] = new]
  BY <1>1, <1>3, <1>4 DEF Call
<1> HIDE DEF first, new
<1>10. jobs'[j] = new
  BY <1>9, Jobs DEF Work
<1>11. /\ entries' \in [CallId -> Held]
       /\ \A i \in CallId : /\ entries'[i].ranges = entries[i].ranges
                            /\ entries'[i].stopped = entries[i].stopped
                            /\ entries'[i].fetching = entries[i].fetching
  BY <1>1, <1>4, <1>5 DEF Work, Held
<1>12. Fine(j)'
  <2>1. Alone(j)' /\ Snapped(j)'
    BY <1>7, <1>8, <1>10 DEF Looped, Alone, Snapped
  <2>2. Placed(j)'
    BY <1>7, <1>8, <1>10 DEF Looped, Placed
  <2>3. Reading(j)'
    <3>1. CASE c \in Bytes(entries[e].ranges)
      BY <1>7, <1>8, <1>10, <1>11, <3>1 DEF Looped, Reading
    <3>2. CASE c \notin Bytes(entries[e].ranges)
      <4>1. first.todo = {c}
        BY <1>7, <3>2
      <4>2. entries'[e].stopped \/ (new.at = "fetching" /\ new.todo = {c})
        BY <1>8, <1>11, <4>1 DEF Looped
      <4> QED BY <1>7, <1>8, <1>10, <4>2 DEF Looped, Reading
    <3> QED BY <3>1, <3>2
  <2> QED BY <2>1, <2>2, <2>3 DEF Fine
<1>13. \A i \in JobId : i # j => jobs[i].at \notin {"reading", "opening"}
  BY <1>4, NoReader, Jobs
<1>14. disk' \in [bytes: {disk.bytes}, saved: Lists] /\ SavedIsOnDisk' /\ held' \in {held, 0}
  BY <1>5 DEF Work, SavedIsOnDisk
<1>15. \A i \in CallId : entries'[i].fetching = "yes" <=> jobs'[MaxCalls + i].at # "done"
  BY <1>9, <1>11, Jobs, FetchingKept
<1>16. new \in Job /\ (InUse(new.e) \/ new.e = 0)
  BY <1>5, <1>7, <1>8 DEF Looped
<1>17. j \in JobId
  BY Jobs
<1> QED BY <1>9, <1>11, <1>12, <1>13, <1>14, <1>15, <1>16, <1>17, OneJob

\* A reader goes on to the next chunk.
LEMMA ReaderWork == ASSUME Work, NEW j \in JobId, ChunkEnsured(j) PROVE Work'
<1> DEFINE entry == Own(j)
           next == jobs[j].from + 1
           later == [jobs[j] EXCEPT !.from = next, !.todo = Lacks(entry, next, next + 1)]
           looped == Loop(later, FALSE)
<1>1. jobs[j].kind = "serve" /\ jobs[j].at = "ensured" /\ UNCHANGED <<disk, entries, held>>
  BY DEF ChunkEnsured, Ensured
<1>2. /\ jobs[j] \in Job /\ jobs[j].e \in CallId /\ Fine(j) /\ Busy(j) /\ InUse(jobs[j].e) /\ entry \in Held
      /\ j \in CallId
  BY <1>1 DEF Work, Fine, Placed, Busy, InUse, Own
<1>3. \A i \in JobId : i # j => jobs[i].at \notin {"reading", "opening"}
  BY <1>1, <1>2, NoReader
<1>4. CASE jobs' = [jobs EXCEPT ![j] = Idle]
  <2>1. jobs'[j].at = "done"
    BY <1>4, Jobs DEF Work
  <2> QED BY <1>1, <1>2, <1>3, <1>4, <2>1, Jobs, Over, JobOnly
<1>5. CASE ~ entry.stopped /\ next # Size /\ jobs' = [jobs EXCEPT ![j] = looped]
  <2>1. next \in Chunk
    BY <1>1, <1>2, <1>5, OriginAssumption DEF Fine, Reading, Chunk
  <2>2. next \in 0 .. Size
    BY <2>1, OriginAssumption DEF Chunk
  <2>3. Lacks(entry, next, next + 1) = {next} \ Bytes(entry.ranges) /\ Lacks(entry, next, next + 1) \subseteq Chunk
    BY <1>2, <2>1, OneLacked
  <2>4. /\ later \in Job /\ later.kind = "serve" /\ later.e = jobs[j].e /\ later.from = next
        /\ later.todo = {next} \ Bytes(entry.ranges)
    BY <1>1, <1>2, <2>2, <2>3 DEF Job
  <2>5. Looped(looped, later, FALSE)
    BY <2>4, LoopLoops
  <2> HIDE DEF later, looped, next
  <2>6. jobs'[j] = looped
    BY <1>5 DEF Work
  <2>7. Fine(j)'
    <3>1. Alone(j)' /\ Snapped(j)'
      BY <2>5, <2>6 DEF Looped, Alone, Snapped
    <3>2. Placed(j)'
      BY <1>2, <2>4, <2>5, <2>6 DEF Looped, Placed
    <3>3. Reading(j)'
      <4>1. CASE next \in Bytes(entry.ranges)
        BY <1>1, <2>1, <2>4, <2>5, <2>6, <4>1 DEF Looped, Reading, Own
      <4>2. CASE next \notin Bytes(entry.ranges)
        <5>1. later.todo = {next}
          BY <2>4, <4>2
        <5>2. looped.at = "fetching" /\ looped.todo = {next}
          BY <2>5, <5>1 DEF Looped
        <5> QED BY <2>1, <2>4, <2>5, <2>6, <5>2 DEF Looped, Reading
      <4> QED BY <4>1, <4>2
    <3> QED BY <3>1, <3>2, <3>3 DEF Fine
  <2>8. looped \in Job /\ InUse(looped.e)
    BY <1>2, <2>4, <2>5 DEF Looped
  <2> QED BY <1>1, <1>2, <1>3, <1>5, <2>7, <2>8, JobOnly
<1> QED BY <1>4, <1>5 DEF ChunkEnsured, Go

\* stop marks the entry; what it has stays.
LEMMA StopWork == ASSUME Work, Play, Stop PROVE Work'
<1>1. calls + 1 \in CallId
  BY Jobs DEF Play, Stop, Call, CallId
<1>2. PICK j \in CallId : j = calls + 1
  BY <1>1
<1>3. PICK e \in CallId : e = held
  BY DEF Stop, Work
<1> DEFINE new == [Idle EXCEPT !.kind = "stop", !.e = e, !.at = "fetched"]
<1>4. jobs' = [jobs EXCEPT ![j] = new] /\ entries' = [entries EXCEPT ![e].stopped = TRUE] /\ UNCHANGED <<disk, held>>
  BY <1>2, <1>3 DEF Stop, Call
<1>5. new \in Job /\ new.kind = "stop" /\ new.e = e /\ new.at = "fetched"
  BY Jobs DEF Job, Kind, Waiting
<1> HIDE DEF new
<1>6. jobs'[j] = new /\ j \in JobId
  BY <1>4, Jobs DEF Work
<1>7. /\ entries' \in [CallId -> Held]
      /\ \A i \in CallId : /\ entries'[i].ranges = entries[i].ranges
                           /\ entries[i].stopped => entries'[i].stopped
                           /\ entries'[i].fetching = entries[i].fetching
  BY <1>4 DEF Work, Held
<1>8. Fine(j)'
  <2>1. Alone(j)' /\ Snapped(j)' /\ Reading(j)'
    BY <1>5, <1>6 DEF Alone, Snapped, Reading
  <2>2. Placed(j)'
    BY <1>5, <1>6 DEF Placed
  <2> QED BY <2>1, <2>2 DEF Fine
<1>9. \A i \in JobId : i # j => jobs[i].at \notin {"reading", "opening"}
  BY <1>3, NoReader, Jobs
<1>10. disk' \in [bytes: {disk.bytes}, saved: Lists] /\ SavedIsOnDisk' /\ held' \in {held, 0}
  BY <1>4 DEF Work, SavedIsOnDisk
<1>11. \A i \in CallId : entries'[i].fetching = "yes" <=> jobs'[MaxCalls + i].at # "done"
  BY <1>4, <1>6, <1>7, FetchingKept
<1>12. InUse(new.e)
  BY <1>3, <1>5 DEF InUse
<1> QED BY <1>4, <1>5, <1>6, <1>7, <1>8, <1>9, <1>10, <1>11, <1>12, OneJob

\* stop has waited for the prefetch.
LEMMA PrefetchOverWork == ASSUME Work, NEW j \in JobId, PrefetchOver(j) PROVE Work'
<1> DEFINE new == [jobs[j] EXCEPT !.at = "closing"]
<1>1. jobs[j].at = "fetched" /\ jobs' = [jobs EXCEPT ![j] = new] /\ UNCHANGED <<disk, entries, held>>
  BY DEF PrefetchOver, Go
<1>2. jobs[j] \in Job /\ jobs[j].e \in CallId /\ Fine(j) /\ Busy(j) /\ InUse(jobs[j].e) /\ jobs[j].kind = "stop"
  BY <1>1 DEF Work, Fine, Placed, Busy, InUse
<1>3. new \in Job /\ new.kind = "stop" /\ new.e = jobs[j].e /\ new.at = "closing"
  BY <1>2 DEF Job, Waiting
<1> HIDE DEF new
<1>4. jobs'[j] = new
  BY <1>1 DEF Work
<1>5. \A i \in JobId : jobs[i].at \notin {"reading", "opening"}
  BY <1>1, <1>2, NoReader
<1>6. Fine(j)'
  <2>1. Alone(j)' /\ Snapped(j)' /\ Reading(j)'
    BY <1>3, <1>4 DEF Alone, Snapped, Reading
  <2>2. Placed(j)'
    BY <1>2, <1>3, <1>4 DEF Fine, Placed
  <2> QED BY <2>1, <2>2 DEF Fine
<1> QED BY <1>1, <1>2, <1>3, <1>5, <1>6, JobOnly

\* The entry is let go of.
LEMMA ClosedWork == ASSUME Work, NEW j \in JobId, Closed(j) PROVE Work'
<1>1. /\ jobs[j].at = "closing" /\ jobs' = [jobs EXCEPT ![j] = Idle] /\ UNCHANGED disk /\ held' = 0
      /\ entries' = [entries EXCEPT ![jobs[j].e].open = FALSE]
  BY DEF Closed, Go
<1>2. jobs[j].e \in CallId /\ Busy(j) /\ jobs[j].kind = "stop"
  BY <1>1 DEF Work, Fine, Placed, Busy
<1>3. /\ entries' \in [CallId -> Held]
      /\ \A i \in CallId : /\ entries'[i].ranges = entries[i].ranges
                           /\ entries'[i].stopped = entries[i].stopped
                           /\ entries'[i].fetching = IF i = jobs[j].e /\ jobs[j].kind = "prefetch" THEN "no"
                                                     ELSE entries[i].fetching
  <2>1. PICK e \in CallId : e = jobs[j].e
    BY <1>2
  <2>2. entries' = [entries EXCEPT ![e].open = FALSE]
    BY <1>1, <2>1
  <2>3. entries' \in [CallId -> Held]
    BY <2>2 DEF Work, Held
  <2>4. \A i \in CallId : /\ entries'[i].ranges = entries[i].ranges
                          /\ entries'[i].stopped = entries[i].stopped
                          /\ entries'[i].fetching = entries[i].fetching
    BY <2>2 DEF Work, Held
  <2> QED BY <1>2, <2>3, <2>4
<1>4. held' \in {held, 0} /\ jobs[j].at \notin {"reading", "opening"}
  BY <1>1
<1> QED BY <1>1, <1>2, <1>3, <1>4, EndsWork

\* The process dies: what is recorded was being saved, or had been.
LEMMA CrashWork == ASSUME Work, Crash PROVE Work'
<1>1. PICK saved \in {disk.saved} \cup UNION {{<<>>, jobs[j].snap} : j \in {i \in JobId : jobs[i].at = "saving"}} :
        disk' = [disk EXCEPT !.saved = saved]
  BY DEF Crash
<1>2. saved \in Lists /\ Bytes(saved) \subseteq disk.bytes
  <2>1. CASE saved = disk.saved
    BY <2>1 DEF Work, SavedIsOnDisk
  <2>2. CASE saved = <<>>
    BY <2>2, EmptyList
  <2>3. ASSUME NEW j \in JobId, jobs[j].at = "saving", saved = jobs[j].snap PROVE saved \in Lists /\ Bytes(saved) \subseteq disk.bytes
    <3>1. jobs[j] \in Job /\ Snapped(j)
      BY DEF Work, Fine
    <3> QED BY <2>3, <3>1 DEF Job, Snapped
  <2> QED BY <1>1, <2>1, <2>2, <2>3
<1>3. disk' \in [bytes: SUBSET Chunk, saved: Lists] /\ disk'.bytes = disk.bytes /\ disk'.saved = saved
  BY <1>1, <1>2 DEF Work
<1>4. entries' = [e \in CallId |-> Nobody] /\ held' = 0 /\ jobs' = [j \in JobId |-> Idle]
  BY DEF Crash
<1>5. \A j \in JobId : jobs'[j] = Idle /\ jobs'[j].at = "done"
  BY <1>4, Jobs
<1>6. \A j \in JobId : Fine(j)'
  BY <1>5, Over
<1>7. \A e \in CallId : Backed(e)'
  BY <1>4, <1>5, Jobs DEF Backed, InUse, Busy
<1>8. \A e \in CallId : entries'[e].fetching = "yes" <=> jobs'[MaxCalls + e].at # "done"
  BY <1>4, <1>5, Jobs, Blank
<1>9. entries' \in [CallId -> Held] /\ jobs' \in [JobId -> Job]
  BY <1>4, Jobs, Blank
<1>10. SavedIsOnDisk'
  BY <1>2, <1>3 DEF SavedIsOnDisk
<1> QED BY <1>3, <1>4, <1>6, <1>7, <1>8, <1>9, <1>10 DEF Work

-----------------------------------------------------------------------------
\* No step breaks what holds of the jobs and the entries.
LEMMA WorkKept == ASSUME IInv, Next PROVE Work'
<1>1. Work /\ Play
  BY DEF IInv
<1>2. CASE Receive
  BY <1>1, <1>2, Received
<1>3. CASE Serve
  BY <1>1, <1>3, ServeWork
<1>4. CASE Stop
  BY <1>1, <1>4, StopWork
<1>5. CASE Crash
  BY <1>1, <1>5, CrashWork
<1>6. CASE ReadFile
  <2>1. UNCHANGED <<disk, entries, held, jobs>>
    BY <1>6 DEF ReadFile
  <2> QED BY <1>1, <2>1 DEF Work, SavedIsOnDisk, Fine, Alone, Placed, Reading, Snapped, Busy, Backed, InUse
<1>7. CASE \E c \in Chunk : UpdatePlayhead(c)
  BY <1>1, <1>7, PlayheadWork
<1>8. ASSUME NEW j \in JobId, Refuse(j) \/ Fails(j) \/ Proceed(j) PROVE Work'
  <2>1. CASE Refuse(j)
    BY <1>1, <2>1, Refused
  <2>2. CASE Fails(j)
    BY <1>1, <2>2, FailsWork
  <2>3. CASE LoadRanges(j)
    BY <1>1, <2>3, Loaded
  <2>4. CASE Open(j)
    BY <1>1, <2>4, OpenWork
  <2>5. CASE Arrives(j)
    BY <1>1, <2>5, ArrivedWork
  <2>6. CASE Written(j)
    BY <1>1, <2>6, WrittenWork
  <2>7. CASE Saved(j)
    BY <1>1, <2>7, SavedWork
  <2>8. CASE HeadEnsured(j)
    BY <1>1, <2>8, HeadWork
  <2>9. CASE WindowEnsured(j)
    BY <1>1, <2>9, WindowWork
  <2>10. CASE ChunkEnsured(j)
    BY <1>1, <2>10, ReaderWork
  <2>11. CASE PrefetchOver(j)
    BY <1>1, <2>11, PrefetchOverWork
  <2>12. CASE Closed(j)
    BY <1>1, <2>12, ClosedWork
  <2> QED BY <1>8, <2>1, <2>2, <2>3, <2>4, <2>5, <2>6, <2>7, <2>8, <2>9, <2>10, <2>11, <2>12 DEF Proceed
<1> QED BY <1>2, <1>3, <1>4, <1>5, <1>6, <1>7, <1>8 DEF Next

\* Only a reader, or one that was given the file, gets anything.
LEMMA PlayKept == ASSUME IInv, Next PROVE Play'
<1>1. /\ Work /\ calls \in 0 .. MaxCalls /\ player \in [stream: BOOLEAN, has: {"nothing", "url", "path"}, hole: BOOLEAN]
      /\ (player.stream => ~ player.hole) /\ (player.stream => player.has # "path") /\ MaxCalls \in Nat
  BY OriginAssumption DEF IInv, Play, PlaysNoHoles
<1>2. CASE UNCHANGED <<player, calls>>
  BY <1>1, <1>2 DEF Play, PlaysNoHoles
<1>3. ASSUME calls < MaxCalls /\ calls' = calls + 1 PROVE calls' \in 0 .. MaxCalls
  BY <1>1, <1>3
<1>4. ASSUME calls' \in 0 .. MaxCalls, player' = player \/ Handed \/ player' = [player EXCEPT !.has = "nothing"] PROVE Play'
  BY <1>1, <1>4 DEF Play, PlaysNoHoles, Handed
<1>5. CASE Receive \/ Serve \/ Stop \/ Crash
  <2>1. calls < MaxCalls /\ calls' = calls + 1
    BY <1>5 DEF Receive, Serve, Stop, Crash, Call
  <2>2. player' = player \/ Handed \/ player' = [player EXCEPT !.has = "nothing"]
    BY <1>5 DEF Receive, Serve, Stop, Crash
  <2> QED BY <1>3, <1>4, <2>1, <2>2
<1>6. CASE ReadFile
  <2>1. PICK c \in Chunk : Reads(c)
    BY <1>6 DEF ReadFile
  <2> QED BY <1>1, <1>6, <2>1 DEF ReadFile, Reads, Play, PlaysNoHoles
<1>7. ASSUME NEW j \in JobId, HeadEnsured(j) PROVE Play'
  <2>1. Handed /\ UNCHANGED calls
    BY <1>7 DEF HeadEnsured
  <2> QED BY <1>1, <1>4, <2>1
<1>8. ASSUME NEW j \in JobId, ChunkEnsured(j) PROVE Play'
  <2>1. CASE Own(j).stopped
    BY <1>2, <1>8, <2>1 DEF ChunkEnsured
  <2>2. CASE ~ Own(j).stopped
    <3>1. jobs[j].kind = "serve" /\ jobs[j].at = "ensured" /\ Reads(jobs[j].from) /\ UNCHANGED calls
      BY <1>8, <2>2 DEF ChunkEnsured, Ensured
    <3>2. Fine(j) /\ jobs[j].e \in CallId /\ Backed(jobs[j].e)
      BY <1>1, <3>1 DEF Work, Fine, Placed, Busy
    <3>3. jobs[j].from \in Bytes(entries[jobs[j].e].ranges)
      BY <2>2, <3>1, <3>2 DEF Fine, Reading, Busy, Own
    <3>4. jobs[j].from \in disk.bytes
      BY <3>1, <3>2, <3>3 DEF Backed, InUse, Busy
    <3>5. player' = [player EXCEPT !.hole = @ \/ FALSE]
      BY <3>1, <3>4 DEF Reads
    <3> QED BY <1>1, <3>1, <3>5 DEF Play, PlaysNoHoles
  <2> QED BY <2>1, <2>2
<1>9. ASSUME NEW c \in Chunk, UpdatePlayhead(c) PROVE UNCHANGED <<player, calls>>
  BY <1>9 DEF UpdatePlayhead
<1>10. ASSUME NEW j \in JobId, Refuse(j) \/ Fails(j) \/ Proceed(j), ~ HeadEnsured(j), ~ ChunkEnsured(j)
       PROVE  UNCHANGED <<player, calls>>
  BY <1>10 DEF Proceed, Refuse, Fails, LoadRanges, Open, Arrives, Written, Saved, WindowEnsured, PrefetchOver, Closed
<1> QED BY <1>2, <1>5, <1>6, <1>7, <1>8, <1>9, <1>10 DEF Next, Proceed

\* The invariant holds at first.
LEMMA IInvInit == Init => IInv
<1> SUFFICES ASSUME Init PROVE IInv
  OBVIOUS
<1>1. \A j \in JobId : jobs[j] = Idle /\ jobs[j].at = "done"
  BY Jobs DEF Init
<1>2. \A j \in JobId : Fine(j)
  BY <1>1 DEF Fine, Alone, Placed, Reading, Snapped, Busy
<1>3. \A e \in CallId : Backed(e)
  BY <1>1, Jobs DEF Init, Backed, InUse, Busy
<1>4. SavedIsOnDisk /\ disk \in [bytes: SUBSET Chunk, saved: Lists]
  BY EmptyList DEF Init, SavedIsOnDisk
<1>5. \A e \in CallId : entries[e].fetching = "yes" <=> jobs[MaxCalls + e].at # "done"
  BY <1>1, Jobs, Blank DEF Init
<1>6. entries \in [CallId -> Held] /\ jobs \in [JobId -> Job] /\ held \in CallId \cup {0}
  BY Jobs, Blank DEF Init
<1>7. Play
  <2>1. player \in [stream: BOOLEAN, has: {"nothing"}, hole: {FALSE}]
    BY ZenonT(20) DEF Init
  <2>3. calls \in 0 .. MaxCalls
    <3>1. calls = 0
      BY DEF Init
    <3> QED BY <3>1, OriginAssumption
  <2>2. player \in [stream: BOOLEAN, has: {"nothing", "url", "path"}, hole: BOOLEAN] /\ ~ player.hole /\ player.has # "path"
    BY <2>1
  <2> QED BY <2>2, <2>3 DEF Play, PlaysNoHoles
<1> QED BY <1>2, <1>3, <1>4, <1>5, <1>6, <1>7 DEF IInv, Work

\* Every step keeps the invariant, those of the other transport too.
LEMMA IInvStep == IInv /\ [TransportNext]_<<mode, vars, swarmVars>> => IInv'
<1> SUFFICES ASSUME IInv, [TransportNext]_<<mode, vars, swarmVars>> PROVE IInv'
  OBVIOUS
<1>1. CASE Next
  BY <1>1, WorkKept, PlayKept DEF IInv
<1>2. CASE UNCHANGED vars
  <2>1. UNCHANGED <<disk, entries, held, jobs, player, calls>>
    BY <1>2 DEF vars
  <2>2. Work'
    BY <2>1 DEF IInv, Work, SavedIsOnDisk, Fine, Alone, Placed, Reading, Snapped, Busy, Backed, InUse
  <2>3. Play'
    BY <2>1 DEF IInv, Play, PlaysNoHoles
  <2> QED BY <2>2, <2>3 DEF IInv
<1> QED BY <1>1, <1>2 DEF TransportNext

\* The inductive invariant of the relay transport.
LEMMA IInvAlways == TransportSpec => []IInv
BY IInvInit, IInvStep, PTL DEF TransportSpec, TransportInit

\* Type correctness, and that an entry is being fetched exactly while its
\* prefetch runs (origin-transfer.ts:297).
THEOREM OriginTypes == TransportSpec => []TypeOK
BY IInvAlways, Typed, PTL

\* What a later run resumes from is on disk, whenever this one dies, with any
\* number of calls at once (origin-transfer.ts:186).
THEOREM SavedAlways == TransportSpec => []SavedIsOnDisk
<1>1. IInv => SavedIsOnDisk
  BY DEF IInv, Work
<1> QED BY <1>1, IInvAlways, PTL

\* A player that reads the stream never gets a byte that has not arrived,
\* wherever it reads and whatever is stopped, lost or begun anew meanwhile
\* (origin-transfer.ts:323).
THEOREM NoHoles == TransportSpec => []PlaysNoHoles
<1>1. IInv => PlaysNoHoles
  BY DEF IInv, Play
<1> QED BY <1>1, IInvAlways, PTL

-----------------------------------------------------------------------------
(* The swarm.                                                              *)

\* What a removal rests on.  A call that has not been made is idle; a receive
\* that waits for room or for destroy has no torrent; until the transport is
\* destroyed, a torrent is tracked or its receive is under way, and the one
\* that is being recorded is the torrent the client has.
Numbered == tracked <= swarmCalls /\ \A j \in Swarm!CallId: j > swarmCalls => swarmJobs[j].at = "done"

Waits(j) ==
    /\ swarmJobs[j].at = "stopping" => swarmJobs[j].kind # "receive"
    /\ Swarm!At(j, "receive", "room") => swarmJobs[j].tries = 0
    /\ Swarm!At(j, "receive", "room") \/ Swarm!At(j, "receive", "destroying") => torrent.of # j

Accounted == torrent.of # 0 => tracked = torrent.of \/ Swarm!Receiving(torrent.of)

Tracked ==
    /\ tracked # 0 => ~Swarm!Receiving(tracked)
    /\ \A j \in Swarm!CallId: Swarm!At(j, "receive", "recording") => torrent.of = j

Owned ==
    /\ Numbered /\ (\A j \in Swarm!CallId: Waits(j))
    /\ (torrent.of = 0 => torrent = Swarm!None)
    /\ (~over => Accounted /\ Tracked)

\* While a removal is asked for or done, nothing is at work on the film.
Quiet ==
    dir.gone # "no" => torrent = Swarm!None /\ \A j \in Swarm!CallId: ~Swarm!Receiving(j)

SwarmInv == Swarm!TypeOK /\ Owned /\ Quiet /\ Swarm!RemovedStays

Where == {"room", "adding", "destroying", "recording", "stopping", "removing", "done"}

LEMMA IdleJob == Swarm!Idle \in Swarm!Job /\ Swarm!Idle.kind = "receive" /\ Swarm!Idle.at = "done" /\ Swarm!Idle.tries = 0
BY DEF Swarm!Idle, Swarm!Job

LEMMA NoTorrent == Swarm!None.of = 0 /\ Swarm!None.ready = FALSE /\ Swarm!None \in [of: Swarm!CallId \cup {0}, ready: BOOLEAN]
BY DEF Swarm!None

LEMMA JobPlaced ==
  ASSUME NEW job \in Swarm!Job, NEW kind \in {"receive", "stop", "remove"}, NEW at \in Where
  PROVE  /\ [job EXCEPT !.at = at] \in Swarm!Job /\ [job EXCEPT !.at = at].at = at
         /\ [job EXCEPT !.at = at].kind = job.kind /\ [job EXCEPT !.at = at].tries = job.tries
         /\ [job EXCEPT !.kind = kind, !.at = at] \in Swarm!Job
         /\ [job EXCEPT !.kind = kind, !.at = at].kind = kind
         /\ [job EXCEPT !.kind = kind, !.at = at].at = at
BY DEF Swarm!Job, Where

\* What the ways of writing `jobs' do to it.
LEMMA Went ==
  ASSUME Swarm!TypeOK, NEW j \in Swarm!CallId, NEW at \in Where, Swarm!Go(j, at)
  PROVE  /\ swarmJobs' \in [Swarm!CallId -> Swarm!Job] /\ swarmJobs'[j].at = at
         /\ swarmJobs'[j].kind = swarmJobs[j].kind /\ swarmJobs'[j].tries = swarmJobs[j].tries
         /\ \A i \in Swarm!CallId: i # j => swarmJobs'[i] = swarmJobs[i]
BY DEF Swarm!TypeOK, Swarm!Job, Where, Swarm!Go

LEMMA Tried ==
  ASSUME Swarm!TypeOK, NEW j \in Swarm!CallId, Swarm!Attempt(j), swarmJobs[j].tries \in 0 .. 1
  PROVE  /\ swarmJobs' \in [Swarm!CallId -> Swarm!Job] /\ swarmJobs'[j].at = "adding"
         /\ swarmJobs'[j].kind = swarmJobs[j].kind
         /\ \A i \in Swarm!CallId: i # j => swarmJobs'[i] = swarmJobs[i]
<1>1. swarmJobs[j].tries + 1 \in 0 .. 2
  OBVIOUS
<1>2. PICK n \in 0 .. 2, b \in BOOLEAN:
        swarmJobs' = [swarmJobs EXCEPT ![j].tries = n, ![j].own = b, ![j].at = "adding"]
  BY <1>1 DEF Swarm!Attempt
<1>3. [swarmJobs[j] EXCEPT !.tries = n, !.own = b, !.at = "adding"] \in Swarm!Job
  BY DEF Swarm!TypeOK, Swarm!Job
<1> QED BY <1>2, <1>3 DEF Swarm!TypeOK

LEMMA Finished ==
  ASSUME Swarm!TypeOK, NEW j \in Swarm!CallId, swarmJobs' = [swarmJobs EXCEPT ![j] = Swarm!Idle]
  PROVE  /\ swarmJobs' \in [Swarm!CallId -> Swarm!Job] /\ swarmJobs'[j].at = "done" /\ swarmJobs'[j].kind = "receive"
         /\ \A i \in Swarm!CallId: i # j => swarmJobs'[i] = swarmJobs[i]
BY IdleJob DEF Swarm!TypeOK

LEMMA Called ==
  ASSUME MaxCalls \in Nat, Swarm!TypeOK, NEW job \in Swarm!Job, Swarm!Call(job)
  PROVE  /\ swarmJobs' \in [Swarm!CallId -> Swarm!Job] /\ swarmCalls' \in 0 .. MaxCalls
         /\ swarmCalls' = swarmCalls + 1 /\ swarmCalls' \in Swarm!CallId /\ ~over /\ swarmJobs'[swarmCalls'] = job
         /\ \A i \in Swarm!CallId: i # swarmCalls' => swarmJobs'[i] = swarmJobs[i]
BY DEF Swarm!TypeOK, Swarm!Call, Swarm!CallId

LEMMA Dropped ==
  ASSUME Swarm!TypeOK, NEW of \in Swarm!CallId \cup {0}, Swarm!Drop(of)
  PROVE  /\ torrent' \in [of: Swarm!CallId \cup {0}, ready: BOOLEAN]
         /\ torrent' = torrent \/ (torrent' = Swarm!None /\ torrent.of = of /\ of # 0)
         /\ torrent'.of = of => of = 0
BY NoTorrent DEF Swarm!TypeOK, Swarm!Drop

LEMMA Stops ==
  ASSUME MaxCalls \in Nat, Swarm!TypeOK, NEW kind \in {"stop", "remove"},
         NEW next \in {"done", "removing"}, Swarm!StopAs(kind, next)
  PROVE  /\ swarmJobs' \in [Swarm!CallId -> Swarm!Job] /\ swarmCalls' \in 0 .. MaxCalls
         /\ torrent' \in [of: Swarm!CallId \cup {0}, ready: BOOLEAN]
         /\ swarmCalls' = swarmCalls + 1 /\ swarmCalls' \in Swarm!CallId /\ ~over /\ swarmJobs'[swarmCalls'].kind = kind
         /\ \A i \in Swarm!CallId: i # swarmCalls' => swarmJobs'[i] = swarmJobs[i]
         /\ torrent' = torrent \/ (torrent' = Swarm!None /\ torrent.of = tracked /\ tracked # 0)
         /\ torrent'.of = tracked => tracked = 0
         /\ tracked' = 0 /\ over' = over
<1> DEFINE at == IF tracked = 0 THEN next ELSE "stopping"
           job == [Swarm!Idle EXCEPT !.kind = kind, !.at = at]
<1>1. job \in Swarm!Job /\ job.kind = kind
  <2>1. at \in Where /\ kind \in {"receive", "stop", "remove"}
    BY DEF Where
  <2> HIDE DEF at
  <2> QED BY <2>1, IdleJob DEF Swarm!Job, Where
<1>2. Swarm!Call(job) /\ Swarm!Drop(tracked) /\ tracked' = 0 /\ over' = over
  BY DEF Swarm!StopAs
<1>3. tracked \in Swarm!CallId \cup {0}
  BY DEF Swarm!TypeOK
<1> HIDE DEF job
<1> QED BY <1>1, <1>2, <1>3, Called, Dropped

LEMMA InitHolds == ASSUME MaxCalls \in Nat, Swarm!Init PROVE SwarmInv
<1>1. Swarm!TypeOK
  <2>1. dir \in [there: BOOLEAN, recorded: BOOLEAN, gone: {"no", "asked", "yes"}]
    BY DEF Swarm!Init
  <2>2. torrent \in [of: Swarm!CallId \cup {0}, ready: BOOLEAN] /\ swarmJobs \in [Swarm!CallId -> Swarm!Job]
    BY IdleJob, NoTorrent DEF Swarm!Init
  <2>3. over \in BOOLEAN
    BY DEF Swarm!Init
  <2>4. tracked \in Swarm!CallId \cup {0} /\ swarmCalls \in 0 .. MaxCalls
    BY DEF Swarm!Init
  <2> QED BY <2>1, <2>2, <2>3, <2>4 DEF Swarm!TypeOK
<1>2. Owned
  BY IdleJob, NoTorrent DEF Swarm!Init, Owned, Numbered, Waits, Accounted, Tracked, Swarm!At, Swarm!Receiving
<1>3. Quiet /\ Swarm!RemovedStays
  BY DEF Swarm!Init, Quiet, Swarm!RemovedStays
<1> QED BY <1>1, <1>2, <1>3 DEF SwarmInv

-----------------------------------------------------------------------------
(* Types                                                                   *)

LEMMA TypeStep == ASSUME MaxCalls \in Nat, Swarm!TypeOK, Owned, [Swarm!Next]_(Swarm!vars) PROVE Swarm!TypeOK'
<1>1. CASE Swarm!Receive
  <2>1. (IF tracked # 0 THEN Swarm!Idle ELSE [Swarm!Idle EXCEPT !.at = "room"]) \in Swarm!Job
    BY IdleJob, JobPlaced DEF Where
  <2> QED BY <1>1, <2>1, Called DEF Swarm!Receive, Swarm!TypeOK
<1>2. CASE Swarm!Write
  BY <1>2 DEF Swarm!Write, Swarm!TypeOK
<1>3. CASE Swarm!Stop
  BY <1>3, Stops DEF Swarm!Stop, Swarm!TypeOK
<1>4. CASE Swarm!Remove
  BY <1>4, Stops DEF Swarm!Remove, Swarm!Asked, Swarm!TypeOK
<1>5. CASE Swarm!Destroy
  <2>1. \A j \in Swarm!CallId: [swarmJobs[j] EXCEPT !.own = FALSE] \in Swarm!Job
    BY DEF Swarm!TypeOK, Swarm!Job
  <2> QED BY <1>5, <2>1, NoTorrent DEF Swarm!Destroy, Swarm!TypeOK
<1>6. ASSUME NEW j \in Swarm!CallId, Swarm!Attempt(j), swarmJobs[j].tries \in 0 .. 1 PROVE Swarm!TypeOK'
  <2>1. torrent' \in [of: Swarm!CallId \cup {0}, ready: BOOLEAN]
    BY <1>6 DEF Swarm!Attempt, Swarm!TypeOK, Swarm!None
  <2> QED BY <1>6, <2>1, Tried DEF Swarm!Attempt, Swarm!TypeOK
<1>7. ASSUME NEW j \in Swarm!CallId, Swarm!HasRoom(j) \/ Swarm!Retry(j) PROVE Swarm!TypeOK'
  BY <1>6, <1>7, Finished DEF Swarm!HasRoom, Swarm!Retry, Owned, Waits, Swarm!At, Swarm!TypeOK
<1>8. ASSUME NEW j \in Swarm!CallId, Swarm!Refuse(j) \/ Swarm!Recorded(j) \/ Swarm!Removed(j) PROVE Swarm!TypeOK'
  <2>1. swarmJobs' = [swarmJobs EXCEPT ![j] = Swarm!Idle] /\ UNCHANGED <<torrent, over, swarmCalls>> /\ tracked' \in {tracked, j}
    BY <1>8 DEF Swarm!Refuse, Swarm!Recorded, Swarm!Removed
  <2>2. dir' \in [there: BOOLEAN, recorded: BOOLEAN, gone: {"no", "asked", "yes"}]
    <3>1. CASE Swarm!Recorded(j)
      BY <3>1 DEF Swarm!Recorded, Swarm!TypeOK
    <3>2. CASE Swarm!Removed(j)
      BY <3>2 DEF Swarm!Removed, Swarm!TypeOK
    <3> QED BY <1>8, <3>1, <3>2 DEF Swarm!Refuse, Swarm!TypeOK
  <2> QED BY <2>1, <2>2, Finished DEF Swarm!TypeOK
<1>9. ASSUME NEW j \in Swarm!CallId, Swarm!Metadata(j) \/ Swarm!TimesOut(j) \/ Swarm!Stopped(j) PROVE Swarm!TypeOK'
  BY <1>9, Went, Finished, Dropped DEF Swarm!Metadata, Swarm!TimesOut, Swarm!Stopped, Swarm!TypeOK, Where
<1>10. CASE UNCHANGED Swarm!vars
  BY <1>10 DEF Swarm!vars, Swarm!TypeOK
<1> QED BY <1>1, <1>2, <1>3, <1>4, <1>5, <1>7, <1>8, <1>9, <1>10 DEF Swarm!Next

-----------------------------------------------------------------------------
(* Whose torrent it is                                                     *)

LEMMA OwnedStep == ASSUME MaxCalls \in Nat, Swarm!TypeOK, Owned, [Swarm!Next]_(Swarm!vars) PROVE Owned'
<1> USE DEF Swarm!At, Swarm!Receiving
<1>0. swarmCalls \in Nat /\ Swarm!CallId \subseteq Nat \ {0} /\ torrent.of \in Swarm!CallId \cup {0}
      /\ tracked \in Swarm!CallId \cup {0}
  BY DEF Swarm!TypeOK, Swarm!CallId
<1> DEFINE NoneAtAll == torrent.of = 0 => torrent = Swarm!None
<1>1. CASE Swarm!Receive
  <2> DEFINE job == IF tracked # 0 THEN Swarm!Idle ELSE [Swarm!Idle EXCEPT !.at = "room"]
  <2>1. job \in Swarm!Job /\ job.tries = 0 /\ job.kind = "receive" /\ job.at \in {"room", "done"}
    <3> DEFINE in == [Swarm!Idle EXCEPT !.at = "room"]
    <3>1. in \in Swarm!Job /\ in.at = "room" /\ in.kind = "receive" /\ in.tries = 0
      BY IdleJob DEF Swarm!Job
    <3>2. job = Swarm!Idle \/ job = in
      OBVIOUS
    <3> HIDE DEF in, job
    <3> QED BY <3>1, <3>2, IdleJob
  <2>2. Swarm!Call(job) /\ UNCHANGED <<torrent, tracked, over>>
    BY <1>1 DEF Swarm!Receive
  <2> HIDE DEF job
  <2>3. /\ swarmCalls' = swarmCalls + 1 /\ swarmCalls' \in Swarm!CallId /\ ~over /\ swarmJobs'[swarmCalls'] = job
        /\ \A i \in Swarm!CallId: i # swarmCalls' => swarmJobs'[i] = swarmJobs[i]
    BY <2>1, <2>2, Called
  <2>4. Numbered /\ Accounted /\ Tracked
    BY <2>3 DEF Owned
  <2>5. torrent.of # swarmCalls' /\ tracked # swarmCalls'
    BY <1>0, <2>3, <2>4 DEF Numbered, Accounted
  <2>6. Numbered'
    BY <1>0, <2>2, <2>3, <2>4 DEF Numbered
  <2>7. ASSUME NEW i \in Swarm!CallId PROVE Waits(i)'
    BY <2>1, <2>2, <2>3, <2>5 DEF Owned, Waits
  <2>8. Accounted' /\ Tracked'
    BY <1>0, <2>1, <2>2, <2>3, <2>4, <2>5 DEF Accounted, Tracked
  <2> QED BY <2>2, <2>6, <2>7, <2>8 DEF Owned
<1>2. CASE Swarm!Write
  BY <1>2 DEF Swarm!Write, Owned, Numbered, Waits, Accounted, Tracked
<1>3. CASE Swarm!Stop \/ Swarm!Remove
  <2>1. PICK kind \in {"stop", "remove"}, next \in {"done", "removing"}: Swarm!StopAs(kind, next)
    BY <1>3 DEF Swarm!Stop, Swarm!Remove
  <2>2. /\ swarmCalls' = swarmCalls + 1 /\ swarmCalls' \in Swarm!CallId /\ ~over /\ swarmJobs'[swarmCalls'].kind # "receive"
        /\ \A i \in Swarm!CallId: i # swarmCalls' => swarmJobs'[i] = swarmJobs[i]
        /\ torrent' = torrent \/ (torrent' = Swarm!None /\ torrent.of = tracked /\ tracked # 0)
        /\ torrent'.of = tracked => tracked = 0
        /\ tracked' = 0
    BY <2>1, Stops
  <2>3. Numbered /\ Accounted /\ Tracked
    BY <2>2 DEF Owned
  <2>4. torrent.of # swarmCalls'
    BY <1>0, <2>2, <2>3 DEF Numbered, Accounted
  <2>5. Numbered'
    BY <1>0, <2>2, <2>3 DEF Numbered
  <2>6. ASSUME NEW i \in Swarm!CallId PROVE Waits(i)'
    BY <1>0, <2>2, NoTorrent DEF Owned, Waits
  <2>7. Accounted' /\ Tracked'
    BY <1>0, <2>2, <2>3, <2>4, NoTorrent DEF Accounted, Tracked
  <2>8. NoneAtAll'
    BY <2>2, NoTorrent DEF Owned
  <2> QED BY <2>5, <2>6, <2>7, <2>8 DEF Owned
<1>4. CASE Swarm!Destroy
  <2>1. \A i \in Swarm!CallId: swarmJobs'[i].at = swarmJobs[i].at /\ swarmJobs'[i].kind = swarmJobs[i].kind
                        /\ swarmJobs'[i].tries = swarmJobs[i].tries
    BY <1>4 DEF Swarm!Destroy, Swarm!TypeOK, Swarm!Job
  <2>2. Numbered' /\ NoneAtAll'
    <3>1. Numbered /\ tracked' = 0 /\ swarmCalls' = swarmCalls /\ torrent' = Swarm!None
      BY <1>4 DEF Swarm!Destroy, Owned
    <3> QED BY <1>0, <2>1, <3>1 DEF Numbered
  <2>4. over'
    BY <1>4 DEF Swarm!Destroy
  <2>3. ASSUME NEW i \in Swarm!CallId PROVE Waits(i)'
    BY <1>0, <1>4, <2>1, NoTorrent DEF Swarm!Destroy, Owned, Waits
  <2> QED BY <2>2, <2>3, <2>4 DEF Owned
\* An await of a receive ends: what is left to say is what it does to its job and the torrent.
<1>5. ASSUME NEW j \in Swarm!CallId, swarmJobs[j].at # "done", UNCHANGED <<over, swarmCalls>>,
             \A i \in Swarm!CallId: i # j => swarmJobs'[i] = swarmJobs[i], tracked' \in {tracked, j}, Waits(j)', NoneAtAll',
             \A i \in Swarm!CallId: Waits(i) => Waits(i)', ~over /\ Accounted /\ Tracked => Accounted' /\ Tracked'
      PROVE  Owned'
  <2>1. Numbered'
    BY <1>0, <1>5 DEF Owned, Numbered
  <2> QED BY <1>5, <2>1 DEF Owned
<1>6. ASSUME NEW j \in Swarm!CallId, Swarm!Attempt(j), swarmJobs[j].kind = "receive",
             swarmJobs[j].at \in {"room", "destroying"}, swarmJobs[j].tries \in 0 .. 1
      PROVE  Owned'
  <2>1. torrent' = torrent \/ (torrent.of = 0 /\ torrent'.of = j)
    BY <1>6 DEF Swarm!Attempt, Swarm!None
  <2>2. /\ swarmJobs'[j].at = "adding" /\ swarmJobs'[j].kind = swarmJobs[j].kind
        /\ \A i \in Swarm!CallId: i # j => swarmJobs'[i] = swarmJobs[i]
    BY <1>6, Tried
  <2>3. Waits(j)' /\ NoneAtAll'
    BY <1>0, <2>1, <2>2 DEF Owned, Waits
  <2>4. ASSUME NEW i \in Swarm!CallId, Waits(i) PROVE Waits(i)'
    BY <2>1, <2>2, <2>3, <2>4 DEF Waits
  <2>5. ASSUME Accounted, Tracked PROVE Accounted' /\ Tracked'
    BY <1>0, <1>6, <2>1, <2>2, <2>5 DEF Swarm!Attempt, Accounted, Tracked
  <2> QED BY <1>5, <1>6, <2>2, <2>3, <2>4, <2>5 DEF Swarm!Attempt
<1>7. ASSUME NEW j \in Swarm!CallId, swarmJobs' = [swarmJobs EXCEPT ![j] = Swarm!Idle], swarmJobs[j].at # "done",
             UNCHANGED <<torrent, over, swarmCalls>>,
             \/ tracked' = tracked /\ ~(torrent.of = j /\ Swarm!Receiving(j))
             \/ tracked' = j /\ Swarm!At(j, "receive", "recording")
      PROVE  Owned'
  <2>1. /\ swarmJobs'[j].at = "done" /\ \A i \in Swarm!CallId: i # j => swarmJobs'[i] = swarmJobs[i]
    BY <1>7, Finished
  <2>2. Waits(j)' /\ NoneAtAll'
    BY <1>7, <2>1 DEF Owned, Waits
  <2>3. ASSUME NEW i \in Swarm!CallId, Waits(i) PROVE Waits(i)'
    BY <1>7, <2>1, <2>2, <2>3 DEF Waits
  <2>4. ASSUME Accounted, Tracked PROVE Accounted' /\ Tracked'
    BY <1>0, <1>7, <2>1, <2>4 DEF Accounted, Tracked
  <2> QED BY <1>5, <1>7, <2>1, <2>2, <2>3, <2>4
<1>8. ASSUME NEW j \in Swarm!CallId, Swarm!HasRoom(j) \/ Swarm!Retry(j) PROVE Owned'
  BY <1>6, <1>7, <1>8 DEF Swarm!HasRoom, Swarm!Retry, Owned, Waits, Swarm!TypeOK
<1>9. ASSUME NEW j \in Swarm!CallId, Swarm!Refuse(j) \/ Swarm!Recorded(j) PROVE Owned'
  BY <1>7, <1>9 DEF Swarm!Refuse, Swarm!Recorded, Owned, Waits
<1>10. ASSUME NEW j \in Swarm!CallId, Swarm!Metadata(j) PROVE Owned'
  <2>1. torrent.of = j /\ torrent'.of = j
    BY <1>10 DEF Swarm!Metadata, Swarm!None, Swarm!TypeOK
  <2>2. /\ swarmJobs'[j].at = "recording" /\ swarmJobs'[j].kind = swarmJobs[j].kind
        /\ \A i \in Swarm!CallId: i # j => swarmJobs'[i] = swarmJobs[i]
    BY <1>10, Went DEF Swarm!Metadata, Where
  <2>3. Waits(j)' /\ NoneAtAll'
    BY <1>0, <2>1, <2>2 DEF Waits
  <2>4. ASSUME NEW i \in Swarm!CallId, Waits(i) PROVE Waits(i)'
    BY <2>1, <2>2, <2>3, <2>4 DEF Waits
  <2>5. ASSUME Accounted, Tracked PROVE Accounted' /\ Tracked'
    BY <1>0, <1>10, <2>1, <2>2, <2>5 DEF Swarm!Metadata, Accounted, Tracked
  <2> QED BY <1>5, <1>10, <2>2, <2>3, <2>4, <2>5 DEF Swarm!Metadata
<1>11. ASSUME NEW j \in Swarm!CallId, Swarm!TimesOut(j) PROVE Owned'
  <2>1. torrent' = torrent \/ (torrent' = Swarm!None /\ torrent.of = j)
    BY <1>11, Dropped DEF Swarm!TimesOut
  <2>2. torrent'.of # j
    BY <1>0, <1>11, Dropped DEF Swarm!TimesOut
  <2>3. /\ swarmJobs'[j].at = "destroying" /\ swarmJobs'[j].kind = swarmJobs[j].kind
        /\ \A i \in Swarm!CallId: i # j => swarmJobs'[i] = swarmJobs[i]
    BY <1>11, Went DEF Swarm!TimesOut, Where
  <2>4. Waits(j)' /\ NoneAtAll'
    BY <2>1, <2>2, <2>3, NoTorrent DEF Owned, Waits
  <2>5. ASSUME NEW i \in Swarm!CallId, Waits(i) PROVE Waits(i)'
    BY <1>0, <2>1, <2>3, <2>4, <2>5, NoTorrent DEF Waits
  <2>6. ASSUME Accounted, Tracked PROVE Accounted' /\ Tracked'
    BY <1>0, <1>11, <2>1, <2>3, <2>6, NoTorrent DEF Swarm!TimesOut, Accounted, Tracked
  <2> QED BY <1>5, <1>11, <2>3, <2>4, <2>5, <2>6 DEF Swarm!TimesOut
<1>12. ASSUME NEW j \in Swarm!CallId, Swarm!Stopped(j) \/ Swarm!Removed(j) PROVE Owned'
  <2>1. swarmJobs[j].kind # "receive" /\ swarmJobs[j].at # "done" /\ UNCHANGED <<torrent, tracked, over, swarmCalls>>
    BY <1>12 DEF Swarm!Stopped, Swarm!Removed, Owned, Waits
  <2>2. CASE swarmJobs' = [swarmJobs EXCEPT ![j] = Swarm!Idle]
    BY <1>7, <2>1, <2>2
  <2>3. CASE Swarm!Go(j, "removing") /\ swarmJobs[j].kind = "remove"
    <3>1. /\ swarmJobs'[j].at = "removing" /\ swarmJobs'[j].kind = swarmJobs[j].kind
          /\ \A i \in Swarm!CallId: i # j => swarmJobs'[i] = swarmJobs[i]
      BY <2>3, Went DEF Where
    <3>2. Waits(j)' /\ NoneAtAll'
      BY <2>1, <2>3, <3>1 DEF Owned, Waits
    <3>3. ASSUME NEW i \in Swarm!CallId, Waits(i) PROVE Waits(i)'
      BY <2>1, <3>1, <3>2, <3>3 DEF Waits
    <3>4. ASSUME Accounted, Tracked PROVE Accounted' /\ Tracked'
      BY <1>0, <2>1, <2>3, <3>1, <3>4 DEF Accounted, Tracked
    <3> QED BY <1>5, <2>1, <3>1, <3>2, <3>3, <3>4
  <2> QED BY <1>12, <2>2, <2>3 DEF Swarm!Stopped, Swarm!Removed
<1>13. CASE UNCHANGED Swarm!vars
  BY <1>13 DEF Swarm!vars, Owned, Numbered, Waits, Accounted, Tracked
<1> QED BY <1>1, <1>2, <1>3, <1>4, <1>8, <1>9, <1>10, <1>11, <1>12, <1>13 DEF Swarm!Next

-----------------------------------------------------------------------------
(* Nothing works on what is being removed                                  *)

LEMMA QuietStep ==
  ASSUME MaxCalls \in Nat, Swarm!TypeOK, Owned, Quiet, Swarm!RemovedStays, [Swarm!Next]_(Swarm!vars)
  PROVE  Quiet' /\ Swarm!RemovedStays'
<1> USE DEF Swarm!TypeOK, Quiet, Swarm!RemovedStays, Swarm!CallId, Swarm!Job, Swarm!Idle, Swarm!None, Swarm!At, Swarm!Receiving
<1>1. CASE Swarm!Receive
  BY <1>1 DEF Swarm!Receive, Swarm!Call
<1>2. CASE Swarm!Write
  BY <1>2 DEF Swarm!Write
<1>3. CASE Swarm!Stop
  BY <1>3 DEF Swarm!Stop, Swarm!StopAs, Swarm!Call, Swarm!Drop
<1>4. CASE Swarm!Remove
  BY <1>4 DEF Swarm!Remove, Swarm!StopAs, Swarm!Asked, Swarm!Call, Swarm!Drop, Owned, Accounted
<1>5. CASE Swarm!Destroy
  BY <1>5 DEF Swarm!Destroy
<1>6. ASSUME NEW j \in Swarm!CallId, Swarm!Receiving(j), dir' = dir \/ dir'.gone = dir.gone,
             \A i \in Swarm!CallId: i # j => swarmJobs'[i] = swarmJobs[i]
      PROVE  Quiet' /\ Swarm!RemovedStays'
  BY <1>6
<1>7. ASSUME NEW j \in Swarm!CallId,
             Swarm!Refuse(j) \/ Swarm!HasRoom(j) \/ Swarm!Metadata(j) \/ Swarm!TimesOut(j) \/ Swarm!Retry(j) \/ Swarm!Recorded(j)
      PROVE  Quiet' /\ Swarm!RemovedStays'
  BY <1>7 DEF Swarm!Refuse, Swarm!HasRoom, Swarm!Metadata, Swarm!TimesOut, Swarm!Retry, Swarm!Recorded, Swarm!Attempt, Swarm!Go, Swarm!Drop
<1>8. ASSUME NEW j \in Swarm!CallId, Swarm!Stopped(j) \/ Swarm!Removed(j) PROVE Quiet' /\ Swarm!RemovedStays'
  BY <1>8 DEF Swarm!Stopped, Swarm!Removed, Swarm!Go
<1>9. CASE UNCHANGED Swarm!vars
  BY <1>9 DEF Swarm!vars
<1> QED BY <1>1, <1>2, <1>3, <1>4, <1>5, <1>7, <1>8, <1>9 DEF Swarm!Next

\* A step of the other transport leaves the swarm alone.
LEMMA SwarmSide == [TransportNext]_<<mode, vars, swarmVars>> => [Swarm!Next]_(Swarm!vars)
BY DEF TransportNext, swarmVars, Swarm!vars

LEMMA SwarmAlways == TransportSpec => []SwarmInv
<1>1. MaxCalls \in Nat
  BY OriginAssumption
<1>2. TransportInit => SwarmInv
  BY <1>1, InitHolds DEF TransportInit
<1>3. SwarmInv /\ [TransportNext]_<<mode, vars, swarmVars>> => SwarmInv'
  BY <1>1, SwarmSide, TypeStep, OwnedStep, QuietStep DEF SwarmInv
<1> QED BY <1>2, <1>3, PTL DEF TransportSpec

\* Every reachable state of the swarm transfer is well typed.
THEOREM SwarmTypeCorrect == TransportSpec => []Swarm!TypeOK
<1>1. SwarmInv => Swarm!TypeOK
  BY DEF SwarmInv
<1> QED BY <1>1, SwarmAlways, PTL

\* A film that was removed with no receive under way does not reappear on
\* disk, however receives, attempts, stops and removals overlapped before, and
\* whichever transport the room's mode calls for (transfer.ts:298,
\* handlers.ts:563).
THEOREM RemovedStaysAlways == TransportSpec => []RemovedStays
<1>1. SwarmInv => RemovedStays
  BY DEF SwarmInv, RemovedStays
<1> QED BY <1>1, SwarmAlways, PTL

=============================================================================
