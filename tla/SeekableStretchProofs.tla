------------------------ MODULE SeekableStretchProofs ------------------------
(***************************************************************************)
(* Theorems about SeekableStretch: a film of any number of pieces and any  *)
(* length, any number of buckets and members.  First the arithmetic of     *)
(* buckets; then what a seek kept inside a stretch asks for; then the      *)
(* inductive invariant, and a lemma for each part of it.                   *)
(***************************************************************************)
EXTENDS SeekableStretch, FoldLemmas, FiniteSetTheorems

-----------------------------------------------------------------------------
(* Buckets and ticks (readiness.ts:124).                                   *)

\* Of two numbers.
LEMMA MaxOfTwo == ASSUME NEW a \in Int, NEW b \in Int PROVE Max({a, b}) = IF a >= b THEN a ELSE b
BY DEF Max
LEMMA MinOfTwo == ASSUME NEW a \in Int, NEW b \in Int PROVE Min({a, b}) = IF a <= b THEN a ELSE b
BY DEF Min

\* What a quotient is, and what is one.
LEMMA Quotient ==
  ASSUME NEW a \in Nat, NEW d \in Nat \ {0}
  PROVE  a \div d \in Nat /\ d * (a \div d) <= a /\ a < d * (a \div d) + d
OBVIOUS
LEMMA QuotientIs ==
  ASSUME NEW a \in Nat, NEW d \in Nat \ {0}, NEW q \in Nat, d * q <= a, a < d * q + d
  PROVE  a \div d = q
OBVIOUS
LEMMA Remainder ==
  ASSUME NEW a \in Nat, NEW d \in Nat \ {0}
  PROVE  a = d * (a \div d) + (a % d)
BY Z3
LEMMA Shrink ==
  ASSUME NEW x \in Nat, NEW k \in Nat \ {0}, NEW n \in Nat \ {0}
  PROVE  (x * n) \div (k * n) = x \div k
OBVIOUS
\* The numbers among the constants.
LEMMA NumbersHold ==
  /\ PieceCount \in Nat \ {0} /\ Duration \in Nat \ {0} /\ Half \in Nat \ {0} /\ Buckets \in Nat \ {0}
  /\ StartBuffer \in Nat \ {0} /\ Tolerance \in Nat \ {0} /\ Moves \in Nat /\ Asks \in Nat
BY StretchAssumption

\* Ticks in a bucket.
Width == Duration \div Buckets

\* A bucket is a whole number of ticks.
LEMMA WholeTicks == Width \in Nat \ {0} /\ Duration = Width * Buckets
<1>1. Duration % Buckets = 0
  BY StretchAssumption
<1>2. Duration = Buckets * (Duration \div Buckets) + (Duration % Buckets)
  <2>1. Duration \in Nat /\ Buckets \in Nat \ {0}
    BY NumbersHold
  <2> QED BY <2>1, Remainder
<1>3. Width \in Nat /\ Buckets * Width = Width * Buckets
  BY NumbersHold DEF Width
<1>4. Duration = Width * Buckets
  BY <1>1, <1>2, <1>3, NumbersHold DEF Width
<1>5. Width # 0
  BY <1>4, NumbersHold
<1> QED BY <1>3, <1>4, <1>5

\* The bucket of a moment, in ticks.
LEMMA BucketIs ==
  ASSUME NEW t \in Nat
  PROVE  /\ BucketOf(t) \in Slots
         /\ t < Duration => BucketOf(t) = t \div Width
<1> DEFINE x == IF t <= Duration - 1 THEN t ELSE Duration - 1
<1>0. Width \in Nat \ {0} /\ Duration = Width * Buckets /\ Duration \in Nat \ {0} /\ Buckets \in Nat \ {0}
  BY WholeTicks, NumbersHold
<1>1. Min({t, Duration - 1}) = x /\ x \in Nat /\ x <= Duration - 1
  BY <1>0, MinOfTwo
<1> HIDE DEF x
<1>2. (x * Buckets) \div Duration = x \div Width
  BY <1>0, <1>1, Shrink
<1>3. x \div Width \in Nat /\ Width * (x \div Width) <= x
  BY <1>0, <1>1, Quotient
<1>4. x \div Width <= Buckets - 1
  <2> DEFINE q == x \div Width
  <2> HIDE DEF q
  <2>1. q \in Nat /\ Width * q < Width * Buckets
    BY <1>0, <1>1, <1>3 DEF q
  <2>2. q >= Buckets => Width * q >= Width * Buckets
    BY <1>0, <2>1
  <2>3. q < Buckets
    BY <1>0, <2>1, <2>2
  <2> QED BY <1>0, <2>1, <2>3 DEF q
<1>5. BucketOf(t) = x \div Width
  <2> DEFINE q == x \div Width
  <2> HIDE DEF q
  <2>1. q \in Int /\ Buckets - 1 \in Int /\ q <= Buckets - 1
    BY <1>0, <1>3, <1>4 DEF q
  <2>2. BucketOf(t) = Min({q, Buckets - 1})
    BY <1>1, <1>2 DEF BucketOf, q
  <2>3. Min({q, Buckets - 1}) = q
    BY <2>1, MinOfTwo
  <2> QED BY <2>2, <2>3 DEF q
<1>6. t < Duration => x = t
  BY <1>0 DEF x
<1> QED BY <1>0, <1>3, <1>4, <1>5, <1>6 DEF Slots

\* A moment between two bucket boundaries is in a bucket between those two.
LEMMA Between ==
  ASSUME NEW t \in Nat, NEW lo \in Slots, NEW hi \in Slots, lo * Width <= t, t < (hi + 1) * Width
  PROVE  lo <= BucketOf(t) /\ BucketOf(t) <= hi
<1>0. Width \in Nat \ {0} /\ Duration = Width * Buckets /\ Buckets \in Nat \ {0} /\ lo \in Nat /\ hi \in Nat /\ hi + 1 <= Buckets
  BY WholeTicks, NumbersHold DEF Slots
<1>1. t < Duration
  <2>1. (hi + 1) * Width <= Buckets * Width
    BY <1>0
  <2> QED BY <1>0, <2>1
<1> DEFINE q == t \div Width
<1>2. q \in Nat /\ Width * q <= t /\ t < Width * q + Width
  BY <1>0, Quotient
<1>3. BucketOf(t) = q
  BY <1>1, BucketIs
<1> HIDE DEF q
<1>4. q < lo => Width * q + Width <= lo * Width
  <2> SUFFICES ASSUME q + 1 <= lo PROVE Width * (q + 1) <= Width * lo
    BY <1>0, <1>2
  <2> QED BY <1>0, <1>2
<1>5. q > hi => (hi + 1) * Width <= Width * q
  <2> SUFFICES ASSUME hi + 1 <= q PROVE Width * (hi + 1) <= Width * q
    BY <1>0, <1>2
  <2> QED BY <1>0, <1>2
<1> QED BY <1>0, <1>2, <1>3, <1>4, <1>5

-----------------------------------------------------------------------------
(* A seek kept inside the stretch (App.tsx:384-405).                       *)

\* Where the stretch around the position begins and ends, in buckets.
Starts(m) == {b \in 0 .. BucketOf(pos) : b = 0 \/ b - 1 \notin Lit(m)}
Ends(m) == {b \in BucketOf(pos) .. Buckets - 1 : b = Buckets - 1 \/ b + 1 \notin Lit(m)}

\* The stretch contains the bucket of the position, and everything in it is held.
LEMMA Around ==
  ASSUME NEW m, pos \in Nat, Held(m)
  PROVE  /\ Max(Starts(m)) \in Slots /\ Min(Ends(m)) \in Slots
         /\ Max(Starts(m)) <= BucketOf(pos) /\ BucketOf(pos) <= Min(Ends(m))
         /\ \A b \in Slots : Max(Starts(m)) <= b /\ b <= Min(Ends(m)) => b \in Lit(m)
<1> DEFINE here == BucketOf(pos)
           lo == Max(Starts(m))
           hi == Min(Ends(m))
<1>1. here \in Nat /\ here <= Buckets - 1 /\ Buckets \in Nat \ {0} /\ here \in Lit(m)
  BY BucketIs, NumbersHold DEF Slots, Held
<1>2. lo \in Starts(m) /\ \A b \in Starts(m) : lo >= b
  <2>1. Starts(m) \in SUBSET (0 .. here) /\ 0 \in Starts(m)
    BY <1>1 DEF Starts
  <2> QED BY <1>1, <2>1, MaxUpTo
<1>3. hi \in Ends(m) /\ \A b \in Ends(m) : hi <= b
  <2>1. Ends(m) \in SUBSET Nat /\ Buckets - 1 \in Ends(m)
    BY <1>1 DEF Ends
  <2> QED BY <2>1, MinIsLeast
<1> HIDE DEF lo, hi
<1>4. lo \in 0 .. here /\ hi \in here .. Buckets - 1
  BY <1>2, <1>3 DEF Starts, Ends
<1>5. ASSUME NEW b \in Slots, lo <= b, b <= hi, b \notin Lit(m) PROVE FALSE
  <2>1. CASE b < here
    <3>1. b + 1 \in 0 .. here /\ (b + 1) - 1 \notin Lit(m)
      BY <1>1, <1>5, <2>1 DEF Slots
    <3>2. b + 1 \in Starts(m)
      BY <3>1 DEF Starts
    <3> QED BY <1>1, <1>2, <1>4, <1>5, <3>1, <3>2 DEF Slots
  <2>2. CASE b > here
    <3>1. b - 1 \in here .. Buckets - 1 /\ (b - 1) + 1 \notin Lit(m)
      BY <1>1, <1>5, <2>2 DEF Slots
    <3>2. b - 1 \in Ends(m)
      BY <3>1 DEF Ends
    <3> QED BY <1>1, <1>3, <1>4, <1>5, <3>1, <3>2 DEF Slots
  <2> QED BY <1>1, <1>5, <2>1, <2>2 DEF Slots
<1> QED BY <1>1, <1>4, <1>5 DEF lo, hi, Slots

\* What the interface asks for lies in the stretch it shows.
LEMMA ClampLands ==
  ASSUME NEW m, pos \in Nat, NEW t \in Time, Held(m)
  PROVE  Clamp(m, t) \in Time /\ BucketOf(Clamp(m, t)) \in Lit(m)
<1> DEFINE lo == Max(Starts(m))
           hi == Min(Ends(m))
           from == lo * Width
           to == (hi + 1) * Width
<1>0. /\ Width \in Nat \ {0} /\ Buckets \in Nat \ {0} /\ Half \in Nat \ {0} /\ Duration \in Nat \ {0}
      /\ Duration = Width * Buckets /\ t \in Nat
  BY WholeTicks, NumbersHold DEF Time
<1>1. /\ lo \in Slots /\ hi \in Slots /\ lo <= hi
      /\ \A b \in Slots : lo <= b /\ b <= hi => b \in Lit(m)
  <2> HIDE DEF lo, hi
  <2>1. lo <= BucketOf(pos) /\ BucketOf(pos) <= hi /\ lo \in Slots /\ hi \in Slots
    BY Around DEF lo, hi
  <2>2. BucketOf(pos) \in Slots
    BY BucketIs
  <2>3. lo <= hi
    BY <1>0, <2>1, <2>2 DEF Slots
  <2> QED BY <2>1, <2>3, Around DEF lo, hi
<1>2. ASSUME NEW b \in Nat PROVE (b * Duration) \div Buckets = b * Width
  <2>1. b * Duration = (b * Width) * Buckets
    BY <1>0
  <2>2. b * Width \in Nat /\ Buckets * (b * Width) = (b * Width) * Buckets
    BY <1>0
  <2>3. (b * Width) * Buckets \in Nat
    BY <1>0, <2>2
  <2> DEFINE q == b * Width
             a == q * Buckets
  <2> HIDE DEF q
  <2>4. q \in Nat /\ a \in Nat /\ Buckets * q <= a /\ a < Buckets * q + Buckets
    BY <1>0, <2>2 DEF q
  <2> HIDE DEF a
  <2>5. a \div Buckets = q
    BY <1>0, <2>4, QuotientIs
  <2> QED BY <2>1, <2>5 DEF q, a
<1>3. From(m) = from /\ (To(m) * Duration) \div Buckets = to
  <2>1. lo \in Nat /\ hi + 1 \in Nat
    BY <1>1 DEF Slots
  <2>2. From(m) = (lo * Duration) \div Buckets /\ To(m) = hi + 1
    BY DEF From, To, Starts, Ends
  <2> HIDE DEF lo, hi
  <2> QED BY <1>2, <2>1, <2>2
<1>4. from \in Nat /\ to \in Nat /\ from + Width <= to /\ to <= Duration
  <2> HIDE DEF lo, hi
  <2>1. lo \in Nat /\ hi \in Nat /\ lo + 1 <= hi + 1 /\ hi + 1 <= Buckets
    BY <1>0, <1>1 DEF Slots
  <2>2. (lo + 1) * Width <= (hi + 1) * Width /\ (hi + 1) * Width <= Buckets * Width
    BY <1>0, <2>1
  <2> QED BY <1>0, <2>1, <2>2
<1>5. from <= Clamp(m, t) /\ Clamp(m, t) < to /\ Clamp(m, t) \in Nat
  <2> HIDE DEF from, to, lo, hi
  <2>1. Clamp(m, t) = Max({from, Min({t, Max({from, to - Half})})})
    BY <1>3 DEF Clamp
  <2>2. Max({from, to - Half}) = IF from >= to - Half THEN from ELSE to - Half
    BY <1>0, <1>4, MaxOfTwo
  <2> DEFINE end == IF from >= to - Half THEN from ELSE to - Half
  <2>3. end \in Int /\ from <= end /\ end < to
    BY <1>0, <1>4
  <2> HIDE DEF end
  <2>4. Min({t, end}) = IF t <= end THEN t ELSE end
    BY <1>0, <2>3, MinOfTwo
  <2> DEFINE kept == IF t <= end THEN t ELSE end
  <2>5. kept \in Int /\ kept < to
    BY <1>0, <1>4, <2>3
  <2> HIDE DEF kept
  <2>6. Max({from, kept}) = IF from >= kept THEN from ELSE kept
    BY <1>4, <2>5, MaxOfTwo
  <2>7. Clamp(m, t) = IF from >= kept THEN from ELSE kept
    BY <2>1, <2>2, <2>4, <2>6 DEF end, kept
  <2> QED BY <1>0, <1>4, <2>5, <2>7
<1> HIDE DEF lo, hi
<1>6. lo <= BucketOf(Clamp(m, t)) /\ BucketOf(Clamp(m, t)) <= hi
  BY <1>1, <1>5, Between
<1>7. BucketOf(Clamp(m, t)) \in Slots
  BY <1>5, BucketIs
<1>8. Clamp(m, t) \in Time
  BY <1>0, <1>4, <1>5 DEF Time
<1> QED BY <1>1, <1>6, <1>7, <1>8

-----------------------------------------------------------------------------
(* Pieces and reports; the inductive invariant.                            *)

\* More pieces make a larger map.
LEMMA Filled ==
  ASSUME NEW held \in SUBSET Pieces, NEW more \in SUBSET Pieces, held \subseteq more
  PROVE  PieceMap(held) \subseteq PieceMap(more)
BY DEF PieceMap

\* Every moment falls into a piece of the film (pieces.ts:41).
LEMMA PieceExists == ASSUME NEW t \in Nat PROVE PieceAt(t) \in Pieces
<1>1. PieceCount \in Nat \ {0} /\ Duration \in Nat \ {0} /\ t * PieceCount \in Nat
  BY NumbersHold
<1>2. (t * PieceCount) \div Duration \in Nat
  BY <1>1, Quotient
<1>3. PieceAt(t) = IF (t * PieceCount) \div Duration <= PieceCount - 1 THEN (t * PieceCount) \div Duration ELSE PieceCount - 1
  BY <1>1, <1>2, MinOfTwo DEF PieceAt
<1> QED BY <1>1, <1>2, <1>3 DEF Pieces

\* At most one element.
One(S) == \E x : S \subseteq {x}
LEMMA OneIs == ASSUME NEW S, One(S) PROVE Cardinality(S) <= 1 /\ Cardinality(S) \in Nat
<1>1. PICK x : S \subseteq {x}
  BY DEF One
<1>2. S = {} \/ S = {x}
  BY <1>1
<1>3. Cardinality({}) = 0 /\ Cardinality({x}) = 1
  BY FS_EmptySet, FS_Singleton
<1> QED BY <1>2, <1>3

Seek0 == [by : present, at : Time, sure : BOOLEAN]

Types ==
  /\ present \subseteq Members /\ have \in [Members -> SUBSET Pieces] /\ opened \subseteq carry /\ carry \subseteq Members
  /\ report \in [Members -> [whole : BOOLEAN, ready : BOOLEAN, map : SUBSET SUBSET Slots]]
  /\ shown \in [Members -> SUBSET SUBSET Slots]
  /\ pos \in Time /\ kind \in {"paused", "playing"} /\ fresh \subseteq present
  /\ asked \subseteq [by : present, at : Time, sure : BOOLEAN]
  /\ moves \in 0 .. Moves /\ asks \in 0 .. Asks
  /\ One(asked) /\ \A m \in Members : One(shown[m])

\* What a report says is so, and stays so.
ReportsHold ==
  \A m \in Members :
    /\ report[m] = NoReport \/ report[m].map \subseteq SUBSET PieceMap(have[m])
    /\ m \notin present => report[m] = NoReport
\* What those who are up to date are shown is within what is seekable.
ShownHolds == \A m \in fresh : Lit(m) \subseteq SeekableBuckets

IInv == Types /\ ReportsHold /\ ShownHolds /\ ClampAccepted

LEMMA Typed == ASSUME Types, ReportsHold PROVE TypeOK
<1>1. Cardinality(asked) <= 1 /\ \A m \in Members : Cardinality(shown[m]) <= 1
  BY OneIs DEF Types
<1> QED BY <1>1 DEF Types, ReportsHold, TypeOK

LEMMA InitHolds == Init => IInv
<1> SUFFICES ASSUME Init PROVE IInv
  OBVIOUS
<1>1. One({})
  BY DEF One
<1>2. Types
  <2>1. Sharer \in Members /\ 0 \in Time /\ Moves \in 0 .. Moves /\ Asks \in 0 .. Asks
    BY StretchAssumption, NumbersHold DEF Time
  <2>2. NoReport \in [whole : BOOLEAN, ready : BOOLEAN, map : SUBSET SUBSET Slots]
    BY DEF NoReport
  <2>3. have \in [Members -> SUBSET Pieces]
    BY DEF Init
  <2> QED BY <1>1, <2>1, <2>2, <2>3 DEF Init, Types
<1>3. ReportsHold
  BY DEF Init, ReportsHold, NoReport
<1> QED BY <1>2, <1>3 DEF Init, IInv, ShownHolds, ClampAccepted

\* What a change of the reports needs for the rest to hold on: who has a map has the same or a
\* larger one, unless nobody is up to date any more.
LEMMA Grows ==
  ASSUME SeekableBuckets \subseteq SeekableBuckets',
         NEW t \in Nat, SeekableAt(t)
  PROVE  SeekableAt(t)'
BY DEF SeekableAt, BucketOf

-----------------------------------------------------------------------------
(* Each part of it after a step.                                           *)

LEMMA TypesStep == ASSUME IInv, [Next]_vars PROVE Types'
<1> USE DEF IInv, Types
<1>0. Time \subseteq Nat /\ Duration \in Nat
  BY NumbersHold DEF Time
<1>1. ASSUME NEW m \in Members, Join(m) PROVE Types'
  <2>1. shown' \in [Members -> SUBSET SUBSET Slots] /\ \A n \in Members : One(shown'[n])
    BY <1>1 DEF Join, One
  <2>2. moves' \in 0 .. Moves
    BY <1>1, NumbersHold DEF Join
  <2>3. asked' \subseteq [by : present', at : Time, sure : BOOLEAN]
    BY <1>1 DEF Join
  <2> QED BY <1>1, <2>1, <2>2, <2>3 DEF Join
<1>2. ASSUME NEW m \in Members, Leave(m) PROVE Types'
  <2>1. NoReport \in [whole : BOOLEAN, ready : BOOLEAN, map : SUBSET SUBSET Slots]
    BY DEF NoReport
  <2>2. asked' \subseteq [by : present', at : Time, sure : BOOLEAN] /\ One(asked')
    <3>1. \A a \in asked' : a \in asked /\ a.by \in present'
      BY <1>2 DEF Leave
    <3>2. asked' \subseteq [by : present', at : Time, sure : BOOLEAN]
      BY <3>1
    <3> QED BY <3>1, <3>2 DEF One
  <2>3. moves' \in 0 .. Moves
    BY <1>2, NumbersHold DEF Leave
  <2>4. report' \in [Members -> [whole : BOOLEAN, ready : BOOLEAN, map : SUBSET SUBSET Slots]]
    BY <1>2, <2>1 DEF Leave
  <2> QED BY <1>2, <2>2, <2>3, <2>4 DEF Leave
<1>3. ASSUME NEW m \in Members, CloseFilm(m) \/ Receive(m) \/ Opens(m) PROVE Types'
  <2>1. moves' \in 0 .. Moves
    BY <1>3, NumbersHold DEF CloseFilm, Receive, Opens
  <2> QED BY <1>3, <2>1 DEF CloseFilm, Receive, Opens
<1>4. ASSUME NEW m \in Members, Fetches(m) PROVE Types'
  BY <1>4 DEF Fetches, PieceArrives
<1>5. ASSUME NEW m \in Members, Report(m) PROVE Types'
  <2>1. ReportFor(m) \in [whole : BOOLEAN, ready : BOOLEAN, map : SUBSET SUBSET Slots]
    BY DEF ReportFor, Whole, IsReady, PieceMap
  <2>2. asked' \subseteq [by : present, at : Time, sure : BOOLEAN] /\ One(asked')
    <3>1. CASE asked' = asked
      BY <3>1
    <3>2. CASE asked' = {[a EXCEPT !.sure = FALSE] : a \in asked}
      <4>1. PICK x : asked \subseteq {x}
        BY DEF One
      <4>2. asked' \subseteq {[x EXCEPT !.sure = FALSE]}
        BY <3>2, <4>1
      <4>3. \A a \in asked : [a EXCEPT !.sure = FALSE] \in [by : present, at : Time, sure : BOOLEAN]
        OBVIOUS
      <4> QED BY <3>2, <4>2, <4>3 DEF One
    <3> QED BY <1>5, <3>1, <3>2 DEF Report
  <2>3. fresh' \subseteq present
    BY <1>5 DEF Report
  <2>4. report' \in [Members -> [whole : BOOLEAN, ready : BOOLEAN, map : SUBSET SUBSET Slots]]
    BY <1>5, <2>1 DEF Report
  <2> QED BY <1>5, <2>2, <2>3, <2>4 DEF Report
<1>6. ASSUME NEW m \in Members, NEW t \in Time, Ask(m, t) PROVE Types'
  <2>1. Clamp(m, t) \in Time
    BY <1>0, ClampLands DEF Clamp
  <2>2. [by |-> m, at |-> Clamp(m, t), sure |-> Held(m) /\ m \in fresh] \in [by : present, at : Time, sure : BOOLEAN]
    BY <1>6, <2>1 DEF Ask, Held
  <2>3. asks' \in 0 .. Asks
    BY <1>6, NumbersHold DEF Ask
  <2> QED BY <1>6, <2>2, <2>3 DEF Ask, One
<1>7. CASE StatusTick
  <2>1. \A m \in Members : shown'[m] \in SUBSET SUBSET Slots /\ One(shown'[m])
    BY <1>7 DEF StatusTick, One, SeekableBuckets
  <2>2. shown' \in [Members -> SUBSET SUBSET Slots]
    BY <1>7, <2>1 DEF StatusTick
  <2> QED BY <1>7, <2>1, <2>2 DEF StatusTick
<1>8. CASE Seek
  BY <1>8 DEF Seek, One
<1>9. CASE PlayOrPause
  BY <1>9, NumbersHold DEF PlayOrPause
<1>10. CASE Elapses
  BY <1>0, <1>10 DEF Elapses, Time
<1>11. CASE UNCHANGED vars
  BY <1>11 DEF vars
<1> QED BY <1>1, <1>2, <1>3, <1>4, <1>5, <1>6, <1>7, <1>8, <1>9, <1>10, <1>11 DEF Next

LEMMA ReportsStep == ASSUME IInv, [Next]_vars PROVE ReportsHold'
<1> USE DEF IInv, Types, ReportsHold
<1>1. ASSUME NEW m \in Members, Join(m) \/ CloseFilm(m) \/ Receive(m) \/ Opens(m) PROVE ReportsHold'
  BY <1>1 DEF Join, CloseFilm, Receive, Opens
<1>2. ASSUME NEW m \in Members, Leave(m) PROVE ReportsHold'
  BY <1>2 DEF Leave, NoReport
<1>3. ASSUME NEW m \in Members, Fetches(m) PROVE ReportsHold'
  <2>1. \A n \in Members : have[n] \subseteq have'[n] /\ have'[n] \in SUBSET Pieces
    BY <1>3 DEF Fetches, PieceArrives
  <2>2. \A n \in Members : PieceMap(have[n]) \subseteq PieceMap(have'[n])
    BY <2>1, Filled
  <2> QED BY <1>3, <2>2 DEF Fetches, PieceArrives
<1>4. ASSUME NEW m \in Members, Report(m) PROVE ReportsHold'
  <2>1. m \in present /\ have' = have /\ present' = present /\ report' = [report EXCEPT ![m] = ReportFor(m)]
    BY <1>4 DEF Report
  <2>2. ReportFor(m).map \subseteq SUBSET PieceMap(have[m])
    BY DEF ReportFor
  <2> QED BY <2>1, <2>2
<1>5. CASE StatusTick \/ Seek \/ PlayOrPause \/ Elapses \/ UNCHANGED vars \/ \E m \in Members, t \in Time : Ask(m, t)
  BY <1>5 DEF StatusTick, Seek, PlayOrPause, Elapses, vars, Ask
<1> QED BY <1>1, <1>2, <1>3, <1>4, <1>5 DEF Next

\* A bucket everybody held is one everybody holds: whoever reports goes on holding what they held, and
\* who leaves is not asked.  Only somebody's first map takes buckets away.
LEMMA StretchGrows ==
  ASSUME IInv, [Next]_vars
  PROVE  \/ SeekableBuckets \subseteq SeekableBuckets'
         \/ fresh' = {} /\ \A a \in asked' : ~a.sure
<1> USE DEF IInv, Types
<1>1. ASSUME \A m \in present' : m \in present \/ report'[m] = NoReport,
             \A m \in Members : report'[m] \in {report[m], NoReport}
      PROVE  SeekableBuckets \subseteq SeekableBuckets'
  <2>1. \A m \in Reporting' : m \in Reporting /\ report'[m] = report[m]
    BY <1>1 DEF Reporting, NoReport
  <2> QED BY <2>1 DEF SeekableBuckets
<1>2. ASSUME NEW m \in Members, Join(m) PROVE SeekableBuckets \subseteq SeekableBuckets'
  BY <1>1, <1>2 DEF Join, ReportsHold
<1>3. ASSUME NEW m \in Members, Leave(m) PROVE SeekableBuckets \subseteq SeekableBuckets'
  BY <1>1, <1>3 DEF Leave
<1>4. ASSUME UNCHANGED <<present, report>> PROVE SeekableBuckets \subseteq SeekableBuckets'
  BY <1>1, <1>4
<1>5. ASSUME NEW m \in Members, Report(m), report[m].map # {} PROVE SeekableBuckets \subseteq SeekableBuckets'
  <2>1. m \in present /\ present' = present /\ have' = have /\ report' = [report EXCEPT ![m] = ReportFor(m)]
    BY <1>5 DEF Report
  <2>2. \A map \in ReportFor(m).map : map = PieceMap(have[m])
    BY DEF ReportFor
  <2>3. \A map \in report[m].map : map \subseteq PieceMap(have[m])
    BY <1>5 DEF ReportsHold, NoReport
  <2>4. Reporting' \subseteq Reporting
    BY <1>5, <2>1 DEF Reporting
  <2>5. ASSUME NEW b \in SeekableBuckets, NEW n \in Reporting', NEW map \in report'[n].map PROVE b \in map
    <3>1. n \in Reporting /\ n \in Members
      BY <2>1, <2>4 DEF Reporting
    <3>2. CASE n = m
      <4>1. PICK old \in report[m].map : TRUE
        BY <1>5
      <4>2. b \in old
        BY <3>1, <3>2, <4>1 DEF SeekableBuckets
      <4> QED BY <2>1, <2>2, <2>3, <2>5, <3>2, <4>1, <4>2
    <3>3. CASE n # m
      BY <2>1, <2>5, <3>1, <3>3 DEF SeekableBuckets
    <3> QED BY <3>2, <3>3
  <2> QED BY <2>5 DEF SeekableBuckets
<1>6. ASSUME NEW m \in Members, Report(m), report[m].map = {} PROVE fresh' = {} /\ \A a \in asked' : ~a.sure
  BY <1>6 DEF Report
<1>7. CASE StatusTick \/ Seek \/ PlayOrPause \/ Elapses \/ UNCHANGED vars \/ (\E m \in Members, t \in Time : Ask(m, t))
           \/ \E m \in Members : CloseFilm(m) \/ Receive(m) \/ Opens(m) \/ Fetches(m)
  BY <1>4, <1>7 DEF StatusTick, Seek, PlayOrPause, Elapses, vars, Ask, CloseFilm, Receive, Opens, Fetches, PieceArrives
<1> QED BY <1>2, <1>3, <1>5, <1>6, <1>7 DEF Next

LEMMA ShownStep == ASSUME IInv, [Next]_vars PROVE ShownHolds'
<1> USE DEF IInv, Types
<1>1. CASE fresh' = {}
  BY <1>1 DEF ShownHolds
<1>2. CASE StatusTick
  <2>1. \A m \in fresh' : m \in Members /\ shown'[m] = {SeekableBuckets}
    BY <1>2 DEF StatusTick
  <2>2. SeekableBuckets' = SeekableBuckets
    BY <1>2 DEF StatusTick, SeekableBuckets, Reporting
  <2> QED BY <2>1, <2>2 DEF ShownHolds, Lit
<1>3. CASE SeekableBuckets \subseteq SeekableBuckets' /\ ~StatusTick
  <2>1. ASSUME NEW m \in fresh' PROVE m \in fresh /\ shown'[m] = shown[m]
    <3>1. fresh' \subseteq fresh
      <4>1. ASSUME NEW n \in Members, Join(n) \/ Leave(n) \/ CloseFilm(n) \/ Receive(n) \/ Opens(n) \/ Fetches(n) \/ Report(n) PROVE fresh' \subseteq fresh
        BY <4>1 DEF Join, Leave, CloseFilm, Receive, Opens, Fetches, PieceArrives, Report
      <4>2. CASE Seek \/ PlayOrPause \/ Elapses \/ UNCHANGED vars \/ (\E n \in Members, t \in Time : Ask(n, t))
        BY <4>2 DEF Seek, PlayOrPause, Elapses, vars, Ask
      <4> QED BY <1>3, <4>1, <4>2 DEF Next
    <3>2. m \in present
      BY <2>1, <3>1
    <3>3. shown' = shown \/ \E n \in Members : n \notin present /\ shown' = [shown EXCEPT ![n] = {}]
      <4>1. ASSUME NEW n \in Members, Join(n) \/ Leave(n) \/ CloseFilm(n) \/ Receive(n) \/ Opens(n) \/ Fetches(n) \/ Report(n)
            PROVE  shown' = shown \/ (n \notin present /\ shown' = [shown EXCEPT ![n] = {}])
        BY <4>1 DEF Join, Leave, CloseFilm, Receive, Opens, Fetches, PieceArrives, Report
      <4>2. CASE Seek \/ PlayOrPause \/ Elapses \/ UNCHANGED vars \/ (\E n \in Members, t \in Time : Ask(n, t))
        BY <4>2 DEF Seek, PlayOrPause, Elapses, vars, Ask
      <4> QED BY <1>3, <4>1, <4>2 DEF Next
    <3> QED BY <2>1, <3>1, <3>2, <3>3
  <2> QED BY <1>3, <2>1 DEF ShownHolds, Lit
<1> QED BY <1>1, <1>2, <1>3, StretchGrows

\* What was asked inside a stretch stays inside what is seekable, or is not sure any more.
LEMMA ClampStep == ASSUME IInv, [Next]_vars PROVE ClampAccepted'
<1> USE DEF IInv, Types
<1>0. Time \subseteq Nat
  BY NumbersHold DEF Time
<1>1. CASE \A a \in asked' : ~a.sure
  BY <1>1 DEF ClampAccepted
<1>2. CASE SeekableBuckets \subseteq SeekableBuckets' /\ asked' \subseteq asked
  <2>1. ASSUME NEW a \in asked', a.sure PROVE SeekableAt(a.at)'
    BY <1>0, <1>2, <2>1, Grows DEF ClampAccepted
  <2> QED BY <2>1 DEF ClampAccepted
<1>3. ASSUME NEW m \in Members, NEW t \in Time, Ask(m, t) PROVE ClampAccepted'
  <2>1. asked' = {[by |-> m, at |-> Clamp(m, t), sure |-> Held(m) /\ m \in fresh]}
        /\ UNCHANGED <<present, report, pos, shown, fresh>>
    BY <1>3 DEF Ask
  <2>2. ASSUME Held(m), m \in fresh PROVE SeekableAt(Clamp(m, t))
    BY <1>0, <2>2, ClampLands DEF ShownHolds, SeekableAt
  <2>3. SeekableBuckets' = SeekableBuckets
    BY <2>1 DEF SeekableBuckets, Reporting
  <2>4. ASSUME NEW a \in asked', a.sure PROVE SeekableAt(a.at)'
    <3> DEFINE sure == Held(m) /\ m \in fresh
    <3>0. a = [by |-> m, at |-> Clamp(m, t), sure |-> sure]
      BY <2>1
    <3> HIDE DEF sure
    <3>1. a.at = Clamp(m, t) /\ sure
      BY <2>4, <3>0
    <3>2. SeekableAt(a.at)
      BY <2>2, <3>1 DEF sure
    <3> QED BY <2>3, <3>2 DEF SeekableAt, BucketOf
  <2> QED BY <2>4 DEF ClampAccepted
<1>4. asked' \subseteq asked \/ (\A a \in asked' : ~a.sure) \/ \E m \in Members, t \in Time : Ask(m, t)
  <2>1. ASSUME NEW n \in Members, Join(n) \/ Leave(n) \/ CloseFilm(n) \/ Receive(n) \/ Opens(n) \/ Fetches(n) \/ Report(n)
        PROVE  asked' \subseteq asked \/ \A a \in asked' : ~a.sure
    <3>1. CASE Report(n)
      BY <3>1 DEF Report
    <3>2. CASE Join(n) \/ Leave(n) \/ CloseFilm(n) \/ Receive(n) \/ Opens(n) \/ Fetches(n)
      BY <3>2 DEF Join, Leave, CloseFilm, Receive, Opens, Fetches, PieceArrives
    <3> QED BY <2>1, <3>1, <3>2
  <2>2. CASE StatusTick \/ Seek \/ PlayOrPause \/ Elapses \/ UNCHANGED vars
    BY <2>2 DEF StatusTick, Seek, PlayOrPause, Elapses, vars
  <2> QED BY <2>1, <2>2 DEF Next
<1> QED BY <1>1, <1>2, <1>3, <1>4, StretchGrows

\* The inductive invariant holds.
LEMMA IInvAlways == Spec => []IInv
<1>1. IInv /\ [Next]_vars => IInv'
  BY TypesStep, ReportsStep, ShownStep, ClampStep DEF IInv
<1> QED BY <1>1, InitHolds, PTL DEF Spec

\* Type correctness; and reports are of members present, and of what is held.
THEOREM StretchTypes == Spec => []TypeOK
<1>1. IInv => TypeOK
  BY Typed DEF IInv
<1> QED BY <1>1, IInvAlways, PTL

\* A seek that the interface kept inside the stretch it shows is accepted, whatever reports, departures
\* and ticks came between, unless somebody sent a first map (App.tsx:402, readiness.ts:131).
THEOREM ClampAcceptedAlways == Spec => []ClampAccepted
<1>1. IInv => ClampAccepted
  BY DEF IInv
<1> QED BY <1>1, IInvAlways, PTL

\* A seek that the server lets through: SeekLands, of one step.
LEMMA SeekHolds ==
  ASSUME IInv, [Next]_vars, asked # {}, asked' = {}, pos' # pos, NEW m \in Reporting
  PROVE  PieceAt(pos') \in have[m] \/ Straddles(pos')
<1> USE DEF IInv, Types
<1>1. Seek
  <2>1. ASSUME NEW n \in Members, Join(n) \/ Leave(n) \/ CloseFilm(n) \/ Receive(n) \/ Opens(n) \/ Fetches(n) \/ Report(n) PROVE FALSE
    BY <2>1 DEF Join, Leave, CloseFilm, Receive, Opens, Fetches, PieceArrives, Report
  <2>2. CASE StatusTick \/ PlayOrPause \/ Elapses \/ UNCHANGED vars \/ (\E n \in Members, t \in Time : Ask(n, t))
    BY <2>2 DEF StatusTick, PlayOrPause, Elapses, vars, Ask
  <2> QED BY <2>1, <2>2 DEF Next
<1>2. pos' \in Nat /\ BucketOf(pos') \in SeekableBuckets
  <2>1. PICK a \in asked : pos' = IF SeekableAt(a.at) THEN a.at ELSE pos
    BY <1>1 DEF Seek
  <2>2. a.at \in Nat
    BY NumbersHold DEF Time
  <2> QED BY <2>1, <2>2 DEF SeekableAt
<1>3. PICK map \in report[m].map : map \subseteq PieceMap(have[m])
  BY DEF Reporting, ReportsHold, NoReport
<1>4. BucketOf(pos') \in PieceMap(have[m])
  BY <1>2, <1>3 DEF SeekableBuckets
<1>5. PieceAt(pos') \in Pieces
  BY <1>2, PieceExists
<1> QED BY <1>4, <1>5 DEF PieceMap, Straddles

\* A seek the server lets through lands on a piece that everybody who has sent a map holds, but for one
\* that straddles the end of its bucket (server.ts:526, readiness.ts:112).
THEOREM SeekLandsAlways == Spec => SeekLands
<1> DEFINE A == asked # {} /\ asked' = {} /\ pos' # pos =>
                  \A m \in Reporting : PieceAt(pos') \in have[m] \/ Straddles(pos')
<1>1. IInv /\ [Next]_vars => [A]_vars
  BY SeekHolds
<1>2. Spec => [][A]_vars
  BY <1>1, IInvAlways, PTL DEF Spec
<1> QED BY <1>2 DEF SeekLands

=============================================================================
