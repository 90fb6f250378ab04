------------------------------ MODULE FoldLemmas ------------------------------
(***************************************************************************)
(* What the proofs need of minima, maxima and folds.  Induction is over    *)
(* sets of numbers: the set of those for which something holds has 0, and  *)
(* with a number the next one.                                             *)
(***************************************************************************)
EXTENDS Integers, SequencesExt, WellFoundedInduction, TLAPS

\* The least of some natural numbers, as Min chooses it.
LEMMA MinIsLeast ==
  ASSUME NEW S \in SUBSET Nat, S # {}
  PROVE  Min(S) \in S /\ \A y \in S : Min(S) <= y
<1>1. PICK x \in S : \A y \in S : ~ (<<y, x>> \in OpToRel(<, Nat))
  BY NatLessThanWellFounded, WFMin
<1>2. \A y \in S : ~ (y < x)
  BY <1>1 DEF OpToRel
<1>3. \A y \in S : y \in Nat /\ x \in Nat
  OBVIOUS
<1>4. \A y \in S : x <= y
  BY <1>2, <1>3
<1> QED BY <1>4 DEF Min

\* Two sequences, one after the other.
LEMMA Concatenated ==
  ASSUME NEW S, NEW a \in Seq(S), NEW b \in Seq(S)
  PROVE  /\ a \o b \in Seq(S) /\ Len(a \o b) = Len(a) + Len(b)
         /\ \A k \in 1 .. Len(a) + Len(b) : (a \o b)[k] = IF k <= Len(a) THEN a[k] ELSE b[k - Len(a)]
OBVIOUS

\* What has 0, and with a number below N the next, has all up to N.
LEMMA Induction ==
  ASSUME NEW N \in Nat, NEW S, 0 \in S, \A n \in 0 .. N - 1 : n \in S => n + 1 \in S
  PROVE  \A n \in 0 .. N : n \in S
<1> DEFINE Out == (0 .. N) \ S
<1> SUFFICES ASSUME Out # {} PROVE FALSE
  OBVIOUS
<1>1. Min(Out) \in Out /\ \A y \in Out : Min(Out) <= y
  BY MinIsLeast
<1>2. Min(Out) - 1 \in 0 .. N - 1
  BY <1>1
<1>3. Min(Out) - 1 \in S
  BY <1>1, <1>2
<1>4. (Min(Out) - 1) + 1 \in S
  BY <1>2, <1>3
<1> QED BY <1>1, <1>4

\* The greatest of some numbers up to N, as Max chooses it.
LEMMA MaxUpTo ==
  ASSUME NEW N \in Nat, NEW S \in SUBSET (0 .. N), S # {}
  PROVE  Max(S) \in S /\ \A y \in S : Max(S) >= y
<1> DEFINE Turned == {N - y : y \in S}
<1>1. Min(Turned) \in Turned /\ \A y \in Turned : Min(Turned) <= y
  <2>1. \A y \in S : N - y \in Nat
    OBVIOUS
  <2>2. Turned \in SUBSET Nat /\ Turned # {}
    BY <2>1
  <2> HIDE DEF Turned
  <2> QED BY <2>2, MinIsLeast
<1>2. PICK x \in S : Min(Turned) = N - x
  BY <1>1
<1>3. \A y \in S : N - x <= N - y
  BY <1>1, <1>2
<1>4. \A y \in S : x >= y
  BY <1>3
<1> QED BY <1>4 DEF Max

LEMMA MaxIsGreatest ==
  ASSUME NEW N \in Nat, NEW S \in SUBSET (1 .. N), S # {}
  PROVE  Max(S) \in S /\ \A y \in S : Max(S) >= y
<1>1. S \in SUBSET (0 .. N)
  OBVIOUS
<1> QED BY <1>1, MaxUpTo

LEMMA MaxOfFirst == ASSUME NEW n \in Nat PROVE Max(1 .. n + 1) = n + 1 /\ (1 .. n + 1) \ {n + 1} = 1 .. n
<1>1. Max(1 .. n + 1) \in 1 .. n + 1 /\ \A y \in 1 .. n + 1 : Max(1 .. n + 1) >= y
  <2>1. n + 1 \in Nat /\ (1 .. n + 1) \in SUBSET (1 .. n + 1) /\ (1 .. n + 1) # {}
    OBVIOUS
  <2> QED BY <2>1, MaxIsGreatest
<1> QED BY <1>1

\* The recursion by which MapThenFoldSet folds a sequence from the left, as a
\* condition on the function g of the sets of indices.
Folds(g, N, base, step) ==
  \A T \in SUBSET (1 .. N) : g[T] = IF T = {} THEN base ELSE step[<<g[T \ {Max(T)}], Max(T)>>]

\* There is such a function, whatever is folded.
LEMMA FoldExists ==
  ASSUME NEW N \in Nat, NEW A, NEW base \in A, NEW step \in [A \X (1 .. N) -> A]
  PROVE  \E g \in [SUBSET (1 .. N) -> A] : Folds(g, N, base, step)
<1> DEFINE S == {n \in 0 .. N : \E g \in [SUBSET (1 .. n) -> A] : Folds(g, n, base, step)}
<1>1. 0 \in S
  <2> DEFINE g == [T \in SUBSET (1 .. 0) |-> base]
  <2>1. g \in [SUBSET (1 .. 0) -> A]
    OBVIOUS
  <2>2. Folds(g, 0, base, step)
    BY DEF Folds
  <2> QED BY <2>1, <2>2
<1>2. ASSUME NEW n \in 0 .. N - 1, n \in S PROVE n + 1 \in S
  <2>0. n + 1 \in Nat /\ n \in Nat
    OBVIOUS
  <2>1. PICK g \in [SUBSET (1 .. n) -> A] : Folds(g, n, base, step)
    BY <1>2
  <2> DEFINE h == [T \in SUBSET (1 .. n + 1) |-> IF n + 1 \in T THEN step[<<g[T \ {n + 1}], n + 1>>] ELSE g[T]]
  <2>2. \A T \in SUBSET (1 .. n + 1) : IF n + 1 \in T THEN T \ {n + 1} \in SUBSET (1 .. n) ELSE T \in SUBSET (1 .. n)
    OBVIOUS
  <2>3. h \in [SUBSET (1 .. n + 1) -> A]
    <3> SUFFICES ASSUME NEW T \in SUBSET (1 .. n + 1)
                 PROVE  (IF n + 1 \in T THEN step[<<g[T \ {n + 1}], n + 1>>] ELSE g[T]) \in A
      OBVIOUS
    <3>1. n + 1 \in T => g[T \ {n + 1}] \in A /\ n + 1 \in 1 .. N
      BY <2>2
    <3> QED BY <2>2, <3>1
  <2>4. ASSUME NEW T \in SUBSET (1 .. n + 1)
        PROVE  h[T] = IF T = {} THEN base ELSE step[<<h[T \ {Max(T)}], Max(T)>>]
    <3>1. CASE T = {}
      <4>1. h[T] = g[T]
        BY <3>1
      <4> QED BY <2>1, <3>1, <4>1 DEF Folds
    <3>2. CASE n + 1 \in T
      <4>1. Max(T) \in T /\ \A y \in T : Max(T) >= y
        BY <2>0, <3>2, MaxIsGreatest
      <4> DEFINE m == Max(T)
      <4> HIDE DEF m
      <4>2. m = n + 1
        <5>1. m \in 1 .. n + 1 /\ m >= n + 1
          BY <3>2, <4>1 DEF m
        <5> QED BY <5>1
      <4>3. h[T \ {n + 1}] = g[T \ {n + 1}]
        BY <2>2, <3>2
      <4> QED BY <3>2, <4>2, <4>3 DEF m
    <3>3. CASE T # {} /\ n + 1 \notin T
      <4>1. Max(T) \in T
        BY <2>0, <3>3, MaxIsGreatest
      <4>2. h[T] = g[T] /\ h[T \ {Max(T)}] = g[T \ {Max(T)}]
        BY <3>3
      <4>3. T \in SUBSET (1 .. n)
        BY <2>2, <3>3
      <4> QED BY <2>1, <3>3, <4>2, <4>3 DEF Folds
    <3> QED BY <3>1, <3>2, <3>3
  <2>5. Folds(h, n + 1, base, step)
    BY <2>4 DEF Folds
  <2>6. n + 1 \in 0 .. N
    OBVIOUS
  <2> HIDE DEF h
  <2> QED BY <2>3, <2>5, <2>6
<1>3. N \in S
  <2> HIDE DEF S
  <2>1. N \in 0 .. N
    OBVIOUS
  <2> QED BY <1>1, <1>2, <2>1, Induction
<1> QED BY <1>3

\* The same recursion, met by a function only on the first n indices, n by n.
Unfolds(iter, N, A, base, step) ==
  /\ iter[{}] = base
  /\ \A n \in 0 .. N - 1 : iter[1 .. n] \in A => iter[1 .. n + 1] = step[<<iter[1 .. n], n + 1>>]

\* What has been folded when n elements have been seen, for every n up to N.
Chain(f, N, base, step, whole) ==
  f[0] = base /\ f[N] = whole /\ \A n \in 0 .. N - 1 : f[n + 1] = step[<<f[n], n + 1>>]

LEMMA FoldUnrolled ==
  ASSUME NEW N \in Nat, NEW A, NEW base \in A, NEW step \in [A \X (1 .. N) -> A], NEW iter,
         Unfolds(iter, N, A, base, step)
  PROVE  \E f \in [0 .. N -> A] : Chain(f, N, base, step, iter[1 .. N])
<1> USE DEF Unfolds
<1> DEFINE f == [n \in 0 .. N |-> iter[1 .. n]]
           S == {n \in 0 .. N : f[n] \in A}
<1>1. f[0] = base
  <2>1. 1 .. 0 = {} /\ 0 \in 0 .. N
    OBVIOUS
  <2> QED BY <2>1
<1>2. ASSUME NEW n \in 0 .. N - 1, f[n] \in A PROVE f[n + 1] = step[<<f[n], n + 1>>]
  <2>1. n \in Nat /\ n \in 0 .. N /\ n + 1 \in 0 .. N
    OBVIOUS
  <2> QED BY <1>2, <2>1
<1>3. \A n \in 0 .. N : f[n] \in A
  <2>1. 0 \in S
    BY <1>1
  <2>2. ASSUME NEW n \in 0 .. N - 1, n \in S PROVE n + 1 \in S
    <3>1. f[n] \in A /\ n + 1 \in 1 .. N /\ n + 1 \in 0 .. N
      BY <2>2
    <3> HIDE DEF f
    <3>2. step[<<f[n], n + 1>>] \in A
      BY <3>1
    <3> QED BY <1>2, <3>1, <3>2
  <2>3. \A n \in 0 .. N : n \in S
    <3> HIDE DEF S
    <3> QED BY <2>1, <2>2, Induction
  <2> QED BY <2>3
<1>4. f[N] = iter[1 .. N]
  OBVIOUS
<1>5. f \in [0 .. N -> A]
  BY <1>3
<1>6. \A n \in 0 .. N - 1 : f[n + 1] = step[<<f[n], n + 1>>]
  <2> TAKE n \in 0 .. N - 1
  <2>1. n \in 0 .. N
    OBVIOUS
  <2> HIDE DEF f
  <2> QED BY <1>2, <1>3, <2>1
<1> HIDE DEF f
<1> QED BY <1>1, <1>4, <1>5, <1>6 DEF Chain

===============================================================================
