------------------------------- MODULE Lemmas -------------------------------
(***************************************************************************)
(* Facts about numbers, sets and sequences that the proofs of several      *)
(* components need and the library does not state.                         *)
(***************************************************************************)
EXTENDS Integers, Sequences, FiniteSets, Functions, FiniteSetsExt,
        SequenceTheorems, FiniteSetTheorems, WellFoundedInduction, TLAPS

-----------------------------------------------------------------------------
\* A set of natural numbers that is not empty has a least element.  Stated for a set
\* and not for a predicate, so that it can be used for induction.
LEMMA LeastNat ==
  ASSUME NEW T, T \subseteq Nat, T # {}
  PROVE  \E m \in T : \A n \in T : m <= n
<1> DEFINE R == {p \in Nat \X Nat : p[1] < p[2]}
<1>1. IsWellFoundedOn(OpToRel(<, Nat), Nat)
  BY NatLessThanWellFounded
<1>2. OpToRel(<, Nat) = R
  BY DEF OpToRel
<1>3. PICK x \in T : \A y \in T : <<y, x>> \notin R
  BY <1>1, <1>2, WFMin
<1>4. ASSUME NEW y \in T PROVE x <= y
  <2>1. y \in Nat /\ x \in Nat /\ <<y, x>> \in Nat \X Nat
    OBVIOUS
  <2>2. ~(y < x)
    BY <1>3, <2>1
  <2> QED
    BY <2>1, <2>2
<1> QED
  BY <1>4

\* Induction over the natural numbers, for the set of those that have a property.
LEMMA SetInduction ==
  ASSUME NEW T, T \subseteq Nat, 0 \in T, \A n \in T : n + 1 \in T
  PROVE  T = Nat
<1> SUFFICES ASSUME Nat \ T # {} PROVE FALSE
  OBVIOUS
<1>1. PICK m \in Nat \ T : \A n \in Nat \ T : m <= n
  BY LeastNat
<1>2. m - 1 \in Nat /\ ~(m <= m - 1) /\ (m - 1) + 1 = m
  BY <1>1
<1> QED
  BY <1>1, <1>2

\* The values of a function on a finite set are no more than its arguments.
LEMMA RangeBound ==
  ASSUME NEW S, IsFiniteSet(S), NEW f, f \in [S -> Range(f)], DOMAIN f = S
  PROVE  IsFiniteSet(Range(f)) /\ Cardinality(Range(f)) <= Cardinality(S)
<1>1. f \in Surjection(S, Range(f))
  BY DEF Surjection, Range
<1> QED
  BY <1>1, FS_Surjection

-----------------------------------------------------------------------------
\* Moving the front of one sequence to the end of another keeps their concatenation.
LEMMA MoveFront ==
  ASSUME NEW S, NEW s \in Seq(S), NEW t \in Seq(S), t # <<>>
  PROVE  /\ Append(s, Head(t)) \in Seq(S) /\ Tail(t) \in Seq(S)
         /\ Len(Tail(t)) = Len(t) - 1
         /\ Append(s, Head(t)) \o Tail(t) = s \o t
<1>1. Head(t) \in S /\ Tail(t) \in Seq(S) /\ Len(Tail(t)) = Len(t) - 1
  BY HeadTailProperties
<1>2. Append(s, Head(t)) \in Seq(S) /\ Append(s, Head(t)) = s \o <<Head(t)>> /\ <<Head(t)>> \in Seq(S)
  BY <1>1, AppendProperties, AppendIsConcat
<1>3. t = <<Head(t)>> \o Tail(t)
  <2>1. Len(t) \in Nat \ {0} /\ Head(t) = t[1]
    BY EmptySeq
  <2>2. 1 \in 1..Len(t) /\ Len(t) \in 1..Len(t) /\ 1 + 1 = 2
    BY <2>1
  <2>3. SubSeq(t, 1, Len(t)) = <<t[1]>> \o SubSeq(t, 1 + 1, Len(t))
    BY <2>2, SubSeqRecursiveFirst
  <2> QED
    BY <2>1, <2>2, <2>3, SubSeqFull, TailIsSubSeq
<1> QED
  BY <1>1, <1>2, <1>3, ConcatAssociative

\* Appending to the second of two sequences appends to their concatenation.
LEMMA ConcatAppend ==
  ASSUME NEW S, NEW s \in Seq(S), NEW t \in Seq(S), NEW e \in S
  PROVE  s \o Append(t, e) = Append(s \o t, e)
<1>1. Append(t, e) = t \o <<e>> /\ <<e>> \in Seq(S)
  BY AppendIsConcat
<1>2. s \o t \in Seq(S)
  BY ConcatProperties
<1>3. Append(s \o t, e) = (s \o t) \o <<e>>
  BY <1>2, AppendIsConcat
<1> QED
  BY <1>1, <1>3, ConcatAssociative

\* What a sequence is after appending.
LEMMA AppendFacts ==
  ASSUME NEW S, NEW s \in Seq(S), NEW e \in S
  PROVE  /\ Len(s) \in Nat /\ DOMAIN s = 1..Len(s)
         /\ DOMAIN Append(s, e) = 1..(Len(s) + 1) /\ Len(Append(s, e)) = Len(s) + 1
         /\ \A i \in 1..Len(s) : Append(s, e)[i] = s[i]
         /\ Append(s, e)[Len(s) + 1] = e
         /\ Append(s, e) # <<>>
  BY AppendProperties, LenProperties

\* Appending adds one value to those of a sequence.
LEMMA RangeAppend ==
  ASSUME NEW S, NEW s \in Seq(S), NEW e \in S
  PROVE  Range(Append(s, e)) = Range(s) \cup {e}
<1> DEFINE a == Append(s, e)
           n == Len(s)
<1>1. /\ n \in Nat /\ DOMAIN s = 1..n /\ DOMAIN a = 1..(n + 1)
      /\ (\A i \in 1..n : a[i] = s[i]) /\ a[n + 1] = e
  BY AppendFacts
<1>2. 1..(n + 1) = 1..n \cup {n + 1}
  BY <1>1
<1> HIDE DEF a, n
<1> QED
  BY <1>1, <1>2 DEF Range

-----------------------------------------------------------------------------
(* Sums over finite sets, as FiniteSetsExt folds them.                     *)

\* Induction over the subsets of a finite set, for the set of those that have a property.
LEMMA SubsetInduction ==
  ASSUME NEW S, IsFiniteSet(S), NEW X,
         \A T \in SUBSET S : (\A U \in SUBSET T : U # T => U \in X) => T \in X
  PROVE  SUBSET S \subseteq X
<1> SUFFICES ASSUME (SUBSET S) \ X # {} PROVE FALSE
  OBVIOUS
<1>1. IsWellFoundedOn(StrictSubsetOrdering(S), SUBSET S)
  <2>1. IsWellFoundedOn(StrictSubsetOrdering(S), FiniteSubsetsOf(S))
    BY FS_StrictSubsetOrderingWellFounded, Zenon
  <2>2. FiniteSubsetsOf(S) = SUBSET S
    BY FS_FiniteSubsetsOfFinite, Zenon
  <2> QED
    BY <2>1, <2>2, Zenon
<1>2. PICK T \in (SUBSET S) \ X : \A U \in (SUBSET S) \ X : ~(<<U, T>> \in StrictSubsetOrdering(S))
  <2> DEFINE C == (SUBSET S) \ X
  <2>1. C \subseteq SUBSET S /\ C # {}
    OBVIOUS
  <2> HIDE DEF C
  <2>2. \E T \in C : \A U \in C : ~(<<U, T>> \in StrictSubsetOrdering(S))
    BY <1>1, <2>1, WFMin
  <2> QED
    BY <2>2 DEF C
<1>3. ASSUME NEW U \in SUBSET T, U # T PROVE U \in X
  BY <1>2, <1>3 DEF StrictSubsetOrdering
<1> QED
  BY <1>2, <1>3

\* The sum of f over S.
SumOver(f, S) == MapThenSumSet(LAMBDA x : f[x], S)

\* One step of the fold: what the sums h of smaller sets make of the sum of T.
Adds(f, h, T) == IF T = {} THEN 0 ELSE f[CHOOSE x \in T : TRUE] + h[T \ {CHOOSE x \in T : TRUE}]

\* h gives the sum of f over every subset of S.
IsSum(f, S, h) == h = [T \in SUBSET S |-> Adds(f, h, T)]

LEMMA SumUnique ==
  ASSUME NEW f, NEW S, IsFiniteSet(S), NEW R, NEW g, NEW h, IsSum(f, S, g), IsSum(f, R, h),
         S \subseteq R
  PROVE  \A T \in SUBSET S : g[T] = h[T]
<1> DEFINE X == {T \in SUBSET S : g[T] = h[T]}
<1>1. ASSUME NEW T \in SUBSET S, \A U \in SUBSET T : U # T => U \in X
      PROVE  T \in X
  <2>1. g[T] = Adds(f, g, T) /\ h[T] = Adds(f, h, T)
    BY DEF IsSum
  <2>2. CASE T = {}
    BY <2>1, <2>2 DEF Adds
  <2>3. CASE T # {}
    <3> DEFINE U == T \ {CHOOSE x \in T : TRUE}
    <3>1. U \in SUBSET T /\ U # T
      BY <2>3
    <3>2. g[U] = h[U]
      BY <1>1, <3>1
    <3> QED
      BY <2>1, <2>3, <3>2 DEF Adds
  <2> QED
    BY <2>2, <2>3
<1>2. SUBSET S \subseteq X
  <2> HIDE DEF X
  <2> QED
    BY <1>1, SubsetInduction
<1> QED
  BY <1>2

LEMMA SumExists ==
  ASSUME NEW f, NEW S, IsFiniteSet(S)
  PROVE  \E h : IsSum(f, S, h)
<1> DEFINE X == {T \in SUBSET S : \E h : IsSum(f, T, h)}
<1>1. ASSUME NEW T \in SUBSET S, \A U \in SUBSET T : U # T => U \in X
      PROVE  T \in X
  <2> DEFINE sum(U) == CHOOSE h : IsSum(f, U, h)
             top == T \ {CHOOSE x \in T : TRUE}
             h == [U \in SUBSET T |-> IF U # T THEN sum(U)[U]
                                      ELSE IF T = {} THEN 0
                                      ELSE f[CHOOSE x \in T : TRUE] + sum(top)[top]]
  <2>1. ASSUME NEW U \in SUBSET T, U # T PROVE IsSum(f, U, sum(U))
    BY <1>1, <2>1
  <2>2. ASSUME NEW U \in SUBSET T, U # T PROVE h[U] = Adds(f, h, U)
    <3>1. sum(U)[U] = Adds(f, sum(U), U)
      BY <2>1, <2>2 DEF IsSum
    <3>2. CASE U = {}
      BY <2>2, <3>1, <3>2 DEF Adds
    <3>3. CASE U # {}
      <4> DEFINE V == U \ {CHOOSE x \in U : TRUE}
      <4>1. V \in SUBSET T /\ V # T /\ V \subseteq U /\ IsFiniteSet(V)
        BY <2>2, <3>3, FS_Subset
      <4>2. sum(V)[V] = sum(U)[V]
        <5>1. IsSum(f, V, sum(V)) /\ IsSum(f, U, sum(U))
          BY <2>1, <2>2, <4>1
        <5> QED
          BY <4>1, <5>1, SumUnique
      <4>3. h[V] = sum(V)[V] /\ h[U] = sum(U)[U]
        BY <2>2, <4>1
      <4> HIDE DEF h, sum
      <4> QED
        BY <3>1, <3>3, <4>2, <4>3 DEF Adds
    <3> QED
      BY <3>2, <3>3
  <2>3. h[T] = Adds(f, h, T)
    <3>1. CASE T = {}
      BY <3>1 DEF Adds
    <3>2. CASE T # {}
      <4>1. top \in SUBSET T /\ top # T
        BY <3>2
      <4>2. h[top] = sum(top)[top] /\ h[T] = f[CHOOSE x \in T : TRUE] + sum(top)[top]
        BY <3>2, <4>1
      <4> HIDE DEF h, sum
      <4> QED
        BY <3>2, <4>2 DEF Adds
    <3> QED
      BY <3>1, <3>2
  <2>4. h = [U \in SUBSET T |-> h[U]]
    OBVIOUS
  <2> HIDE DEF h
  <2>5. IsSum(f, T, h)
    BY <2>2, <2>3, <2>4 DEF IsSum
  <2> QED
    BY <2>5
<1>2. SUBSET S \subseteq X
  <2> HIDE DEF X
  <2> QED
    BY <1>1, SubsetInduction
<1> QED
  BY <1>2

\* h may take any element of a set first.
AnyFirst(f, S, h) == \A T \in SUBSET S : h[T] \in Nat /\ \A x \in T : h[T] = f[x] + h[T \ {x}]

\* The order in which the fold takes the elements does not matter.
LEMMA SumAnyOrder ==
  ASSUME NEW f, NEW S, IsFiniteSet(S), \A x \in S : f[x] \in Nat, NEW h, IsSum(f, S, h)
  PROVE  AnyFirst(f, S, h)
<1> DEFINE X == {T \in SUBSET S : h[T] \in Nat /\ \A x \in T : h[T] = f[x] + h[T \ {x}]}
<1>1. ASSUME NEW T \in SUBSET S, \A U \in SUBSET T : U # T => U \in X
      PROVE  T \in X
  <2>1. h[T] = Adds(f, h, T)
    BY DEF IsSum
  <2>2. CASE T = {}
    BY <2>1, <2>2 DEF Adds
  <2>3. CASE T # {}
    <3> DEFINE y == CHOOSE x \in T : TRUE
    <3>1. y \in T
      BY <2>3
    <3>2. h[T] = f[y] + h[T \ {y}]
      BY <2>1, <2>3 DEF Adds
    <3> HIDE DEF y
    <3>3. T \ {y} \in X /\ f[y] \in Nat /\ h[T \ {y}] \in Nat
      BY <1>1, <3>1
    <3>4. ASSUME NEW x \in T PROVE h[T] = f[x] + h[T \ {x}]
      <4>1. CASE x = y
        BY <3>2, <4>1
      <4>2. CASE x # y
        <5>1. T \ {x} \in X /\ y \in T \ {x} /\ x \in T \ {y}
          BY <1>1, <3>1, <4>2
        <5>2. h[T \ {y}] = f[x] + h[(T \ {y}) \ {x}] /\ h[T \ {x}] = f[y] + h[(T \ {x}) \ {y}]
          BY <3>3, <5>1
        <5>3. (T \ {y}) \ {x} = (T \ {x}) \ {y}
          OBVIOUS
        <5>4. (T \ {x}) \ {y} \in X
          BY <1>1, <5>1
        <5>5. f[x] \in Nat /\ f[y] \in Nat /\ h[(T \ {x}) \ {y}] \in Nat
          BY <3>1, <5>4
        <5>6. h[T] = f[y] + (f[x] + h[(T \ {x}) \ {y}]) /\ h[T \ {x}] = f[y] + h[(T \ {x}) \ {y}]
          BY <3>2, <5>2, <5>3, Zenon
        <5> QED
          BY <5>5, <5>6
      <4> QED
        BY <4>1, <4>2
    <3>5. h[T] \in Nat
      BY <3>2, <3>3
    <3> QED
      BY <3>4, <3>5
  <2> QED
    BY <2>2, <2>3
<1>2. SUBSET S \subseteq X
  <2> HIDE DEF X
  <2> QED
    BY <1>1, SubsetInduction
<1> QED
  BY <1>2 DEF AnyFirst

\* The community module's sum is the value of any such h.
LEMMA SumIs ==
  ASSUME NEW f, NEW S, IsFiniteSet(S)
  PROVE  \E h : IsSum(f, S, h) /\ SumOver(f, S) = h[S]
<1> DEFINE Fold(g) == [T \in SUBSET S |-> IF T = {} THEN 0
                                          ELSE LET x == CHOOSE x \in T : TRUE IN f[x] + g[T \ {x}]]
           it == CHOOSE it : it = Fold(it)
<1>1. \A g : Fold(g) = [T \in SUBSET S |-> Adds(f, g, T)]
  BY DEF Adds
<1>2. \A g : g = Fold(g) <=> IsSum(f, S, g)
  BY <1>1 DEF IsSum
<1>3. it = Fold(it)
  <2>1. \E g : g = Fold(g)
    <3>1. PICK g : IsSum(f, S, g)
      BY SumExists
    <3>2. g = Fold(g)
      BY <1>2, <3>1
    <3> QED
      BY <3>2, Zenon
  <2> QED
    BY <2>1, Zenon
<1>4. SumOver(f, S) = it[S]
  BY Zenon DEF SumOver, MapThenSumSet, MapThenFoldSet
<1> QED
  BY <1>2, <1>3, <1>4

\* The sum over no elements, and what one element more or less makes of a sum.
LEMMA SumEmpty ==
  ASSUME NEW f
  PROVE  SumOver(f, {}) = 0
<1>1. PICK h : IsSum(f, {}, h) /\ SumOver(f, {}) = h[{}]
  BY SumIs, FS_EmptySet
<1> QED
  BY <1>1 DEF IsSum, Adds

LEMMA SumRemove ==
  ASSUME NEW f, NEW S, IsFiniteSet(S), \A x \in S : f[x] \in Nat, NEW e \in S
  PROVE  /\ SumOver(f, S) \in Nat
         /\ SumOver(f, S \ {e}) \in Nat
         /\ SumOver(f, S) = f[e] + SumOver(f, S \ {e})
<1>1. PICK h : IsSum(f, S, h) /\ SumOver(f, S) = h[S]
  BY SumIs
<1>2. IsFiniteSet(S \ {e})
  BY FS_RemoveElement
<1>3. PICK g : IsSum(f, S \ {e}, g) /\ SumOver(f, S \ {e}) = g[S \ {e}]
  BY <1>2, SumIs
<1>4. g[S \ {e}] = h[S \ {e}]
  BY <1>1, <1>2, <1>3, SumUnique
<1>5. AnyFirst(f, S, h)
  BY <1>1, SumAnyOrder
<1> QED
  BY <1>1, <1>3, <1>4, <1>5 DEF AnyFirst

\* Functions that agree on a set have the same sum over it.
LEMMA SumSame ==
  ASSUME NEW f, NEW g, NEW S, IsFiniteSet(S), \A x \in S : f[x] = g[x]
  PROVE  SumOver(f, S) = SumOver(g, S)
<1>1. PICK h : IsSum(f, S, h) /\ SumOver(f, S) = h[S]
  BY SumIs
<1>2. PICK i : IsSum(g, S, i) /\ SumOver(g, S) = i[S]
  BY SumIs
<1>3. IsSum(f, S, i)
  <2>1. \A T \in SUBSET S : Adds(f, i, T) = Adds(g, i, T)
    BY DEF Adds
  <2> QED
    BY <1>2, <2>1 DEF IsSum
<1>4. h[S] = i[S]
  BY <1>1, <1>3, SumUnique
<1> QED
  BY <1>1, <1>2, <1>4

-----------------------------------------------------------------------------
(* Recursive functions on an interval.                                     *)

\* f starts at x and takes the steps of step; steps are a function, so that this can
\* be used for any definition.
Steps(f, x, step, n) == f[0] = x /\ \A i \in 1..n : f[i] = step[<<i, f[i - 1]>>]

\* A function that is defined from its value one below exists.
LEMMA UpwardExists ==
  ASSUME NEW X, NEW x \in X, NEW N \in Nat, NEW step \in [(1..N) \X X -> X]
  PROVE  \E f \in [0..N -> X] : Steps(f, x, step, N)
<1> DEFINE T == {n \in Nat : n <= N => \E f \in [0..n -> X] : Steps(f, x, step, n)}
<1>1. 0 \in T
  <2> DEFINE g == [i \in 0..0 |-> x]
  <2>1. g \in [0..0 -> X] /\ Steps(g, x, step, 0)
    BY DEF Steps
  <2> QED
    BY <2>1
<1>2. ASSUME NEW n \in T PROVE n + 1 \in T
  <2> SUFFICES ASSUME n + 1 <= N PROVE \E f \in [0..(n + 1) -> X] : Steps(f, x, step, n + 1)
    OBVIOUS
  <2>1. PICK f \in [0..n -> X] : Steps(f, x, step, n)
    BY <1>2
  <2>2. n \in Nat /\ n + 1 \in 1..N /\ f[n] \in X
    BY <1>2
  <2> DEFINE g == [i \in 0..(n + 1) |-> IF i = n + 1 THEN step[<<n + 1, f[n]>>] ELSE f[i]]
  <2>3. step[<<n + 1, f[n]>>] \in X
    BY <2>2
  <2>4. g \in [0..(n + 1) -> X] /\ g[n + 1] = step[<<n + 1, f[n]>>] /\ \A i \in 0..n : g[i] = f[i]
    BY <2>2, <2>3
  <2> HIDE DEF g
  <2>5. ASSUME NEW i \in 1..(n + 1) PROVE g[i] = step[<<i, g[i - 1]>>]
    <3>1. CASE i = n + 1
      <4>1. i - 1 = n /\ n \in 0..n
        BY <2>2, <3>1
      <4>2. g[i - 1] = f[n] /\ g[i] = step[<<n + 1, f[n]>>]
        BY <2>4, <3>1, <4>1
      <4> QED
        BY <3>1, <4>2
    <3>2. CASE i # n + 1
      <4>1. i \in 1..n /\ i \in 0..n /\ i - 1 \in 0..n
        BY <2>2, <3>2
      <4>2. f[i] = step[<<i, f[i - 1]>>]
        BY <2>1, <4>1 DEF Steps
      <4>3. g[i] = f[i] /\ g[i - 1] = f[i - 1]
        BY <2>4, <4>1
      <4> QED
        BY <4>2, <4>3
    <3> QED
      BY <3>1, <3>2
  <2>6. g[0] = x
    BY <2>1, <2>2, <2>4 DEF Steps
  <2> QED
    BY <2>4, <2>5, <2>6 DEF Steps
<1>3. T = Nat
  <2>1. T \subseteq Nat
    OBVIOUS
  <2> HIDE DEF T
  <2> QED
    BY <1>1, <1>2, <2>1, SetInduction
<1> QED
  BY <1>3

\* Induction over sequences that grow at their end, for the set of those that have a
\* property.
LEMMA SeqInduction ==
  ASSUME NEW X, NEW Y, <<>> \in Y, \A s \in Seq(X), e \in X : s \in Y => Append(s, e) \in Y
  PROVE  Seq(X) \subseteq Y
<1> DEFINE T == {n \in Nat : \A s \in Seq(X) : Len(s) = n => s \in Y}
<1>1. 0 \in T
  BY EmptySeq
<1>2. ASSUME NEW n \in T PROVE n + 1 \in T
  <2> SUFFICES ASSUME NEW s \in Seq(X), Len(s) = n + 1 PROVE s \in Y
    OBVIOUS
  <2>1. s # <<>>
    BY <1>2, EmptySeq
  <2>2. PICK t \in Seq(X), e \in X : s = Append(t, e)
    BY <2>1, SequenceEmptyOrAppend
  <2>3. Len(t) = n
    BY <1>2, <2>2, LenProperties, AppendProperties
  <2> QED
    BY <1>2, <2>2, <2>3
<1>3. T = Nat
  <2>1. T \subseteq Nat
    OBVIOUS
  <2> HIDE DEF T
  <2> QED
    BY <1>1, <1>2, <2>1, SetInduction
<1> QED
  BY <1>3, LenProperties

\* Induction downwards on an interval, for the set of those that have a property.
LEMMA DownwardInduction ==
  ASSUME NEW M \in Nat, NEW T, \A b \in 1..M : (\A k \in (b + 1)..M : k \in T) => b \in T
  PROVE  1..M \subseteq T
<1> SUFFICES ASSUME NEW c \in 1..M, c \notin T PROVE FALSE
  OBVIOUS
<1> DEFINE U == {n \in Nat : n <= M /\ M - n \notin T /\ M - n >= 1}
<1>1. M - c \in U
  <2>1. M - c \in Nat /\ M - c <= M /\ M - (M - c) = c
    OBVIOUS
  <2> QED
    BY <2>1
<1>2. PICK m \in U : \A n \in U : m <= n
  BY <1>1, LeastNat
<1>3. M - m \in 1..M /\ M - m \notin T
  BY <1>2
<1>4. ASSUME NEW k \in (M - m + 1)..M, k \notin T PROVE FALSE
  <2>1. M - k \in Nat /\ M - k <= M /\ M - (M - k) = k /\ k >= 1 /\ ~(m <= M - k)
    BY <1>2, <1>3
  <2>2. M - k \in U
    BY <1>4, <2>1
  <2> QED
    BY <1>2, <2>1, <2>2
<1> QED
  BY <1>3, <1>4

\* Whatever follows, follows further up.
LeadsUp(nxt, M) == \A b \in 1..M : nxt[b] # 0 => nxt[b] \in (b + 1)..M

\* f is made of pieces: from b, a piece and what follows at nxt[b], or the last of them.
Chained(f, nxt, piece, last, M) ==
  \A b \in 1..M : f[b] = IF nxt[b] = 0 THEN last[b] ELSE <<piece[b]>> \o f[nxt[b]]

\* A function that is defined from its value further up exists.
LEMMA ChainExists ==
  ASSUME NEW X, NEW M \in Nat, NEW nxt, NEW piece \in [1..M -> X], NEW last \in [1..M -> Seq(X)],
         LeadsUp(nxt, M)
  PROVE  \E f \in [1..M -> Seq(X)] : Chained(f, nxt, piece, last, M)
<1> DEFINE Val(f, b) == IF nxt[b] = 0 THEN last[b] ELSE <<piece[b]>> \o f[nxt[b]]
           Good(f, n) == \A b \in 1..M : b > M - n => f[b] = Val(f, b)
           T == {n \in Nat : n <= M => \E f \in [1..M -> Seq(X)] : Good(f, n)}
<1>0. ASSUME NEW f \in [1..M -> Seq(X)], NEW b \in 1..M PROVE Val(f, b) \in Seq(X)
  <2>1. CASE nxt[b] = 0
    BY <2>1
  <2>2. CASE nxt[b] # 0
    <3>1. f[nxt[b]] \in Seq(X) /\ <<piece[b]>> \in Seq(X)
      BY <2>2 DEF LeadsUp
    <3>2. <<piece[b]>> \o f[nxt[b]] \in Seq(X)
      BY <3>1, ConcatProperties
    <3> QED
      BY <2>2, <3>2
  <2> QED
    BY <2>1, <2>2
<1>1. 0 \in T
  <2>1. last \in [1..M -> Seq(X)] /\ Good(last, 0)
    OBVIOUS
  <2> QED
    BY <2>1
<1>2. ASSUME NEW n \in T PROVE n + 1 \in T
  <2>0. SUFFICES ASSUME n + 1 <= M PROVE \E f \in [1..M -> Seq(X)] : Good(f, n + 1)
    <3> HIDE DEF Good
    <3> QED
      OBVIOUS
  <2>1. n \in Nat /\ n <= M /\ M - n \in 1..M
    BY <1>2, <2>0
  <2>2. PICK f \in [1..M -> Seq(X)] : Good(f, n)
    BY <1>2, <2>1
  <2>3. PICK a \in 1..M : a = M - n
    BY <2>1
  <2> DEFINE g == [f EXCEPT ![a] = Val(f, a)]
  <2>4. g \in [1..M -> Seq(X)] /\ g[a] = Val(f, a) /\ \A b \in 1..M : b # a => g[b] = f[b]
    <3>1. Val(f, a) \in Seq(X)
      BY <1>0
    <3> HIDE DEF Val
    <3> QED
      BY <3>1
  <2> HIDE DEF g
  <2>5. ASSUME NEW b \in 1..M, b > M - (n + 1) PROVE g[b] = Val(g, b)
    <3>1. b >= a /\ (b # a => b > M - n)
      BY <2>1, <2>3, <2>5
    <3>2. ASSUME nxt[b] # 0 PROVE nxt[b] \in 1..M /\ nxt[b] # a
      <4>1. nxt[b] \in (b + 1)..M
        BY <3>2 DEF LeadsUp
      <4> QED
        BY <3>1, <4>1
    <3>3. Val(g, b) = Val(f, b)
      BY <2>4, <3>2
    <3>4. CASE b = a
      BY <2>4, <3>3, <3>4
    <3>5. CASE b # a
      BY <2>2, <2>4, <3>1, <3>3, <3>5
    <3> QED
      BY <3>4, <3>5
  <2> QED
    BY <2>4, <2>5
<1>3. T = Nat
  <2>1. T \subseteq Nat
    OBVIOUS
  <2> HIDE DEF T
  <2> QED
    BY <1>1, <1>2, <2>1, SetInduction
<1>4. PICK f \in [1..M -> Seq(X)] : Good(f, M)
  <2>1. M \in T
    BY <1>3
  <2> HIDE DEF Good
  <2> QED
    BY <2>1
<1>5. ASSUME NEW b \in 1..M PROVE f[b] = Val(f, b)
  <2>1. b > M - M
    OBVIOUS
  <2> QED
    BY <1>4, <2>1
<1> QED
  BY <1>5 DEF Chained

\* There is only one.
LEMMA ChainUnique ==
  ASSUME NEW M \in Nat, NEW nxt, NEW piece, NEW last, NEW f, NEW g,
         Chained(f, nxt, piece, last, M), Chained(g, nxt, piece, last, M),
         LeadsUp(nxt, M)
  PROVE  \A b \in 1..M : f[b] = g[b]
<1> DEFINE T == {b \in 1..M : f[b] = g[b]}
<1>1. ASSUME NEW b \in 1..M, \A k \in (b + 1)..M : k \in T PROVE b \in T
  <2>1. nxt[b] # 0 => f[nxt[b]] = g[nxt[b]]
    BY <1>1 DEF LeadsUp
  <2>2. /\ f[b] = IF nxt[b] = 0 THEN last[b] ELSE <<piece[b]>> \o f[nxt[b]]
        /\ g[b] = IF nxt[b] = 0 THEN last[b] ELSE <<piece[b]>> \o g[nxt[b]]
    BY Zenon DEF Chained
  <2>3. f[b] = g[b]
    BY <2>1, <2>2, Zenon
  <2> QED
    BY <2>3
<1>2. 1..M \subseteq T
  <2> HIDE DEF T
  <2> QED
    BY <1>1, DownwardInduction
<1> QED
  BY <1>2

\* The beginning of a sequence is a prefix of it.
LEMMA ConcatBegins ==
  ASSUME NEW S, NEW s \in Seq(S), NEW t \in Seq(S)
  PROVE  Len(s) <= Len(s \o t) /\ SubSeq(s, 1, Len(s)) = SubSeq(s \o t, 1, Len(s))
<1>1. Len(s) \in Nat /\ Len(t) \in Nat /\ Len(s \o t) = Len(s) + Len(t)
  BY LenProperties, ConcatProperties
<1>2. CASE Len(s) = 0
  <2>1. SubSeq(s, 1, Len(s)) = <<>> /\ SubSeq(s \o t, 1, Len(s)) = <<>>
    BY <1>2, SubSeqEmpty
  <2> QED
    BY <1>1, <2>1
<1>3. CASE Len(s) # 0
  <2>1. 1 \in 1..Len(s) /\ Len(s) \in 1..Len(s)
    BY <1>1, <1>3
  <2>2. SubSeq(s \o t, 1, Len(s)) = SubSeq(s, 1, Len(s))
    BY <2>1, SubSeqOfConcat1
  <2> QED
    BY <1>1, <2>2
<1> QED
  BY <1>2, <1>3
=============================================================================
