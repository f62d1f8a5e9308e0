----------------------------- MODULE FoldProof -----------------------------
(***************************************************************************)
(* What the proofs need to follow a loop: the least element of a set of    *)
(* naturals, induction along a range, and the value of FoldLeft after each *)
(* element.  A theorem that takes an operator as a parameter is out of the *)
(* provers' reach, so what is stated for every step is stated of a set or  *)
(* of a function.                                                          *)
(***************************************************************************)
EXTENDS Integers, Sequences, SequencesExt, FiniteSetTheorems,
        WellFoundedInduction, TLAPS

\* A nonempty set of naturals has a least element.
LEMMA LeastElement ==
    ASSUME NEW S \in SUBSET Nat, S # {}
    PROVE  \E i \in S : \A j \in S : i <= j
<1>1. OpToRel(<, Nat) = { ss \in Nat \X Nat : ss[1] < ss[2] }
  BY DEF OpToRel
<1>2. PICK i \in S : \A j \in S : <<j, i>> \notin OpToRel(<, Nat)
  BY NatLessThanWellFounded, WFMin
<1>3. ASSUME NEW j \in S PROVE i <= j
  <2>1. <<j, i>> \notin { ss \in Nat \X Nat : ss[1] < ss[2] }
    BY <1>1, <1>2
  <2>2. ~ (j < i)
    BY <2>1
  <2>3. QED
    BY <2>2
<1>4. QED
  BY <1>3

\* A set that holds 0 and, with every number below n, the next one, holds 0 .. n.
LEMMA RangeInduction ==
    ASSUME NEW n \in Nat, NEW P, 0 \in P, \A k \in 0 .. n - 1 : k \in P => k + 1 \in P
    PROVE  0 .. n \subseteq P
<1> DEFINE bad == (0 .. n) \ P
<1>1. SUFFICES ASSUME bad # {} PROVE FALSE
  OBVIOUS
<1>2. bad \in SUBSET Nat
  OBVIOUS
<1>3. PICK i \in bad : \A j \in bad : i <= j
  BY <1>1, <1>2, LeastElement
<1>4. i \in Nat /\ i # 0 /\ i <= n /\ i - 1 \in 0 .. n - 1
  BY <1>3
<1>5. i - 1 \in P
  BY <1>3, <1>4
<1>6. (i - 1) + 1 \in P
  BY <1>4, <1>5
<1> QED
  BY <1>3, <1>4, <1>6

\* The greatest element of a prefix of the naturals, and of a set with one above all.
LEMMA MaxOfRange ==
    ASSUME NEW k \in Nat \ {0}
    PROVE  Max(1 .. k) = k /\ (1 .. k) \ {k} = 1 .. k - 1
BY DEF Max

LEMMA MaxOfAbove ==
    ASSUME NEW k \in Nat, NEW T \in SUBSET (1 .. k + 1), k + 1 \in T
    PROVE  Max(T) = k + 1
<1>1. \A y \in T : k + 1 >= y /\ y \in Int
  OBVIOUS
<1>2. \A x \in T : (\A y \in T : x >= y) => x = k + 1
  BY <1>1
<1> QED
  BY <1>1, <1>2 DEF Max

LEMMA MaxIsElement ==
    ASSUME NEW n \in Nat, NEW T \in SUBSET (1 .. n), T # {}
    PROVE  Max(T) \in T
<1> DEFINE D == { n - t : t \in T }
<1>1. D \in SUBSET Nat /\ D # {}
  <2>1. \A t \in T : n - t \in Nat
    OBVIOUS
  <2> QED
    BY <2>1
<1>2. PICK d \in D : \A e \in D : d <= e
  BY <1>1, LeastElement
<1>3. PICK x \in T : d = n - x
  BY <1>2
<1>4. \A y \in T : n - y \in D
  OBVIOUS
<1>5. \A y \in T : x >= y
  BY <1>2, <1>3, <1>4
<1> QED
  BY <1>5 DEF Max

\* A loop over n elements from a base: step F takes the value before an element, and
\* the element's place, to the value after it.  FoldLeft chooses a function on the
\* sets of places that obeys this equation.  There is one.
Folded(g, base, n, F) ==
    g = [T \in SUBSET (1 .. n) |-> IF T = {} THEN base ELSE F[g[T \ {Max(T)}], Max(T)]]

LEMMA FoldExists ==
    ASSUME NEW S, NEW base \in S, NEW n \in Nat, NEW F \in [S \X (1 .. n) -> S]
    PROVE  \E g \in [SUBSET (1 .. n) -> S] : Folded(g, base, n, F)
<1> DEFINE Obeys(g, k) == \A T \in SUBSET (1 .. k) :
                             g[T] = IF T = {} THEN base ELSE F[g[T \ {Max(T)}], Max(T)]
           P == { k \in 0 .. n : \E g \in [SUBSET (1 .. k) -> S] : Obeys(g, k) }
<1>1. 0 \in P
  <2>1. SUBSET (1 .. 0) = {{}}
    OBVIOUS
  <2> DEFINE g == [T \in SUBSET (1 .. 0) |-> base]
  <2>2. g \in [SUBSET (1 .. 0) -> S] /\ Obeys(g, 0)
    BY <2>1
  <2> HIDE DEF g, Obeys
  <2>3. \E f \in [SUBSET (1 .. 0) -> S] : Obeys(f, 0)
    BY <2>2
  <2>4. 0 \in 0 .. n
    OBVIOUS
  <2> QED
    BY <2>3, <2>4, Zenon
<1>2. ASSUME NEW k \in 0 .. n - 1, k \in P PROVE k + 1 \in P
  <2>1. PICK g \in [SUBSET (1 .. k) -> S] : Obeys(g, k)
    BY <1>2
  <2> DEFINE h == [T \in SUBSET (1 .. k + 1) |->
                     IF k + 1 \in T THEN F[g[T \ {k + 1}], k + 1] ELSE g[T]]
  <2>2. ASSUME NEW T \in SUBSET (1 .. k + 1)
        PROVE  /\ k + 1 \in T => /\ T \ {k + 1} \in SUBSET (1 .. k)
                                 /\ Max(T) = k + 1 /\ T # {}
               /\ k + 1 \notin T => T \in SUBSET (1 .. k)
    BY MaxOfAbove
  <2>3. h \in [SUBSET (1 .. k + 1) -> S]
    <3>1. ASSUME NEW T \in SUBSET (1 .. k + 1)
          PROVE  (IF k + 1 \in T THEN F[g[T \ {k + 1}], k + 1] ELSE g[T]) \in S
      <4>1. CASE k + 1 \in T
        <5>1. g[T \ {k + 1}] \in S /\ k + 1 \in 1 .. n
          BY <2>2, <4>1
        <5> QED
          BY <4>1, <5>1
      <4>2. CASE k + 1 \notin T
        BY <2>2, <4>2
      <4> QED
        BY <4>1, <4>2
    <3> QED
      BY <3>1
  <2>4. ASSUME NEW T \in SUBSET (1 .. k) PROVE h[T] = g[T] /\ T \in SUBSET (1 .. k + 1)
    <3>1. T \in SUBSET (1 .. k + 1) /\ k + 1 \notin T
      OBVIOUS
    <3> QED
      BY <3>1
  <2>5. ASSUME NEW T \in SUBSET (1 .. k + 1)
        PROVE  h[T] = IF T = {} THEN base ELSE F[h[T \ {Max(T)}], Max(T)]
    <3>1. CASE k + 1 \in T
      <4>1. h[T] = F[g[T \ {k + 1}], k + 1] /\ h[T \ {k + 1}] = g[T \ {k + 1}]
        BY <2>2, <2>4, <3>1
      <4> HIDE DEF h
      <4> QED
        BY <2>2, <3>1, <4>1
    <3>2. CASE k + 1 \notin T
      <4>1. T \in SUBSET (1 .. k) /\ T \ {Max(T)} \in SUBSET (1 .. k)
        BY <2>2, <3>2
      <4>2. /\ h[T] = g[T] /\ h[T \ {Max(T)}] = g[T \ {Max(T)}]
            /\ g[T] = IF T = {} THEN base ELSE F[g[T \ {Max(T)}], Max(T)]
        BY <2>1, <2>4, <4>1
      <4> HIDE DEF h
      <4> QED
        BY <4>2
    <3> QED
      BY <3>1, <3>2
  <2> HIDE DEF h
  <2>6. Obeys(h, k + 1)
    BY <2>5
  <2> HIDE DEF Obeys
  <2>7. \E f \in [SUBSET (1 .. k + 1) -> S] : Obeys(f, k + 1)
    BY <2>3, <2>6
  <2> QED
    BY <2>7
<1> HIDE DEF P
<1>3. n \in P
  BY <1>1, <1>2, RangeInduction
<1>4. PICK g \in [SUBSET (1 .. n) -> S] : Obeys(g, n)
  BY <1>3 DEF P
<1>5. Folded(g, base, n, F)
  BY <1>4 DEF Folded
<1> QED
  BY <1>5

\* A function that takes such steps wherever it is in S, the only place F is known, and
\* the values of a loop before its first element and after each.
Steps(g, S, base, n, F) ==
    /\ g[{}] = base
    /\ \A T \in SUBSET (1 .. n) :
          T # {} /\ g[T \ {Max(T)}] \in S => g[T] = F[<<g[T \ {Max(T)}], Max(T)>>]

Runs(h, base, n, F, result) ==
    /\ h[0] = base /\ h[n] = result
    /\ \A k \in 1 .. n : h[k] = F[<<h[k - 1], k>>]

LEMMA FoldRun ==
    ASSUME NEW S, NEW base \in S, NEW n \in Nat, NEW F \in [S \X (1 .. n) -> S], NEW g,
           Steps(g, S, base, n, F)
    PROVE  \E h \in [0 .. n -> S] : Runs(h, base, n, F, g[1 .. n])
<1>0. /\ g[{}] = base
      /\ \A T \in SUBSET (1 .. n) :
            T # {} /\ g[T \ {Max(T)}] \in S => g[T] = F[<<g[T \ {Max(T)}], Max(T)>>]
  BY Zenon DEF Steps
<1>1. g[1 .. 0] = base
  <2>1. 1 .. 0 = {}
    OBVIOUS
  <2> QED
    BY <1>0, <2>1
<1>2. ASSUME NEW k \in 1 .. n, g[1 .. k - 1] \in S
      PROVE  g[1 .. k] = F[<<g[1 .. k - 1], k>>]
  <2>1. 1 .. k \in SUBSET (1 .. n) /\ 1 .. k # {} /\ k \in Nat \ {0}
    OBVIOUS
  <2>2. Max(1 .. k) = k /\ (1 .. k) \ {k} = 1 .. k - 1
    BY <2>1, MaxOfRange
  <2> DEFINE T == 1 .. k
  <2>3. T \in SUBSET (1 .. n) /\ T # {} /\ Max(T) = k /\ T \ {Max(T)} = 1 .. k - 1
    BY <2>1, <2>2
  <2> HIDE DEF T
  <2>4. g[T] = F[<<g[1 .. k - 1], k>>]
    BY <1>0, <1>2, <2>3
  <2> QED
    BY <2>4 DEF T
<1> DEFINE P == { k \in 0 .. n : g[1 .. k] \in S }
<1>3. 0 \in P
  BY <1>1
<1>4. ASSUME NEW k \in 0 .. n - 1, k \in P PROVE k + 1 \in P
  <2>1. k + 1 \in 1 .. n /\ (k + 1) - 1 = k /\ k + 1 \in 0 .. n
    OBVIOUS
  <2>2. g[1 .. k + 1] = F[<<g[1 .. k], k + 1>>]
    BY <1>2, <1>4, <2>1
  <2> QED
    BY <1>4, <2>1, <2>2
<1>5. 0 .. n \subseteq P
  <2> HIDE DEF P
  <2> QED
    BY <1>3, <1>4, RangeInduction
<1> DEFINE h == [k \in 0 .. n |-> g[1 .. k]]
<1>6. \A k \in 0 .. n : g[1 .. k] \in S
  BY <1>5
<1> HIDE DEF P
<1>7. h \in [0 .. n -> S] /\ h[0] = base /\ h[n] = g[1 .. n]
  BY <1>1, <1>6
<1>8. ASSUME NEW k \in 1 .. n PROVE h[k] = F[<<h[k - 1], k>>]
  <2>1. k - 1 \in 0 .. n /\ k \in 0 .. n
    OBVIOUS
  <2> QED
    BY <1>2, <1>6, <2>1
<1> HIDE DEF h
<1> QED
  BY <1>7, <1>8 DEF Runs

\* The sum of f over the sets of places: any element may be taken out first.
Sums(g, n, f) ==
    /\ g[{}] = 0
    /\ \A T \in SUBSET (1 .. n) : \A x \in T : g[T] = f[x] + g[T \ {x}]

LEMMA SumExists ==
    ASSUME NEW n \in Nat, NEW f \in [1 .. n -> Nat]
    PROVE  \E g \in [SUBSET (1 .. n) -> Nat] : Sums(g, n, f)
<1> DEFINE F == [a \in Nat \X (1 .. n) |-> f[a[2]] + a[1]]
<1>1. F \in [Nat \X (1 .. n) -> Nat] /\ 0 \in Nat
  OBVIOUS
<1>2. PICK g \in [SUBSET (1 .. n) -> Nat] : Folded(g, 0, n, F)
  <2> HIDE DEF F
  <2> QED
    BY <1>1, FoldExists
<1>3. g[{}] = 0
  BY <1>2 DEF Folded
<1>4. ASSUME NEW T \in SUBSET (1 .. n), T # {}
      PROVE  Max(T) \in T /\ g[T] = f[Max(T)] + g[T \ {Max(T)}]
  <2>1. Max(T) \in T
    BY <1>4, MaxIsElement
  <2>2. g[T] = F[<<g[T \ {Max(T)}], Max(T)>>]
    BY <1>2, <1>4 DEF Folded
  <2>3. g[T \ {Max(T)}] \in Nat /\ Max(T) \in 1 .. n
    BY <2>1
  <2> QED
    BY <2>1, <2>2, <2>3
<1> HIDE DEF F
<1> DEFINE Free(k) == \A T \in SUBSET (1 .. k) : \A x \in T : g[T] = f[x] + g[T \ {x}]
           P == { k \in 0 .. n : Free(k) }
<1>5. 0 \in P
  OBVIOUS
<1>6. ASSUME NEW k \in 0 .. n - 1, k \in P PROVE k + 1 \in P
  <2>1. SUFFICES ASSUME NEW T \in SUBSET (1 .. k + 1), NEW x \in T
                 PROVE  g[T] = f[x] + g[T \ {x}]
    <3>1. Free(k + 1)
      BY <2>1, Zenon
    <3>2. k + 1 \in 0 .. n
      OBVIOUS
    <3> HIDE DEF Free
    <3> QED
      BY <3>1, <3>2
  <2>2. Free(k)
    BY <1>6
  <2>3. CASE k + 1 \notin T
    <3>1. T \in SUBSET (1 .. k)
      BY <2>3
    <3> QED
      BY <2>2, <3>1
  <2>4. CASE k + 1 \in T /\ x = k + 1
    <3>1. Max(T) = k + 1 /\ T \in SUBSET (1 .. n) /\ T # {}
      BY <2>4, MaxOfAbove
    <3> QED
      BY <1>4, <2>4, <3>1
  <2>5. CASE k + 1 \in T /\ x # k + 1
    <3> DEFINE U == T \ {x}
               V == T \ {k + 1}
    <3>1. k + 1 \in U /\ U \in SUBSET (1 .. k + 1) /\ U # {} /\ U \in SUBSET (1 .. n)
      BY <2>5
    <3>2. Max(T) = k + 1 /\ Max(U) = k + 1
      BY <2>5, <3>1, MaxOfAbove
    <3>3. T \in SUBSET (1 .. n) /\ T # {} /\ V \in SUBSET (1 .. k) /\ x \in V
      BY <2>5
    <3>4. g[T] = f[k + 1] + g[V] /\ g[U] = f[k + 1] + g[U \ {k + 1}]
      BY <1>4, <3>1, <3>2, <3>3
    <3>5. g[V] = f[x] + g[V \ {x}]
      BY <2>2, <3>3
    <3>6. V \ {x} = U \ {k + 1} /\ V \ {x} \in SUBSET (1 .. n)
      BY <3>3
    <3>7. f[x] \in Nat /\ f[k + 1] \in Nat /\ g[V \ {x}] \in Nat
      BY <3>3, <3>6
    <3>8. g[U \ {k + 1}] = g[V \ {x}]
      BY <3>6
    <3> HIDE DEF V
    <3>9. g[T] = f[x] + g[U]
      <4> HIDE DEF U
      <4> QED
        BY <3>4, <3>5, <3>7, <3>8
    <3> QED
      BY <3>9
  <2> QED
    BY <2>3, <2>4, <2>5
<1> HIDE DEF P
<1>7. n \in P
  <2>1. 0 .. n \subseteq P
    BY <1>5, <1>6, RangeInduction
  <2> QED
    BY <2>1
<1> QED
  BY <1>3, <1>7 DEF P, Sums

\* MapThenSumSet chooses a function on the subsets of S that obeys this equation.
Summed(g, S, f) ==
    g = [T \in SUBSET S |-> IF T = {} THEN 0
                            ELSE f[CHOOSE x \in T : TRUE] + g[T \ {CHOOSE x \in T : TRUE}]]

LEMMA SumChosen ==
    ASSUME NEW n \in Nat, NEW f \in [1 .. n -> Nat], NEW S \in SUBSET (1 .. n),
           NEW g \in [SUBSET (1 .. n) -> Nat], Sums(g, n, f)
    PROVE  /\ \E h : Summed(h, S, f)
           /\ \A h : Summed(h, S, f) => h[S] = g[S]
<1>1. ASSUME NEW T \in SUBSET S, T # {}
      PROVE  LET x == CHOOSE x \in T : TRUE
             IN  x \in T /\ g[T] = f[x] + g[T \ {x}]
  BY <1>1 DEF Sums
<1>2. g[{}] = 0
  BY DEF Sums
<1>3. Summed([T \in SUBSET S |-> g[T]], S, f)
  BY <1>1, <1>2 DEF Summed
<1>4. ASSUME NEW h, Summed(h, S, f) PROVE h[S] = g[S]
  <2>1. IsFiniteSet(S) /\ Cardinality(S) \in Nat
    <3>1. IsFiniteSet(1 .. n)
      BY FS_Interval
    <3> QED
      BY <3>1, FS_Subset, FS_CardinalityType
  <2> DEFINE P == { k \in 0 .. Cardinality(S) :
                      \A T \in SUBSET S : Cardinality(T) = k => h[T] = g[T] }
  <2>2. ASSUME NEW T \in SUBSET S
        PROVE  /\ IsFiniteSet(T) /\ Cardinality(T) \in Nat
               /\ Cardinality(T) = 0 <=> T = {}
               /\ \A x \in T : Cardinality(T \ {x}) = Cardinality(T) - 1
    BY <2>1, FS_Subset, FS_CardinalityType, FS_EmptySet, FS_RemoveElement
  <2>3. ASSUME NEW T \in SUBSET S
        PROVE  h[T] = IF T = {} THEN 0
                      ELSE f[CHOOSE x \in T : TRUE] + h[T \ {CHOOSE x \in T : TRUE}]
    BY <1>4 DEF Summed
  <2>4. 0 \in P
    <3>1. \A T \in SUBSET S : Cardinality(T) = 0 => h[T] = g[T]
      BY <1>2, <2>2, <2>3
    <3>2. 0 \in 0 .. Cardinality(S)
      BY <2>1
    <3> QED
      BY <3>1, <3>2
  <2>5. ASSUME NEW k \in 0 .. Cardinality(S) - 1, k \in P PROVE k + 1 \in P
    <3>1. SUFFICES ASSUME NEW T \in SUBSET S, Cardinality(T) = k + 1 PROVE h[T] = g[T]
      BY <2>1
    <3>2. T # {}
      BY <2>2, <3>1
    <3> DEFINE x == CHOOSE x \in T : TRUE
    <3>3. x \in T /\ g[T] = f[x] + g[T \ {x}] /\ h[T] = f[x] + h[T \ {x}]
      BY <1>1, <2>3, <3>2
    <3> HIDE DEF x
    <3>4. T \ {x} \in SUBSET S /\ Cardinality(T \ {x}) = Cardinality(T) - 1
      BY <2>2, <3>3
    <3>5. Cardinality(T \ {x}) = k
      BY <3>1, <3>4
    <3> QED
      BY <2>5, <3>3, <3>4, <3>5
  <2> HIDE DEF P
  <2>6. Cardinality(S) \in P
    <3>1. Cardinality(S) \in 0 .. Cardinality(S)
      BY <2>1
    <3> QED
      BY <2>1, <2>4, <2>5, <3>1, RangeInduction
  <2> QED
    BY <2>6 DEF P
<1> QED
  BY <1>3, <1>4
=============================================================================
