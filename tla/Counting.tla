------------------------------ MODULE Counting ------------------------------
(***************************************************************************)
(* What the proofs need of the natural numbers and of finite sets: a least *)
(* number, induction, and the sum of finitely many numbers, whichever way  *)
(* it is added up.  A sum is counted: it is how many pebbles lie on the    *)
(* piles.                                                                  *)
(***************************************************************************)
EXTENDS Orders, FiniteSetTheorems, WellFoundedInduction, TLAPS

\* A set of numbers has a least one.
LEMMA Least == ASSUME NEW S \in SUBSET Nat, S # {} PROVE \E t \in S : \A u \in S : t <= u
<1>1. IsWellFoundedOn(OpToRel(<, Nat), Nat)
  BY NatLessThanWellFounded, Zenon
<1>2. PICK t \in S : \A u \in S : ~(<<u, t>> \in OpToRel(<, Nat))
  BY <1>1, WFMin, Zenon
<1>3. \A u \in S : ~(u < t)
  BY <1>2, Zenon DEF OpToRel
<1> QED
  BY <1>3

\* A set that holds zero and with a number the next one holds them all.
LEMMA FromZero ==
  ASSUME NEW T \in SUBSET Nat, 0 \in T, \A n \in T : n + 1 \in T
  PROVE  T = Nat
<1> SUFFICES ASSUME Nat \ T # {} PROVE FALSE
  OBVIOUS
<1>1. PICK n \in Nat \ T : \A m \in Nat \ T : n <= m
  BY Least
<1>2. n # 0 /\ n - 1 \in Nat
  OBVIOUS
<1>3. n - 1 \in T
  BY <1>1, <1>2
<1> QED
  BY <1>1, <1>2, <1>3

\* A set of numbers that one number bounds has a greatest one.
LEMMA Greatest ==
  ASSUME NEW S \in SUBSET Nat, S # {}, NEW n \in Nat, \A m \in S : m <= n
  PROVE  \E t \in S : \A u \in S : u <= t
<1> DEFINE B == {m \in Nat : \A u \in S : u <= m}
<1>1. PICK t \in B : \A m \in B : t <= m
  <2>1. B \in SUBSET Nat /\ B # {}
    OBVIOUS
  <2> HIDE DEF B
  <2> QED
    BY <2>1, Least
<1>2. t \in S
  <2> SUFFICES ASSUME t \notin S PROVE FALSE
    OBVIOUS
  <2>1. t # 0 /\ t - 1 \in Nat
    <3>1. PICK u \in S : TRUE
      OBVIOUS
    <3> QED
      BY <3>1, <1>1
  <2>2. \A u \in S : u <= t - 1
    BY <2>1, <1>1
  <2>3. t - 1 \in B
    BY <2>1, <2>2
  <2> QED
    BY <1>1, <2>1, <2>3
<1> QED
  BY <1>1, <1>2

\* A family of subsets that holds the empty one, and with a subset the same
\* with one element more, holds all of a finite set.
LEMMA OneByOne ==
  ASSUME NEW E, IsFiniteSet(E), NEW T \in SUBSET SUBSET E, {} \in T,
         \A S \in T, e \in E : e \notin S => S \cup {e} \in T
  PROVE  T = SUBSET E
<1> SUFFICES ASSUME (SUBSET E) \ T # {} PROVE FALSE
  OBVIOUS
<1>1. \A S \in SUBSET E : IsFiniteSet(S) /\ Cardinality(S) \in Nat
  BY FS_Subset, FS_CardinalityType
<1> DEFINE K == {Cardinality(S) : S \in (SUBSET E) \ T}
<1>2. PICK S \in (SUBSET E) \ T : \A R \in (SUBSET E) \ T : Cardinality(S) <= Cardinality(R)
  <2>1. K \in SUBSET Nat /\ K # {}
    BY <1>1
  <2>2. \E t \in K : \A u \in K : t <= u
    <3> HIDE DEF K
    <3> QED
      BY <2>1, Least
  <2> QED
    BY <2>2
<1>3. PICK e \in S : TRUE
  BY <1>2
<1>4. Cardinality(S \ {e}) = Cardinality(S) - 1
  BY <1>1, <1>3, FS_RemoveElement
<1>5. S \ {e} \in T
  <2>1. ~(Cardinality(S) <= Cardinality(S \ {e}))
    BY <1>1, <1>4
  <2> QED
    BY <1>2, <2>1
<1>6. (S \ {e}) \cup {e} \in T
  BY <1>2, <1>3, <1>5
<1>7. (S \ {e}) \cup {e} = S
  BY <1>3
<1> QED
  BY <1>2, <1>6, <1>7

-----------------------------------------------------------------------------
(* Sums.                                                                   *)
Piles(w, S) == {p \in S \X Nat : p[2] \in 1..w[p[1]]}
SumOf(w, S) == Cardinality(Piles(w, S))

\* One pile holds as many pebbles as its number says.
LEMMA OnePile ==
  ASSUME NEW e, NEW n \in Nat
  PROVE  IsFiniteSet({e} \X (1..n)) /\ Cardinality({e} \X (1..n)) = n
<1>1. IsFiniteSet({e}) /\ Cardinality({e}) = 1
  BY FS_Singleton
<1>2. IsFiniteSet(1..n) /\ Cardinality(1..n) = n
  BY FS_Interval
<1>3. IsFiniteSet({e} \X (1..n))
      /\ Cardinality({e} \X (1..n)) = Cardinality({e}) * Cardinality(1..n)
  BY <1>1, <1>2, FS_Product, Zenon
<1> QED
  BY <1>1, <1>2, <1>3

\* So the piles of a finite set hold a number of pebbles.
LEMMA PilesAreFinite ==
  ASSUME NEW E, IsFiniteSet(E), NEW w \in [E -> Nat]
  PROVE  \A S \in SUBSET E : IsFiniteSet(Piles(w, S)) /\ SumOf(w, S) \in Nat
<1> DEFINE T == {S \in SUBSET E : IsFiniteSet(Piles(w, S))}
<1>1. {} \in T
  <2>1. Piles(w, {}) = {}
    BY DEF Piles
  <2> QED
    BY <2>1, FS_EmptySet
<1>2. ASSUME NEW S \in T, NEW e \in E PROVE S \cup {e} \in T
  <2>1. Piles(w, S \cup {e}) = Piles(w, S) \cup ({e} \X (1..w[e]))
    BY DEF Piles
  <2>2. IsFiniteSet({e} \X (1..w[e])) /\ IsFiniteSet(Piles(w, S))
    BY OnePile
  <2>3. IsFiniteSet(Piles(w, S) \cup ({e} \X (1..w[e])))
    BY <2>2, FS_Union, Zenon
  <2>4. IsFiniteSet(Piles(w, S \cup {e}))
    BY <2>1, <2>3
  <2> QED
    BY <2>4
<1>3. T = SUBSET E
  <2> HIDE DEF T
  <2>1. T \in SUBSET SUBSET E
    BY DEF T
  <2> QED
    BY <1>1, <1>2, <2>1, OneByOne
<1> QED
  BY <1>3, FS_CardinalityType DEF SumOf

\* A sum is any of its terms and the sum of the others.
LEMMA SumOfOthers ==
  ASSUME NEW E, IsFiniteSet(E), NEW w \in [E -> Nat]
  PROVE  /\ SumOf(w, {}) = 0
         /\ \A S \in SUBSET E : \A e \in S : SumOf(w, S) = w[e] + SumOf(w, S \ {e})
<1>1. SumOf(w, {}) = 0
  <2>1. Piles(w, {}) = {}
    BY DEF Piles
  <2> QED
    BY <2>1, FS_EmptySet DEF SumOf
<1>2. ASSUME NEW S \in SUBSET E, NEW e \in S PROVE SumOf(w, S) = w[e] + SumOf(w, S \ {e})
  <2> DEFINE A == {e} \X (1..w[e])
             B == Piles(w, S \ {e})
  <2>1. Piles(w, S) = A \cup B
    BY DEF Piles
  <2>2. A \cap B = {}
    BY DEF Piles
  <2>3. IsFiniteSet(A) /\ Cardinality(A) = w[e]
    BY OnePile
  <2>4. IsFiniteSet(B) /\ Cardinality(B) \in Nat
    BY PilesAreFinite DEF SumOf
  <2> HIDE DEF A, B
  <2>5. Cardinality(A \cup B) = Cardinality(A) + Cardinality(B) - Cardinality(A \cap B)
    BY <2>3, <2>4, FS_Union
  <2>6. Cardinality(A \cap B) = 0
    BY <2>2, FS_EmptySet
  <2>7. Cardinality(A \cup B) = w[e] + Cardinality(B)
    BY <2>3, <2>4, <2>5, <2>6
  <2> QED
    BY <2>1, <2>7 DEF SumOf, B
<1> QED
  BY <1>1, <1>2

\* g adds up element by element, whichever it takes next.
AddsUp(E, w, g) ==
    /\ g[{}] = 0
    /\ \A S \in SUBSET E : S # {} =>
         \E e \in S : g[S \ {e}] \in Nat => g[S] = w[e] + g[S \ {e}]

\* What is added up so is the sum.
LEMMA AddedUp ==
  ASSUME NEW E, IsFiniteSet(E), NEW w \in [E -> Nat], NEW g, AddsUp(E, w, g)
  PROVE  \A S \in SUBSET E : g[S] = SumOf(w, S)
<1>1. /\ SumOf(w, {}) = 0
      /\ \A S \in SUBSET E : \A e \in S : SumOf(w, S) = w[e] + SumOf(w, S \ {e})
  BY SumOfOthers
<1>2. \A S \in SUBSET E : IsFiniteSet(S) /\ Cardinality(S) \in Nat
  BY FS_Subset, FS_CardinalityType
<1> DEFINE K == {n \in Nat : \A S \in SUBSET E : Cardinality(S) = n => g[S] = SumOf(w, S)}
<1>3. 0 \in K
  <2>1. \A S \in SUBSET E : Cardinality(S) = 0 => S = {}
    BY <1>2, FS_EmptySet
  <2> QED
    BY <1>1, <2>1 DEF AddsUp
<1>4. ASSUME NEW n \in K PROVE n + 1 \in K
  <2> SUFFICES ASSUME NEW S \in SUBSET E, Cardinality(S) = n + 1 PROVE g[S] = SumOf(w, S)
    OBVIOUS
  <2>1. S # {}
    <3>1. n + 1 # 0
      OBVIOUS
    <3> QED
      BY <3>1, FS_EmptySet, Zenon
  <2>2. PICK e \in S : g[S \ {e}] \in Nat => g[S] = w[e] + g[S \ {e}]
    BY <2>1 DEF AddsUp
  <2>3. Cardinality(S \ {e}) = n
    <3>1. n \in Nat /\ n + 1 - 1 = n
      OBVIOUS
    <3>2. Cardinality(S \ {e}) = Cardinality(S) - 1
      BY <1>2, FS_RemoveElement
    <3> QED
      BY <3>1, <3>2
  <2>4. g[S \ {e}] = SumOf(w, S \ {e})
    BY <1>4, <2>3
  <2>5. SumOf(w, S \ {e}) \in Nat
    BY PilesAreFinite
  <2> QED
    BY <1>1, <2>2, <2>4, <2>5
<1>5. K = Nat
  <2> HIDE DEF K
  <2>1. K \in SUBSET Nat
    BY DEF K
  <2> QED
    BY <1>3, <1>4, <2>1, FromZero
<1> QED
  BY <1>2, <1>5

-----------------------------------------------------------------------------
(* The places of a set in rising order.                                    *)
Upto(S, i) == {j \in S : j <= i}

\* A place's rank is how many places there are up to it; a later one ranks higher.
LEMMA RanksRise ==
  ASSUME NEW S \in SUBSET Nat, IsFiniteSet(S)
  PROVE  /\ \A i \in S : Cardinality(Upto(S, i)) \in 1..Cardinality(S)
         /\ \A i, k \in S : i < k => Cardinality(Upto(S, i)) < Cardinality(Upto(S, k))
<1>1. \A i \in S : IsFiniteSet(Upto(S, i)) /\ Cardinality(Upto(S, i)) \in Nat
                   /\ Cardinality(Upto(S, i)) <= Cardinality(S) /\ i \in Upto(S, i)
  <2> SUFFICES ASSUME NEW i \in S
               PROVE  IsFiniteSet(Upto(S, i)) /\ Cardinality(Upto(S, i)) \in Nat
                      /\ Cardinality(Upto(S, i)) <= Cardinality(S) /\ i \in Upto(S, i)
    OBVIOUS
  <2>1. Upto(S, i) \in SUBSET S /\ i \in Upto(S, i)
    BY DEF Upto
  <2> QED
    BY <2>1, FS_Subset, FS_CardinalityType
<1>2. Cardinality(S) \in Nat
  BY FS_CardinalityType
<1>3. ASSUME NEW i \in S PROVE Cardinality(Upto(S, i)) # 0
  BY <1>1, FS_EmptySet
<1>4. ASSUME NEW i \in S, NEW k \in S, i < k PROVE Cardinality(Upto(S, i)) < Cardinality(Upto(S, k))
  <2>1. Upto(S, i) \in SUBSET Upto(S, k) /\ k \notin Upto(S, i)
    <3>1. i \in Nat /\ k \in Nat /\ ~(k <= i)
      BY <1>4
    <3>2. \A j \in S : j \in Nat /\ (j <= i => j <= k)
      BY <1>4, <3>1
    <3> QED
      BY <3>1, <3>2 DEF Upto
  <2>2. Upto(S, i) # Upto(S, k)
    BY <1>1, <2>1
  <2>3. /\ Cardinality(Upto(S, i)) <= Cardinality(Upto(S, k))
        /\ Cardinality(Upto(S, k)) = Cardinality(Upto(S, i)) => Upto(S, k) = Upto(S, i)
    BY <1>1, <2>1, FS_Subset
  <2> QED
    BY <1>1, <2>2, <2>3
<1> QED
  BY <1>1, <1>2, <1>3, <1>4

\* They are the places of the set, each once, and they rise.
LEMMA InOrderRises ==
  ASSUME NEW S \in SUBSET Nat, IsFiniteSet(S)
  PROVE  /\ Cardinality(S) \in Nat
         /\ InOrder(S) \in [1..Cardinality(S) -> S]
         /\ \A i \in S : \E n \in 1..Cardinality(S) : InOrder(S)[n] = i
         /\ \A n, m \in 1..Cardinality(S) : n < m => InOrder(S)[n] < InOrder(S)[m]
<1> DEFINE N == Cardinality(S)
           r == [i \in S |-> Cardinality(Upto(S, i))]
<1>1. N \in Nat
  BY FS_CardinalityType
<1>2. r \in [S -> 1..N] /\ \A i, k \in S : i < k => r[i] < r[k]
  BY RanksRise
<1>3. \A i \in S : r[i] \in Nat
  BY <1>1, <1>2
<1>4. \A i, k \in S : r[i] = r[k] => i = k
  BY <1>2, <1>3
<1> HIDE DEF r
<1>5. r \in Injection(S, 1..N)
  BY <1>2, <1>4 DEF Injection, IsInjective
<1>6. r \in Surjection(S, 1..N)
  <2>1. IsFiniteSet(1..N) /\ Cardinality(1..N) = N
    BY <1>1, FS_Interval
  <2> QED
    BY <1>5, <2>1, FS_Injection
<1>7. \A n \in 1..N : \E i \in S : r[i] = n
  BY <1>6 DEF Surjection
<1>8. \A n \in 1..N : InOrder(S)[n] \in S /\ r[InOrder(S)[n]] = n
  <2> SUFFICES ASSUME NEW n \in 1..N PROVE InOrder(S)[n] \in S /\ r[InOrder(S)[n]] = n
    OBVIOUS
  <2>1. InOrder(S)[n] = CHOOSE i \in S : r[i] = n
    BY DEF InOrder, r, Upto
  <2> QED
    BY <1>7, <2>1
<1>9. InOrder(S) \in [1..N -> S]
  BY <1>8 DEF InOrder
<1>10. ASSUME NEW i \in S PROVE \E n \in 1..N : InOrder(S)[n] = i
  <2>1. r[i] \in 1..N /\ r[InOrder(S)[r[i]]] = r[i] /\ InOrder(S)[r[i]] \in S
    BY <1>2, <1>8
  <2>2. InOrder(S)[r[i]] = i
    BY <1>4, <2>1
  <2> QED
    BY <2>1, <2>2
<1>11. ASSUME NEW n \in 1..N, NEW m \in 1..N, n < m PROVE InOrder(S)[n] < InOrder(S)[m]
  <2>1. PICK i \in S : i = InOrder(S)[n] /\ r[i] = n
    BY <1>8
  <2>2. PICK k \in S : k = InOrder(S)[m] /\ r[k] = m
    BY <1>8
  <2>3. ~(k < i) /\ k # i
    BY <1>1, <1>2, <1>11, <2>1, <2>2
  <2> QED
    BY <2>1, <2>2, <2>3
<1> QED
  BY <1>1, <1>9, <1>10, <1>11

\* What a sequence holds at some of its places: each of them once, in order.
LEMMA AtPlacesHolds ==
  ASSUME NEW T, NEW s \in Seq(T), NEW S \in SUBSET DOMAIN s
  PROVE  /\ AtPlaces(s, S) \in Seq(T) /\ Len(AtPlaces(s, S)) = Cardinality(S)
         /\ Cardinality(S) \in Nat /\ Cardinality(S) <= Len(s)
         /\ InOrder(S) \in [1..Cardinality(S) -> S]
         /\ \A n \in 1..Cardinality(S) : AtPlaces(s, S)[n] = s[InOrder(S)[n]]
         /\ \A i \in S : \E n \in 1..Cardinality(S) : InOrder(S)[n] = i
         /\ \A n, m \in 1..Cardinality(S) : n < m => InOrder(S)[n] < InOrder(S)[m]
<1>1. Len(s) \in Nat /\ DOMAIN s = 1..Len(s) /\ S \in SUBSET Nat
  OBVIOUS
<1>2. IsFiniteSet(S) /\ Cardinality(S) <= Len(s)
  <2>1. IsFiniteSet(1..Len(s)) /\ Cardinality(1..Len(s)) = Len(s)
    BY <1>1, FS_Interval
  <2> QED
    BY <1>1, <2>1, FS_Subset
<1>3. /\ Cardinality(S) \in Nat
      /\ InOrder(S) \in [1..Cardinality(S) -> S]
      /\ \A i \in S : \E n \in 1..Cardinality(S) : InOrder(S)[n] = i
      /\ \A n, m \in 1..Cardinality(S) : n < m => InOrder(S)[n] < InOrder(S)[m]
  BY <1>1, <1>2, InOrderRises
<1>4. AtPlaces(s, S) \in [1..Cardinality(S) -> T]
  BY <1>1, <1>3 DEF AtPlaces
<1>5. AtPlaces(s, S) \in Seq(T) /\ Len(AtPlaces(s, S)) = Cardinality(S)
  BY <1>3, <1>4
<1> QED
  BY <1>2, <1>3, <1>5 DEF AtPlaces
=============================================================================
