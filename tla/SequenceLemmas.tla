---------------------------- MODULE SequenceLemmas ----------------------------
(***************************************************************************)
(* What the proofs about several components need of sets of numbers and of *)
(* module Subsequences: least elements, induction over a set, prefixes,    *)
(* and that a subsequence is determined by an order of its positions.      *)
(***************************************************************************)
EXTENDS Subsequences, FiniteSetTheorems, SequenceTheorems, TLAPS

-----------------------------------------------------------------------------
(***************************************************************************)
(* Sets of natural numbers.                                                *)
(***************************************************************************)

Less == {pair \in Nat \X Nat : pair[1] < pair[2]}

LEMMA LessWellFounded == IsWellFoundedOn(Less, Nat)
BY NatLessThanWellFounded DEF OpToRel, Less

\* A set of natural numbers with an element has a least one.
LEMMA LeastExists ==
    ASSUME NEW T \in SUBSET Nat, T # {}
    PROVE  \E m \in T : \A k \in T : m <= k
<1>1. PICK m \in T : \A k \in T : ~ (<<k, m>> \in Less)
    BY LessWellFounded, WFMin
<1>2. ASSUME NEW k \in T PROVE m <= k
    <2>1. k \in Nat /\ m \in Nat OBVIOUS
    <2>2. k < m => <<k, m>> \in Less BY <2>1 DEF Less
    <2>3. QED BY <1>1, <2>1, <2>2
<1>3. QED BY <1>1, <1>2

\* Induction, for a property given as the set of the numbers that have it.
LEMMA SetInduction ==
    ASSUME NEW T, 0 \in T, \A n \in Nat : n \in T => n + 1 \in T
    PROVE  \A n \in Nat : n \in T
<1> DEFINE U == {n \in Nat : n \notin T}
<1>1. SUFFICES ASSUME U # {} PROVE FALSE
    OBVIOUS
<1>2. PICK m \in U : \A k \in U : m <= k BY <1>1, LeastExists
<1>3. m # 0 BY <1>2
<1>4. m - 1 \in Nat /\ m - 1 \notin U BY <1>2, <1>3
<1>5. m - 1 + 1 \in T BY <1>4
<1>6. QED BY <1>2, <1>5

\* A set of positions that contains those below its elements is a prefix.
LEMMA PrefixOfPositions ==
    ASSUME NEW n \in Nat, NEW W \in SUBSET (1..n),
           \A i \in W : \A j \in 1..i : j \in W
    PROVE  /\ W = 1..Cardinality(W)
           /\ Cardinality(W) \in 0..n
<1> DEFINE U == (1..n) \ W
<1>1. \A k \in 0..n : IsFiniteSet(1..k) /\ Cardinality(1..k) = k
    BY FS_Interval
<1>2. CASE U = {}
    <2>1. W = 1..n BY <1>2
    <2>2. QED BY <1>1, <2>1
<1>3. CASE U # {}
    <2>1. U \in SUBSET Nat OBVIOUS
    <2>2. PICK m \in U : \A k \in U : m <= k BY <1>3, <2>1, LeastExists
    <2>3. m \in 1..n /\ m \notin W /\ m - 1 \in 0..n BY <2>2
    <2>4. \A k \in 1..n : k < m => k \in W
        BY <2>2, <2>3
    <2>5. \A k \in W : k \in 1..n /\ k < m
        <3> SUFFICES ASSUME NEW k \in W PROVE k \in 1..n /\ k < m
            OBVIOUS
        <3>1. k \in 1..n OBVIOUS
        <3>2. m \in 1..k => m \in W OBVIOUS
        <3>3. QED BY <2>3, <3>1, <3>2
    <2>6. W = 1..(m - 1)
        <3>1. \A k \in W : k \in 1..(m - 1) BY <2>3, <2>5
        <3>2. \A k \in 1..(m - 1) : k \in 1..n /\ k < m BY <2>3
        <3>3. QED BY <2>4, <3>1, <3>2
    <2>7. QED BY <1>1, <2>3, <2>6
<1>4. QED BY <1>2, <1>3

-----------------------------------------------------------------------------
(***************************************************************************)
(* The increasing order of a finite set of numbers.                        *)
(***************************************************************************)

\* How many elements of S are not above x: the place of x in S.
Place(S, x) == Cardinality({y \in S : y <= x})

\* Places are different for different elements, and numbered from 1.
LEMMA PlaceFacts ==
    ASSUME NEW S \in SUBSET Int, IsFiniteSet(S)
    PROVE  /\ Cardinality(S) \in Nat
           /\ \A x \in S : Place(S, x) \in 1..Cardinality(S)
           /\ \A x, y \in S : x < y => Place(S, x) < Place(S, y)
<1> DEFINE Upto(x) == {y \in S : y <= x}
<1>1. Cardinality(S) \in Nat BY FS_CardinalityType
<1>2. ASSUME NEW x \in S
      PROVE  /\ IsFiniteSet(Upto(x))
             /\ Cardinality(Upto(x)) \in Nat
             /\ Cardinality(Upto(x)) <= Cardinality(S)
    <2>1. Upto(x) \in SUBSET S OBVIOUS
    <2>2. QED BY <2>1, FS_Subset, FS_CardinalityType
<1>3. ASSUME NEW x \in S PROVE Cardinality(Upto(x)) # 0
    <2>1. x \in Upto(x) OBVIOUS
    <2>2. QED BY <1>2, <2>1, FS_EmptySet
<1>4. ASSUME NEW x \in S, NEW y \in S, x < y
      PROVE  Cardinality(Upto(x)) < Cardinality(Upto(y))
    <2>1. y \notin Upto(x) BY <1>4
    <2>2. Upto(x) \cup {y} \in SUBSET Upto(y)
        <3>1. \A z \in S : z <= x => z <= y BY <1>4
        <3>2. y <= y OBVIOUS
        <3>3. QED BY <3>1, <3>2
    <2>3. Cardinality(Upto(x) \cup {y}) = Cardinality(Upto(x)) + 1
        BY <1>2, <2>1, FS_AddElement
    <2>4. Cardinality(Upto(x) \cup {y}) <= Cardinality(Upto(y))
        BY <1>2, <2>2, FS_Subset
    <2>5. QED BY <1>2, <2>3, <2>4
<1>5. QED BY <1>1, <1>2, <1>3, <1>4 DEF Place

\* Every place is somebody's, so Ascending lists the set, and in order.
LEMMA AscendingFacts ==
    ASSUME NEW S \in SUBSET Int, IsFiniteSet(S)
    PROVE  /\ Cardinality(S) \in Nat
           /\ Ascending(S) \in [1..Cardinality(S) -> S]
           /\ \A i, j \in 1..Cardinality(S) :
                 i < j => Ascending(S)[i] < Ascending(S)[j]
           /\ \A x \in S : /\ Place(S, x) \in 1..Cardinality(S)
                           /\ Ascending(S)[Place(S, x)] = x
<1> DEFINE n == Cardinality(S)
           f == [x \in S |-> Place(S, x)]
<1>1. n \in Nat BY PlaceFacts
<1>2. /\ \A x \in S : Place(S, x) \in 1..n
      /\ \A x, y \in S : x < y => Place(S, x) < Place(S, y)
    BY PlaceFacts
<1>3. IsFiniteSet(1..n) /\ Cardinality(1..n) = n BY <1>1, FS_Interval
<1>4. \A x, y \in S : Place(S, x) = Place(S, y) => x = y
    <2> SUFFICES ASSUME NEW x \in S, NEW y \in S, x # y
                 PROVE  Place(S, x) # Place(S, y)
        OBVIOUS
    <2>1. x < y \/ y < x OBVIOUS
    <2>2. Place(S, x) \in 1..n /\ Place(S, y) \in 1..n BY <1>2
    <2>3. QED BY <1>2, <2>1, <2>2
<1>5. f \in Injection(S, 1..n)
    <2>1. f \in [S -> 1..n] BY <1>2
    <2>2. \A x, y \in S : f[x] = f[y] => x = y BY <1>4
    <2>3. QED BY <2>1, <2>2 DEF Injection, IsInjective
<1>6. f \in Surjection(S, 1..n) BY <1>3, <1>5, FS_Injection
<1>7. \A k \in 1..n : \E x \in S : Place(S, x) = k
    BY <1>6 DEF Surjection
<1> DEFINE at(k) == CHOOSE x \in S : Place(S, x) = k
<1>8. \A k \in 1..n : at(k) \in S /\ Place(S, at(k)) = k BY <1>7
<1>9. Ascending(S) = [k \in 1..n |-> at(k)] BY DEF Ascending, Place
<1> HIDE DEF at
<1>10. ASSUME NEW i \in 1..n, NEW j \in 1..n, i < j
       PROVE  Ascending(S)[i] < Ascending(S)[j]
    <2> DEFINE x == Ascending(S)[i]
               y == Ascending(S)[j]
    <2>1. /\ x \in S /\ y \in S
          /\ Place(S, x) = i /\ Place(S, y) = j
        BY <1>8, <1>9
    <2> HIDE DEF x, y
    <2>2. ~ (y < x) BY <1>2, <1>10, <2>1
    <2>3. y # x BY <1>10, <2>1
    <2>4. x < y BY <2>1, <2>2, <2>3
    <2>5. QED BY <2>4 DEF x, y
<1>11. \A x \in S : Ascending(S)[Place(S, x)] = x
    BY <1>2, <1>4, <1>8, <1>9
<1>12. Ascending(S) \in [1..n -> S] BY <1>8, <1>9
<1>13. QED BY <1>1, <1>2, <1>10, <1>11, <1>12

\* Any increasing list of all the elements of a set is Ascending.
LEMMA AscendingUnique ==
    ASSUME NEW n \in Nat, NEW S \in SUBSET Int, NEW f \in [1..n -> S],
           \A i, j \in 1..n : i < j => f[i] < f[j],
           \A x \in S : \E i \in 1..n : f[i] = x
    PROVE  /\ IsFiniteSet(S)
           /\ Cardinality(S) = n
           /\ Ascending(S) = f
<1>1. /\ \A k \in 0..n : IsFiniteSet(1..k) /\ Cardinality(1..k) = k
      /\ \A k \in 1..n : k \in 0..n /\ 1..k \subseteq 1..n
    BY FS_Interval
<1>2. \A i, j \in 1..n : /\ f[i] = f[j] => i = j
                         /\ f[i] <= f[j] => i <= j
                         /\ i <= j => f[i] <= f[j]
    <2> SUFFICES ASSUME NEW i \in 1..n, NEW j \in 1..n
                 PROVE  /\ f[i] = f[j] => i = j
                        /\ f[i] <= f[j] => i <= j
                        /\ i <= j => f[i] <= f[j]
        OBVIOUS
    <2>1. f[i] \in Int /\ f[j] \in Int OBVIOUS
    <2>2. (i < j => f[i] < f[j]) /\ (j < i => f[j] < f[i]) OBVIOUS
    <2>3. i < j \/ j < i \/ i = j OBVIOUS
    <2>4. QED BY <2>1, <2>2, <2>3
<1>3. f \in Bijection(1..n, S)
    BY <1>2 DEF Bijection, Injection, Surjection, IsInjective
<1>4. IsFiniteSet(S) /\ Cardinality(S) = n
    <2>1. ExistsBijection(1..n, S) BY <1>3 DEF ExistsBijection
    <2>2. n \in 0..n OBVIOUS
    <2>3. QED BY <1>1, <2>1, <2>2, FS_Bijection
<1>5. ASSUME NEW k \in 1..n PROVE Place(S, f[k]) = k
    <2> DEFINE T == {y \in S : y <= f[k]}
               g == [i \in 1..k |-> f[i]]
    <2>1. 1..k \subseteq 1..n /\ k \in 0..n BY <1>1
    <2>2. \A i \in 1..k : f[i] \in T
        <3> SUFFICES ASSUME NEW i \in 1..k PROVE f[i] \in T
            OBVIOUS
        <3>1. i \in 1..n /\ i <= k BY <2>1
        <3>2. QED BY <1>2, <3>1
    <2>3. \A y \in T : \E i \in 1..k : f[i] = y
        <3> SUFFICES ASSUME NEW y \in T PROVE \E i \in 1..k : f[i] = y
            OBVIOUS
        <3>1. PICK i \in 1..n : f[i] = y OBVIOUS
        <3>2. i <= k BY <1>2, <3>1
        <3>3. QED BY <3>1, <3>2
    <2>4. g \in Bijection(1..k, T)
        <3>1. g \in [1..k -> T] BY <2>2
        <3>2. \A y \in T : \E i \in 1..k : g[i] = y BY <2>3
        <3>3. \A i, j \in 1..k : g[i] = g[j] => i = j BY <1>2, <2>1
        <3> HIDE DEF g, T
        <3>4. QED
            BY <3>1, <3>2, <3>3 DEF Bijection, Injection, Surjection, IsInjective
    <2>5. ExistsBijection(1..k, T) BY <2>4 DEF ExistsBijection
    <2>6. QED BY <1>1, <2>1, <2>5, FS_Bijection DEF Place
<1>6. ASSUME NEW k \in 1..n PROVE Ascending(S)[k] = f[k]
    <2>1. Ascending(S)[Place(S, f[k])] = f[k] BY <1>4, AscendingFacts
    <2>2. QED BY <1>5, <2>1
<1>7. Ascending(S) \in [1..n -> S] BY <1>4, AscendingFacts
<1>8. QED BY <1>4, <1>6, <1>7 DEF Picked

-----------------------------------------------------------------------------
(***************************************************************************)
(* Subsequences.  The elements to keep are given by the set of their       *)
(* positions, since a lemma cannot take a predicate.                       *)
(***************************************************************************)

\* The positions of a sequence are a finite set of integers, and so are those
\* picked.
LEMMA PositionsFinite ==
    ASSUME NEW T, NEW s \in Seq(T), NEW I \in SUBSET (DOMAIN s)
    PROVE  /\ DOMAIN s = 1..Len(s) /\ Len(s) \in Nat
           /\ I \in SUBSET Int
           /\ IsFiniteSet(I)
           /\ Cardinality(I) \in Nat
<1>1. DOMAIN s = 1..Len(s) /\ Len(s) \in Nat OBVIOUS
<1>2. IsFiniteSet(1..Len(s)) BY <1>1, FS_Interval
<1>3. IsFiniteSet(I) BY <1>1, <1>2, FS_Subset
<1>4. QED BY <1>1, <1>3, FS_CardinalityType

\* Picked lists the picked elements, each once and in their order.
LEMMA PickedFacts ==
    ASSUME NEW T, NEW s \in Seq(T), NEW I \in SUBSET (DOMAIN s)
    PROVE  /\ Picked(s, I) \in Seq(T)
           /\ Len(Picked(s, I)) = Cardinality(I)
           /\ \A k \in 1..Cardinality(I) :
                 /\ Ascending(I)[k] \in I
                 /\ Picked(s, I)[k] = s[Ascending(I)[k]]
<1> DEFINE n == Cardinality(I)
<1>1. I \in SUBSET Int /\ IsFiniteSet(I) /\ n \in Nat BY PositionsFinite
<1>2. Ascending(I) \in [1..n -> I] BY <1>1, AscendingFacts
<1>3. \A k \in 1..n : Ascending(I)[k] \in I BY <1>2
<1>4. \A i \in I : s[i] \in T OBVIOUS
<1>5. Picked(s, I) = [k \in 1..n |-> s[Ascending(I)[k]]] BY DEF Picked
<1> HIDE DEF n
<1>6. Picked(s, I) \in Seq(T) /\ Len(Picked(s, I)) = n
    BY <1>1, <1>3, <1>4, <1>5
<1>7. QED BY <1>3, <1>5, <1>6 DEF n

\* h takes the positions I of s to the positions J of u, in their order, and to
\* equal elements.
Carries(h, s, I, u, J) ==
    /\ h \in [I -> J]
    /\ \A i, j \in I : i < j => h[i] < h[j]
    /\ \A y \in J : \E i \in I : h[i] = y
    /\ \A i \in I : s[i] = u[h[i]]

\* The same elements in the same order, at whatever positions.
LEMMA PickedSame ==
    ASSUME NEW T, NEW s \in Seq(T), NEW I \in SUBSET (DOMAIN s),
           NEW u \in Seq(T), NEW J \in SUBSET (DOMAIN u),
           NEW h, Carries(h, s, I, u, J)
    PROVE  Picked(s, I) = Picked(u, J)
<1> USE DEF Carries
<1> DEFINE n == Cardinality(I)
           f == [k \in 1..n |-> h[Ascending(I)[k]]]
<1>1. I \in SUBSET Int /\ IsFiniteSet(I) /\ n \in Nat BY PositionsFinite
<1>2. /\ Ascending(I) \in [1..n -> I]
      /\ \A i, j \in 1..n : i < j => Ascending(I)[i] < Ascending(I)[j]
      /\ \A x \in I : Place(I, x) \in 1..n /\ Ascending(I)[Place(I, x)] = x
    BY <1>1, AscendingFacts
<1>3. \A k \in 1..n : Ascending(I)[k] \in I BY <1>2
<1>4. f \in [1..n -> J] BY <1>3
<1>5. \A i, j \in 1..n : i < j => f[i] < f[j] BY <1>2, <1>3
<1>6. \A y \in J : \E k \in 1..n : f[k] = y BY <1>2
<1> HIDE DEF f, n
<1>7. Picked(u, J) = [k \in 1..n |-> u[f[k]]]
    <2>1. J \in SUBSET Int BY PositionsFinite
    <2>2. Cardinality(J) = n /\ Ascending(J) = f
        BY <1>1, <1>4, <1>5, <1>6, <2>1, AscendingUnique
    <2>3. QED BY <2>2 DEF Picked
<1>8. Picked(s, I) = [k \in 1..n |-> s[Ascending(I)[k]]] BY DEF Picked, n
<1>9. \A k \in 1..n : s[Ascending(I)[k]] = u[f[k]] BY <1>3 DEF f
<1>10. QED BY <1>7, <1>8, <1>9

\* Nothing picked, and everything picked.
LEMMA PickedNone == \A s : Picked(s, {}) = << >>
<1>1. Cardinality({}) = 0 BY FS_EmptySet
<1>2. 1..0 = {} OBVIOUS
<1>3. QED BY <1>1, <1>2 DEF Picked

LEMMA PickedAll ==
    ASSUME NEW T, NEW s \in Seq(T)
    PROVE  Picked(s, DOMAIN s) = s
<1> DEFINE f == [k \in 1..Len(s) |-> k]
<1>1. DOMAIN s = 1..Len(s) /\ Len(s) \in Nat OBVIOUS
<1>2. f \in [1..Len(s) -> DOMAIN s] BY <1>1
<1>3. /\ \A i, j \in 1..Len(s) : i < j => f[i] < f[j]
      /\ \A x \in DOMAIN s : \E i \in 1..Len(s) : f[i] = x
    BY <1>1
<1>4. \A k \in 1..Len(s) : f[k] = k OBVIOUS
<1> HIDE DEF f
<1>5. DOMAIN s \in SUBSET Int BY <1>1
<1>6. Cardinality(DOMAIN s) = Len(s) /\ Ascending(DOMAIN s) = f
    BY <1>1, <1>2, <1>3, <1>5, AscendingUnique
<1>7. s = [k \in 1..Len(s) |-> s[k]] OBVIOUS
<1>8. QED BY <1>4, <1>6, <1>7 DEF Picked

\* K has the positions of I in s, and those of J in u, in s \o u.
Joins(s, I, u, J, K) ==
    /\ I \in SUBSET (DOMAIN s)
    /\ J \in SUBSET (DOMAIN u)
    /\ K \in SUBSET Int
    /\ \A i \in K : i \in I \/ i - Len(s) \in J
    /\ \A i \in I : i \in K
    /\ \A j \in J : Len(s) + j \in K

\* Picking from a concatenation.
LEMMA PickedConcat ==
    ASSUME NEW T, NEW s \in Seq(T), NEW I, NEW u \in Seq(T), NEW J, NEW K,
           Joins(s, I, u, J, K)
    PROVE  Picked(s \o u, K) = Picked(s, I) \o Picked(u, J)
<1> DEFINE a == Cardinality(I)
           b == Cardinality(J)
           f == [k \in 1..(a + b) |->
                    IF k <= a THEN Ascending(I)[k]
                    ELSE Len(s) + Ascending(J)[k - a]]
<1>1. /\ I \in SUBSET Int /\ IsFiniteSet(I) /\ a \in Nat
      /\ J \in SUBSET Int /\ IsFiniteSet(J) /\ b \in Nat
      /\ DOMAIN s = 1..Len(s) /\ Len(s) \in Nat
      /\ DOMAIN u = 1..Len(u) /\ Len(u) \in Nat
    BY PositionsFinite DEF Joins
<1>2. /\ \A k \in 1..a : Ascending(I)[k] \in I
      /\ \A i, j \in 1..a : i < j => Ascending(I)[i] < Ascending(I)[j]
      /\ \A x \in I : \E k \in 1..a : Ascending(I)[k] = x
    BY <1>1, AscendingFacts
<1>3. /\ \A k \in 1..b : Ascending(J)[k] \in J
      /\ \A i, j \in 1..b : i < j => Ascending(J)[i] < Ascending(J)[j]
      /\ \A x \in J : \E k \in 1..b : Ascending(J)[k] = x
    BY <1>1, AscendingFacts
<1>4. /\ s \o u \in Seq(T)
      /\ Len(s \o u) = Len(s) + Len(u)
      /\ \A k \in 1..(Len(s) + Len(u)) :
            (s \o u)[k] = IF k <= Len(s) THEN s[k] ELSE u[k - Len(s)]
    BY ConcatProperties
<1>5. /\ \A i \in I : i \in 1..Len(s) /\ (s \o u)[i] = s[i]
      /\ \A j \in J : /\ j \in 1..Len(u)
                      /\ (s \o u)[Len(s) + j] = u[j]
    BY <1>1, <1>4 DEF Joins
<1>6. \A i \in K : i \in I \/ \E j \in J : i = Len(s) + j
    <2> SUFFICES ASSUME NEW i \in K, i \notin I
                 PROVE  \E j \in J : i = Len(s) + j
        OBVIOUS
    <2>1. i - Len(s) \in J /\ i = Len(s) + (i - Len(s)) BY <1>1 DEF Joins
    <2>2. QED BY <2>1
<1> HIDE DEF a, b
<1>7. \A k \in 1..(a + b) : \/ k \in 1..a
                            \/ k - a \in 1..b /\ k \notin 1..a /\ k > a
    BY <1>1
<1>8. /\ \A k \in 1..a : f[k] = Ascending(I)[k] /\ k \in 1..(a + b)
      /\ \A k \in 1..b : /\ f[a + k] = Len(s) + Ascending(J)[k]
                         /\ a + k \in 1..(a + b)
    BY <1>1
<1>9. \A k \in 1..(a + b) :
          k \notin 1..a => f[k] = Len(s) + Ascending(J)[k - a]
    BY <1>1, <1>7
<1> HIDE DEF f
<1>10. f \in [1..(a + b) -> K]
    <2>1. \A k \in 1..(a + b) : f[k] \in K
        BY <1>2, <1>3, <1>7, <1>8, <1>9 DEF Joins
    <2>2. f = [k \in 1..(a + b) |-> f[k]] BY DEF f
    <2>3. QED BY <2>1, <2>2
<1>11. ASSUME NEW i \in 1..(a + b), NEW j \in 1..(a + b), i < j
       PROVE  f[i] < f[j]
    <2>1. CASE i \in 1..a /\ j \in 1..a BY <1>2, <1>8, <1>11, <2>1
    <2>2. CASE i \in 1..a /\ j \notin 1..a
        <3>1. f[i] \in 1..Len(s) BY <1>2, <1>5, <1>8, <2>2
        <3>2. Ascending(J)[j - a] \in 1..Len(u)
            BY <1>3, <1>5, <1>7, <2>2
        <3>3. f[j] = Len(s) + Ascending(J)[j - a] BY <1>9, <2>2
        <3>4. QED BY <1>1, <3>1, <3>2, <3>3
    <2>3. CASE i \notin 1..a /\ j \notin 1..a
        <3>1. i - a \in 1..b /\ j - a \in 1..b /\ i - a < j - a
            BY <1>1, <1>7, <1>11, <2>3
        <3>2. /\ Ascending(J)[i - a] < Ascending(J)[j - a]
              /\ Ascending(J)[i - a] \in 1..Len(u)
              /\ Ascending(J)[j - a] \in 1..Len(u)
            BY <1>3, <1>5, <3>1
        <3>3. /\ f[i] = Len(s) + Ascending(J)[i - a]
              /\ f[j] = Len(s) + Ascending(J)[j - a]
            BY <1>9, <2>3
        <3>4. QED BY <1>1, <3>2, <3>3
    <2>4. i \notin 1..a => j \notin 1..a BY <1>1, <1>7, <1>11
    <2>5. QED BY <2>1, <2>2, <2>3, <2>4
<1>12. \A x \in K : \E k \in 1..(a + b) : f[k] = x
    <2>1. \A x \in I : \E k \in 1..(a + b) : f[k] = x BY <1>2, <1>8
    <2>2. \A x \in J : \E k \in 1..(a + b) : f[k] = Len(s) + x
        BY <1>3, <1>8
    <2>3. QED BY <1>6, <2>1, <2>2
<1>13. Cardinality(K) = a + b /\ Ascending(K) = f
    <2>1. a + b \in Nat BY <1>1
    <2>2. QED
        BY <1>10, <1>11, <1>12, <2>1, AscendingUnique DEF Joins
<1>14. Picked(s \o u, K) = [k \in 1..(a + b) |-> (s \o u)[f[k]]]
    BY <1>13 DEF Picked
<1>15. /\ Picked(s, I) \in Seq(T) /\ Len(Picked(s, I)) = a
       /\ Picked(u, J) \in Seq(T) /\ Len(Picked(u, J)) = b
       /\ \A k \in 1..a : Picked(s, I)[k] = s[Ascending(I)[k]]
       /\ \A k \in 1..b : Picked(u, J)[k] = u[Ascending(J)[k]]
    BY PickedFacts DEF a, b, Joins
<1>16. LET v == Picked(s, I) \o Picked(u, J)
       IN  /\ v \in Seq(T) /\ Len(v) = a + b
           /\ \A k \in 1..(a + b) :
                 v[k] = IF k <= a THEN Picked(s, I)[k] ELSE Picked(u, J)[k - a]
    <2> DEFINE p == Picked(s, I)
               q == Picked(u, J)
    <2>1. p \in Seq(T) /\ q \in Seq(T) /\ Len(p) = a /\ Len(q) = b
        BY <1>15
    <2> HIDE DEF p, q
    <2>2. /\ p \o q \in Seq(T) /\ Len(p \o q) = a + b
          /\ \A k \in 1..(a + b) :
                (p \o q)[k] = IF k <= a THEN p[k] ELSE q[k - a]
        BY <2>1, ConcatProperties
    <2>3. QED BY <2>2 DEF p, q
<1>17. ASSUME NEW k \in 1..(a + b)
       PROVE  (s \o u)[f[k]] = IF k <= a THEN Picked(s, I)[k]
                                         ELSE Picked(u, J)[k - a]
    <2>1. CASE k \in 1..a
        <3>1. k <= a BY <1>1, <2>1
        <3>2. Ascending(I)[k] \in I BY <1>2, <2>1
        <3>3. (s \o u)[f[k]] = s[Ascending(I)[k]] BY <1>5, <1>8, <2>1, <3>2
        <3>4. QED BY <1>15, <2>1, <3>1, <3>3
    <2>2. CASE k \notin 1..a
        <3>1. k - a \in 1..b /\ ~ (k <= a) BY <1>1, <1>7, <2>2
        <3>2. (s \o u)[f[k]] = u[Ascending(J)[k - a]]
            BY <1>3, <1>5, <1>9, <2>2, <3>1
        <3>3. QED BY <1>15, <3>1, <3>2
    <2>3. QED BY <2>1, <2>2
<1>18. Picked(s, I) \o Picked(u, J)
           = [k \in 1..(a + b) |-> (Picked(s, I) \o Picked(u, J))[k]]
    BY <1>16, LenProperties
<1>19. QED BY <1>14, <1>16, <1>17, <1>18

\* Picking when a last element is added, the new element too or not.
LastToo(s, I, K) == I \in SUBSET (DOMAIN s) /\ K = I \cup {Len(s) + 1}

LEMMA PickedAppend ==
    ASSUME NEW T, NEW s \in Seq(T), NEW e \in T, NEW I, NEW K,
           LastToo(s, I, K)
    PROVE  /\ Picked(Append(s, e), I) = Picked(s, I)
           /\ Picked(Append(s, e), K) = Append(Picked(s, I), e)
<1>1. PICK u \in Seq(T) : u = <<e>>
    <2>1. <<e>> \in Seq(T) OBVIOUS
    <2>2. QED BY <2>1, Zenon
<1>2. DOMAIN u = {1} BY <1>1
<1>3. /\ Append(s, e) = s \o u
      /\ \A p \in Seq(T) : p \o << >> = p /\ p \o u = Append(p, e)
    BY <1>1
<1>4. Picked(s, I) \in Seq(T) BY PickedFacts DEF LastToo
<1>5. Picked(u, {}) = << >> BY PickedNone
<1>6. Picked(u, {1}) = u BY <1>2, PickedAll
<1>7. /\ DOMAIN s = 1..Len(s) /\ Len(s) \in Nat
      /\ I \in SUBSET Int /\ K \in SUBSET Int
    BY PositionsFinite DEF LastToo
<1>8. Joins(s, I, u, {}, I) /\ Joins(s, I, u, {1}, K)
    BY <1>2, <1>7 DEF Joins, LastToo
<1>9. ASSUME NEW J, NEW L, Joins(s, I, u, J, L)
      PROVE  Picked(s \o u, L) = Picked(s, I) \o Picked(u, J)
    BY <1>9, PickedConcat
<1>10. /\ Picked(s \o u, I) = Picked(s, I) \o Picked(u, {})
       /\ Picked(s \o u, K) = Picked(s, I) \o Picked(u, {1})
    BY <1>8, <1>9
<1>11. QED BY <1>3, <1>4, <1>5, <1>6, <1>10

\* Picking from what was picked.
LEMMA PickedPicked ==
    ASSUME NEW T, NEW s \in Seq(T), NEW I \in SUBSET (DOMAIN s),
           NEW J \in SUBSET (1..Cardinality(I)), NEW K \in SUBSET (DOMAIN s),
           \A j \in J : Ascending(I)[j] \in K,
           \A i \in K : \E j \in J : Ascending(I)[j] = i
    PROVE  Picked(Picked(s, I), J) = Picked(s, K)
<1> DEFINE n == Cardinality(J)
            f == [k \in 1..n |-> Ascending(I)[Ascending(J)[k]]]
<1>1. /\ I \in SUBSET Int /\ IsFiniteSet(I) /\ Cardinality(I) \in Nat
      /\ K \in SUBSET Int
    BY PositionsFinite
<1>2. J \in SUBSET Int /\ IsFiniteSet(J) /\ n \in Nat
    <2>1. IsFiniteSet(1..Cardinality(I)) BY <1>1, FS_Interval
    <2>2. IsFiniteSet(J) BY <2>1, FS_Subset
    <2>3. J \in SUBSET Int BY <1>1
    <2>4. QED BY <2>2, <2>3, FS_CardinalityType
<1>3. \A i, j \in 1..Cardinality(I) :
          i < j => Ascending(I)[i] < Ascending(I)[j]
    BY <1>1, AscendingFacts
<1>4. /\ \A k \in 1..n : Ascending(J)[k] \in J
      /\ \A i, j \in 1..n : i < j => Ascending(J)[i] < Ascending(J)[j]
      /\ \A x \in J : \E k \in 1..n : Ascending(J)[k] = x
    BY <1>2, AscendingFacts
<1>5. \A k \in 1..Cardinality(I) : Picked(s, I)[k] = s[Ascending(I)[k]]
    BY PickedFacts
<1>6. f \in [1..n -> K] BY <1>4
<1>7. \A i, j \in 1..n : i < j => f[i] < f[j]
    BY <1>3, <1>4
<1>8. \A x \in K : \E k \in 1..n : f[k] = x
    BY <1>4
<1>9. ASSUME NEW k \in 1..n PROVE Picked(s, I)[Ascending(J)[k]] = s[f[k]]
    <2>1. Ascending(J)[k] \in 1..Cardinality(I) BY <1>4
    <2>2. f[k] = Ascending(I)[Ascending(J)[k]] OBVIOUS
    <2>3. QED BY <1>5, <2>1, <2>2
<1> HIDE DEF f, n
<1>10. Cardinality(K) = n /\ Ascending(K) = f
    BY <1>1, <1>2, <1>6, <1>7, <1>8, AscendingUnique, ZenonT(20)
<1>11. Picked(Picked(s, I), J)
           = [k \in 1..n |-> Picked(s, I)[Ascending(J)[k]]]
    BY DEF Picked, n
<1>12. Picked(s, K) = [k \in 1..n |-> s[f[k]]]
    BY <1>10 DEF Picked
<1>13. QED BY <1>9, <1>11, <1>12

=============================================================================
