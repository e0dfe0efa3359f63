--------------------------------- MODULE Extremes ------------------------------
(***************************************************************************)
(* What FiniteSetsExt's Max and Min return, the smallest of the subsets of *)
(* a finite set that have a property, the numbering of a finite set along  *)
(* a strict total order, integer quotients, and what a filter keeps.       *)
(* Where a fact about naturals or finite sets needs an induction, the      *)
(* proofs of this project take the least or smallest counterexample        *)
(* instead.                                                                *)
(***************************************************************************)
EXTENDS Integers, Filtering, FiniteSetsExt, FiniteSetTheorems, WellFoundedInduction, TLAPS

\* A set of naturals that is not empty has a least member.
LEMMA LeastOf ==
    ASSUME NEW S \in SUBSET Nat, S # {}
    PROVE  Min(S) \in S /\ \A x \in S : Min(S) <= x
<1>1. PICK m \in S : \A y \in S : ~(<<y, m>> \in OpToRel(<, Nat))
  BY WFMin, NatLessThanWellFounded
<1>2. \A y \in S : m <= y
  <2> SUFFICES ASSUME NEW y \in S
               PROVE  m <= y
    OBVIOUS
  <2>1. y \in Nat /\ m \in Nat
    OBVIOUS
  <2>2. ~(<<y, m>> \in {ss \in Nat \X Nat : ss[1] < ss[2]})
    BY <1>1 DEF OpToRel
  <2> QED
    BY <2>1, <2>2
<1>3. \E x \in S : \A y \in S : x <= y
  BY <1>2
<1> QED
  BY <1>3 DEF Min

\* A set of integers with an upper bound has a greatest member.
LEMMA GreatestOf ==
    ASSUME NEW S \in SUBSET Int, S # {}, NEW b \in Int, \A x \in S : x <= b
    PROVE  Max(S) \in S /\ \A x \in S : x <= Max(S)
<1> DEFINE T == {b - x : x \in S}
<1>1. T \in SUBSET Nat /\ T # {}
  <2>1. \A x \in S : x \in Int /\ b - x \in Nat
    OBVIOUS
  <2> QED
    BY <2>1
<1> HIDE DEF T
<1>2. Min(T) \in T /\ \A y \in T : Min(T) <= y
  BY <1>1, LeastOf
<1> USE DEF T
<1>3. PICK greatest \in S : Min(T) = b - greatest
  BY <1>2
<1>4. \A x \in S : x <= greatest
  <2> SUFFICES ASSUME NEW x \in S
               PROVE  x <= greatest
    OBVIOUS
  <2>1. b - greatest <= b - x
    BY <1>2, <1>3
  <2>2. x \in Int /\ greatest \in Int
    OBVIOUS
  <2> QED
    BY <2>1, <2>2
<1>5. \E x \in S : \A y \in S : x >= y
  BY <1>4
<1> QED
  BY <1>5 DEF Max

\* Among some subsets of a finite set is one of which no member can be taken away.
LEMMA SmallestOf ==
    ASSUME NEW S, IsFiniteSet(S), NEW B \in SUBSET SUBSET S, B # {}
    PROVE  \E s \in B : \A x \in s : s \ {x} \notin B
<1> DEFINE T == {Cardinality(s) : s \in B}
<1>1. \A s \in B : IsFiniteSet(s) /\ Cardinality(s) \in Nat
  BY FS_Subset, FS_CardinalityType
<1>2. T \in SUBSET Nat /\ T # {}
  BY <1>1
<1>3. PICK s \in B : \A t \in B : Cardinality(s) <= Cardinality(t)
  <2>1. Min(T) \in T /\ \A n \in T : Min(T) <= n
    BY <1>2, LeastOf
  <2> HIDE DEF T
  <2>2. PICK s \in B : Min(T) = Cardinality(s)
    BY <2>1 DEF T
  <2> QED
    BY <2>1, <2>2 DEF T
<1>4. \A x \in s : s \ {x} \notin B
  <2> SUFFICES ASSUME NEW x \in s, s \ {x} \in B
               PROVE  FALSE
    OBVIOUS
  <2>1. Cardinality(s \ {x}) = Cardinality(s) - 1
    BY <1>1, FS_RemoveElement
  <2> QED
    BY <1>1, <1>3, <2>1
<1> QED
  BY <1>4

\* What the integer quotient is.
LEMMA Quotient ==
    ASSUME NEW n \in Int, NEW d \in Int, d > 0
    PROVE  /\ n \div d \in Int
           /\ d * (n \div d) <= n /\ n < d * (n \div d) + d
BY Z3

\* R puts the members of S in a strict total order; how many of them are before each.
StrictlyOrders(R, S) ==
    /\ \A x \in S : <<x, x>> \notin R
    /\ \A x, y \in S : x # y => <<x, y>> \in R \/ <<y, x>> \in R
    /\ \A x, y, z \in S : <<x, y>> \in R /\ <<y, z>> \in R => <<x, z>> \in R

Place(R, S) == [x \in S |-> Cardinality({y \in S : <<y, x>> \in R})]

\* The places are the numbers from 0 on, one for each member, and go with the order.
Ranked(R, S) ==
    /\ Cardinality(S) \in Nat
    /\ Place(R, S) \in [S -> 0 .. Cardinality(S) - 1]
    /\ \A x, y \in S : Place(R, S)[x] < Place(R, S)[y] <=> <<x, y>> \in R
    /\ \A x, y \in S : Place(R, S)[x] = Place(R, S)[y] => x = y
    /\ \A k \in 0 .. Cardinality(S) - 1 : \E x \in S : Place(R, S)[x] = k

\* Counting the members before each one numbers a finite set from 0 on, in that order.
LEMMA Ranking ==
    ASSUME NEW S, IsFiniteSet(S), NEW R, StrictlyOrders(R, S)
    PROVE  Ranked(R, S)
<1> DEFINE place == Place(R, S)
<1>0. /\ \A x \in S : <<x, x>> \notin R
      /\ \A x, y \in S : x # y => <<x, y>> \in R \/ <<y, x>> \in R
      /\ \A x, y, z \in S : <<x, y>> \in R /\ <<y, z>> \in R => <<x, z>> \in R
      /\ place = [x \in S |-> Cardinality({y \in S : <<y, x>> \in R})]
  BY DEF StrictlyOrders, Place
<1> HIDE DEF place
<1> DEFINE before == [x \in S |-> {y \in S : <<y, x>> \in R}]
           n == Cardinality(S)
<1>1. n \in Nat /\ \A x \in S : before[x] \in SUBSET S /\ place[x] = Cardinality(before[x])
  BY <1>0, FS_CardinalityType
<1>2. \A x \in S : IsFiniteSet(before[x]) /\ place[x] \in Nat /\ place[x] <= n
  <2> SUFFICES ASSUME NEW x \in S
               PROVE  IsFiniteSet(before[x]) /\ place[x] \in Nat /\ place[x] <= n
    OBVIOUS
  <2> HIDE DEF before
  <2>1. IsFiniteSet(before[x]) /\ Cardinality(before[x]) <= n
    BY <1>1, FS_Subset
  <2> QED
    BY <1>1, <2>1, FS_CardinalityType
<1>3. ASSUME NEW x \in S
      PROVE  place[x] < n
  <2>1. before[x] # S
    BY <1>0
  <2>2. n # Cardinality(before[x])
    BY <1>1, <2>1, FS_Subset
  <2> QED
    BY <1>1, <1>2, <2>2
<1>4. ASSUME NEW x \in S, NEW y \in S, <<x, y>> \in R
      PROVE  place[x] < place[y]
  <2>1. before[x] \in SUBSET before[y]
    BY <1>0, <1>4
  <2>2. x \in before[y] /\ x \notin before[x]
    BY <1>0, <1>4
  <2> HIDE DEF before
  <2>3. IsFiniteSet(before[y])
    BY <1>2
  <2>4. Cardinality(before[x]) <= Cardinality(before[y])
        /\ (Cardinality(before[y]) = Cardinality(before[x]) => before[y] = before[x])
    BY <2>1, <2>3, FS_Subset
  <2>5. place[x] <= place[y] /\ place[x] # place[y]
    BY <1>1, <2>2, <2>4
  <2> QED
    BY <1>2, <2>5
<1> HIDE DEF before, n
<1>5. \A x, y \in S : place[x] = place[y] => x = y
  <2> SUFFICES ASSUME NEW x \in S, NEW y \in S, place[x] = place[y], x # y
               PROVE  FALSE
    OBVIOUS
  <2>1. place[x] < place[y] \/ place[y] < place[x]
    BY <1>0, <1>4
  <2> QED
    BY <1>2, <2>1
<1>6. \A x, y \in S : place[x] < place[y] <=> <<x, y>> \in R
  <2> SUFFICES ASSUME NEW x \in S, NEW y \in S, place[x] < place[y], <<x, y>> \notin R
               PROVE  FALSE
    BY <1>4
  <2>1. x # y
    BY <1>2
  <2>2. place[y] < place[x]
    BY <1>0, <1>4, <2>1
  <2> QED
    BY <1>2, <2>2
<1>7. place \in [S -> 0 .. n - 1]
  <2>1. \A x \in S : place[x] \in 0 .. n - 1
    BY <1>1, <1>2, <1>3
  <2> QED
    BY <1>0, <2>1
<1>8. place \in Injection(S, 0 .. n - 1)
  BY <1>5, <1>7 DEF Injection, IsInjective
<1>9. IsFiniteSet(0 .. n - 1) /\ Cardinality(0 .. n - 1) = n
  <2>1. 0 \in Int /\ n - 1 \in Int
    BY <1>1
  <2>2. IsFiniteSet(0 .. n - 1) /\ Cardinality(0 .. n - 1) = IF 0 > n - 1 THEN 0 ELSE n - 1 - 0 + 1
    BY <2>1, FS_Interval
  <2> QED
    BY <1>1, <2>2
<1>10. place \in Surjection(S, 0 .. n - 1)
  BY <1>8, <1>9, FS_Injection DEF n
<1> QED
  BY <1>1, <1>5, <1>6, <1>7, <1>10 DEF Surjection, n, place, Ranked

\* Positions of a sequence, numbered in their own order.
LEMMA InPlace ==
    ASSUME NEW kept, IsFiniteSet(kept), kept \subseteq Int
    PROVE  /\ Cardinality(kept) \in Nat
           /\ \A k \in 1 .. Cardinality(kept) :
                 \E i \in kept : Cardinality({j \in kept : j < i}) = k - 1
           /\ \A i \in kept : Cardinality({j \in kept : j < i}) + 1 \in 1 .. Cardinality(kept)
           /\ \A i, j \in kept :
                 Cardinality({m \in kept : m < i}) = Cardinality({m \in kept : m < j}) => i = j
<1> DEFINE R == {r \in kept \X kept : r[1] < r[2]}
           place == Place(R, kept)
           n == Cardinality(kept)
<1>1. \A i, j \in kept : <<i, j>> \in R <=> i < j
  OBVIOUS
<1>2. \A i \in kept : {j \in kept : <<j, i>> \in R} = {j \in kept : j < i}
  BY <1>1
<1>3. \A i \in kept : place[i] = Cardinality({j \in kept : j < i})
  BY <1>2 DEF Place
<1>4. /\ \A i \in kept : <<i, i>> \notin R
      /\ \A i, j \in kept : i # j => <<i, j>> \in R \/ <<j, i>> \in R
      /\ \A i, j, k \in kept : <<i, j>> \in R /\ <<j, k>> \in R => <<i, k>> \in R
  <2>1. \A i \in kept : i \in Int
    OBVIOUS
  <2> HIDE DEF R
  <2> QED
    BY <1>1, <2>1
<1> HIDE DEF R, n
<1>5. StrictlyOrders(R, kept)
  BY <1>4 DEF StrictlyOrders
<1>6. /\ n \in Nat
      /\ place \in [kept -> 0 .. n - 1]
      /\ \A i, j \in kept : place[i] = place[j] => i = j
      /\ \A k \in 0 .. n - 1 : \E i \in kept : place[i] = k
  <2>1. Ranked(R, kept)
    BY <1>5, Ranking
  <2> QED
    BY <2>1 DEF Ranked, n
<1> HIDE DEF place
<1>7. \A k \in 1 .. n : \E i \in kept : place[i] = k - 1
  <2>1. \A k \in 1 .. n : k - 1 \in 0 .. n - 1
    BY <1>6
  <2> QED
    BY <1>6, <2>1
<1>8. \A i \in kept : place[i] + 1 \in 1 .. n
  BY <1>6
<1> QED
  BY <1>3, <1>6, <1>7, <1>8 DEF n

\* A filter keeps what it should and nothing else.
LEMMA FilteredKeeps ==
    ASSUME NEW T, NEW targets \in Seq(T), NEW kept \in SUBSET DOMAIN targets
    PROVE  /\ Filtered(targets, kept) \in Seq({targets[i] : i \in kept})
           /\ Members(Filtered(targets, kept)) = {targets[i] : i \in kept}
           /\ Len(Filtered(targets, kept)) = Cardinality(kept)
<1> DEFINE n == Cardinality(kept)
           ahead(i) == Cardinality({j \in kept : j < i})
           at(k) == CHOOSE i \in kept : ahead(i) = k - 1
           s == Filtered(targets, kept)
<1>1. IsFiniteSet(kept) /\ kept \subseteq Int
  <2>1. DOMAIN targets = 1 .. Len(targets) /\ Len(targets) \in Nat
    OBVIOUS
  <2>2. IsFiniteSet(DOMAIN targets)
    BY <2>1, FS_Interval
  <2> QED
    BY <2>1, <2>2, FS_Subset
<1>2. /\ n \in Nat
      /\ \A k \in 1 .. n : \E i \in kept : ahead(i) = k - 1
      /\ \A i \in kept : ahead(i) + 1 \in 1 .. n
      /\ \A i, j \in kept : ahead(i) = ahead(j) => i = j
  BY <1>1, InPlace
<1>3. s = [k \in 1 .. n |-> targets[at(k)]]
  BY DEF Filtered
<1>0. \A i \in kept : ahead(i) \in Int
  <2>1. \A i \in kept : IsFiniteSet({j \in kept : j < i})
    BY <1>1, FS_Subset
  <2> QED
    BY <2>1, FS_CardinalityType
<1> HIDE DEF ahead, n
<1>4. ASSUME NEW i \in kept
      PROVE  \E k \in 1 .. n : at(k) = i
  <2> DEFINE k == ahead(i) + 1
  <2>1. k \in 1 .. n /\ k - 1 = ahead(i)
    BY <1>0, <1>2
  <2>2. at(k) \in kept /\ ahead(at(k)) = k - 1
    BY <2>1
  <2> HIDE DEF at, k
  <2> QED
    BY <1>2, <2>1, <2>2
<1>8. \A k \in 1 .. n : at(k) \in kept
  BY <1>2
<1> HIDE DEF at, s
<1>5. DOMAIN s = 1 .. n /\ \A k \in 1 .. n : s[k] \in {targets[i] : i \in kept}
  BY <1>3, <1>8
<1>6. s \in Seq({targets[i] : i \in kept})
  BY <1>2, <1>3, <1>5
<1>7. Members(s) \subseteq {targets[i] : i \in kept}
  BY <1>5 DEF Members
<1>9. \A i \in kept : targets[i] \in Members(s)
  BY <1>3, <1>4, <1>5 DEF Members
<1>10. Len(s) = n
  <2>1. DOMAIN s = 1 .. Len(s) /\ Len(s) \in Nat
    BY <1>6
  <2> QED
    BY <1>2, <1>5, <2>1
<1> QED
  BY <1>6, <1>7, <1>9, <1>10 DEF s, n
================================================================================
