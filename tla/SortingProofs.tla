---------------------------- MODULE SortingProofs ----------------------------
(***************************************************************************)
(* Sorting puts every value where it belongs; and the two forms of         *)
(* induction over data that other proofs use, stated for sets of numbers   *)
(* because the provers take no operator as an argument.                    *)
(***************************************************************************)
EXTENDS Sorting, Sequences, FiniteSetTheorems, TLAPS

-----------------------------------------------------------------------------
(* Induction.                                                              *)

\* A set of natural numbers that is not empty has a least one.
LEMMA LeastNumber ==
  ASSUME NEW T \in SUBSET Nat, T # {}
  PROVE  \E n \in T : \A m \in T : n <= m
<1>1. PICK R : IsWellFoundedOn(R, Nat) /\ \A m, n \in Nat : m < n => <<m, n>> \in R
  <2>1. \A m, n \in Nat : m < n => <<m, n>> \in OpToRel(<, Nat)
    BY DEF OpToRel
  <2>2. QED
    BY <2>1, NatLessThanWellFounded
<1>2. T \subseteq Nat /\ IsWellFoundedOn(R, Nat)
  BY <1>1
<1>3. \E n \in T : \A m \in T : ~(<<m, n>> \in R)
  BY <1>2, WFMin, Zenon
<1>4. PICK n \in T : \A m \in T : ~(<<m, n>> \in R)
  BY <1>3
<1>5. ASSUME NEW m \in T PROVE n <= m
  <2>1. ~(<<m, n>> \in R) /\ m \in Nat /\ n \in Nat
    BY <1>4
  <2>2. ~(m < n)
    BY <1>1, <2>1
  <2>3. QED
    BY <2>1, <2>2
<1>6. QED
  BY <1>5

\* What holds of zero and of the next number whenever of one holds of all.
LEMMA SetInduction ==
  ASSUME NEW T, 0 \in T, \A n \in Nat : n \in T => n + 1 \in T
  PROVE  \A n \in Nat : n \in T
<1> SUFFICES ASSUME Nat \ T # {} PROVE FALSE
  OBVIOUS
<1>1. PICK n \in Nat \ T : \A m \in Nat \ T : n <= m
  BY LeastNumber
<1>2. n - 1 \in Nat /\ n - 1 \notin Nat \ T
  BY <1>1
<1>3. QED
  BY <1>1, <1>2

-----------------------------------------------------------------------------
(* Order.                                                                  *)

Below(S, x) == {y \in S : y < x}

\* How many are smaller tells the elements of a set apart, and takes every value
\* from none to all but one.
LEMMA RanksAreDifferent ==
  ASSUME NEW S \in SUBSET Int, IsFiniteSet(S)
  PROVE  /\ Cardinality(S) \in Nat
         /\ \A x \in S : Cardinality(Below(S, x)) \in 0..(Cardinality(S) - 1)
         /\ \A x, y \in S : x < y => Cardinality(Below(S, x)) < Cardinality(Below(S, y))
<1>1. Cardinality(S) \in Nat
  BY FS_CardinalityType
<1>2. ASSUME NEW x \in S
      PROVE  /\ IsFiniteSet(Below(S, x)) /\ Cardinality(Below(S, x)) \in Nat
             /\ Cardinality(Below(S, x)) < Cardinality(S)
  <2>1. Below(S, x) \in SUBSET S /\ x \notin Below(S, x)
    BY DEF Below
  <2>2. /\ IsFiniteSet(Below(S, x)) /\ Cardinality(Below(S, x)) <= Cardinality(S)
        /\ Cardinality(S) = Cardinality(Below(S, x)) => S = Below(S, x)
    BY <2>1, FS_Subset
  <2>3. Cardinality(Below(S, x)) \in Nat
    BY <2>2, FS_CardinalityType
  <2>4. QED
    BY <1>1, <2>1, <2>2, <2>3
<1>3. ASSUME NEW x \in S, NEW y \in S, x < y
      PROVE  Cardinality(Below(S, x)) < Cardinality(Below(S, y))
  <2>1. /\ Below(S, x) \in SUBSET Below(S, y)
        /\ x \in Below(S, y) /\ x \notin Below(S, x)
    <3>1. \A z \in S : z \in Int /\ (z < x => z < y)
      BY <1>3
    <3>2. x \in Int /\ ~(x < x)
      OBVIOUS
    <3>3. QED
      BY <1>3, <3>1, <3>2 DEF Below
  <2>2. /\ Cardinality(Below(S, x)) <= Cardinality(Below(S, y))
        /\ Cardinality(Below(S, y)) = Cardinality(Below(S, x)) => Below(S, y) = Below(S, x)
    BY <1>2, <2>1, FS_Subset
  <2>3. QED
    BY <1>2, <2>1, <2>2
<1>4. QED
  BY <1>1, <1>2, <1>3

LEMMA EveryRankIsTaken ==
  ASSUME NEW S \in SUBSET Int, IsFiniteSet(S), NEW k \in 0..(Cardinality(S) - 1)
  PROVE  \E x \in S : Cardinality(Below(S, x)) = k
<1>. DEFINE n == Cardinality(S)
            rank == [x \in S |-> Cardinality(Below(S, x))]
<1>1. n \in Nat
  BY RanksAreDifferent
<1>2. rank \in [S -> 0..(n - 1)]
  BY RanksAreDifferent
<1>3. \A x, y \in S : rank[x] = rank[y] => x = y
  <2>1. ASSUME NEW x \in S, NEW y \in S, x # y PROVE rank[x] # rank[y]
    <3>1. /\ rank[x] \in Int /\ rank[y] \in Int
          /\ x < y => rank[x] < rank[y]
          /\ y < x => rank[y] < rank[x]
      BY <1>2, RanksAreDifferent
    <3>2. x < y \/ y < x
      BY <2>1
    <3>3. QED
      BY <3>1, <3>2
  <2>2. QED
    BY <2>1
<1>. HIDE DEF rank
<1>4. rank \in Injection(S, 0..(n - 1))
  BY <1>2, <1>3 DEF Injection, IsInjective
<1>5. IsFiniteSet(0..(n - 1)) /\ Cardinality(0..(n - 1)) = n
  <2>1. 0 \in Int /\ n - 1 \in Int
    BY <1>1
  <2>2. /\ IsFiniteSet(0..(n - 1))
        /\ Cardinality(0..(n - 1)) = IF 0 > n - 1 THEN 0 ELSE (n - 1) - 0 + 1
    BY <2>1, FS_Interval
  <2>3. QED
    BY <1>1, <2>2
<1>6. rank \in Surjection(S, 0..(n - 1))
  BY <1>4, <1>5, FS_Injection
<1>7. \E x \in S : rank[x] = k
  BY <1>6 DEF Surjection
<1>8. QED
  BY <1>7 DEF rank

\* Sorted, the elements of a set ascend, and each is there.
LEMMA AscendingSorts ==
  ASSUME NEW S \in SUBSET Int, IsFiniteSet(S)
  PROVE  /\ Ascending(S) \in Seq(S) /\ Len(Ascending(S)) = Cardinality(S)
         /\ Cardinality(S) \in Nat /\ DOMAIN Ascending(S) = 1..Cardinality(S)
         /\ \A i, j \in DOMAIN Ascending(S) : i < j => Ascending(S)[i] < Ascending(S)[j]
         /\ \A x \in S : \E i \in DOMAIN Ascending(S) : Ascending(S)[i] = x
<1>. DEFINE n == Cardinality(S)
            s == Ascending(S)
<1>1. n \in Nat
  BY RanksAreDifferent
<1>2. ASSUME NEW i \in 1..n
      PROVE  s[i] \in S /\ Cardinality(Below(S, s[i])) = i - 1
  <2>1. i - 1 \in 0..(n - 1)
    BY <1>1
  <2>2. \E x \in S : Cardinality(Below(S, x)) = i - 1
    BY <2>1, EveryRankIsTaken
  <2>3. s[i] = CHOOSE x \in S : Cardinality(Below(S, x)) = i - 1
    BY DEF Ascending, Below
  <2>4. QED
    BY <2>2, <2>3
<1>3. s \in [1..n -> S]
  <2>. DEFINE of(i) == CHOOSE x \in S : Cardinality({y \in S : y < x}) = i - 1
  <2>1. s = [i \in 1..n |-> of(i)]
    BY Zenon DEF Ascending
  <2>. HIDE DEF s, of
  <2>2. QED
    BY <1>2, <2>1
<1>. HIDE DEF s
<1>4. s \in Seq(S) /\ Len(s) = n /\ DOMAIN s = 1..n
  BY <1>1, <1>3
<1>5. ASSUME NEW i \in 1..n, NEW j \in 1..n, i < j
      PROVE  s[i] < s[j]
  <2>1. /\ s[i] \in Int /\ s[j] \in Int
        /\ Cardinality(Below(S, s[i])) = i - 1 /\ Cardinality(Below(S, s[j])) = j - 1
    BY <1>2
  <2>2. s[j] < s[i] => j - 1 < i - 1
    BY <1>2, <2>1, RanksAreDifferent
  <2>3. s[i] # s[j]
    BY <1>1, <1>5, <2>1
  <2>4. QED
    BY <1>1, <1>5, <2>1, <2>2, <2>3
<1>6. ASSUME NEW x \in S PROVE \E i \in 1..n : s[i] = x
  <2>. DEFINE i == Cardinality(Below(S, x)) + 1
  <2>1. Cardinality(Below(S, x)) \in 0..(n - 1)
    BY RanksAreDifferent
  <2>2. i \in 1..n /\ Cardinality(Below(S, x)) = i - 1
    BY <1>1, <2>1
  <2>. HIDE DEF i
  <2>3. s[i] \in S /\ Cardinality(Below(S, s[i])) = i - 1
    BY <1>2, <2>2
  <2>4. /\ x \in Int /\ s[i] \in Int
        /\ x < s[i] => i - 1 < i - 1
        /\ s[i] < x => i - 1 < i - 1
    BY <2>2, <2>3, RanksAreDifferent
  <2>5. s[i] = x
    BY <1>1, <2>2, <2>4
  <2>6. QED
    BY <2>2, <2>5
<1>7. QED
  BY <1>1, <1>4, <1>5, <1>6 DEF s
=============================================================================
