-------------------------- MODULE FunctionsProofs ---------------------------
(***************************************************************************)
(* The rule engine and the conversion of measurements, for any rule set,   *)
(* any welds and any evidence; and the runs' invariants from that.         *)
(***************************************************************************)
EXTENDS MCFunctions, SortingProofs, SequenceTheorems

-----------------------------------------------------------------------------
(* Changes.                                                                *)

\* A change that a rule set lets pass moves a weld within its range or to a place
\* a condition can make up for, whatever the range.
LEMMA UnblockedChange ==
  ASSUME NEW r, NEW required, ValidateRuleSet(r, required), NEW range,
         NEW from, NEW to, from["service"] = to["service"],
         Assess(range, from, r) = "APPLICABLE", Blocking(r, from, to) = {}
  PROVE  Assess(range, to, r) # "NOT_APPLICABLE"
<1>. DEFINE A == Applying(r, from)
<1>1. Applying(r, to) = A
  BY DEF Applying
<1>2. Uncovered(range, from, r) = {} /\ Mismatched(range, from, r) = {}
  BY DEF Assess
<1>3. Uncovered(range, to, r) = {}
  BY <1>1, <1>2 DEF Uncovered
<1>4. ASSUME NEW n \in Mismatched(range, to, r) PROVE r.variables[n].class = "NON_ESSENTIAL"
  <2>1. n \in DOMAIN r.variables /\ ConditionApplies(r.variables[n].when, to["service"])
    BY <1>4 DEF Mismatched, Applying
  <2>2. from[n] # to[n]
    BY <1>1, <1>2, <1>4 DEF Mismatched
  <2>3. /\ r.variables[n].class # "ESSENTIAL"
        /\ r.variables[n].class # "SUPPLEMENTARY_ESSENTIAL"
    BY <2>1, <2>2 DEF Blocking
  <2>4. r.variables[n].class \in {"NON_ESSENTIAL", "ESSENTIAL", "SUPPLEMENTARY_ESSENTIAL"}
    BY <2>1 DEF ValidateRuleSet
  <2>5. QED
    BY <2>3, <2>4
<1>5. Conditions(range, to, r) = Mismatched(range, to, r)
  BY <1>4 DEF Conditions
<1>6. QED
  BY <1>3, <1>5 DEF Assess

-----------------------------------------------------------------------------
(* Evidence.                                                               *)

\* Evidence that comes later decides nothing that is decided.
LEMMA LaterEvidence ==
  ASSUME NEW r, NEW weld, NEW at, NEW E, NEW ev \in Seq(E), NEW e \in E,
         EvaluateQualification(r, weld, ev, at)
  PROVE  EvaluateQualification(r, weld, Append(ev, e), at)
<1>1. ASSUME NEW t, NEW i \in Deciding(ev, t, at)
      PROVE  i \in Deciding(Append(ev, e), t, at) /\ Append(ev, e)[i] = ev[i]
  <2>1. /\ DOMAIN ev = 1..Len(ev) /\ DOMAIN Append(ev, e) = 1..(Len(ev) + 1) /\ Len(ev) \in Nat
        /\ \A j \in 1..Len(ev) : Append(ev, e)[j] = ev[j]
    OBVIOUS
  <2>2. /\ i \in 1..Len(ev) /\ Considered(ev[i], t, at)
        /\ \A j \in 1..(i - 1) : ~Considered(ev[j], t, at)
    BY <2>1 DEF Deciding
  <2>3. i \in DOMAIN Append(ev, e) /\ \A j \in 1..(i - 1) : j \in 1..Len(ev)
    BY <2>1, <2>2
  <2>4. QED
    BY <2>1, <2>2, <2>3 DEF Deciding
<1>2. QED
  BY <1>1 DEF EvaluateQualification

\* Evidence that is not in force may as well be left out.
LEMMA ExpiredEvidence ==
  ASSUME NEW r, NEW weld, NEW at, NEW E, NEW ev \in Seq(E), NEW out \in DOMAIN ev,
         ~Active(ev[out], at)
  PROVE  EvaluateQualification(r, weld, RemoveAt(ev, out), at)
             <=> EvaluateQualification(r, weld, ev, at)
<1>. DEFINE rest == RemoveAt(ev, out)
<1>1. PICK n \in Nat : n = Len(ev) /\ DOMAIN ev = 1..n
  OBVIOUS
<1>2. /\ DOMAIN rest = 1..(n - 1)
      /\ \A k \in 1..(out - 1) : rest[k] = ev[k]
      /\ \A k \in out..(n - 1) : rest[k] = ev[k + 1]
  <2>1. PICK a : a = SubSeq(ev, 1, out - 1)
    OBVIOUS
  <2>2. PICK b : b = SubSeq(ev, out + 1, n)
    OBVIOUS
  <2>3. out \in 1..n /\ out - 1 \in Nat /\ n - out \in Nat /\ n - (out + 1) + 1 = n - out
    BY <1>1
  <2>4. /\ a \in Seq(E) /\ Len(a) = out - 1
        /\ \A k \in 1..(out - 1) : a[k] = ev[k]
    BY <1>1, <2>1, <2>3
  <2>5. /\ b \in Seq(E) /\ Len(b) = n - out
        /\ \A k \in 1..(n - out) : b[k] = ev[out + k]
    <3>1. b = [k \in 1..(n - (out + 1) + 1) |-> ev[out + 1 + k - 1]]
      BY <1>1, <2>2, <2>3
    <3>2. \A k \in 1..(n - out) : out + 1 + k - 1 = out + k /\ out + k \in 1..n
      <4>1. PICK o \in Nat : o = out /\ o >= 1 /\ o <= n
        BY <2>3
      <4>2. ASSUME NEW k \in 1..(n - o) PROVE o + 1 + k - 1 = o + k /\ o + k \in 1..n
        BY <4>1
      <4>3. QED
        BY <4>1, <4>2
    <3>3. b = [k \in 1..(n - out) |-> ev[out + k]]
      BY <2>3, <3>1, <3>2
    <3>4. \A k \in 1..(n - out) : ev[out + k] \in E
      BY <1>1, <3>2
    <3>5. PICK m \in Nat : m = n - out
      BY <2>3
    <3>6. b \in [1..m -> E]
      BY <3>3, <3>4, <3>5
    <3>7. b \in Seq(E) /\ Len(b) = m
      BY <3>6
    <3>8. QED
      BY <3>3, <3>5, <3>7
  <2>6. rest = a \o b
    BY <1>1, <2>1, <2>2 DEF RemoveAt
  <2>. HIDE DEF rest
  <2>7. /\ rest \in Seq(E) /\ Len(rest) = Len(a) + Len(b)
        /\ \A k \in 1..Len(a) : rest[k] = a[k]
        /\ \A k \in 1..Len(b) : rest[Len(a) + k] = b[k]
    <3>1. a \in Seq(E) /\ b \in Seq(E)
      BY <2>4, <2>5
    <3>2. rest \in Seq(E)
      BY <2>6, <3>1
    <3>3. Len(rest) = Len(a) + Len(b)
      BY <2>6, <3>1
    <3>4. \A k \in 1..Len(a) : rest[k] = a[k]
      BY <2>6, <3>1
    <3>5. \A k \in 1..Len(b) : rest[Len(a) + k] = b[k]
      BY <2>6, <3>1
    <3>6. QED
      BY <3>2, <3>3, <3>4, <3>5
  <2>8. DOMAIN rest = 1..(n - 1)
    <3>1. Len(rest) = n - 1
      BY <2>3, <2>4, <2>5, <2>7
    <3>2. QED
      BY <2>7, <3>1
  <2>9. ASSUME NEW k \in out..(n - 1) PROVE rest[k] = ev[k + 1]
    <3>1. k \in Int /\ out \in Int /\ out <= k /\ k <= n - 1
      BY <2>3
    <3>2. /\ k - (out - 1) \in 1..(n - out) /\ (out - 1) + (k - (out - 1)) = k
          /\ out + (k - (out - 1)) = k + 1
      BY <3>1
    <3>3. b[k - (out - 1)] = ev[k + 1]
      BY <2>5, <3>2
    <3>4. rest[(out - 1) + (k - (out - 1))] = b[k - (out - 1)]
      BY <2>4, <2>5, <2>7, <3>2
    <3>5. QED
      BY <3>2, <3>3, <3>4
  <2>10. QED
    BY <2>4, <2>7, <2>8, <2>9
<1>. HIDE DEF rest
<1>3. \A t : ~Considered(ev[out], t, at)
  BY DEF Considered
<1>4. ASSUME NEW t, NEW i \in Deciding(ev, t, at)
      PROVE  \E k \in Deciding(rest, t, at) : rest[k] = ev[i]
  <2>1. /\ i \in 1..n /\ Considered(ev[i], t, at) /\ i # out /\ out \in 1..n
        /\ \A j \in 1..(i - 1) : ~Considered(ev[j], t, at)
    BY <1>1, <1>3, <1>4 DEF Deciding
  <2>2. CASE i < out
    <3>1. i \in 1..(n - 1) /\ i \in 1..(out - 1) /\ \A j \in 1..(i - 1) : j \in 1..(out - 1)
      BY <2>1, <2>2
    <3>2. QED
      BY <1>2, <2>1, <3>1 DEF Deciding
  <2>3. CASE i > out
    <3>1. i - 1 \in 1..(n - 1) /\ i - 1 \in out..(n - 1) /\ (i - 1) + 1 = i
      BY <2>1, <2>3
    <3>2. ASSUME NEW j \in 1..((i - 1) - 1) PROVE ~Considered(rest[j], t, at)
      <4>1. CASE j < out
        <5>1. j \in 1..(out - 1) /\ j \in 1..(i - 1)
          BY <2>1, <4>1
        <5>2. QED
          BY <1>2, <2>1, <5>1
      <4>2. CASE j >= out
        <5>1. j \in out..(n - 1) /\ j + 1 \in 1..(i - 1)
          BY <2>1, <4>2
        <5>2. QED
          BY <1>2, <2>1, <5>1
      <4>3. QED
        BY <2>1, <4>1, <4>2
    <3>3. QED
      BY <1>2, <2>1, <3>1, <3>2 DEF Deciding
  <2>4. QED
    BY <2>1, <2>2, <2>3
<1>5. ASSUME NEW t, NEW k \in Deciding(rest, t, at)
      PROVE  \E i \in Deciding(ev, t, at) : rest[k] = ev[i]
  <2>1. /\ k \in 1..(n - 1) /\ Considered(rest[k], t, at) /\ out \in 1..n
        /\ \A j \in 1..(k - 1) : ~Considered(rest[j], t, at)
    BY <1>1, <1>2, <1>5 DEF Deciding
  <2>2. CASE k < out
    <3>1. k \in 1..n /\ k \in 1..(out - 1) /\ \A j \in 1..(k - 1) : j \in 1..(out - 1)
      BY <2>1, <2>2
    <3>2. QED
      BY <1>1, <1>2, <2>1, <3>1 DEF Deciding
  <2>3. CASE k >= out
    <3>1. k \in out..(n - 1) /\ k + 1 \in 1..n
      BY <2>1, <2>3
    <3>2. ASSUME NEW j \in 1..((k + 1) - 1) PROVE ~Considered(ev[j], t, at)
      <4>1. CASE j < out
        <5>1. j \in 1..(out - 1) /\ j \in 1..(k - 1)
          BY <2>1, <2>3, <4>1
        <5>2. QED
          BY <1>2, <2>1, <5>1
      <4>2. CASE j = out
        BY <1>3, <4>2
      <4>3. CASE j > out
        <5>1. j - 1 \in out..(n - 1) /\ (j - 1) + 1 = j /\ j - 1 \in 1..(k - 1)
          BY <2>1, <4>3
        <5>2. QED
          BY <1>2, <2>1, <5>1
      <4>4. QED
        BY <2>1, <4>1, <4>2, <4>3
    <3>3. QED
      BY <1>1, <1>2, <2>1, <3>1, <3>2 DEF Deciding
  <2>4. QED
    BY <2>1, <2>2, <2>3
<1>6. \A t : (\E i \in Deciding(ev, t, at) : Meets(ev[i], t))
                 <=> (\E k \in Deciding(rest, t, at) : Meets(rest[k], t))
  <2>. SUFFICES ASSUME NEW t
                PROVE  (\E i \in Deciding(ev, t, at) : Meets(ev[i], t))
                           <=> (\E k \in Deciding(rest, t, at) : Meets(rest[k], t))
    OBVIOUS
  <2>1. \A i \in Deciding(ev, t, at) : \E k \in Deciding(rest, t, at) : rest[k] = ev[i]
    BY <1>4
  <2>2. \A k \in Deciding(rest, t, at) : \E i \in Deciding(ev, t, at) : rest[k] = ev[i]
    BY <1>5
  <2>3. QED
    BY <2>1, <2>2
<1>7. QED
  BY <1>6 DEF EvaluateQualification, rest
-----------------------------------------------------------------------------
(* Coverage.                                                               *)

\* The last of a set of numbers is there.
LEMMA GreatestNumber ==
  ASSUME NEW n \in Nat, NEW s \in SUBSET (1..n), s # {}
  PROVE  Max(s) \in s /\ \A y \in s : Max(s) >= y
<1>. DEFINE T == {n - x : x \in s}
<1>1. T \in SUBSET Nat /\ T # {}
  <2>1. \A x \in s : x \in 1..n
    OBVIOUS
  <2>2. \A x \in 1..n : n - x \in Nat
    OBVIOUS
  <2>3. QED
    BY <2>1, <2>2
<1>2. PICK d \in T : \A m \in T : d <= m
  BY <1>1, LeastNumber
<1>3. PICK x \in s : d = n - x
  BY <1>2
<1>4. ASSUME NEW y \in s PROVE x >= y
  <2>1. n - y \in T
    OBVIOUS
  <2>2. n - x <= n - y
    BY <1>2, <1>3, <2>1
  <2>3. x \in 1..n /\ y \in 1..n
    OBVIOUS
  <2>. HIDE DEF T
  <2>4. QED
    BY <2>2, <2>3
<1>5. \A y \in s : x >= y
  BY <1>4
<1>6. QED
  BY <1>5 DEF Max

\* Merging coverage from the left unfolds to one merge for every source.
LEMMA IntersectionUnfolds ==
  ASSUME NEW E, NEW sets \in Seq(E), sets # << >>
  PROVE  \E F : /\ F[0] = sets[1]
                /\ \A k \in 1..(Len(sets) - 1) : F[k] = MergeCoverage(F[k - 1], sets[k + 1])
                /\ IntersectCoverage(sets) = F[Len(sets) - 1]
<1>. DEFINE base == sets[1]
            seq == Tail(sets)
            Fold(g, s) ==
                IF s = {} THEN base ELSE MergeCoverage(g[s \ {Max(s)}], seq[Max(s)])
            Upto(k) == {s \in SUBSET (1..Len(seq)) : Cardinality(s) <= k}
            Folds(g, k) == g = [s \in Upto(k) |-> Fold(g, s)]
<1>0. /\ seq \in Seq(E) /\ Len(seq) = Len(sets) - 1
      /\ \A k \in 1..(Len(sets) - 1) : seq[k] = sets[k + 1]
  OBVIOUS
<1>2. IntersectCoverage(sets)
          = (CHOOSE g : g = [s \in SUBSET DOMAIN seq |-> Fold(g, s)])[DOMAIN seq]
  BY Zenon DEF IntersectCoverage, FoldLeft, MapThenFoldSet
<1>. HIDE DEF seq, base
<1>1. PICK n \in Nat : n = Len(seq) /\ DOMAIN seq = 1..n
  BY <1>0
<1>3. \A s \in SUBSET (1..n) : IsFiniteSet(s) /\ Cardinality(s) \in 0..n
  <2>1. IsFiniteSet(1..n) /\ Cardinality(1..n) = n
    BY FS_Interval
  <2>2. ASSUME NEW s \in SUBSET (1..n) PROVE IsFiniteSet(s) /\ Cardinality(s) \in 0..n
    <3>1. IsFiniteSet(s) /\ Cardinality(s) <= Cardinality(1..n)
      BY <2>1, FS_Subset
    <3>2. Cardinality(s) \in Nat
      BY <3>1, FS_CardinalityType
    <3>3. QED
      BY <2>1, <3>1, <3>2
  <2>3. QED
    BY <2>2
<1>4. ASSUME NEW s \in SUBSET (1..n), s # {}
      PROVE  /\ Max(s) \in s /\ s \ {Max(s)} \in SUBSET (1..n)
             /\ Cardinality(s \ {Max(s)}) = Cardinality(s) - 1
  BY <1>3, <1>4, GreatestNumber, FS_RemoveElement
<1>5. \A k \in Nat : \E g : Folds(g, k)
  <2>. DEFINE T == {k \in Nat : \E g : Folds(g, k)}
  <2>1. 0 \in T
    <3>1. Upto(0) = {{}}
      BY <1>1, <1>3, FS_EmptySet
    <3>2. Folds([s \in {{}} |-> base], 0)
      BY <3>1
    <3>3. QED
      BY <3>2
  <2>2. ASSUME NEW k \in Nat, k \in T PROVE k + 1 \in T
    <3>1. PICK g : Folds(g, k)
      BY <2>2
    <3>. DEFINE h == [s \in Upto(k + 1) |-> IF s \in Upto(k) THEN g[s] ELSE Fold(g, s)]
    <3>2. ASSUME NEW s \in Upto(k + 1), s # {} PROVE s \ {Max(s)} \in Upto(k)
      <4>1. s \in SUBSET (1..n) /\ Cardinality(s) <= k + 1
        BY <1>1
      <4>2. /\ s \ {Max(s)} \in SUBSET (1..n) /\ Cardinality(s) \in Int
            /\ Cardinality(s \ {Max(s)}) = Cardinality(s) - 1
        <5>1. Cardinality(s) \in 0..n
          BY <1>3, <4>1
        <5>2. /\ s \ {Max(s)} \in SUBSET (1..n)
              /\ Cardinality(s \ {Max(s)}) = Cardinality(s) - 1
          BY <1>4, <3>2, <4>1
        <5>3. QED
          BY <5>1, <5>2
      <4>3. Cardinality(s \ {Max(s)}) <= k
        BY <4>1, <4>2
      <4>4. QED
        BY <1>1, <4>2, <4>3
    <3>3. \A s \in Upto(k) : s \in Upto(k + 1)
      BY <1>1, <1>3
    <3>4. \A s \in Upto(k) : h[s] = g[s]
      BY <3>3
    <3>5. \A s \in Upto(k + 1) : h[s] = Fold(g, s)
      BY <3>1
    <3>6. h = [s \in Upto(k + 1) |-> h[s]]
      OBVIOUS
    <3>. HIDE DEF h, Upto
    <3>7. \A s \in Upto(k + 1) : Fold(h, s) = Fold(g, s)
      BY <3>2, <3>4
    <3>8. Folds(h, k + 1)
      BY <3>5, <3>6, <3>7
    <3>. HIDE DEF Folds
    <3>9. \E e : Folds(e, k + 1)
      BY <3>8
    <3>10. QED
      BY <3>9
  <2>. HIDE DEF T
  <2>3. \A k \in Nat : k \in T
    BY <2>1, <2>2, SetInduction
  <2>4. QED
    BY <2>3 DEF T
<1>6. PICK g : g = [s \in SUBSET DOMAIN seq |-> Fold(g, s)]
  <2>1. PICK g : Folds(g, n)
    BY <1>5
  <2>2. Upto(n) = SUBSET DOMAIN seq
    BY <1>1, <1>3
  <2>. HIDE DEF Upto
  <2>3. QED
    BY <2>1, <2>2
<1>7. PICK f : /\ f = [s \in SUBSET DOMAIN seq |-> Fold(f, s)]
               /\ IntersectCoverage(sets) = f[DOMAIN seq]
  BY <1>2, <1>6
<1>8. \A s \in SUBSET (1..n) : f[s] = Fold(f, s)
  BY <1>1, <1>7
<1>. DEFINE F == [k \in 0..n |-> f[1..k]]
<1>9. F[0] = base
  <2>1. 1..0 = {} /\ 0 \in 0..n
    OBVIOUS
  <2>2. QED
    BY <1>8, <2>1
<1>10. ASSUME NEW k \in 1..n PROVE F[k] = MergeCoverage(F[k - 1], seq[k])
  <2>1. /\ 1..k \in SUBSET (1..n) /\ 1..k # {} /\ k \in 1..k /\ k \in 0..n /\ k - 1 \in 0..n
        /\ (1..k) \ {k} = 1..(k - 1)
    <3>1. \A i \in 1..k : i \in 1..n
      OBVIOUS
    <3>2. k \in 1..k /\ k \in 0..n /\ k - 1 \in 0..n
      OBVIOUS
    <3>3. \A i : i \in (1..k) \ {k} <=> i \in 1..(k - 1)
      OBVIOUS
    <3>4. QED
      BY <3>1, <3>2, <3>3
  <2>2. Max(1..k) = k
    <3>1. Max(1..k) \in 1..k /\ \A y \in 1..k : Max(1..k) >= y
      BY <2>1, GreatestNumber
    <3>2. QED
      BY <2>1, <3>1
  <2>3. QED
    BY <1>8, <2>1, <2>2
<1>11. F[n] = f[DOMAIN seq]
  BY <1>1
<1>. HIDE DEF F
<1>12. QED
  BY <1>0, <1>1, <1>7, <1>9, <1>10, <1>11 DEF base
-----------------------------------------------------------------------------
(* What several welds grant together.                                      *)

IsSpan(n) == n # "base_materials" /\ n \notin Discrete

\* Finitely many values, and intervals that are nothing but their ends and unit.
RuleFits(r) ==
    \A n \in DOMAIN r.variables :
        LET v == r.variables[n]
        IN  /\ v.values \in SUBSET Int /\ IsFiniteSet(v.values)
            /\ v.numeric # NoInterval =>
                  /\ v.numeric = [min |-> v.numeric.min, max |-> v.numeric.max, unit |-> v.numeric.unit]
                  /\ v.numeric.min \in Int /\ v.numeric.max \in Int

\* The values that each of some welds grants.
Shared(r, welds, n) ==
    {v \in r.variables[n].values :
        \A w \in welds : v \in ToSet(DeriveCoverage(r, w)[n].values)}

\* A variable is in the range if each weld grants it and something is left of it.
Together(r, welds) ==
    [n \in {m \in DOMAIN r.variables :
               /\ \A w \in welds : m \in DOMAIN DeriveCoverage(r, w)
               /\ IF IsSpan(m) THEN Valid(r.variables[m].numeric) ELSE Shared(r, welds, m) # {}} |->
        IF IsSpan(n) THEN Span(r.variables[n].numeric)
        ELSE DiscreteRange(Ascending(Shared(r, welds, n)))]

\* What one weld grants.
LEMMA WeldGrants ==
  ASSUME NEW r, RuleFits(r), NEW w, NEW n \in DOMAIN DeriveCoverage(r, w)
  PROVE  /\ n \in DOMAIN r.variables /\ n \in Applying(r, w)
         /\ DeriveCoverage(r, w)[n] = RangeOf(r.variables[n], n, w[n])
         /\ DeriveCoverage(r, w)[n] # NoRange
         /\ IsSpan(n) => /\ DeriveCoverage(r, w)[n] = Span(r.variables[n].numeric)
                         /\ r.variables[n].numeric # NoInterval
                         /\ InInterval(r.variables[n].numeric, w[n])
         /\ n = "base_materials" =>
                /\ DeriveCoverage(r, w)[n] = DiscreteRange(w[n])
                /\ Len(w[n]) = 2 /\ ToSet(w[n]) \subseteq r.variables[n].values
         /\ n \in Discrete => /\ DeriveCoverage(r, w)[n] = DiscreteRange(<<w[n]>>)
                              /\ w[n] \in r.variables[n].values
         /\ ~IsSpan(n) => /\ DeriveCoverage(r, w)[n] = DiscreteRange(DeriveCoverage(r, w)[n].values)
                          /\ ToSet(DeriveCoverage(r, w)[n].values) \subseteq r.variables[n].values
<1>. DEFINE D == DeriveCoverage(r, w)
            x == RangeOf(r.variables[n], n, w[n])
<1>1. n \in Applying(r, w) /\ n \notin DeriveGaps(r, w) /\ D[n] = x
  BY DEF DeriveCoverage
<1>2. n \in DOMAIN r.variables /\ x # NoRange
  BY <1>1 DEF Applying, DeriveGaps
<1>. HIDE DEF D, x
<1>3. CASE IsSpan(n)
  <2>1. /\ x = Span(r.variables[n].numeric) /\ r.variables[n].numeric # NoInterval
        /\ InInterval(r.variables[n].numeric, w[n])
    BY <1>2, <1>3 DEF RangeOf, IsSpan, x
  <2>2. QED
    BY <1>1, <1>2, <1>3, <2>1 DEF IsSpan, D, x
<1>4. CASE n = "base_materials"
  <2>1. x = DiscreteRange(w[n]) /\ Len(w[n]) = 2 /\ ToSet(w[n]) \subseteq r.variables[n].values
    BY <1>2, <1>4 DEF RangeOf, x
  <2>2. x.values = w[n]
    BY <2>1 DEF DiscreteRange
  <2>3. n \notin Discrete
    BY <1>4 DEF Discrete
  <2>4. QED
    BY <1>1, <1>2, <1>4, <2>1, <2>2, <2>3 DEF IsSpan, D, x
<1>5. CASE n \in Discrete
  <2>1. n # "base_materials"
    BY <1>5 DEF Discrete
  <2>2. x = DiscreteRange(<<w[n]>>) /\ w[n] \in r.variables[n].values
    BY <1>2, <1>5, <2>1 DEF RangeOf, x
  <2>3. x.values = <<w[n]>>
    BY <2>2 DEF DiscreteRange
  <2>4. ToSet(<<w[n]>>) = {w[n]}
    BY DEF ToSet
  <2>5. QED
    BY <1>1, <1>2, <1>5, <2>1, <2>2, <2>3, <2>4 DEF IsSpan, D, x
<1>6. QED
  BY <1>3, <1>4, <1>5 DEF IsSpan

\* What a weld grants of a numeric variable, of its materials and of the other
\* discrete ones.
LEMMA SpanGranted ==
  ASSUME NEW r, RuleFits(r), NEW w, NEW n \in DOMAIN DeriveCoverage(r, w), IsSpan(n)
  PROVE  /\ DeriveCoverage(r, w)[n] = Span(r.variables[n].numeric)
         /\ r.variables[n].numeric # NoInterval
         /\ InInterval(r.variables[n].numeric, w[n])
  BY WeldGrants

LEMMA PairGranted ==
  ASSUME NEW r, RuleFits(r), NEW w, NEW n \in DOMAIN DeriveCoverage(r, w), n = "base_materials"
  PROVE  /\ DeriveCoverage(r, w)[n] = DiscreteRange(w[n])
         /\ ToSet(w[n]) \subseteq r.variables[n].values
<1>1. /\ DeriveCoverage(r, w)[n] = RangeOf(r.variables[n], n, w[n])
      /\ DeriveCoverage(r, w)[n] # NoRange
  BY DEF DeriveCoverage, DeriveGaps
<1>2. QED
  BY <1>1 DEF RangeOf

LEMMA ValuesGranted ==
  ASSUME NEW r, RuleFits(r), NEW w, NEW n \in DOMAIN DeriveCoverage(r, w), ~IsSpan(n)
  PROVE  /\ DeriveCoverage(r, w)[n] = DiscreteRange(DeriveCoverage(r, w)[n].values)
         /\ ToSet(DeriveCoverage(r, w)[n].values) \subseteq r.variables[n].values
  BY WeldGrants

\* A span merged with itself stays, unless it holds nothing.
LEMMA MergedSpans ==
  ASSUME NEW i, i # NoInterval, i = [min |-> i.min, max |-> i.max, unit |-> i.unit]
  PROVE  /\ Merge(Span(i), Span(i)) = IF Valid(i) THEN Span(i) ELSE NoRange
         /\ Span(i) # NoRange
<1>1. IntersectInterval(i, i) = i
  BY Zenon DEF IntersectInterval
<1>2. Span(i).numeric = i /\ NoRange.numeric = NoInterval
  BY DEF Span, NoRange, DiscreteRange
<1>3. QED
  BY <1>1, <1>2 DEF Merge

\* Sorting loses no value.
LEMMA SortedValues ==
  ASSUME NEW S \in SUBSET Int, IsFiniteSet(S)
  PROVE  ToSet(Ascending(S)) = S
<1>1. PICK a : a = Ascending(S)
  OBVIOUS
<1>2. \A i \in DOMAIN a : a[i] \in S
  BY <1>1, AscendingSorts
<1>3. \A v \in S : \E i \in DOMAIN a : a[i] = v
  BY <1>1, AscendingSorts
<1>4. ToSet(a) = S
  BY <1>2, <1>3 DEF ToSet
<1>5. QED
  BY <1>1, <1>4

\* Two lists of values merge into what they share, sorted.
LEMMA MergedValues ==
  ASSUME NEW x, NEW y, NEW S \in SUBSET Int, IsFiniteSet(S), S = ToSet(x) \cap ToSet(y)
  PROVE  /\ Merge(DiscreteRange(x), DiscreteRange(y)) = DiscreteRange(Ascending(S))
         /\ DiscreteRange(Ascending(S)) # NoRange <=> S # {}
<1>1. /\ DiscreteRange(x).numeric = NoInterval
      /\ DiscreteRange(x).values = x /\ DiscreteRange(y).values = y
  BY DEF DiscreteRange
<1>2. Merge(DiscreteRange(x), DiscreteRange(y)) = DiscreteRange(Ascending(S))
  BY <1>1 DEF Merge, IntersectValues
<1>3. /\ Ascending(S) \in Seq(S)
      /\ \A v \in S : \E i \in DOMAIN Ascending(S) : Ascending(S)[i] = v
  BY AscendingSorts
<1>4. Ascending(S) = << >> <=> S = {}
  <2>1. ASSUME S = {} PROVE Ascending(S) = << >>
    <3>1. Len(Ascending(S)) = Cardinality(S) /\ Cardinality(S) = 0
      BY <2>1, AscendingSorts, FS_EmptySet
    <3>2. QED
      BY <1>3, <3>1
  <2>2. ASSUME Ascending(S) = << >> PROVE S = {}
    <3>1. Len(Ascending(S)) = 0
      BY <2>2
    <3>2. QED
      BY <3>1, AscendingSorts, FS_EmptySet
  <2>3. QED
    BY <2>1, <2>2
<1>5. DiscreteRange(Ascending(S)) = NoRange <=> Ascending(S) = << >>
  BY DEF DiscreteRange, NoRange
<1>6. QED
  BY <1>2, <1>4, <1>5

\* A range that stands for what some welds grant; it may name a variable that the
\* next weld will take out.
StandsFor(c, r, welds) ==
    /\ \A n \in DOMAIN c :
          /\ n \in DOMAIN r.variables
          /\ \A w \in welds : n \in DOMAIN DeriveCoverage(r, w)
          /\ IF IsSpan(n) THEN c[n] = Span(r.variables[n].numeric)
             ELSE /\ c[n] = DiscreteRange(c[n].values)
                  /\ ToSet(c[n].values) = Shared(r, welds, n)
    /\ \A n \in DOMAIN r.variables \ DOMAIN c :
          (\A w \in welds : n \in DOMAIN DeriveCoverage(r, w))
              => IF IsSpan(n) THEN ~Valid(r.variables[n].numeric) ELSE Shared(r, welds, n) = {}

\* The range of a single weld stands for it.
LEMMA OneStandsForItself ==
  ASSUME NEW r, RuleFits(r), NEW w
  PROVE  StandsFor(DeriveCoverage(r, w), r, {w})
<1>. DEFINE D == DeriveCoverage(r, w)
<1>1. ASSUME NEW n \in DOMAIN D
      PROVE  /\ n \in DOMAIN r.variables
             /\ IF IsSpan(n) THEN D[n] = Span(r.variables[n].numeric)
                ELSE /\ D[n] = DiscreteRange(D[n].values)
                     /\ ToSet(D[n].values) \subseteq r.variables[n].values
  <2>1. n \in DOMAIN r.variables
    BY WeldGrants
  <2>2. CASE IsSpan(n)
    BY <2>1, <2>2, SpanGranted
  <2>3. CASE ~IsSpan(n)
    BY <2>1, <2>3, ValuesGranted
  <2>4. QED
    BY <2>2, <2>3
<1>2. \A n : Shared(r, {w}, n) = ToSet(D[n].values) \cap r.variables[n].values
  BY DEF Shared
<1>. HIDE DEF D
<1>3. QED
  BY <1>1, <1>2 DEF StandsFor, D

\* What several welds grant together stands for them.
LEMMA TogetherStands ==
  ASSUME NEW r, RuleFits(r), NEW welds
  PROVE  StandsFor(Together(r, welds), r, welds)
<1>. DEFINE T == Together(r, welds)
<1>1. DOMAIN T = {m \in DOMAIN r.variables :
               /\ \A w \in welds : m \in DOMAIN DeriveCoverage(r, w)
               /\ IF IsSpan(m) THEN Valid(r.variables[m].numeric) ELSE Shared(r, welds, m) # {}}
  BY DEF Together
<1>2. ASSUME NEW n \in DOMAIN T
      PROVE  IF IsSpan(n) THEN T[n] = Span(r.variables[n].numeric)
             ELSE T[n] = DiscreteRange(Ascending(Shared(r, welds, n)))
  BY DEF Together
<1>. HIDE DEF T
<1>3. ASSUME NEW n \in DOMAIN T, ~IsSpan(n)
      PROVE  /\ T[n] = DiscreteRange(T[n].values)
             /\ ToSet(T[n].values) = Shared(r, welds, n)
  <2>. DEFINE S == Shared(r, welds, n)
  <2>1. S \in SUBSET r.variables[n].values /\ n \in DOMAIN r.variables
    BY <1>1 DEF Shared
  <2>2. S \in SUBSET Int /\ IsFiniteSet(S)
    BY <2>1, FS_Subset DEF RuleFits
  <2>. HIDE DEF S
  <2>3. ToSet(Ascending(S)) = S
    BY <2>2, SortedValues
  <2>4. T[n].values = Ascending(S)
    BY <1>2, <1>3 DEF DiscreteRange, S
  <2>5. QED
    BY <1>2, <1>3, <2>3, <2>4 DEF S
<1>4. QED
  BY <1>1, <1>2, <1>3 DEF StandsFor, T

\* One weld more, and the range is what all of them grant together.
LEMMA OneMore ==
  ASSUME NEW r, RuleFits(r), NEW c, NEW welds, StandsFor(c, r, welds), NEW w
  PROVE  MergeCoverage(c, DeriveCoverage(r, w)) = Together(r, welds \cup {w})
<1>. DEFINE D == DeriveCoverage(r, w)
            all == welds \cup {w}
            granted(n) == \A v \in all : n \in DOMAIN DeriveCoverage(r, v)
            left(n) == IF IsSpan(n) THEN Valid(r.variables[n].numeric) ELSE Shared(r, all, n) # {}
            range(n) == IF IsSpan(n) THEN Span(r.variables[n].numeric)
                        ELSE DiscreteRange(Ascending(Shared(r, all, n)))
            names == {n \in DOMAIN r.variables : granted(n) /\ left(n)}
<1>1. Together(r, all) = [n \in names |-> range(n)]
  BY DEF Together
<1>2. MergeCoverage(c, D) =
          [n \in {m \in DOMAIN c \cap DOMAIN D : Merge(c[m], D[m]) # NoRange} |-> Merge(c[n], D[n])]
  BY DEF MergeCoverage
<1>3. \A n : Shared(r, all, n) = Shared(r, welds, n) \cap ToSet(D[n].values)
  BY DEF Shared
<1>4. ASSUME NEW n \in DOMAIN c \cap DOMAIN D
      PROVE  /\ n \in DOMAIN r.variables /\ granted(n)
             /\ Merge(c[n], D[n]) # NoRange <=> left(n)
             /\ left(n) => Merge(c[n], D[n]) = range(n)
  <2>1. n \in DOMAIN r.variables /\ granted(n)
    BY DEF StandsFor
  <2>2. CASE IsSpan(n)
    <3>1. c[n] = Span(r.variables[n].numeric) /\ D[n] = Span(r.variables[n].numeric)
      <4>1. c[n] = Span(r.variables[n].numeric)
        BY <2>2 DEF StandsFor
      <4>2. D[n] = Span(r.variables[n].numeric)
        BY <2>2, SpanGranted
      <4>3. QED
        BY <4>1, <4>2
    <3>2. r.variables[n].numeric # NoInterval
      BY <2>2, SpanGranted
    <3>3. r.variables[n].numeric = [min |-> r.variables[n].numeric.min,
              max |-> r.variables[n].numeric.max, unit |-> r.variables[n].numeric.unit]
      BY <2>1, <3>2 DEF RuleFits
    <3>4. QED
      BY <2>1, <2>2, <3>1, <3>2, <3>3, MergedSpans
  <2>3. CASE ~IsSpan(n)
    <3>. DEFINE S == Shared(r, all, n)
    <3>1. /\ c[n] = DiscreteRange(c[n].values) /\ ToSet(c[n].values) = Shared(r, welds, n)
          /\ D[n] = DiscreteRange(D[n].values)
      <4>1. c[n] = DiscreteRange(c[n].values) /\ ToSet(c[n].values) = Shared(r, welds, n)
        BY <2>3 DEF StandsFor
      <4>2. D[n] = DiscreteRange(D[n].values)
        BY <2>3, ValuesGranted
      <4>3. QED
        BY <4>1, <4>2
    <3>2. S = ToSet(c[n].values) \cap ToSet(D[n].values)
      BY <1>3, <3>1
    <3>3. S \in SUBSET Int /\ IsFiniteSet(S)
      BY <2>1, FS_Subset DEF RuleFits, Shared
    <3>. HIDE DEF S, D
    <3>4. /\ Merge(DiscreteRange(c[n].values), DiscreteRange(D[n].values)) = DiscreteRange(Ascending(S))
          /\ DiscreteRange(Ascending(S)) # NoRange <=> S # {}
      <4>1. PICK x : x = c[n].values
        OBVIOUS
      <4>2. PICK y : y = D[n].values
        OBVIOUS
      <4>3. S = ToSet(x) \cap ToSet(y)
        BY <3>2, <4>1, <4>2
      <4>4. QED
        BY <3>3, <4>1, <4>2, <4>3, MergedValues
    <3>5. /\ Merge(c[n], D[n]) = DiscreteRange(Ascending(S))
          /\ Merge(c[n], D[n]) # NoRange <=> S # {}
      BY <3>1, <3>4
    <3>6. QED
      BY <2>1, <2>3, <3>5 DEF S
  <2>4. QED
    BY <2>2, <2>3
<1>5. ASSUME NEW n \in DOMAIN r.variables, granted(n), left(n)
      PROVE  n \in DOMAIN c \cap DOMAIN D
  <2>1. n \in DOMAIN D
    BY <1>5
  <2>2. n \in DOMAIN c
    BY <1>3, <1>5 DEF StandsFor
  <2>3. QED
    BY <2>1, <2>2
<1>. HIDE DEF D, granted, left, range
<1>6. {m \in DOMAIN c \cap DOMAIN D : Merge(c[m], D[m]) # NoRange} = names
  BY <1>4, <1>5
<1>7. \A n \in names : Merge(c[n], D[n]) = range(n)
  BY <1>4, <1>5
<1>. HIDE DEF names
<1>8. MergeCoverage(c, D) = [n \in names |-> range(n)]
  BY <1>2, <1>6, <1>7
<1>9. QED
  BY <1>1, <1>8 DEF D

\* Two welds or more grant a range that only depends on which they are.
LEMMA SourcesGrantTogether ==
  ASSUME NEW r, RuleFits(r), NEW W, NEW s \in Seq(W), Len(s) >= 2
  PROVE  RevisionCoverage(r, s) = Together(r, ToSet(s))
<1>. DEFINE sets == [i \in DOMAIN s |-> DeriveCoverage(r, s[i])]
            E == {DeriveCoverage(r, w) : w \in W}
            first(k) == {s[i] : i \in 1..k}
<1>1. PICK n \in Nat : n = Len(s) /\ DOMAIN s = 1..n /\ n >= 2
  OBVIOUS
<1>2. sets \in Seq(E) /\ Len(sets) = n /\ sets # << >>
  <2>1. \A i \in 1..n : DeriveCoverage(r, s[i]) \in E
    BY <1>1
  <2>. HIDE DEF E
  <2>2. QED
    BY <1>1, <2>1
<1>3. \A i \in 1..n : sets[i] = DeriveCoverage(r, s[i])
  BY <1>1
<1>. HIDE DEF sets, E
<1>5. PICK F : /\ F[0] = sets[1]
               /\ \A k \in 1..(n - 1) : F[k] = MergeCoverage(F[k - 1], sets[k + 1])
               /\ IntersectCoverage(sets) = F[n - 1]
  BY <1>2, IntersectionUnfolds
<1>6. RevisionCoverage(r, s) = F[n - 1]
  BY <1>5 DEF RevisionCoverage, sets
<1>7. \A k \in Nat : k \in 1..(n - 1) => F[k] = Together(r, first(k + 1))
  <2>. DEFINE T == {k \in Nat : k \in 0..(n - 1) =>
                        /\ StandsFor(F[k], r, first(k + 1))
                        /\ k # 0 => F[k] = Together(r, first(k + 1))}
  <2>1. 0 \in T
    <3>1. first(0 + 1) = {s[1]}
      OBVIOUS
    <3>2. F[0] = DeriveCoverage(r, s[1])
      BY <1>1, <1>3, <1>5
    <3>3. QED
      BY <3>1, <3>2, OneStandsForItself
  <2>2. ASSUME NEW k \in Nat, k \in T PROVE k + 1 \in T
    <3>. SUFFICES ASSUME k + 1 \in 0..(n - 1)
                  PROVE  /\ StandsFor(F[k + 1], r, first((k + 1) + 1))
                         /\ F[k + 1] = Together(r, first((k + 1) + 1))
      OBVIOUS
    <3>1. k \in 0..(n - 1) /\ k + 1 \in 1..(n - 1) /\ (k + 1) - 1 = k /\ k + 2 \in 1..n
      BY <1>1
    <3>2. F[k + 1] = MergeCoverage(F[k], DeriveCoverage(r, s[k + 2]))
      BY <1>3, <1>5, <3>1
    <3>3. StandsFor(F[k], r, first(k + 1))
      BY <2>2, <3>1
    <3>4. first((k + 1) + 1) = first(k + 1) \cup {s[k + 2]}
      <4>1. \A i : i \in 1..((k + 1) + 1) <=> i \in 1..(k + 1) \/ i = k + 2
        OBVIOUS
      <4>2. QED
        BY <4>1
    <3>. HIDE DEF first
    <3>5. F[k + 1] = Together(r, first((k + 1) + 1))
      BY <3>2, <3>3, <3>4, OneMore
    <3>6. QED
      BY <3>5, TogetherStands
  <2>. HIDE DEF T
  <2>3. \A k \in Nat : k \in T
    BY <2>1, <2>2, SetInduction
  <2>4. ASSUME NEW k \in Nat, k \in 1..(n - 1) PROVE F[k] = Together(r, first(k + 1))
    <3>1. k \in T /\ k \in 0..(n - 1) /\ k # 0
      BY <2>3, <2>4
    <3>2. QED
      BY <3>1 DEF T
  <2>5. QED
    BY <2>4
<1>8. first((n - 1) + 1) = ToSet(s)
  <2>1. (n - 1) + 1 = n
    BY <1>1
  <2>2. QED
    BY <1>1, <2>1 DEF ToSet
<1>9. n - 1 \in Nat /\ n - 1 \in 1..(n - 1)
  BY <1>1
<1>10. QED
  BY <1>6, <1>7, <1>8, <1>9

\* A single source is not merged with anything.
LEMMA OneSourceGrantsItsOwn ==
  ASSUME NEW r, NEW W, NEW s \in Seq(W), Len(s) = 1
  PROVE  RevisionCoverage(r, s) = DeriveCoverage(r, s[1])
<1>. DEFINE sets == [i \in DOMAIN s |-> DeriveCoverage(r, s[i])]
            E == {DeriveCoverage(r, w) : w \in W}
<1>1. DOMAIN s = 1..1
  OBVIOUS
<1>2. sets \in Seq(E) /\ Len(sets) = 1 /\ sets # << >> /\ sets[1] = DeriveCoverage(r, s[1])
  <2>1. \A i \in 1..1 : DeriveCoverage(r, s[i]) \in E
    BY <1>1
  <2>. HIDE DEF E
  <2>2. QED
    BY <1>1, <2>1
<1>. HIDE DEF sets, E
<1>3. IntersectCoverage(sets) = sets[1]
  BY <1>2, IntersectionUnfolds
<1>4. QED
  BY <1>2, <1>3 DEF RevisionCoverage, sets

\* The range of any sources stands for what they grant.
LEMMA CoverageStands ==
  ASSUME NEW r, RuleFits(r), NEW W, NEW s \in Seq(W), s # << >>
  PROVE  StandsFor(RevisionCoverage(r, s), r, ToSet(s))
<1>1. Len(s) \in Nat /\ Len(s) # 0 /\ DOMAIN s = 1..Len(s)
  OBVIOUS
<1>2. CASE Len(s) = 1
  <2>1. ToSet(s) = {s[1]}
    BY <1>1, <1>2 DEF ToSet
  <2>2. QED
    BY <1>2, <2>1, OneSourceGrantsItsOwn, OneStandsForItself
<1>3. CASE Len(s) >= 2
  BY <1>3, SourcesGrantTogether, TogetherStands
<1>4. QED
  BY <1>1, <1>2, <1>3

\* A pair of base materials as it is after normalization.
SortedPair(v) == v \in Seq(Int) /\ Len(v) = 2 /\ v[1] <= v[2]

\* The pair that several welds share is the pair of each.
LEMMA SharedPair ==
  ASSUME NEW v, SortedPair(v), NEW S \in SUBSET ToSet(v), NEW a, a = Ascending(S), Len(a) = 2
  PROVE  a = v
<1>1. v \in Seq(Int) /\ Len(v) = 2 /\ DOMAIN v = 1..2 /\ v[1] \in Int /\ v[2] \in Int /\ v[1] <= v[2]
  <2>1. v \in Seq(Int) /\ Len(v) = 2 /\ v[1] <= v[2]
    BY DEF SortedPair
  <2>2. DOMAIN v = 1..2
    BY <2>1
  <2>3. 1 \in 1..2 /\ 2 \in 1..2
    OBVIOUS
  <2>4. QED
    BY <2>1, <2>2, <2>3
<1>2. ToSet(v) = {v[1], v[2]}
  <2>1. \A i : i \in 1..2 <=> i = 1 \/ i = 2
    OBVIOUS
  <2>2. QED
    BY <1>1, <2>1 DEF ToSet
<1>3. S \in SUBSET Int /\ IsFiniteSet(S)
  <2>1. IsFiniteSet({v[1]}) /\ IsFiniteSet({v[2]})
    BY FS_Singleton
  <2>2. IsFiniteSet({v[1]} \cup {v[2]})
    BY <2>1, FS_Union
  <2>3. S \in SUBSET ({v[1]} \cup {v[2]})
    BY <1>2
  <2>4. QED
    BY <1>1, <2>2, <2>3, FS_Subset
<1>4. a \in Seq(S) /\ \A i, j \in DOMAIN a : i < j => a[i] < a[j]
  BY <1>3, AscendingSorts
<1>5. DOMAIN a = 1..2 /\ 1 \in 1..2 /\ 2 \in 1..2 /\ 1 < 2
  BY <1>4
<1>6. a[1] \in {v[1], v[2]} /\ a[2] \in {v[1], v[2]} /\ a[1] < a[2]
  BY <1>2, <1>4, <1>5
<1>7. a[1] = v[1] /\ a[2] = v[2]
  BY <1>1, <1>6
<1>8. a = v
  <2>1. \A i \in 1..2 : i = 1 \/ i = 2
    OBVIOUS
  <2>2. \A i \in 1..2 : a[i] = v[i]
    BY <1>7, <2>1
  <2>3. a \in [1..2 -> S] /\ v \in [1..2 -> Int]
    BY <1>1, <1>4, <1>5
  <2>4. QED
    BY <2>2, <2>3
<1>9. QED
  BY <1>8

\* A weld in the range of some sources has what the rules ask, as each of them had.
LEMMA ApplicableWeld ==
  ASSUME NEW r, RuleFits(r), DOMAIN r.variables \subseteq {"base_materials"} \cup Discrete \cup Numeric,
         NEW W, \A v \in W : SortedPair(v["base_materials"]),
         NEW s \in Seq(W), NEW c, c = RevisionCoverage(r, s),
         NEW w \in W, Assess(c, w, r) = "APPLICABLE",
         NEW n \in Applying(r, w), NEW i \in DOMAIN s
  PROVE  /\ Permitted(r.variables[n], n, w[n])
         /\ n \in Applying(r, s[i])
         /\ Permitted(r.variables[n], n, s[i][n])
         /\ n \in Numeric \/ s[i][n] = w[n]
<1>. DEFINE D == DeriveCoverage(r, s[i])
<1>1. s # << >> /\ s[i] \in ToSet(s) /\ s[i] \in W
  BY DEF ToSet
<1>2. StandsFor(c, r, ToSet(s))
  BY <1>1, CoverageStands
<1>3. n \in DOMAIN c /\ Matches(c[n], n, w[n])
  <2>1. Uncovered(c, w, r) = {} /\ Mismatched(c, w, r) = {}
    BY DEF Assess
  <2>2. QED
    BY <2>1 DEF Uncovered, Mismatched
<1>4. n \in DOMAIN D /\ n \in DOMAIN r.variables
  BY <1>1, <1>2, <1>3 DEF StandsFor
<1>5. n \in Applying(r, s[i])
  BY <1>4, WeldGrants
<1>6. CASE IsSpan(n)
  <2>1. c[n] = Span(r.variables[n].numeric)
    BY <1>2, <1>3, <1>6 DEF StandsFor
  <2>2. n # "base_materials" /\ n \notin Discrete /\ n \in Numeric
    BY <1>4, <1>6 DEF IsSpan
  <2>3. InInterval(r.variables[n].numeric, w[n])
    BY <1>3, <2>1, <2>2 DEF Matches, Span
  <2>4. InInterval(r.variables[n].numeric, s[i][n])
    BY <1>4, <1>6, SpanGranted
  <2>5. QED
    BY <1>5, <2>2, <2>3, <2>4 DEF Permitted
<1>7. CASE n \in Discrete
  <2>1. n # "base_materials" /\ ~IsSpan(n)
    BY <1>7 DEF Discrete, IsSpan
  <2>2. w[n] \in ToSet(c[n].values)
    BY <1>3, <1>7, <2>1 DEF Matches
  <2>3. ToSet(c[n].values) = Shared(r, ToSet(s), n)
    BY <1>2, <1>3, <2>1 DEF StandsFor
  <2>4. w[n] \in r.variables[n].values /\ w[n] \in ToSet(D[n].values)
    BY <1>1, <2>2, <2>3 DEF Shared
  <2>5. D[n] = DiscreteRange(<<s[i][n]>>) /\ s[i][n] \in r.variables[n].values
    BY <1>4, <1>7, WeldGrants
  <2>6. ToSet(D[n].values) = {s[i][n]}
    <3>1. D[n].values = <<s[i][n]>>
      BY <2>5 DEF DiscreteRange
    <3>2. ToSet(<<s[i][n]>>) = {s[i][n]}
      BY DEF ToSet
    <3>3. QED
      BY <3>1, <3>2
  <2>7. QED
    BY <1>5, <1>7, <2>1, <2>4, <2>5, <2>6 DEF Permitted
<1>8. CASE n = "base_materials"
  <2>1. ~IsSpan(n)
    BY <1>8 DEF IsSpan
  <2>2. c[n].values = w[n]
    BY <1>3, <1>8 DEF Matches
  <2>3. ToSet(w[n]) = Shared(r, ToSet(s), n) /\ c[n] = DiscreteRange(w[n])
    BY <1>2, <1>3, <2>1, <2>2 DEF StandsFor
  <2>4. D[n].values = s[i][n] /\ ToSet(s[i][n]) \subseteq r.variables[n].values
    <3>1. D[n] = DiscreteRange(s[i][n]) /\ ToSet(s[i][n]) \subseteq r.variables[n].values
      BY <1>4, <1>8, PairGranted
    <3>2. QED
      BY <3>1 DEF DiscreteRange
  <2>5. ToSet(w[n]) \subseteq ToSet(s[i][n])
    BY <1>1, <2>3, <2>4 DEF Shared
  <2>6. SortedPair(s[i][n]) /\ SortedPair(w[n])
    BY <1>1, <1>8
  <2>7. s[i][n] = w[n]
    <3>1. Len(s) \in Nat /\ Len(s) # 0 /\ DOMAIN s = 1..Len(s)
      BY <1>1
    <3>2. CASE Len(s) = 1
      <4>1. c = D /\ i = 1
        BY <3>1, <3>2, OneSourceGrantsItsOwn
      <4>2. QED
        BY <2>2, <2>4, <4>1
    <3>3. CASE Len(s) >= 2
      <4>1. c = Together(r, ToSet(s))
        BY <3>3, SourcesGrantTogether
      <4>2. c[n] = DiscreteRange(Ascending(Shared(r, ToSet(s), n)))
        BY <1>3, <2>1, <4>1 DEF Together
      <4>3. w[n] = Ascending(Shared(r, ToSet(s), n))
        BY <2>2, <4>2 DEF DiscreteRange
      <4>4. Shared(r, ToSet(s), n) \in SUBSET ToSet(s[i][n]) /\ Len(w[n]) = 2
        BY <2>3, <2>5, <2>6 DEF SortedPair
      <4>5. QED
        BY <2>6, <4>3, <4>4, SharedPair
    <3>4. QED
      BY <3>1, <3>2, <3>3
  <2>8. QED
    BY <1>5, <1>8, <2>4, <2>5, <2>7 DEF Permitted
<1>9. QED
  BY <1>6, <1>7, <1>8 DEF IsSpan

-----------------------------------------------------------------------------
(* Numbers.                                                                *)

\* The value of digits is that of a function on prefixes, one digit at a time.
LEMMA NumberUnfolds ==
  ASSUME NEW E, NEW seq \in Seq(E)
  PROVE  \E F : /\ F[0] = 0
                /\ \A k \in 1..Len(seq) : F[k] = F[k - 1] * Base + seq[k]
                /\ Number(seq) = F[Len(seq)]
<1>. DEFINE Fold(g, s) ==
                IF s = {} THEN 0 ELSE g[s \ {Max(s)}] * Base + seq[Max(s)]
            Upto(k) == {s \in SUBSET (1..Len(seq)) : Cardinality(s) <= k}
            Folds(g, k) == g = [s \in Upto(k) |-> Fold(g, s)]
<1>2. Number(seq)
          = (CHOOSE g : g = [s \in SUBSET DOMAIN seq |-> Fold(g, s)])[DOMAIN seq]
  BY Zenon DEF Number, FoldLeft, MapThenFoldSet
<1>1. PICK n \in Nat : n = Len(seq) /\ DOMAIN seq = 1..n
  OBVIOUS
<1>3. \A s \in SUBSET (1..n) : IsFiniteSet(s) /\ Cardinality(s) \in 0..n
  <2>1. IsFiniteSet(1..n) /\ Cardinality(1..n) = n
    BY FS_Interval
  <2>2. ASSUME NEW s \in SUBSET (1..n) PROVE IsFiniteSet(s) /\ Cardinality(s) \in 0..n
    <3>1. IsFiniteSet(s) /\ Cardinality(s) <= Cardinality(1..n)
      BY <2>1, FS_Subset
    <3>2. Cardinality(s) \in Nat
      BY <3>1, FS_CardinalityType
    <3>3. QED
      BY <2>1, <3>1, <3>2
  <2>3. QED
    BY <2>2
<1>4. ASSUME NEW s \in SUBSET (1..n), s # {}
      PROVE  /\ Max(s) \in s /\ s \ {Max(s)} \in SUBSET (1..n)
             /\ Cardinality(s \ {Max(s)}) = Cardinality(s) - 1
  BY <1>3, <1>4, GreatestNumber, FS_RemoveElement
<1>5. \A k \in Nat : \E g : Folds(g, k)
  <2>. DEFINE T == {k \in Nat : \E g : Folds(g, k)}
  <2>1. 0 \in T
    <3>1. Upto(0) = {{}}
      BY <1>1, <1>3, FS_EmptySet
    <3>2. Folds([s \in {{}} |-> 0], 0)
      BY <3>1
    <3>3. QED
      BY <3>2
  <2>2. ASSUME NEW k \in Nat, k \in T PROVE k + 1 \in T
    <3>1. PICK g : Folds(g, k)
      BY <2>2
    <3>. DEFINE h == [s \in Upto(k + 1) |-> IF s \in Upto(k) THEN g[s] ELSE Fold(g, s)]
    <3>2. ASSUME NEW s \in Upto(k + 1), s # {} PROVE s \ {Max(s)} \in Upto(k)
      <4>1. s \in SUBSET (1..n) /\ Cardinality(s) <= k + 1
        BY <1>1
      <4>2. /\ s \ {Max(s)} \in SUBSET (1..n) /\ Cardinality(s) \in Int
            /\ Cardinality(s \ {Max(s)}) = Cardinality(s) - 1
        <5>1. Cardinality(s) \in 0..n
          BY <1>3, <4>1
        <5>2. /\ s \ {Max(s)} \in SUBSET (1..n)
              /\ Cardinality(s \ {Max(s)}) = Cardinality(s) - 1
          BY <1>4, <3>2, <4>1
        <5>3. QED
          BY <5>1, <5>2
      <4>3. Cardinality(s \ {Max(s)}) <= k
        BY <4>1, <4>2
      <4>4. QED
        BY <1>1, <4>2, <4>3
    <3>3. \A s \in Upto(k) : s \in Upto(k + 1)
      BY <1>1, <1>3
    <3>4. \A s \in Upto(k) : h[s] = g[s]
      BY <3>3
    <3>5. \A s \in Upto(k + 1) : h[s] = Fold(g, s)
      BY <3>1
    <3>6. h = [s \in Upto(k + 1) |-> h[s]]
      OBVIOUS
    <3>. HIDE DEF h, Upto
    <3>7. \A s \in Upto(k + 1) : Fold(h, s) = Fold(g, s)
      BY <3>2, <3>4
    <3>8. Folds(h, k + 1)
      BY <3>5, <3>6, <3>7
    <3>. HIDE DEF Folds
    <3>9. \E e : Folds(e, k + 1)
      BY <3>8
    <3>10. QED
      BY <3>9
  <2>. HIDE DEF T
  <2>3. \A k \in Nat : k \in T
    BY <2>1, <2>2, SetInduction
  <2>4. QED
    BY <2>3 DEF T
<1>6. PICK g : g = [s \in SUBSET DOMAIN seq |-> Fold(g, s)]
  <2>1. PICK g : Folds(g, n)
    BY <1>5
  <2>2. Upto(n) = SUBSET DOMAIN seq
    BY <1>1, <1>3
  <2>. HIDE DEF Upto
  <2>3. QED
    BY <2>1, <2>2
<1>7. PICK f : /\ f = [s \in SUBSET DOMAIN seq |-> Fold(f, s)]
               /\ Number(seq) = f[DOMAIN seq]
  BY <1>2, <1>6
<1>8. \A s \in SUBSET (1..n) : f[s] = Fold(f, s)
  BY <1>1, <1>7
<1>. DEFINE F == [k \in 0..n |-> f[1..k]]
<1>9. F[0] = 0
  <2>1. 1..0 = {} /\ 0 \in 0..n
    OBVIOUS
  <2>2. QED
    BY <1>8, <2>1
<1>10. ASSUME NEW k \in 1..n PROVE F[k] = F[k - 1] * Base + seq[k]
  <2>1. /\ 1..k \in SUBSET (1..n) /\ 1..k # {} /\ k \in 1..k /\ k \in 0..n /\ k - 1 \in 0..n
        /\ (1..k) \ {k} = 1..(k - 1)
    <3>1. \A i \in 1..k : i \in 1..n
      OBVIOUS
    <3>2. k \in 1..k /\ k \in 0..n /\ k - 1 \in 0..n
      OBVIOUS
    <3>3. \A i : i \in (1..k) \ {k} <=> i \in 1..(k - 1)
      OBVIOUS
    <3>4. QED
      BY <3>1, <3>2, <3>3
  <2>2. Max(1..k) = k
    <3>1. Max(1..k) \in 1..k /\ \A y \in 1..k : Max(1..k) >= y
      BY <2>1, GreatestNumber
    <3>2. QED
      BY <2>1, <3>1
  <2>3. QED
    BY <1>8, <2>1, <2>2
<1>11. F[n] = f[DOMAIN seq]
  BY <1>1
<1>. HIDE DEF F
<1>12. QED
  BY <1>1, <1>7, <1>9, <1>10, <1>11
\* A base is a number of its own digits.
LEMMA BaseIsNumber == Base \in Nat /\ Base >= 2 /\ Digit \subseteq Int
  BY WidthAssumption DEF Digit

\* One more digit, as long division has it (strconv.ParseInt).
LEMMA NumberSteps ==
  ASSUME NEW s \in Seq(Int), NEW d \in Int
  PROVE  Number(s) \in Int /\ Number(Append(s, d)) = Number(s) * Base + d
<1>1. PICK n \in Nat : n = Len(s)
  OBVIOUS
<1>2. /\ Append(s, d) \in Seq(Int) /\ Len(Append(s, d)) = n + 1
      /\ \A k \in 1..n : Append(s, d)[k] = s[k] /\ s[k] \in Int
      /\ Append(s, d)[n + 1] = d
  BY <1>1
<1>3. PICK F : /\ F[0] = 0
               /\ \A k \in 1..n : F[k] = F[k - 1] * Base + s[k]
               /\ Number(s) = F[n]
  BY <1>1, NumberUnfolds
<1>4. PICK G : /\ G[0] = 0
               /\ \A k \in 1..(n + 1) : G[k] = G[k - 1] * Base + Append(s, d)[k]
               /\ Number(Append(s, d)) = G[n + 1]
  BY <1>2, NumberUnfolds
<1>. DEFINE T == {k \in Nat : k <= n => F[k] = G[k] /\ F[k] \in Int}
<1>5. 0 \in T
  BY <1>3, <1>4
<1>6. ASSUME NEW k \in Nat, k \in T PROVE k + 1 \in T
  <2>1. CASE k + 1 <= n
    <3>1. F[k] = G[k] /\ F[k] \in Int
      BY <1>6, <2>1
    <3>2. k + 1 \in 1..n /\ k + 1 \in 1..(n + 1) /\ (k + 1) - 1 = k
      BY <2>1
    <3>3. F[k + 1] = F[k] * Base + s[k + 1] /\ G[k + 1] = G[k] * Base + s[k + 1]
      BY <1>2, <1>3, <1>4, <3>2
    <3>4. F[k] * Base + s[k + 1] \in Int
      BY <1>2, <3>1, <3>2, BaseIsNumber
    <3>5. QED
      BY <3>1, <3>3, <3>4
  <2>2. CASE ~(k + 1 <= n)
    BY <2>2
  <2>3. QED
    BY <2>1, <2>2
<1>. HIDE DEF T
<1>7. n \in T
  BY <1>5, <1>6, SetInduction
<1>8. F[n] = G[n] /\ F[n] \in Int
  BY <1>7 DEF T
<1>9. G[n + 1] = G[n] * Base + d
  <2>1. n + 1 \in 1..(n + 1) /\ (n + 1) - 1 = n
    OBVIOUS
  <2>2. QED
    BY <1>2, <1>4, <2>1
<1>10. QED
  BY <1>3, <1>4, <1>8, <1>9

\* No digits spell zero.
LEMMA EmptyNumber == Number(<< >>) = 0 /\ << >> \in Seq(Int)
<1>1. << >> \in Seq(Int) /\ Len(<< >>) = 0
  OBVIOUS
<1>2. \A e \in Seq(Int) : Len(e) = 0 => Number(e) = 0
  BY NumberUnfolds
<1>3. QED
  BY <1>1, <1>2

\* Digits are integers.
LEMMA DigitsAreIntegers == \A s \in Seq(Digit) : s \in Seq(Int)
<1>1. ASSUME NEW s \in Seq(Digit) PROVE s \in Seq(Int)
  <2>1. PICK n \in Nat : n = Len(s) /\ DOMAIN s = 1..n
    OBVIOUS
  <2>2. \A i \in 1..n : s[i] \in Int
    <3>1. \A i \in 1..n : s[i] \in Digit
      BY <2>1
    <3>2. QED
      BY <3>1, BaseIsNumber
  <2>3. s = [i \in 1..n |-> s[i]]
    BY <2>1
  <2>. QED
    BY <2>2, <2>3
<1>2. QED
  BY <1>1

\* Zeros come one by one.
LEMMA ZerosTyped ==
  \A n \in Nat : Zeros(n) \in Seq(Int) /\ Len(Zeros(n)) = n /\ \A i \in 1..n : Zeros(n)[i] = 0
  BY DEF Zeros

\* One more zero at the end.
LEMMA ZerosSteps ==
  ASSUME NEW s \in Seq(Int), NEW n \in Nat
  PROVE  /\ s \o Zeros(0) = s
         /\ s \o Zeros(n) \in Seq(Int)
         /\ s \o Zeros(n + 1) = Append(s \o Zeros(n), 0)
<1>1. PICK y \in Seq(Int) : y = Zeros(n) /\ Len(y) = n /\ \A i \in 1..n : y[i] = 0
  BY ZerosTyped
<1>2. PICK z \in Seq(Int) : z = Zeros(n + 1) /\ Len(z) = n + 1 /\ \A i \in 1..(n + 1) : z[i] = 0
  <2>1. n + 1 \in Nat
    OBVIOUS
  <2>2. QED
    BY <2>1, ZerosTyped
<1>3. PICK m \in Nat : m = Len(s)
  OBVIOUS
<1>4. PICK a, b : a = s \o z /\ b = s \o y
  OBVIOUS
<1>5. /\ a \in Seq(Int) /\ Len(a) = m + n + 1 /\ \A i \in 1..(m + n + 1) :
            a[i] = IF i <= m THEN s[i] ELSE z[i - m]
      /\ b \in Seq(Int) /\ Len(b) = m + n /\ \A i \in 1..(m + n) :
            b[i] = IF i <= m THEN s[i] ELSE y[i - m]
  <2>1. a \in Seq(Int) /\ b \in Seq(Int)
    <3>1. s \o z \in Seq(Int) /\ s \o y \in Seq(Int)
      BY ConcatProperties, Zenon
    <3>2. QED
      BY <1>4, <3>1, Zenon
  <2>2. Len(a) = m + (n + 1) /\ Len(b) = m + n
    <3>1. Len(s \o z) = Len(s) + Len(z) /\ Len(s \o y) = Len(s) + Len(y)
      BY ConcatProperties, Zenon
    <3>2. QED
      BY <1>1, <1>2, <1>3, <1>4, <3>1
  <2>3. \A i \in 1..(m + (n + 1)) : a[i] = IF i <= m THEN s[i] ELSE z[i - m]
    <3>1. \A i \in 1..(Len(s) + Len(z)) : (s \o z)[i] = IF i <= Len(s) THEN s[i] ELSE z[i - Len(s)]
      BY ConcatProperties, Zenon
    <3>2. QED
      BY <1>2, <1>3, <1>4, <3>1
  <2>4. \A i \in 1..(m + n) : b[i] = IF i <= m THEN s[i] ELSE y[i - m]
    <3>1. \A i \in 1..(Len(s) + Len(y)) : (s \o y)[i] = IF i <= Len(s) THEN s[i] ELSE y[i - Len(s)]
      BY ConcatProperties, Zenon
    <3>2. QED
      BY <1>1, <1>3, <1>4, <3>1
  <2>5. m + (n + 1) = m + n + 1
    OBVIOUS
  <2>6. QED
    BY <2>1, <2>2, <2>3, <2>4, <2>5
<1>6. a = Append(b, 0)
  <2>1. PICK c : c = Append(b, 0)
    OBVIOUS
  <2>2. /\ c \in Seq(Int) /\ Len(c) = m + n + 1
        /\ \A i \in 1..(m + n) : c[i] = b[i]
        /\ c[m + n + 1] = 0
    <3>1. b \in Seq(Int) /\ Len(b) = m + n /\ 0 \in Int
      BY <1>5
    <3>2. c \in Seq(Int) /\ Len(c) = Len(b) + 1
      BY <2>1, <3>1, AppendProperties
    <3>3. (\A i \in 1..Len(b) : c[i] = b[i]) /\ c[Len(b) + 1] = 0
      BY <2>1, <3>1, AppendProperties
    <3>4. QED
      BY <3>1, <3>2, <3>3
  <2>3. ASSUME NEW i \in 1..(m + n + 1) PROVE a[i] = c[i]
    <3>1. CASE i <= m
      <4>1. i \in 1..(m + n)
        BY <3>1
      <4>2. QED
        BY <1>5, <2>2, <3>1, <4>1
    <3>2. CASE m < i /\ i <= m + n
      <4>1. i - m \in 1..n /\ i - m \in 1..(n + 1) /\ i \in 1..(m + n)
        BY <3>2
      <4>2. y[i - m] = 0 /\ z[i - m] = 0
        BY <1>1, <1>2, <4>1
      <4>3. QED
        BY <1>5, <2>2, <3>2, <4>1, <4>2
    <3>3. CASE i = m + n + 1
      <4>1. i - m \in 1..(n + 1) /\ ~(i <= m)
        BY <3>3
      <4>2. z[i - m] = 0
        BY <1>2, <4>1
      <4>3. QED
        BY <1>5, <2>2, <3>3, <4>1, <4>2
    <3>4. QED
      BY <3>1, <3>2, <3>3
  <2>4. a = c
    <3>1. a = [i \in 1..(m + n + 1) |-> a[i]] /\ c = [i \in 1..(m + n + 1) |-> c[i]]
      BY <1>5, <2>2
    <3>2. QED
      BY <2>3, <3>1
  <2>5. QED
    BY <2>1, <2>4
<1>7. s \o Zeros(0) = s
  <2>1. Zeros(0) = << >>
    BY DEF Zeros
  <2>2. QED
    BY <2>1
<1>8. QED
  BY <1>1, <1>2, <1>4, <1>5, <1>6, <1>7

\* The powers of the base.
LEMMA PowerSteps ==
  /\ Power(0) = 1
  /\ \A n \in Nat : Power(n) \in Nat \ {0} /\ Power(n + 1) = Power(n) * Base
<1>1. PICK one \in Seq(Int) : one = <<1>> /\ one = Append(<< >>, 1)
  <2>1. <<1>> \in Seq(Int) /\ << >> \in Seq(Int)
    OBVIOUS
  <2>2. <<1>> = Append(<< >>, 1)
    OBVIOUS
  <2>3. QED
    BY <2>1, <2>2
<1>2. Power(0) = 1
  <2>1. Power(0) = Number(one)
    <3>1. one \o Zeros(0) = one
      BY ZerosSteps, 0 \in Nat
    <3>2. QED
      BY <1>1, <3>1 DEF Power
  <2>2. PICK e \in Seq(Int) : Number(e) = 0 /\ one = Append(e, 1)
    BY <1>1, EmptyNumber
  <2>3. Number(one) = 0 * Base + 1
    BY <2>2, NumberSteps
  <2>4. QED
    BY <2>1, <2>3, BaseIsNumber
<1>3. ASSUME NEW n \in Nat PROVE Power(n) \in Int /\ Power(n + 1) = Power(n) * Base
  <2>1. PICK s \in Seq(Int) : s = one \o Zeros(n) /\ one \o Zeros(n + 1) = Append(s, 0)
    BY ZerosSteps
  <2>2. Number(s) \in Int /\ Number(Append(s, 0)) = Number(s) * Base + 0
    BY NumberSteps
  <2>3. Power(n) = Number(s) /\ Power(n + 1) = Number(Append(s, 0))
    BY <1>1, <2>1 DEF Power
  <2>4. QED
    BY <2>2, <2>3, BaseIsNumber
<1>. DEFINE T == {n \in Nat : Power(n) \in Nat \ {0}}
<1>4. 0 \in T
  BY <1>2
<1>5. ASSUME NEW n \in Nat, n \in T PROVE n + 1 \in T
  <2>1. PICK b \in Nat \ {0} : b = Base
    BY BaseIsNumber
  <2>2. Power(n) * b \in Nat \ {0}
    <3>1. PICK p \in Nat \ {0} : p = Power(n)
      BY <1>5
    <3>2. p * b \in Nat \ {0}
      OBVIOUS
    <3>3. QED
      BY <3>1, <3>2
  <2>3. QED
    BY <1>3, <2>1, <2>2
<1>. HIDE DEF T
<1>6. \A n \in Nat : n \in T
  BY <1>4, <1>5, SetInduction
<1>7. QED
  BY <1>2, <1>3, <1>6 DEF T

\* Powers outgrow their exponents and grow with them.
LEMMA PowersGrow ==
  /\ \A n \in Nat : n < Power(n)
  /\ \A m, n \in Nat : m <= n => Power(m) <= Power(n)
<1>. DEFINE T == {n \in Nat : n < Power(n)}
            U(m) == {k \in Nat : Power(m) <= Power(m + k)}
<1>1. PICK b \in Nat : b = Base /\ b >= 2
  BY BaseIsNumber
<1>2. ASSUME NEW p \in Nat \ {0} PROVE p * b >= p + 1 /\ p * b \in Nat
  BY <1>1
<1>3. 0 \in T
  BY PowerSteps
<1>4. ASSUME NEW n \in Nat, n \in T PROVE n + 1 \in T
  <2>1. PICK p \in Nat \ {0} : p = Power(n) /\ Power(n + 1) = p * b /\ n < p
    BY <1>1, <1>4, PowerSteps
  <2>2. n + 1 < p * b
    BY <1>2, <2>1
  <2>3. QED
    BY <2>1, <2>2
<1>5. ASSUME NEW m \in Nat PROVE \A k \in Nat : k \in U(m)
  <2>1. 0 \in U(m)
    BY PowerSteps
  <2>2. ASSUME NEW k \in Nat, k \in U(m) PROVE k + 1 \in U(m)
    <3>1. m + k \in Nat /\ (m + k) + 1 = m + (k + 1)
      OBVIOUS
    <3>2. PICK p \in Nat \ {0} : p = Power(m + k) /\ Power(m + (k + 1)) = p * b
      BY <1>1, <3>1, PowerSteps
    <3>3. Power(m) \in Nat /\ Power(m) <= p
      BY <2>2, <3>2, PowerSteps
    <3>4. Power(m) <= p * b
      BY <1>2, <3>3
    <3>5. QED
      BY <3>2, <3>4
  <2>. HIDE DEF U
  <2>3. QED
    BY <2>1, <2>2, SetInduction
<1>6. ASSUME NEW m \in Nat, NEW n \in Nat, m <= n PROVE Power(m) <= Power(n)
  <2>1. n - m \in Nat /\ m + (n - m) = n
    BY <1>6
  <2>2. QED
    BY <1>5, <2>1
<1>. HIDE DEF T
<1>7. \A n \in Nat : n \in T
  BY <1>3, <1>4, SetInduction
<1>8. QED
  BY <1>6, <1>7 DEF T

\* Zeros behind a number multiply it.
LEMMA PaddedNumber ==
  ASSUME NEW s \in Seq(Int), NEW k \in Nat
  PROVE  Number(s \o Zeros(k)) = Number(s) * Power(k)
<1>. DEFINE T == {n \in Nat : Number(s \o Zeros(n)) = Number(s) * Power(n)}
<1>1. PICK b \in Nat : b = Base
  BY BaseIsNumber
<1>2. PICK a \in Int : a = Number(s)
  BY NumberSteps
<1>3. 0 \in T
  <2>1. s \o Zeros(0) = s
    BY ZerosSteps, 0 \in Nat
  <2>2. QED
    BY <1>2, <2>1, PowerSteps, a * 1 = a
<1>4. ASSUME NEW n \in Nat, n \in T PROVE n + 1 \in T
  <2>1. PICK p \in Nat : p = Power(n) /\ Power(n + 1) = p * b
    BY <1>1, PowerSteps
  <2>2. Number(s \o Zeros(n + 1)) = (a * p) * b + 0
    <3>1. PICK z \in Seq(Int) : z = s \o Zeros(n) /\ s \o Zeros(n + 1) = Append(z, 0)
      BY ZerosSteps
    <3>2. Number(Append(z, 0)) = Number(z) * Base + 0
      BY NumberSteps
    <3>3. Number(z) = a * p
      BY <1>2, <1>4, <2>1, <3>1
    <3>4. QED
      BY <1>1, <3>1, <3>2, <3>3
  <2>3. (a * p) * b + 0 = a * (p * b)
    OBVIOUS
  <2>4. QED
    BY <1>2, <2>1, <2>2, <2>3
<1>. HIDE DEF T
<1>5. k \in T
  BY <1>3, <1>4, SetInduction
<1>6. QED
  BY <1>5 DEF T

\* A number of n digits is below the n-th power of the base.
LEMMA NumberInRange ==
  ASSUME NEW s \in Seq(Digit)
  PROVE  Number(s) \in Nat /\ Number(s) < Power(Len(s))
<1>. DEFINE T == {n \in Nat : \A w \in Seq(Digit) : Len(w) = n =>
                        Number(w) \in Nat /\ Number(w) < Power(n)}
<1>1. PICK b \in Nat : b = Base /\ Digit = 0..(b - 1)
  BY BaseIsNumber DEF Digit
<1>2. 0 \in T
  <2>1. \A w \in Seq(Digit) : Len(w) = 0 => w = << >>
    OBVIOUS
  <2>2. Number(<< >>) = 0
    BY EmptyNumber
  <2>3. \A w \in Seq(Digit) : Len(w) = 0 => Number(w) = 0
    BY <2>1, <2>2
  <2>4. 0 \in Nat /\ 0 < Power(0)
    BY PowerSteps
  <2>5. QED
    BY <2>3, <2>4
<1>3. ASSUME NEW n \in Nat, n \in T PROVE n + 1 \in T
  <2>1. ASSUME NEW w \in Seq(Digit), Len(w) = n + 1
        PROVE  Number(w) \in Nat /\ Number(w) < Power(n + 1)
    <3>1. PICK v, d : v = SubSeq(w, 1, n) /\ d = w[n + 1]
      OBVIOUS
    <3>2. v \in Seq(Digit) /\ Len(v) = n /\ d \in Digit /\ w = Append(v, d)
      BY <2>1, <3>1
    <3>3. v \in Seq(Int) /\ d \in Int
      BY <3>2, BaseIsNumber, DigitsAreIntegers
    <3>4. PICK x \in Nat : x = Number(v) /\ x < Power(n)
      BY <1>3, <3>2
    <3>5. PICK p \in Nat : p = Power(n) /\ Power(n + 1) = p * b
      BY <1>1, PowerSteps
    <3>6. Number(w) = x * b + d
      BY <1>1, <3>2, <3>3, <3>4, NumberSteps
    <3>7. d \in 0..(b - 1) /\ x + 1 <= p
      BY <1>1, <3>2, <3>4, <3>5
    <3>8. x * b + d \in Nat /\ x * b + d < p * b
      <4>1. (x + 1) * b <= p * b /\ x * b \in Nat
        BY <3>7
      <4>2. (x + 1) * b = x * b + b
        OBVIOUS
      <4>3. QED
        BY <3>7, <4>1, <4>2
    <3>9. QED
      BY <3>5, <3>6, <3>8
  <2>2. QED
    BY <2>1
<1>. HIDE DEF T
<1>4. Len(s) \in T
  <2>1. Len(s) \in Nat
    OBVIOUS
  <2>2. QED
    BY <1>2, <1>3, <2>1, SetInduction
<1>5. QED
  BY <1>4 DEF T

\* The remainder is the one number that is left below the divisor.
LEMMA RemainderUnique ==
  ASSUME NEW a \in Int, NEW m \in Nat \ {0}, NEW q \in Int, NEW r \in 0..(m - 1), a = m * q + r
  PROVE  a % m = r /\ a \div m = q
<1>1. a = m * (a \div m) + (a % m) /\ a % m \in 0..(m - 1) /\ a \div m \in Int
  OBVIOUS
<1>2. PICK p \in Int, s \in 0..(m - 1) : p = a \div m /\ s = a % m /\ m * q + r = m * p + s
  BY <1>1
<1>3. m * (q - p) = s - r
  <2>1. m * (q - p) = m * q - m * p
    OBVIOUS
  <2>2. m * q \in Int /\ m * p \in Int
    OBVIOUS
  <2>3. QED
    BY <1>2, <2>1, <2>2
<1>4. s - r < m /\ s - r > -m
  BY <1>2
<1>5. ~(q - p >= 1)
  <2>1. ASSUME q - p >= 1 PROVE m * (q - p) >= m
    BY <2>1
  <2>2. QED
    BY <1>3, <1>4, <2>1
<1>6. ~(q - p <= -1)
  <2>1. ASSUME q - p <= -1 PROVE m * (q - p) <= -m
    BY <2>1
  <2>2. QED
    BY <1>3, <1>4, <2>1
<1>7. q = p /\ r = s
  <2>1. q = p
    BY <1>2, <1>5, <1>6
  <2>2. QED
    BY <1>2, <2>1
<1>8. QED
  BY <1>2, <1>7

\* What the machine makes of a number: the one number of the machine that differs
\* from it by a multiple of the machine's size.
LEMMA Wrapping ==
  ASSUME NEW n \in Int
  PROVE  /\ Wrap(n) \in Machine /\ Wrap(n) \in Int
         /\ \E q \in Int : n = Wrap(n) + 2 * Half * q
<1>1. PICK h \in Nat \ {0} : h = Half
  BY WidthAssumption
<1>2. 2 * h \in Nat \ {0} /\ n + h \in Int
  OBVIOUS
<1>3. PICK m \in Nat \ {0}, a \in Int : m = 2 * h /\ a = n + h
  BY <1>2
<1>4. a = m * (a \div m) + (a % m) /\ a % m \in 0..(m - 1) /\ a \div m \in Int
  OBVIOUS
<1>5. PICK q \in Int, r \in 0..(m - 1) : a = m * q + r /\ r = a % m
  BY <1>4
<1>6. Wrap(n) = r - h
  BY <1>1, <1>3, <1>5 DEF Wrap
<1>7. n = (r - h) + m * q
  <2>1. m * q \in Int
    OBVIOUS
  <2>2. QED
    BY <1>3, <1>5, <2>1
<1>8. r - h \in -h..(h - 1)
  BY <1>3, <1>5
<1>9. QED
  BY <1>1, <1>3, <1>6, <1>7, <1>8 DEF Machine, Smallest

\* A machine integer a multiple of the width away is what a number wraps to.
LEMMA WrapIsUnique ==
  ASSUME NEW n \in Int, NEW v \in Machine, NEW q \in Int, n = v + 2 * Half * q
  PROVE  Wrap(n) = v
<1>1. PICK h \in Nat \ {0} : h = Half
  BY WidthAssumption
<1>2. PICK m \in Nat \ {0} : m = 2 * h
  OBVIOUS
<1>3. v \in Int /\ v + h \in 0..(m - 1)
  BY <1>1, <1>2 DEF Machine, Smallest
<1>4. n + h = m * q + (v + h)
  <2>1. m * q \in Int /\ n = v + m * q
    BY <1>1, <1>2
  <2>2. QED
    BY <1>3, <2>1
<1>5. (n + h) % m = v + h
  <2>1. PICK a \in Int, r \in 0..(m - 1) : a = n + h /\ r = v + h
    BY <1>3
  <2>2. a = m * q + r
    BY <1>4, <2>1
  <2>3. QED
    BY <2>1, <2>2, RemainderUnique
<1>6. QED
  BY <1>1, <1>2, <1>3, <1>5 DEF Wrap

\* Numbers of the machine stay as they are, and sums and negations may be wrapped
\* late or early.
LEMMA WrapLater ==
  /\ \A n \in Machine : Wrap(n) = n
  /\ \A a, b \in Int : Wrap(Wrap(a) + b) = Wrap(a + b)
  /\ \A a \in Int : Wrap(-Wrap(a)) = Wrap(-a)
<1>1. PICK h \in Nat : h = Half /\ 2 * Half \in Nat
  BY WidthAssumption
<1>2. Machine \subseteq Int
  BY <1>1 DEF Machine, Smallest
<1>3. ASSUME NEW n \in Machine PROVE Wrap(n) = n
  <2>1. n \in Int /\ n = n + 2 * Half * 0
    BY <1>1, <1>2
  <2>2. QED
    BY <2>1, WrapIsUnique, 0 \in Int
<1>4. ASSUME NEW a \in Int, NEW b \in Int PROVE Wrap(Wrap(a) + b) = Wrap(a + b)
  <2>1. PICK w \in Int, q \in Int : w = Wrap(a) /\ a = w + 2 * Half * q
    BY Wrapping
  <2>2. w + b \in Int /\ a + b \in Int
    OBVIOUS
  <2>3. PICK v \in Machine, p \in Int : v = Wrap(w + b) /\ w + b = v + 2 * Half * p
    BY <2>2, Wrapping
  <2>4. a + b = v + 2 * Half * (p + q) /\ p + q \in Int
    <3>1. PICK m \in Int : m = 2 * Half
      BY <1>1
    <3>2. /\ m * q \in Int /\ m * p \in Int /\ v \in Int
          /\ m * (p + q) = m * p + m * q /\ p + q \in Int
      BY <1>2
    <3>3. a = w + m * q /\ w + b = v + m * p
      BY <2>1, <2>3, <3>1
    <3>4. a + b = v + m * (p + q)
      BY <3>2, <3>3
    <3>5. QED
      BY <3>1, <3>2, <3>4
  <2>5. Wrap(a + b) = v
    BY <2>2, <2>4, WrapIsUnique
  <2>6. QED
    BY <2>1, <2>3, <2>5
<1>5. ASSUME NEW a \in Int PROVE Wrap(-Wrap(a)) = Wrap(-a)
  <2>1. PICK w \in Int, q \in Int : w = Wrap(a) /\ a = w + 2 * Half * q
    BY Wrapping
  <2>2. -w \in Int /\ -a \in Int
    OBVIOUS
  <2>3. PICK v \in Machine, p \in Int : v = Wrap(-w) /\ -w = v + 2 * Half * p
    BY <2>2, Wrapping
  <2>4. -a = v + 2 * Half * (p - q) /\ p - q \in Int
    <3>1. PICK m \in Int : m = 2 * Half
      BY <1>1
    <3>2. /\ m * q \in Int /\ m * p \in Int /\ v \in Int
          /\ m * (p - q) = m * p - m * q /\ p - q \in Int
      BY <1>2
    <3>3. a = w + m * q /\ -w = v + m * p
      BY <2>1, <2>3, <3>1
    <3>4. -a = v + m * (p - q)
      BY <3>2, <3>3
    <3>5. QED
      BY <3>1, <3>2, <3>4
  <2>5. Wrap(-a) = v
    BY <2>2, <2>4, WrapIsUnique
  <2>6. QED
    BY <2>1, <2>3, <2>5
<1>6. QED
  BY <1>3, <1>4, <1>5

\* Quotient and remainder make up the dividend.
LEMMA DivisionRemains ==
  ASSUME NEW x \in Nat, NEW b \in Nat \ {0}
  PROVE  \E y \in Nat, r \in 0..(b - 1) : y = x \div b /\ r = x % b /\ x = y * b + r
<1>1. x \div b \in Nat /\ x % b \in 0..(b - 1) /\ x = b * (x \div b) + (x % b)
  OBVIOUS
<1>2. PICK y \in Nat, r \in Nat : y = x \div b /\ r = x % b /\ r \in 0..(b - 1) /\ x = b * y + r
  BY <1>1
<1>3. b * y = y * b
  OBVIOUS
<1>4. x = y * b + r
  BY <1>2, <1>3
<1>5. QED
  BY <1>2, <1>4

\* Dividing twice is dividing by the product.
LEMMA DivisionSplits ==
  ASSUME NEW a \in Nat, NEW p \in Nat \ {0}, NEW b \in Nat \ {0}
  PROVE  a \div p \in Nat /\ a \div (p * b) = (a \div p) \div b
<1>1. PICK x \in Nat, r \in 0..(p - 1) : x = a \div p /\ a = p * x + r
  <2>1. a \div p \in Nat /\ a % p \in 0..(p - 1) /\ a = p * (a \div p) + (a % p)
    OBVIOUS
  <2>2. QED
    BY <2>1
<1>2. PICK y \in Nat, s \in 0..(b - 1) : y = x \div b /\ x = b * y + s
  <2>1. x \div b \in Nat /\ x % b \in 0..(b - 1) /\ x = b * (x \div b) + (x % b)
    OBVIOUS
  <2>2. QED
    BY <2>1
<1>3. p * b \in Nat \ {0}
  OBVIOUS
<1>4. a = (p * b) * y + (p * s + r)
  <2>1. p * x = p * (b * y) + p * s
    BY <1>2
  <2>2. p * (b * y) = (p * b) * y /\ (p * b) * y \in Nat /\ p * s \in Nat
    OBVIOUS
  <2>3. QED
    BY <1>1, <2>1, <2>2
<1>5. p * s + r \in 0..(p * b - 1)
  <2>1. p * s + p = p * (s + 1)
    OBVIOUS
  <2>2. p * (s + 1) <= p * b /\ p * s \in Nat
    OBVIOUS
  <2>3. QED
    BY <1>3, <2>1, <2>2
<1>6. a \div (p * b) = y
  <2>1. PICK m \in Nat \ {0}, c \in Nat : m = p * b /\ c = p * s + r /\ c \in 0..(m - 1)
    BY <1>3, <1>5
  <2>2. a = m * y + c
    BY <1>4, <2>1
  <2>3. QED
    BY <2>1, <2>2, RemainderUnique
<1>7. QED
  BY <1>1, <1>2, <1>6

\* A number of the machine has a number of digits (the verb %d).
LEMMA EnoughDigits ==
  ASSUME NEW n \in 0..Half, NEW k \in 1..Half
  PROVE  /\ NumDigits(n, k) \in Nat /\ NumDigits(n, k) >= k
         /\ n < Power(NumDigits(n, k))
         /\ NumDigits(n, k) = k \/ n >= Power(NumDigits(n, k) - 1)
<1>1. PICK h \in Nat \ {0} : h = Half /\ n \in 0..h /\ k \in 1..h
  BY WidthAssumption
<1>. DEFINE T == {l \in Nat : l >= k /\ n < Power(l)}
<1>2. h \in T
  BY <1>1, PowersGrow, PowerSteps
<1>3. PICK l \in T : \A m \in T : l <= m
  <2>1. T \in SUBSET Nat /\ T # {}
    BY <1>2
  <2>. HIDE DEF T
  <2>2. QED
    BY <2>1, LeastNumber
<1>4. l \in k..Half /\ l \in Nat /\ n < Power(l)
  BY <1>1, <1>2, <1>3
<1>5. l = k \/ n >= Power(l - 1)
  <2>1. ASSUME l # k, ~(n >= Power(l - 1)) PROVE FALSE
    <3>1. l - 1 \in Nat /\ l - 1 >= k
      BY <1>1, <1>4, <2>1
    <3>2. n < Power(l - 1)
      BY <1>1, <2>1, <3>1, PowerSteps
    <3>3. l - 1 \in T
      BY <3>1, <3>2
    <3>. HIDE DEF T
    <3>4. l <= l - 1
      BY <1>3, <3>3
    <3>5. QED
      BY <1>4, <3>4
  <2>2. QED
    BY <2>1
<1>. HIDE DEF T
<1>6. \E m \in k..Half : n < Power(m) /\ (m = k \/ n >= Power(m - 1))
  BY <1>4, <1>5
<1>. DEFINE d == NumDigits(n, k)
<1>7. d \in k..Half /\ n < Power(d) /\ (d = k \/ n >= Power(d - 1))
  BY <1>6 DEF NumDigits
<1>. HIDE DEF d
<1>8. d \in Nat /\ d >= k
  BY <1>1, <1>7
<1>9. QED
  BY <1>7, <1>8 DEF d

\* The digits of a number spell it.
LEMMA DigitsSpell ==
  ASSUME NEW n \in 0..Half, NEW k \in 1..Half
  PROVE  /\ DigitsOf(n, k) \in Seq(Digit) /\ Len(DigitsOf(n, k)) = NumDigits(n, k)
         /\ Number(DigitsOf(n, k)) = n
<1>1. PICK b \in Nat \ {0} : b = Base /\ Digit = 0..(b - 1)
  BY BaseIsNumber DEF Digit
<1>2. PICK l \in Nat : l = NumDigits(n, k) /\ l >= k /\ n < Power(l)
  BY EnoughDigits
<1>3. n \in Nat
  BY WidthAssumption
<1>4. PICK w : w = DigitsOf(n, k)
  OBVIOUS
<1>5. w = [i \in 1..l |-> (n \div Power(l - i)) % b]
  BY <1>1, <1>2, <1>4 DEF DigitsOf
<1>6. ASSUME NEW i \in 1..l
      PROVE  /\ l - i \in Nat /\ Power(l - i) \in Nat \ {0}
             /\ n \div Power(l - i) \in Nat /\ (n \div Power(l - i)) % b \in 0..(b - 1)
  <2>1. PICK j \in Nat : j = l - i
    OBVIOUS
  <2>2. PICK p \in Nat \ {0} : p = Power(j)
    BY PowerSteps
  <2>3. PICK x \in Nat : x = n \div p
    BY <1>3, DivisionSplits, 1 \in Nat \ {0}
  <2>4. x % b \in 0..(b - 1)
    OBVIOUS
  <2>5. QED
    BY <2>1, <2>2, <2>3, <2>4
<1>7. w \in Seq(Digit) /\ Len(w) = l /\ \A i \in 1..l : w[i] = (n \div Power(l - i)) % b
  BY <1>1, <1>5, <1>6
<1>. DEFINE T == {j \in Nat : j <= l => Number(SubSeq(w, 1, j)) = n \div Power(l - j)}
<1>8. 0 \in T
  <2>1. SubSeq(w, 1, 0) = << >> /\ l - 0 = l
    BY <1>7
  <2>2. n \div Power(l) = 0
    <3>1. PICK p \in Nat \ {0} : p = Power(l) /\ n < p
      BY <1>2, PowerSteps
    <3>2. n \in 0..(p - 1) /\ n = p * 0 + n
      BY <1>3, <3>1
    <3>3. QED
      BY <1>3, <3>1, <3>2, RemainderUnique, 0 \in Int
  <2>3. QED
    BY <2>1, <2>2, EmptyNumber
<1>9. ASSUME NEW j \in Nat, j \in T PROVE j + 1 \in T
  <2>1. CASE j + 1 <= l
    <3>1. j + 1 \in 1..l /\ j <= l
      BY <2>1
    <3>2. PICK m \in Nat : m = l - (j + 1) /\ l - j = m + 1
      BY <2>1
    <3>3. PICK p \in Nat \ {0} : p = Power(m) /\ Power(m + 1) = p * b
      BY <1>1, PowerSteps
    <3>4. PICK x \in Nat : x = n \div p /\ n \div (p * b) = x \div b
      BY <1>3, DivisionSplits
    <3>5. PICK y \in Nat, d \in 0..(b - 1) : y = x \div b /\ d = x % b /\ x = y * b + d
      BY DivisionRemains
    <3>6. PICK v : v = SubSeq(w, 1, j)
      OBVIOUS
    <3>7. w[j + 1] = d
      BY <1>7, <3>1, <3>2, <3>3, <3>4, <3>5
    <3>8. v \in Seq(Digit)
      BY <1>7, <3>1, <3>6
    <3>9. SubSeq(w, 1, j + 1) = Append(v, d)
      BY <1>7, <3>1, <3>6, <3>7
    <3>10. Number(v) = y
      BY <1>9, <3>1, <3>2, <3>3, <3>4, <3>5, <3>6
    <3>11. Number(SubSeq(w, 1, j + 1)) = x
      <4>1. v \in Seq(Int) /\ d \in Int
        BY <3>8, DigitsAreIntegers
      <4>2. Number(Append(v, d)) = y * b + d
        BY <1>1, <3>10, <4>1, NumberSteps
      <4>3. QED
        BY <3>5, <3>9, <4>2
    <3>12. Number(SubSeq(w, 1, j + 1)) = n \div Power(l - (j + 1))
      BY <3>2, <3>3, <3>4, <3>11
    <3>13. QED
      BY <3>12
  <2>2. CASE ~(j + 1 <= l)
    BY <2>2
  <2>3. QED
    BY <2>1, <2>2
<1>. HIDE DEF T
<1>10. l \in T
  BY <1>8, <1>9, SetInduction
<1>11. Number(SubSeq(w, 1, l)) = n \div Power(l - l)
  BY <1>10 DEF T
<1>12. SubSeq(w, 1, l) = w
  BY <1>7
<1>13. n \div Power(l - l) = n
  <2>1. l - l = 0 /\ n \div 1 = n
    BY <1>3
  <2>2. QED
    BY <2>1, PowerSteps
<1>14. QED
  BY <1>2, <1>4, <1>7, <1>11, <1>12, <1>13

\* The machine has every fraction, and the units are more than one.
LEMMA ScaleFits ==
  /\ Scale \in Nat /\ Scale >= 2 /\ Scale <= Half /\ Power(Decimals) = Scale
  /\ Decimals \in Nat /\ Decimals >= 1 /\ Decimals <= Half /\ 1 <= Half
<1>1. Decimals \in Nat /\ Decimals >= 1 /\ Half \in Nat /\ Scale <= Half
  BY WidthAssumption
<1>2. PICK p \in Nat : p = Power(Decimals) /\ Decimals < p
  BY <1>1, PowerSteps, PowersGrow
<1>3. QED
  BY <1>1, <1>2 DEF Scale

\* Having no sign differs from a minus.
LEMMA NoSignIsNone == NoSign # "-"
  BY Zenon DEF NoSign

\* A text without signs of its own but a minus in front is read as the number it
\* spells, or as what the machine makes of that, or refused.
LEMMA PlainTextMeansItsValue ==
  ASSUME NEW t, t.minus \in BOOLEAN,
         NEW w \in Seq(Digit), NEW f \in Seq(Digit), w # << >>, Len(f) <= Decimals,
         \/ t.parts = <<Part(NoSign, w)>> /\ f = << >>
         \/ t.parts = <<Part(NoSign, w), Part(NoSign, f)>>,
         NEW d \in Int, d = Number(w) * Scale + Number(f) * Power(Decimals - Len(f)),
         NEW v, v = IF t.minus THEN -d ELSE d
  PROVE  ParseFixed(t) \in {Rejected, Wrap(v)} /\ (v \in Machine => ParseFixed(t) = v)
<1>1. PICK s \in Nat, h \in Nat, e \in Nat :
          /\ s = Scale /\ h = Half /\ e = Decimals
          /\ s >= 2 /\ s <= h /\ e >= 1
  BY ScaleFits, WidthAssumption
<1>2. PICK m \in Nat : m = Len(f) /\ m <= e /\ e - m \in Nat
  BY <1>1
<1>3. PICK x \in Nat : x = Number(w)
  BY NumberInRange
<1>4. PICK g : g = f \o Zeros(e - m)
  OBVIOUS
<1>5. g \in Seq(Digit) /\ Len(g) = e
  <2>1. Zeros(e - m) \in Seq(Digit) /\ Len(Zeros(e - m)) = e - m
    <3>1. 0 \in Digit
      BY BaseIsNumber DEF Digit
    <3>2. QED
      BY <1>2, <3>1 DEF Zeros
  <2>2. QED
    BY <1>2, <1>4, <2>1, ConcatProperties
<1>6. PICK y \in Nat : y = Number(g) /\ y < s
  BY <1>1, <1>5, NumberInRange, ScaleFits
<1>7. d = x * s + y
  <2>1. f \in Seq(Int)
    BY DigitsAreIntegers
  <2>2. y = Number(f) * Power(e - m)
    BY <1>2, <1>4, <1>6, <2>1, PaddedNumber
  <2>3. QED
    BY <1>1, <1>2, <1>3, <2>2
<1>8. ParseInt(t.parts[1]) = IF x < h THEN x ELSE Rejected
  <2>1. t.parts[1] = Part(NoSign, w)
    OBVIOUS
  <2>2. Signed(t.parts[1]) = x /\ t.parts[1].digits # << >>
    BY <1>3, <2>1, NoSignIsNone DEF Signed, Part
  <2>3. x \in Machine <=> x < h
    BY <1>1 DEF Machine, Smallest
  <2>4. QED
    BY <2>2, <2>3 DEF ParseInt
<1>9. PICK fraction : fraction = IF Len(t.parts) = 2 THEN t.parts[2] ELSE Part(NoSign, << >>)
  OBVIOUS
<1>10. fraction = Part(NoSign, f) /\ Len(t.parts) <= 2
  <2>1. CASE t.parts = <<Part(NoSign, w)>> /\ f = << >>
    BY <1>9, <2>1
  <2>2. CASE t.parts = <<Part(NoSign, w), Part(NoSign, f)>>
    BY <1>9, <2>2
  <2>3. QED
    BY <2>1, <2>2
<1>11. PartLen(fraction) = m
  BY <1>2, <1>10 DEF PartLen, Part
<1>12. ParseInt(Filled(fraction)) = y
  <2>1. Filled(fraction) = Part(NoSign, g)
    <3>1. Filled(fraction) = [fraction EXCEPT !.digits = @ \o Zeros(e - m)]
      BY <1>1, <1>11 DEF Filled
    <3>2. fraction = [sign |-> NoSign, digits |-> f]
      BY <1>10 DEF Part
    <3>3. QED
      BY <1>4, <3>1, <3>2 DEF Part
  <2>2. g # << >>
    BY <1>1, <1>5
  <2>3. Signed(Filled(fraction)) = y /\ Filled(fraction).digits # << >>
    BY <1>6, <2>1, <2>2, NoSignIsNone DEF Signed, Part
  <2>4. y \in Machine
    BY <1>1, <1>6 DEF Machine, Smallest
  <2>5. QED
    BY <2>3, <2>4 DEF ParseInt
<1>13. Rejected \notin Int
  BY WidthAssumption
<1>14. x * s \in Int /\ x * s + y \in Int /\ -d \in Int
  OBVIOUS
<1>15. Wrap(Wrap(x * s) + y) = Wrap(d)
  <2>1. PICK a \in Int : a = x * s /\ d = a + y
    BY <1>7, <1>14
  <2>2. Wrap(Wrap(a) + y) = Wrap(a + y)
    BY WrapLater
  <2>3. QED
    BY <2>1, <2>2
<1>16. Wrap(-Wrap(d)) = Wrap(-d)
  BY WrapLater
<1>17. ParseFixed(t) = IF x < h THEN Wrap(v) ELSE Rejected
  <2>1. CASE x < h
    <3>1. ParseFixed(t) = IF t.minus THEN Wrap(-Wrap(Wrap(x * s) + y)) ELSE Wrap(Wrap(x * s) + y)
      BY <1>1, <1>2, <1>6, <1>8, <1>9, <1>10, <1>11, <1>12, <1>13, <2>1 DEF ParseFixed
    <3>2. QED
      BY <1>15, <1>16, <2>1, <3>1
  <2>2. CASE ~(x < h)
    BY <1>8, <2>2 DEF ParseFixed
  <2>3. QED
    BY <2>1, <2>2
<1>18. ASSUME v \in Machine PROVE x < h
  <2>1. -h <= v /\ v <= h - 1
    BY <1>1, <1>18 DEF Machine, Smallest
  <2>2. d <= h
    BY <1>14, <2>1
  <2>3. x * 2 <= x * s
    BY <1>1
  <2>4. x * 2 <= h
    BY <1>7, <1>14, <2>2, <2>3
  <2>5. QED
    BY <1>1, <2>4
<1>19. v \in Machine => Wrap(v) = v
  BY WrapLater
<1>20. QED
  BY <1>17, <1>18, <1>19

\* Every number but the smallest can be read back from the form it is written in.
LEMMA WrittenIsRead ==
  ASSUME NEW v \in Machine, v # Smallest
  PROVE  ParseFixed(String(v)) = v
<1>1. PICK s \in Nat \ {0}, h \in Nat, e \in Nat :
          /\ s = Scale /\ h = Half /\ e = Decimals /\ s = Power(e)
          /\ s <= h /\ e >= 1 /\ e <= h /\ 1 <= h
  BY ScaleFits, WidthAssumption
<1>2. v \in Int /\ -h < v /\ v < h
  BY <1>1 DEF Machine, Smallest
<1>3. PICK u \in Nat : u = (IF v < 0 THEN -v ELSE v) /\ u < h
  BY <1>2
<1>4. u = IF v < 0 THEN Wrap(-v) ELSE v
  <2>1. u \in Machine
    BY <1>1, <1>3 DEF Machine, Smallest
  <2>2. Wrap(u) = u
    BY <2>1, WrapLater
  <2>3. QED
    BY <1>3, <2>2
<1>5. PICK q \in Nat, r \in 0..(s - 1) : q = u \div s /\ r = u % s /\ u = q * s + r
  BY DivisionRemains
<1>6. q <= u
  <2>1. q <= q * s
    BY <1>1
  <2>2. QED
    BY <1>5, <2>1
<1>7. Quotient(u, s) = q /\ Remainder(u, s) = r
  <2>1. Quotient(u, s) = q
    BY <1>5 DEF Quotient
  <2>2. q * s = s * q /\ q * s \in Nat
    OBVIOUS
  <2>3. QED
    BY <1>5, <2>1, <2>2 DEF Remainder
<1>8. PICK w, f : w = DigitsOf(q, 1) /\ f = DigitsOf(r, e)
  OBVIOUS
<1>9. String(v) = [minus |-> v < 0, parts |-> <<Part(NoSign, w), Part(NoSign, f)>>]
  <2>1. Verb(q, 1) = Part(NoSign, w)
    BY <1>8 DEF Verb
  <2>2. Verb(r, e) = Part(NoSign, f)
    BY <1>8 DEF Verb
  <2>3. QED
    BY <1>1, <1>4, <1>7, <2>1, <2>2 DEF String, FractionOf
<1>10. q \in 0..Half /\ r \in 0..Half /\ 1 \in 1..Half /\ e \in 1..Half
  BY <1>1, <1>3, <1>5, <1>6
<1>11. /\ w \in Seq(Digit) /\ Len(w) >= 1 /\ Number(w) = q
       /\ f \in Seq(Digit) /\ Len(f) = NumDigits(r, e) /\ Number(f) = r
  BY <1>8, <1>10, DigitsSpell, EnoughDigits
<1>12. Len(f) = e
  <2>1. PICK l \in Nat : l = NumDigits(r, e) /\ l >= e /\ (l = e \/ r >= Power(l - 1))
    BY <1>10, EnoughDigits
  <2>2. ASSUME l # e PROVE FALSE
    <3>1. l - 1 \in Nat /\ e <= l - 1
      BY <2>1, <2>2
    <3>2. s <= Power(l - 1) /\ Power(l - 1) \in Nat
      BY <1>1, <3>1, PowersGrow, PowerSteps
    <3>3. QED
      BY <1>1, <1>5, <2>1, <2>2, <3>2
  <2>3. QED
    BY <1>11, <2>1, <2>2
<1>13. u = Number(w) * Scale + Number(f) * Power(Decimals - Len(f))
  <2>1. Decimals - Len(f) = 0 /\ r * 1 = r
    BY <1>1, <1>5, <1>12
  <2>2. QED
    BY <1>1, <1>5, <1>11, <2>1, PowerSteps
<1>14. PICK m \in BOOLEAN : m = (v < 0)
  <2>1. (v < 0) \in BOOLEAN
    BY <1>2
  <2>2. QED
    BY <2>1, Zenon
<1>15. PICK t : /\ t = String(v)
                /\ t = [minus |-> m, parts |-> <<Part(NoSign, w), Part(NoSign, f)>>]
  BY <1>9, <1>14, Zenon
<1>16. /\ t.minus \in BOOLEAN /\ (t.minus <=> m)
       /\ t.parts = <<Part(NoSign, w), Part(NoSign, f)>>
  <2>1. t.parts = <<Part(NoSign, w), Part(NoSign, f)>>
    BY <1>15
  <2>2. t.minus = m
    BY <1>15
  <2>3. QED
    BY <2>1, <2>2, Zenon
<1>17. v = IF t.minus THEN -u ELSE u
  <2>1. CASE v < 0
    <3>1. m
      BY <1>14, <2>1, Zenon
    <3>2. v = -u
      BY <1>2, <1>3, <2>1
    <3>3. QED
      BY <1>16, <3>1, <3>2, Zenon
  <2>2. CASE ~(v < 0)
    <3>1. ~m
      BY <1>14, <2>2, Zenon
    <3>2. v = u
      BY <1>2, <1>3, <2>2
    <3>3. QED
      BY <1>16, <3>1, <3>2, Zenon
  <2>3. QED
    BY <2>1, <2>2
<1>18. ParseFixed(t) = v
  <2>1. w # << >> /\ Len(f) <= Decimals
    BY <1>1, <1>11, <1>12
  <2>2. u \in Int /\ w \in Seq(Digit) /\ f \in Seq(Digit)
    BY <1>11
  <2>3. ParseFixed(t) \in {Rejected, Wrap(v)} /\ (v \in Machine => ParseFixed(t) = v)
    BY <1>13, <1>16, <1>17, <2>1, <2>2, PlainTextMeansItsValue
  <2>4. QED
    BY <2>3
<1>19. QED
  BY <1>15, <1>18

\* The smallest is its own negation; written, its fraction has a sign and no room
\* for it.
LEMMA SmallestIsRefused == ParseFixed(String(Smallest)) = Rejected
<1>1. PICK s \in Nat \ {0}, h \in Nat, e \in Nat :
          /\ s = Scale /\ h = Half /\ e = Decimals /\ s = Power(e)
          /\ s <= h /\ e >= 1 /\ e <= h /\ 1 <= h /\ h % s >= Power(e - 1)
  BY ScaleFits, WidthAssumption
<1>2. -h < 0 /\ Smallest = -h
  BY <1>1 DEF Smallest
<1>3. Wrap(-Smallest) = -h
  <2>1. h \in Int /\ -h \in Machine /\ h = (-h) + 2 * Half * 1 /\ -(-h) = h
    BY <1>1 DEF Machine, Smallest
  <2>2. Wrap(h) = -h
    BY <2>1, WrapIsUnique, 1 \in Int
  <2>3. QED
    BY <1>2, <2>1, <2>2
<1>4. PICK q \in Nat, n \in 0..(s - 1) : q = h \div s /\ n = h % s /\ h = q * s + n
  BY DivisionRemains
<1>5. Remainder(-h, s) = -n
  <2>1. Quotient(-h, s) = -q
    BY <1>2, <1>4 DEF Quotient
  <2>2. s * (-q) = -(q * s) /\ q * s \in Nat
    OBVIOUS
  <2>3. QED
    BY <1>4, <2>1, <2>2 DEF Remainder
<1>6. e - 1 \in Nat /\ Power(e - 1) \in Nat /\ Power(e - 1) >= 1 /\ n >= Power(e - 1) /\ n >= 1
  <2>1. e - 1 \in Nat
    BY <1>1
  <2>2. PICK p \in Nat \ {0} : p = Power(e - 1)
    BY <2>1, PowerSteps
  <2>3. h % s >= Power(e - 1)
    BY <1>1
  <2>4. QED
    BY <1>4, <2>1, <2>2, <2>3
<1>7. PICK k \in 1..h : k = IF e > 1 THEN e - 1 ELSE e
  BY <1>1
<1>8. PICK f : f = DigitsOf(n, k)
  OBVIOUS
<1>9. FractionOf(-h) = Part("-", f)
  <2>1. -n < 0 /\ -(-n) = n
    BY <1>6
  <2>2. Verb(-n, e) = Part("-", f)
    BY <1>7, <1>8, <2>1 DEF Verb
  <2>3. QED
    BY <1>1, <1>5, <2>2 DEF FractionOf
<1>10. n \in 0..Half /\ k \in 1..Half
  BY <1>1, <1>4, <1>7
<1>11. PICK l \in Nat : l = Len(f) /\ l >= k /\ n < Power(l)
  BY <1>8, <1>10, DigitsSpell, EnoughDigits
<1>12. l >= e
  <2>1. ASSUME ~(l >= e) PROVE FALSE
    <3>1. l <= e - 1
      BY <2>1
    <3>2. Power(l) <= Power(e - 1) /\ Power(l) \in Nat
      BY <1>6, <3>1, PowersGrow, PowerSteps
    <3>3. QED
      BY <1>4, <1>6, <1>11, <3>2
  <2>2. QED
    BY <2>1
<1>13. PICK x, t : t = String(Smallest) /\ t.parts = <<x, Part("-", f)>>
  <2> DEFINE a == IF Smallest < 0 THEN Wrap(-Smallest) ELSE Smallest
  <2>1. FractionOf(a) = Part("-", f)
    <3>1. a = -h
      BY <1>2, <1>3
    <3>2. QED
      BY <1>9, <3>1
  <2>2. String(Smallest) =
          [minus |-> Smallest < 0, parts |-> <<Verb(Quotient(a, Scale), 1), FractionOf(a)>>]
    BY DEF String
  <2>3. String(Smallest).parts = <<Verb(Quotient(a, Scale), 1), FractionOf(a)>>
    BY <2>2
  <2>4. QED
    BY <2>1, <2>3
<1>14. PartLen(Part("-", f)) = l + 1
  BY <1>11, NoSignIsNone DEF PartLen, Part
<1>15. ParseFixed(t) = Rejected
  <2>1. Len(t.parts) = 2 /\ t.parts[2] = Part("-", f)
    BY <1>13
  <2>2. PartLen(t.parts[2]) > Decimals
    BY <1>1, <1>12, <1>14, <2>1
  <2>3. QED
    BY <2>1, <2>2 DEF ParseFixed
<1>16. QED
  BY <1>13, <1>15

\* The parts of the texts of the runs.
LEMMA RunTexts ==
  ASSUME NEW t \in Texts, Plain(t)
  PROVE  /\ t.minus \in BOOLEAN
         /\ \E w, f \in Seq(Digit) :
              /\ w # << >> /\ Len(f) <= Decimals
              /\ \/ t.parts = <<Part(NoSign, w)>> /\ f = << >>
                 \/ t.parts = <<Part(NoSign, w), Part(NoSign, f)>>
              /\ LET d == Number(w) * Scale + Number(f) * Power(Decimals - Len(f))
                 IN  d \in Int /\ Denoted(t) = IF t.minus THEN -d ELSE d
<1>1. ASSUME NEW n \in Nat, NEW w \in DigitStrings(n) PROVE w \in Seq(Digit)
  <2>1. PICK k \in 0..n : w \in [1..k -> Digit]
    BY DEF DigitStrings
  <2>2. k \in Nat
    OBVIOUS
  <2>3. QED
    BY <2>1, <2>2
<1>2. Decimals + 1 \in Nat /\ MaxDigits \in Nat /\ Decimals \in Nat
  BY WidthAssumption, MaxDigitsAssumption
<1>3. ASSUME NEW p \in Wholes \cup Fractions, p.sign = NoSign
      PROVE  p = Part(NoSign, p.digits) /\ p.digits \in Seq(Digit)
  <2>1. PICK g, w : p = Part(g, w) /\ w \in DigitStrings(MaxDigits) \cup DigitStrings(Decimals + 1)
    BY DEF Wholes, Fractions
  <2>2. p.sign = g /\ p.digits = w
    BY <2>1 DEF Part
  <2>3. QED
    BY <1>1, <1>2, <1>3, <2>1, <2>2
<1>4. t.minus \in BOOLEAN /\ t.parts \in PartLists
  BY DEF Texts
<1>5. PICK ps : ps = t.parts
  OBVIOUS
<1>6. CASE ps \in {<<w>> : w \in Wholes}
  <2>1. PICK p \in Wholes : ps = <<p>>
    BY <1>6
  <2>2. p.sign = NoSign /\ p.digits # << >>
    BY <1>5, <2>1 DEF Plain
  <2>3. PICK w \in Seq(Digit) : p = Part(NoSign, w) /\ w = p.digits
    BY <1>3, <2>2
  <2>4. PICK a \in Nat : a = Number(w) * Scale
    BY NumberInRange, ScaleFits
  <2>5. Denoted(t) = IF t.minus THEN -a ELSE a
    BY <1>5, <2>1, <2>3, <2>4 DEF Denoted
  <2>6. PICK z \in Seq(Digit) : z = << >> /\ Len(z) = 0
    <3>1. << >> \in Seq(Digit) /\ Len(<< >>) = 0
      OBVIOUS
    <3>2. QED
      BY <3>1
  <2>7. Number(z) * Power(Decimals - Len(z)) = 0
    <3>1. PICK b \in Nat : b = Power(Decimals)
      BY <1>2, PowerSteps
    <3>2. Decimals - Len(z) = Decimals /\ Number(z) = 0 /\ 0 * b = 0
      BY <1>2, <2>6, EmptyNumber
    <3>3. QED
      BY <3>1, <3>2
  <2>8. PICK d \in Int : d = Number(w) * Scale + Number(z) * Power(Decimals - Len(z)) /\ d = a
    BY <2>4, <2>7
  <2>9. /\ w # << >> /\ Len(z) <= Decimals
        /\ t.parts = <<Part(NoSign, w)>> /\ z = << >>
    BY <1>2, <1>5, <2>1, <2>2, <2>3, <2>6
  <2>10. QED
    BY <1>4, <2>5, <2>8, <2>9
<1>7. CASE ps \in Wholes \X Fractions
  <2>1. PICK p \in Wholes, x \in Fractions : ps = <<p, x>>
    BY <1>7
  <2>2. /\ p.sign = NoSign /\ p.digits # << >> /\ x.sign = NoSign
        /\ PartLen(x) <= Decimals
    BY <1>5, <2>1 DEF Plain
  <2>3. PICK w \in Seq(Digit), z \in Seq(Digit) :
            p = Part(NoSign, w) /\ w = p.digits /\ x = Part(NoSign, z) /\ z = x.digits
    BY <1>3, <2>2
  <2>4. Len(z) <= Decimals /\ Decimals - Len(z) \in Nat
    <3>1. PartLen(x) = Len(z) + 0 /\ Len(z) \in Nat
      BY <2>2, <2>3 DEF PartLen
    <3>2. QED
      BY <1>2, <2>2, <3>1
  <2>5. PICK a \in Nat, b \in Nat :
            a = Number(w) * Scale /\ b = Number(z) * Power(Decimals - Len(z))
    <3>1. PICK i \in Nat, j \in Nat : i = Number(w) /\ j = Scale
      BY NumberInRange, ScaleFits
    <3>2. PICK k \in Nat, l \in Nat : k = Number(z) /\ l = Power(Decimals - Len(z))
      BY <2>4, NumberInRange, PowerSteps
    <3>3. i * j \in Nat /\ k * l \in Nat
      OBVIOUS
    <3>4. QED
      BY <3>1, <3>2, <3>3
  <2>6. Denoted(t) = IF t.minus THEN -(a + b) ELSE a + b
    BY <1>5, <2>1, <2>3, <2>5 DEF Denoted
  <2>7. PICK d \in Int : d = Number(w) * Scale + Number(z) * Power(Decimals - Len(z)) /\ d = a + b
    BY <2>5
  <2>8. w # << >> /\ t.parts = <<Part(NoSign, w), Part(NoSign, z)>>
    BY <1>5, <2>1, <2>2, <2>3
  <2>9. QED
    BY <1>4, <2>4, <2>6, <2>7, <2>8
<1>8. CASE ps \in {<<w, Part(NoSign, << >>), Part(NoSign, << >>)>> : w \in Wholes}
  <2>1. Len(t.parts) = 3
    BY <1>5, <1>8
  <2>2. QED
    BY <2>1 DEF Plain
<1>9. QED
  BY <1>4, <1>5, <1>6, <1>7, <1>8 DEF PartLists

\* A number that is accepted is a machine integer.
LEMMA ParsedIsMachine ==
  ASSUME NEW t, ParseFixed(t) # Rejected
  PROVE  ParseFixed(t) \in Machine /\ ParseFixed(t) \in Int
<1>1. ASSUME NEW n \in Int PROVE Wrap(n) \in Machine /\ Wrap(n) \in Int
  BY Wrapping
<1>2. ASSUME NEW p, ParseInt(p) # Rejected PROVE ParseInt(p) \in Int
  BY <1>2, WidthAssumption DEF ParseInt, Machine, Smallest
<1>3. PICK part : part = IF Len(t.parts) = 2 THEN t.parts[2] ELSE Part(NoSign, << >>)
  OBVIOUS
<1>4. PICK whole : whole = ParseInt(t.parts[1])
  OBVIOUS
<1>5. PICK fv : fv = ParseInt(Filled(part))
  OBVIOUS
<1>6. PICK v : v = Wrap(Wrap(whole * Scale) + fv)
  OBVIOUS
<1>7. /\ whole # Rejected /\ fv # Rejected
      /\ ParseFixed(t) = IF t.minus THEN Wrap(-v) ELSE v
  BY <1>3, <1>4, <1>5, <1>6 DEF ParseFixed
<1>8. whole \in Int /\ fv \in Int /\ Scale \in Int
  BY <1>2, <1>4, <1>5, <1>7, ScaleFits
<1>9. Wrap(whole * Scale) \in Int
  <2>1. whole * Scale \in Int
    BY <1>8
  <2>2. QED
    BY <1>1, <2>1
<1>10. v \in Machine /\ v \in Int
  <2>1. Wrap(whole * Scale) + fv \in Int
    BY <1>8, <1>9
  <2>2. QED
    BY <1>1, <1>6, <2>1
<1>11. Wrap(-v) \in Machine /\ Wrap(-v) \in Int
  <2>1. -v \in Int
    BY <1>10
  <2>2. QED
    BY <1>1, <2>1
<1>12. QED
  BY <1>7, <1>10, <1>11

\* An exact division is the inverse of a multiplication.
LEMMA ExactDivision ==
  ASSUME NEW v \in Int, NEW d \in Nat \ {0}, NEW q \in Int
  PROVE  DivideExact(v, d) = q <=> v = d * q
<1>1. (Remainder(v, d) = 0 /\ Quotient(v, d) = q) <=> v = d * q
  <2>1. CASE v >= 0 /\ v = d * q
    BY <2>1, (d * q) \div d = q, SMT DEF Remainder, Quotient
  <2>2. CASE v >= 0 /\ v # d * q
    BY <2>2, SMT DEF Remainder, Quotient
  <2>3. CASE v < 0 /\ v = d * q
    BY <2>3, (d * (-q)) \div d = -q, -(d * q) = d * (-q), SMT DEF Remainder, Quotient
  <2>4. CASE v < 0 /\ v # d * q
    BY <2>4, SMT DEF Remainder, Quotient
  <2>5. QED
    BY <2>1, <2>2, <2>3, <2>4
<1>2. Rejected # q
  BY WidthAssumption
<1>3. QED
  BY <1>1, <1>2 DEF DivideExact

\* A measurement is accepted in the units of its kind only.
LEMMA AcceptedUnit ==
  ASSUME NEW type \in {"TENSILE", "IMPACT", "HARDNESS"}, NEW unit, NEW v,
         NormalizeMeasurement(type, v, unit) # Rejected
  PROVE  unit \in UnitsOf[type]
<1>1. CASE type = "TENSILE"
  BY <1>1 DEF NormalizeMeasurement, Standard, UnitsOf
<1>2. CASE type = "IMPACT"
  BY <1>2 DEF NormalizeMeasurement, Standard, UnitsOf
<1>3. CASE type = "HARDNESS"
  BY <1>3 DEF NormalizeMeasurement, Standard, UnitsOf
<1>4. QED
  BY <1>1, <1>2, <1>3

\* The quantity that one of the standard unit of a test is.
One(type) ==
    CASE type = "TENSILE" -> Kilo * Kilo [] type = "IMPACT" -> Kilo [] OTHER -> 1

\* In any unit of its kind, a result stands for the quantity that was measured.
LEMMA ResultIsQuantity ==
  ASSUME NEW type \in {"TENSILE", "IMPACT", "HARDNESS"}, NEW unit \in UnitsOf[type],
         NEW v \in Int, Fits(v, unit), NEW q \in Int
  PROVE  NormalizeMeasurement(type, v, unit) = q <=> Quantity(v, unit) = q * One(type)
<1>1. PICK k \in Nat \ {0} : k = Kilo
  BY WidthAssumption
<1>2. CASE type = "TENSILE"
  <2>1. CASE unit = "MPa"
    <3>1. NormalizeMeasurement(type, v, unit) = v /\ Quantity(v, unit) = v * k * k /\ One(type) = k * k
      BY <1>1, <1>2, <2>1 DEF NormalizeMeasurement, Standard, Quantity, One
    <3>2. v = q <=> v * k * k = q * (k * k)
      OBVIOUS
    <3>3. QED
      BY <3>1, <3>2
  <2>2. CASE unit = "kPa"
    <3>1. /\ NormalizeMeasurement(type, v, unit) = DivideExact(v, k)
          /\ Quantity(v, unit) = v * k /\ One(type) = k * k
      BY <1>1, <1>2, <2>2 DEF NormalizeMeasurement, Standard, Quantity, One
    <3>2. v = k * q <=> v * k = q * (k * k)
      OBVIOUS
    <3>3. QED
      BY <3>1, <3>2, ExactDivision
  <2>3. CASE unit = "Pa"
    <3>1. /\ NormalizeMeasurement(type, v, unit) = DivideExact(v, k * k)
          /\ Quantity(v, unit) = v /\ One(type) = k * k
      BY <1>1, <1>2, <2>3 DEF NormalizeMeasurement, Standard, Quantity, One
    <3>2. k * k \in Nat \ {0} /\ (v = (k * k) * q <=> v = q * (k * k))
      OBVIOUS
    <3>3. QED
      BY <3>1, <3>2, ExactDivision
  <2>4. QED
    BY <1>2, <2>1, <2>2, <2>3 DEF UnitsOf
<1>3. CASE type = "IMPACT"
  <2>1. CASE unit = "J"
    <3>1. NormalizeMeasurement(type, v, unit) = v /\ Quantity(v, unit) = v * k /\ One(type) = k
      BY <1>1, <1>3, <2>1 DEF NormalizeMeasurement, Standard, Quantity, One
    <3>2. v = q <=> v * k = q * k
      OBVIOUS
    <3>3. QED
      BY <3>1, <3>2
  <2>2. CASE unit = "kJ"
    <3>1. /\ NormalizeMeasurement(type, v, unit) = Wrap(v * k)
          /\ Quantity(v, unit) = v * k * k /\ One(type) = k /\ v * k \in Machine
      BY <1>1, <1>3, <2>2 DEF NormalizeMeasurement, Standard, Quantity, One, Fits
    <3>2. Wrap(v * k) = v * k
      <4>1. PICK h \in Nat \ {0} : h = Half
        BY WidthAssumption
      <4>2. PICK n \in Int : n = v * k
        OBVIOUS
      <4>3. -h <= n /\ n <= h - 1
        BY <3>1, <4>1, <4>2 DEF Machine, Smallest
      <4>4. (n + h) % (2 * h) = n + h
        BY <4>3
      <4>5. QED
        BY <4>1, <4>2, <4>4 DEF Wrap
    <3>3. v * k = q <=> v * k * k = q * k
      OBVIOUS
    <3>4. QED
      BY <3>1, <3>2, <3>3
  <2>3. QED
    BY <1>3, <2>1, <2>2 DEF UnitsOf
<1>4. CASE type = "HARDNESS"
  <2>1. unit = "HV"
    BY <1>4 DEF UnitsOf
  <2>2. NormalizeMeasurement(type, v, unit) = v /\ Quantity(v, unit) = v /\ One(type) = 1
    BY <1>4, <2>1 DEF NormalizeMeasurement, Standard, Quantity, One
  <2>3. QED
    BY <2>2
<1>5. QED
  BY <1>2, <1>3, <1>4
\* An accepted measurement is a number.
LEMMA ResultIsNumber ==
  ASSUME NEW type \in {"TENSILE", "IMPACT", "HARDNESS"}, NEW unit, NEW v \in Int,
         NormalizeMeasurement(type, v, unit) # Rejected
  PROVE  NormalizeMeasurement(type, v, unit) \in Int
<1>1. PICK k \in Nat \ {0} : k = Kilo
  BY WidthAssumption
<1>2. ASSUME NEW d \in Nat \ {0}, DivideExact(v, d) # Rejected PROVE DivideExact(v, d) \in Int
  BY <1>2 DEF DivideExact, Quotient
<1>3. Wrap(v * k) \in Int
  <2>1. PICK h \in Nat \ {0} : h = Half
    BY WidthAssumption
  <2>2. PICK n \in Int : n = v * k
    OBVIOUS
  <2>3. (n + h) % (2 * h) \in 0..(2 * h - 1)
    OBVIOUS
  <2>4. ((n + h) % (2 * h)) - h \in Int
    BY <2>3
  <2>5. QED
    BY <2>1, <2>2, <2>4 DEF Wrap
<1>4. k * k \in Nat \ {0}
  OBVIOUS
<1>5. NormalizeMeasurement(type, v, unit)
          \in {v, DivideExact(v, k), DivideExact(v, k * k), Wrap(v * k), Rejected}
  BY <1>1 DEF NormalizeMeasurement
<1>6. QED
  BY <1>2, <1>3, <1>4, <1>5

-----------------------------------------------------------------------------
(* The runs.                                                               *)

\* A rule set that was accepted, the sources' coverage, a text of the runs, and a
\* result that is that of the text.
FunctionsInvariant ==
    /\ rule \in RuleSets /\ ValidateRuleSet(rule, {"base_materials", "thickness"})
    /\ sources \in Seq(Welds)
    /\ sources # << >> => coverage = RevisionCoverage(rule, sources)
    /\ evidence \in Seq(Evidence)
    /\ case = "numbers" => text \in Texts
    /\ measured # NoMeasurement =>
          /\ measured.type \in {"TENSILE", "IMPACT", "HARDNESS"}
          /\ ParseFixed(text) # Rejected
          /\ measured.value = NormalizeMeasurement(measured.type, ParseFixed(text), measured.unit)

\* The invariant holds before anything is computed, and every step keeps it.
LEMMA InitHolds == Init => FunctionsInvariant
<1>. SUFFICES ASSUME Init PROVE FunctionsInvariant
  OBVIOUS
<1>1. rule \in RuleSets /\ ValidateRuleSet(rule, {"base_materials", "thickness"})
  BY DEF Init
<1>2. sources = << >> /\ evidence = << >> /\ measured = NoMeasurement
  BY DEF Init
<1>3. sources \in Seq(Welds) /\ evidence \in Seq(Evidence)
  BY <1>2
<1>4. case = "numbers" => text \in Texts
  BY DEF Init
<1>5. QED
  BY <1>1, <1>2, <1>3, <1>4 DEF FunctionsInvariant

LEMMA StepKeeps == FunctionsInvariant /\ [Next]_vars => FunctionsInvariant'
<1>. SUFFICES ASSUME FunctionsInvariant, [Next]_vars PROVE FunctionsInvariant'
  OBVIOUS
<1>1. CASE AddSource
  <2>1. PICK w \in Welds : sources' = Append(sources, w)
    BY <1>1 DEF AddSource
  <2>2. /\ coverage' = RevisionCoverage(rule, sources')
        /\ UNCHANGED <<case, rule, evidence, text, measured>>
    BY <1>1 DEF AddSource
  <2>3. sources' \in Seq(Welds)
    BY <2>1 DEF FunctionsInvariant
  <2>4. coverage' = RevisionCoverage(rule', sources')
    BY <2>2
  <2>5. QED
    BY <2>2, <2>3, <2>4 DEF FunctionsInvariant
<1>2. CASE AddEvidence
  <2>1. PICK e \in Evidence : evidence' = Append(evidence, e)
    BY <1>2 DEF AddEvidence
  <2>2. UNCHANGED <<case, rule, sources, coverage, text, measured>>
    BY <1>2 DEF AddEvidence
  <2>3. evidence' \in Seq(Evidence)
    BY <2>1 DEF FunctionsInvariant
  <2>4. QED
    BY <2>2, <2>3 DEF FunctionsInvariant
<1>3. CASE Measure
  <2>1. PICK type \in {"TENSILE", "IMPACT", "HARDNESS"}, unit \in Units :
            measured' = [type |-> type, unit |-> unit,
                         value |-> NormalizeMeasurement(type, ParseFixed(text), unit)]
    BY <1>3 DEF Measure
  <2>2. ParseFixed(text) # Rejected /\ UNCHANGED <<case, rule, sources, coverage, evidence, text>>
    BY <1>3 DEF Measure
  <2>3. /\ measured'.type = type /\ measured'.unit = unit
        /\ measured'.value = NormalizeMeasurement(type, ParseFixed(text), unit)
    BY <2>1
  <2>4. QED
    BY <2>2, <2>3 DEF FunctionsInvariant
<1>4. CASE ReadList
  BY <1>4 DEF ReadList, FunctionsInvariant
<1>5. CASE UNCHANGED vars
  BY <1>5 DEF vars, FunctionsInvariant
<1>6. QED
  BY <1>1, <1>2, <1>3, <1>4, <1>5 DEF Next

\* What the functions have computed is what they compute from what has come in so
\* far (IntersectCoverage over all sources, AddEvidence, NormalizeMeasurement).
THEOREM InvariantHolds == Spec => []FunctionsInvariant
  BY InitHolds, StepKeeps, PTL DEF Spec

\* Within one service, no change that nothing blocks takes a weld out of the range
\* it was in by more than a condition (engine.go, Compare and Assess), whatever the
\* sources of the range.
THEOREM UnblockedChangesStay == Spec => []UnblockedChangeStaysInRange
<1>1. FunctionsInvariant => UnblockedChangeStaysInRange
  BY UnblockedChange DEF FunctionsInvariant, UnblockedChangeStaysInRange
<1>2. QED
  BY <1>1, InvariantHolds, PTL

\* The weld chosen for a service is of that service.
LEMMA SomeWeldServes ==
  ASSUME NEW service \in Services
  PROVE  SomeWeld(service)["service"] = service
<1>. DEFINE v == [n \in {"base_materials", "process", "thickness", "service"} |->
                    CASE n = "base_materials" -> <<1, 1>> [] n = "process" -> 1
                      [] n = "thickness" -> 2 [] n = "service" -> service]
<1>1. v["service"] = service
  OBVIOUS
<1>2. v \in Welds
  <2>1. <<1, 1>> \in {<<1, 1>>, <<1, 2>>} /\ 1 \in 1..2 /\ 2 \in {2, 3}
    OBVIOUS
  <2>2. QED
    BY <2>1, SMT DEF Welds
<1>3. QED
  BY <1>1, <1>2 DEF SomeWeld

\* A qualification that passes has been tested on evidence in force, and what has
\* expired does not count (engine.go, EvaluateQualification).
THEOREM QualifiedOnTests == Spec => []QualifiedIsTested
<1>1. FunctionsInvariant => QualifiedIsTested
  <2>. SUFFICES ASSUME FunctionsInvariant, NEW service \in Services, NEW w, w = SomeWeld(service)
                PROVE  /\ EvaluateQualification(rule, w, evidence, Now) =>
                            \A t \in rule.tests :
                                ConditionApplies(t.when, service) =>
                                    \E i \in DOMAIN evidence :
                                        /\ Active(evidence[i], Now) /\ evidence[i].type = t.type
                                        /\ Meets(evidence[i], t)
                       /\ \A i \in DOMAIN evidence :
                            ~Active(evidence[i], Now) =>
                                (EvaluateQualification(rule, w, RemoveAt(evidence, i), Now)
                                    <=> EvaluateQualification(rule, w, evidence, Now))
    BY DEF QualifiedIsTested
  <2>1. w["service"] = service
    BY SomeWeldServes
  <2>2. ASSUME EvaluateQualification(rule, w, evidence, Now), NEW t \in rule.tests,
               ConditionApplies(t.when, service)
        PROVE  \E i \in DOMAIN evidence :
                  /\ Active(evidence[i], Now) /\ evidence[i].type = t.type
                  /\ Meets(evidence[i], t)
    BY <2>1, <2>2 DEF EvaluateQualification, Deciding, Considered
  <2>3. evidence \in Seq(Evidence)
    BY DEF FunctionsInvariant
  <2>4. QED
    BY <2>2, <2>3, ExpiredEvidence
<1>2. QED
  BY <1>1, InvariantHolds, PTL

\* Evidence once enough is enough (service.go, AddEvidence): no report that comes
\* later fails a qualification that the reports before it pass.
THEOREM LaterEvidenceIsHarmless == Spec => LaterEvidenceCannotUndo
<1>. DEFINE Keeps == \A service \in Services :
          EvaluateQualification(rule, SomeWeld(service), evidence, Now)
              => EvaluateQualification(rule, SomeWeld(service), evidence', Now)
<1>1. FunctionsInvariant /\ [Next]_vars => [Keeps]_vars
  <2>. SUFFICES ASSUME FunctionsInvariant, [Next]_vars PROVE Keeps \/ UNCHANGED vars
    OBVIOUS
  <2>1. CASE AddEvidence
    <3>1. PICK e \in Evidence : evidence' = Append(evidence, e)
      BY <2>1 DEF AddEvidence
    <3>2. evidence \in Seq(Evidence)
      BY DEF FunctionsInvariant
    <3>3. QED
      BY <3>1, <3>2, LaterEvidence
  <2>2. CASE ~AddEvidence
    <3>1. evidence' = evidence \/ UNCHANGED vars
      BY <2>2 DEF Next, AddSource, Measure, ReadList
    <3>2. QED
      BY <3>1
  <2>3. QED
    BY <2>1, <2>2
<1>2. QED
  BY <1>1, InvariantHolds, PTL DEF Spec, LaterEvidenceCannotUndo

\* A plain decimal text is read as the number it spells when that is a number of
\* the machine, and as what it wraps around to, or not at all, when it is not
\* (types.go, ParseFixed): for texts of any length and machines of any width.
THEOREM TextsMeanTheirValues == Spec => []TextMeansItsValue
<1>1. FunctionsInvariant => TextMeansItsValue
  <2>. SUFFICES ASSUME text \in Texts, Plain(text)
                PROVE  /\ ParseFixed(text) \in {Rejected, Wrap(Denoted(text))}
                       /\ Denoted(text) \in Machine => ParseFixed(text) = Denoted(text)
    BY DEF FunctionsInvariant, TextMeansItsValue
  <2>1. PICK w, f \in Seq(Digit) :
            /\ w # << >> /\ Len(f) <= Decimals
            /\ \/ text.parts = <<Part(NoSign, w)>> /\ f = << >>
               \/ text.parts = <<Part(NoSign, w), Part(NoSign, f)>>
            /\ LET d == Number(w) * Scale + Number(f) * Power(Decimals - Len(f))
               IN  d \in Int /\ Denoted(text) = IF text.minus THEN -d ELSE d
    BY RunTexts
  <2>2. PICK d \in Int : /\ d = Number(w) * Scale + Number(f) * Power(Decimals - Len(f))
                         /\ Denoted(text) = IF text.minus THEN -d ELSE d
    BY <2>1
  <2>3. text.minus \in BOOLEAN
    BY DEF Texts
  <2>4. QED
    BY <2>1, <2>2, <2>3, PlainTextMeansItsValue
<1>2. QED
  BY <1>1, InvariantHolds, PTL

\* What is written of an accepted number is read back as the same number, unless
\* it is the smallest, whose written form is refused (types.go, Fixed.String and
\* ParseFixed).
THEOREM NumbersReadBack == Spec => []WrittenReadsBack
<1>1. WrittenReadsBack
  <2>. SUFFICES ASSUME NEW v, v = ParseFixed(text), v # Rejected
                PROVE  (ParseFixed(String(v)) = v) <=> (v # Smallest)
    BY DEF WrittenReadsBack
  <2>1. v \in Machine
    BY ParsedIsMachine
  <2>2. CASE v # Smallest
    BY <2>1, <2>2, WrittenIsRead
  <2>3. CASE v = Smallest
    BY <2>3, SmallestIsRefused
  <2>4. QED
    BY <2>2, <2>3
<1>2. QED
  BY <1>1, PTL

\* The same quantity in another unit is the same request (units.go,
\* NormalizeMeasurement), for integers of any width and any number of decimals.
THEOREM SameQuantitiesAgree == Spec => []SameQuantitySameResult
<1>1. FunctionsInvariant => SameQuantitySameResult
  <2>. SUFFICES ASSUME FunctionsInvariant, measured # NoMeasurement, measured.value # Rejected,
                       NEW given, given = ParseFixed(text),
                       NEW u \in UnitsOf[measured.type], NEW v \in Machine,
                       Fits(given, measured.unit), Fits(v, u)
                PROVE  NormalizeMeasurement(measured.type, v, u) = measured.value
                           <=> Quantity(v, u) = Quantity(given, measured.unit)
    BY DEF SameQuantitySameResult
  <2>1. PICK type \in {"TENSILE", "IMPACT", "HARDNESS"} : type = measured.type
    BY DEF FunctionsInvariant
  <2>2. PICK q : q = measured.value
    OBVIOUS
  <2>3. PICK unit : unit = measured.unit
    OBVIOUS
  <2>4. /\ given # Rejected /\ q # Rejected /\ q = NormalizeMeasurement(type, given, unit)
        /\ u \in UnitsOf[type] /\ Fits(given, unit)
    BY <2>1, <2>2, <2>3 DEF FunctionsInvariant
  <2>5. given \in Int /\ v \in Int
    BY <2>4, ParsedIsMachine, WidthAssumption DEF Machine, Smallest
  <2>6. unit \in UnitsOf[type] /\ q \in Int
    BY <2>4, <2>5, AcceptedUnit, ResultIsNumber
  <2>7. Quantity(given, unit) = q * One(type)
    BY <2>4, <2>5, <2>6, ResultIsQuantity
  <2>8. NormalizeMeasurement(type, v, u) = q <=> Quantity(v, u) = q * One(type)
    BY <2>4, <2>5, <2>6, ResultIsQuantity
  <2>9. QED
    BY <2>1, <2>2, <2>3, <2>7, <2>8
<1>2. QED
  BY <1>1, InvariantHolds, PTL

\* The rules of the runs are such rules, and their welds such welds.
LEMMA RunRulesFit ==
  ASSUME NEW r \in RuleSets
  PROVE  RuleFits(r) /\ DOMAIN r.variables = {"base_materials", "process", "thickness"}
<1>1. PICK b \in Materials, p \in Process, t \in Thickness :
          r.variables = [n \in {"base_materials", "process", "thickness"} |->
              CASE n = "base_materials" -> b [] n = "process" -> p [] n = "thickness" -> t]
  BY DEF RuleSets
<1>2. b.values = {1, 2} /\ b.numeric = NoInterval /\ p.values = {1, 2} /\ p.numeric = NoInterval
  BY DEF Materials, Process
<1>3. t.values = {} /\ t.numeric = [min |-> 1, max |-> 2, unit |-> "MM"]
  BY DEF Thickness
<1>4. IsFiniteSet({}) /\ IsFiniteSet({1, 2})
  <2>1. IsFiniteSet({1}) /\ IsFiniteSet({2})
    BY FS_Singleton
  <2>2. IsFiniteSet({1} \cup {2}) /\ {1, 2} = {1} \cup {2}
    BY <2>1, FS_Union
  <2>3. QED
    BY <2>2, FS_EmptySet
<1>5. DOMAIN r.variables = {"base_materials", "process", "thickness"}
  BY <1>1
<1>6. /\ r.variables["base_materials"] = b /\ r.variables["process"] = p
      /\ r.variables["thickness"] = t
  BY <1>1
<1>7. ASSUME NEW n \in DOMAIN r.variables
      PROVE  LET v == r.variables[n]
             IN  /\ v.values \in SUBSET Int /\ IsFiniteSet(v.values)
                 /\ v.numeric # NoInterval =>
                       /\ v.numeric = [min |-> v.numeric.min, max |-> v.numeric.max, unit |-> v.numeric.unit]
                       /\ v.numeric.min \in Int /\ v.numeric.max \in Int
  <2>1. CASE n = "thickness"
    <3>1. r.variables[n] = t
      BY <1>6, <2>1
    <3>2. t.numeric.min = 1 /\ t.numeric.max = 2 /\ t.numeric.unit = "MM"
      BY <1>3
    <3>3. QED
      BY <1>3, <1>4, <3>1, <3>2
  <2>2. CASE n # "thickness"
    <3>1. r.variables[n] = b \/ r.variables[n] = p
      BY <1>5, <1>6, <2>2
    <3>2. {1, 2} \in SUBSET Int
      OBVIOUS
    <3>3. QED
      BY <1>2, <1>4, <3>1, <3>2
  <2>3. QED
    BY <2>1, <2>2
<1>8. QED
  BY <1>5, <1>7 DEF RuleFits

\* The materials of the runs' welds are in order.
LEMMA RunWeldsFit ==
  ASSUME NEW w \in Welds
  PROVE  SortedPair(w["base_materials"])
<1>1. w["base_materials"] \in {<<1, 1>>, <<1, 2>>}
  BY DEF Welds
<1>2. SortedPair(<<1, 1>>) /\ SortedPair(<<1, 2>>)
  BY DEF SortedPair
<1>3. QED
  BY <1>1, <1>2

\* A weld that is found applicable is one that every source warrants by itself
\* (engine.go, IntersectCoverage and Assess), for any number of sources.
THEOREM ApplicableWeldsAreWarranted == Spec => []ApplicableIsWarranted
<1>1. FunctionsInvariant => ApplicableIsWarranted
  <2>. SUFFICES ASSUME FunctionsInvariant, sources # << >>, NEW w \in Welds,
                       Assess(coverage, w, rule) = "APPLICABLE"
                PROVE  Warranted(w)
    BY DEF ApplicableIsWarranted
  <2>1. /\ RuleFits(rule)
        /\ DOMAIN rule.variables \subseteq {"base_materials"} \cup Discrete \cup Numeric
    <3>1. RuleFits(rule) /\ DOMAIN rule.variables = {"base_materials", "process", "thickness"}
      BY RunRulesFit DEF FunctionsInvariant
    <3>2. "process" \in Discrete /\ "thickness" \in Numeric
      BY DEF Discrete, Numeric
    <3>3. QED
      BY <3>1, <3>2
  <2>2. sources \in Seq(Welds) /\ coverage = RevisionCoverage(rule, sources)
    BY DEF FunctionsInvariant
  <2>3. ASSUME NEW n \in Applying(rule, w), NEW i \in DOMAIN sources
        PROVE  /\ Permitted(rule.variables[n], n, w[n])
               /\ n \in Applying(rule, sources[i])
               /\ Permitted(rule.variables[n], n, sources[i][n])
               /\ n \in Numeric \/ sources[i][n] = w[n]
    BY <2>1, <2>2, ApplicableWeld, RunWeldsFit
  <2>4. 1 \in DOMAIN sources
    <3>1. Len(sources) \in Nat \ {0} /\ DOMAIN sources = 1..Len(sources)
      BY <2>2
    <3>2. QED
      BY <3>1
  <2>5. QED
    BY <2>3, <2>4 DEF Warranted
<1>2. QED
  BY <1>1, InvariantHolds, PTL

\* The range of a revision does not depend on the order of its sources, which is
\* that of their random identifiers (service.go, DeriveCoverage).
THEOREM SourcesInAnyOrder == Spec => []SourceOrderIsIrrelevant
<1>1. FunctionsInvariant => SourceOrderIsIrrelevant
  <2>. SUFFICES ASSUME FunctionsInvariant, NEW i \in DOMAIN sources, NEW j \in DOMAIN sources
                PROVE  RevisionCoverage(rule, [sources EXCEPT ![i] = sources[j], ![j] = sources[i]])
                           = coverage
    BY DEF SourceOrderIsIrrelevant
  <2>. DEFINE swapped == [sources EXCEPT ![i] = sources[j], ![j] = sources[i]]
  <2>1. PICK n \in Nat : sources \in Seq(Welds) /\ n = Len(sources) /\ DOMAIN sources = 1..n
    BY DEF FunctionsInvariant
  <2>2. RuleFits(rule) /\ coverage = RevisionCoverage(rule, sources)
    BY <2>1, RunRulesFit DEF FunctionsInvariant
  <2>3. /\ DOMAIN swapped = 1..n /\ swapped[i] = sources[j] /\ swapped[j] = sources[i]
        /\ \A k \in 1..n : k # i /\ k # j => swapped[k] = sources[k]
    BY <2>1
  <2>4. swapped \in Seq(Welds) /\ Len(swapped) = n
    BY <2>1
  <2>5. CASE n = 1
    <3>1. i = 1 /\ j = 1
      BY <2>1, <2>5
    <3>2. \A k \in 1..n : k = i
      BY <2>5, <3>1
    <3>3. swapped = sources
      BY <2>1, <2>3, <2>4, <3>1, <3>2
    <3>4. QED
      BY <2>2, <3>3
  <2>6. CASE n >= 2
    <3>1. ToSet(swapped) = ToSet(sources)
      BY <2>1, <2>3 DEF ToSet
    <3>2. QED
      BY <2>1, <2>2, <2>4, <2>6, <3>1, SourcesGrantTogether
  <2>7. QED
    BY <2>1, <2>5, <2>6
<1>2. QED
  BY <1>1, InvariantHolds, PTL
=============================================================================
