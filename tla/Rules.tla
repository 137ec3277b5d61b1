-------------------------------- MODULE Rules --------------------------------
(***************************************************************************)
(* The rule engine (src/internal/rules/engine.go): what a rule set asks of *)
(* a qualification, what range a weld that was tested grants, what several *)
(* of them grant together, and how a requirement or a change compares with *)
(* it.  A weld is a function from variable names to values; the pair of    *)
(* base materials is a sorted sequence, as it is after normalization.      *)
(*                                                                         *)
(* A rule set is [variables, tests]: variables maps a name to its          *)
(* VariableRule, so no name is classified twice; what a name may not be    *)
(* called and the wording of reasons and differences are left out.         *)
(***************************************************************************)
EXTENDS Sorting, SequencesExt

CONSTANT NoInterval         \* a nil *Interval

Discrete == {"process", "joint_type", "position", "filler", "pwht", "service"}
Numeric == {"thickness", "diameter", "preheat", "heat_input"}

-----------------------------------------------------------------------------
(* Intervals (src/internal/domain/types.go): closed, in one unit.          *)

Valid(i) == i.unit # "" /\ i.min <= i.max
InInterval(i, v) == i.min <= v /\ v <= i.max
IntersectInterval(i, o) ==
    [min |-> IF i.min > o.min THEN i.min ELSE o.min,
     max |-> IF i.max < o.max THEN i.max ELSE o.max,
     unit |-> IF i.unit = o.unit THEN i.unit ELSE ""]

-----------------------------------------------------------------------------
(* Rule sets and what they ask of a qualification.                         *)

\* A rule or a test without a condition always applies.
ConditionApplies(when, service) == when \in {"", service}
Applying(rule, weld) ==
    {n \in DOMAIN rule.variables : ConditionApplies(rule.variables[n].when, weld["service"])}

\* Nothing relates the kind of range to the kind of variable.
ValidateRuleSet(rule, required) ==
    /\ required \subseteq DOMAIN rule.variables
    /\ rule.tests # {}
    /\ \A s, t \in rule.tests : s.type = t.type => s = t
    /\ \A n \in DOMAIN rule.variables :
          LET r == rule.variables[n]
          IN  /\ r.class \in {"NON_ESSENTIAL", "ESSENTIAL", "SUPPLEMENTARY_ESSENTIAL"}
              /\ (r.numeric = NoInterval) # (r.values = {})
              /\ r.numeric # NoInterval => Valid(r.numeric)

Active(e, at) == at <= e.expires

\* Mutant: evidence that has expired still counts.
Considered_Expired(e, test, at) == e.type = test.type
Considered(e, test, at) == e.type = test.type /\ Active(e, at)

Meets(e, test) == e.passed /\ e.unit = test.unit /\ e.result >= test.min

\* Mutant: the last evidence decides.
Deciding_Last(evidence, test, at) ==
    {i \in DOMAIN evidence :
        /\ Considered(evidence[i], test, at)
        /\ \A j \in DOMAIN evidence : j > i => ~Considered(evidence[j], test, at)}
\* The first evidence of the test's type that is active decides, if there is one.
Deciding(evidence, test, at) ==
    {i \in DOMAIN evidence :
        /\ Considered(evidence[i], test, at)
        /\ \A j \in 1..(i - 1) : ~Considered(evidence[j], test, at)}

EvaluateQualification(rule, weld, evidence, at) ==
    \A test \in rule.tests :
        ConditionApplies(test.when, weld["service"]) =>
            \E i \in Deciding(evidence, test, at) : Meets(evidence[i], test)

-----------------------------------------------------------------------------
(* Coverage: a map from the variables covered to their ranges.             *)

DiscreteRange(vs) == [numeric |-> NoInterval, values |-> vs]
Span(i) == [numeric |-> i, values |-> << >>]
NoRange == DiscreteRange(<< >>)

\* One tested weld grants its own discrete values, and the whole interval its
\* numbers lie in.
RangeOf(r, n, v) ==
    IF n = "base_materials"
    THEN IF Len(v) = 2 /\ ToSet(v) \subseteq r.values THEN DiscreteRange(v) ELSE NoRange
    ELSE IF n \in Discrete
    THEN IF v \in r.values THEN DiscreteRange(<<v>>) ELSE NoRange
    ELSE IF r.numeric # NoInterval /\ InInterval(r.numeric, v) THEN Span(r.numeric) ELSE NoRange

DeriveGaps(rule, weld) ==
    {n \in Applying(rule, weld) : RangeOf(rule.variables[n], n, weld[n]) = NoRange}
DeriveCoverage(rule, weld) ==
    [n \in Applying(rule, weld) \ DeriveGaps(rule, weld) |->
        RangeOf(rule.variables[n], n, weld[n])]

\* The values of both, each once, whatever they were.
IntersectValues(left, right) ==
    LET common == ToSet(left) \cap ToSet(right)
    IN  Ascending(common)

Merge(x, y) ==
    IF x.numeric # NoInterval /\ y.numeric # NoInterval
    THEN LET i == IntersectInterval(x.numeric, y.numeric)
         IN  IF Valid(i) THEN Span(i) ELSE NoRange
    ELSE DiscreteRange(IntersectValues(x.values, y.values))

\* Mutant: a variable the next source does not cover keeps its range.
MergeCoverage_KeepMissing(current, next) ==
    [n \in {m \in DOMAIN current : m \in DOMAIN next => Merge(current[m], next[m]) # NoRange} |->
        IF n \in DOMAIN next THEN Merge(current[n], next[n]) ELSE current[n]]
\* Mutant: what the first source grants is not compared with the others.
MergeCoverage_First(current, next) ==
    [n \in DOMAIN current \cap DOMAIN next |-> current[n]]
MergeCoverage(current, next) ==
    [n \in {m \in DOMAIN current \cap DOMAIN next : Merge(current[m], next[m]) # NoRange} |->
        Merge(current[n], next[n])]

\* A variable some source covers and the intersection does not is a gap.
IntersectGaps(sets, coverage) ==
    IF sets = << >> THEN {"sources"}
    ELSE UNION {DOMAIN sets[i] : i \in DOMAIN sets} \ DOMAIN coverage
IntersectCoverage(sets) ==
    IF sets = << >> THEN << >> ELSE FoldLeft(MergeCoverage, sets[1], Tail(sets))

-----------------------------------------------------------------------------
(* A requirement against a coverage, and a change against a rule.          *)

Matches(range, n, v) ==
    IF n = "base_materials" THEN range.values = v
    ELSE IF n \in Discrete THEN v \in ToSet(range.values)
    ELSE range.numeric # NoInterval /\ InInterval(range.numeric, v)

\* The variables that block, and those a condition can make up for.
Uncovered(coverage, weld, rule) ==
    {n \in Applying(rule, weld) : n \notin DOMAIN coverage}
Mismatched(coverage, weld, rule) ==
    {n \in Applying(rule, weld) \cap DOMAIN coverage : ~Matches(coverage[n], n, weld[n])}
Conditions(coverage, weld, rule) ==
    {n \in Mismatched(coverage, weld, rule) : rule.variables[n].class = "NON_ESSENTIAL"}

Assess(coverage, weld, rule) ==
    LET differences == Uncovered(coverage, weld, rule) \cup Mismatched(coverage, weld, rule)
    IN  IF differences = {} THEN "APPLICABLE"
        ELSE IF differences = Conditions(coverage, weld, rule) THEN "CONDITIONAL"
        ELSE "NOT_APPLICABLE"

\* Mutant: supplementary variables are not blocking.
Blocking_EssentialOnly(rule, from, to) ==
    {n \in DOMAIN rule.variables :
        from[n] # to[n] /\ rule.variables[n].class = "ESSENTIAL"}
\* What a change of revision must be requalified for.
Blocking(rule, from, to) ==
    {n \in DOMAIN rule.variables :
        /\ from[n] # to[n]
        /\ LET r == rule.variables[n]
           IN  \/ r.class = "ESSENTIAL"
               \/ /\ r.class = "SUPPLEMENTARY_ESSENTIAL"
                  /\ ConditionApplies(r.when, to["service"])}

\* The range of a revision and its gaps (Service.DeriveCoverage): those of the
\* sources, of their intersection, and of the revision's own weld in it.
RevisionCoverage(rule, sources) ==
    IntersectCoverage([i \in DOMAIN sources |-> DeriveCoverage(rule, sources[i])])
RevisionGaps(rule, sources, weld) ==
    LET sets == [i \in DOMAIN sources |-> DeriveCoverage(rule, sources[i])]
        coverage == IntersectCoverage(sets)
    IN  IntersectGaps(sets, coverage)
            \cup UNION {DeriveGaps(rule, sources[i]) : i \in DOMAIN sources}
            \cup Uncovered(coverage, weld, rule) \cup Mismatched(coverage, weld, rule)
=============================================================================
