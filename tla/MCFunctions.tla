---------------------------- MODULE MCFunctions -----------------------------
(***************************************************************************)
(* The program's pure functions put to bounded inputs.  In a "coverage"    *)
(* case welds are qualified one after another as sources of a range, in    *)
(* the order of their random identifiers; in a "tests" case evidence is    *)
(* added one piece after another; in a "numbers" case a text is received,  *)
(* and the value it has is taken for a measurement; in a "pages" case a    *)
(* list is read page by page while it changes.                             *)
(***************************************************************************)
EXTENDS Rules, Fixed, Paging

CONSTANTS MaxSources, MaxEvidence, MaxDigits     \* bounds

ASSUME MaxDigitsAssumption == MaxDigits \in Nat

VARIABLES
    case, rule,
    sources, coverage,      \* welds qualified so far, and what they grant together
    evidence,
    text, measured          \* a number as received, and as the result of a test

vars == <<case, rule, sources, coverage, evidence, text, measured, pagingVars>>

\* A weld of no service is one that no condition speaks of.
NoService == ""
Services == {NoService, "SOUR"}

\* Thickness 3 lies outside every rule.
Welds ==
    {[n \in {"base_materials", "process", "thickness", "service"} |->
        CASE n = "base_materials" -> b [] n = "process" -> p
          [] n = "thickness" -> t [] n = "service" -> s] :
        b \in {<<1, 1>>, <<1, 2>>}, p \in 1..2, t \in {2, 3}, s \in Services}

Materials ==
    [class : {"ESSENTIAL"}, numeric : {NoInterval}, values : {{1, 2}}, when : {NoService}]
Process ==
    [class : {"NON_ESSENTIAL", "SUPPLEMENTARY_ESSENTIAL"}, numeric : {NoInterval},
     values : {{1, 2}}, when : Services]
Thickness ==
    [class : {"NON_ESSENTIAL", "ESSENTIAL"}, numeric : {[min |-> 1, max |-> 2, unit |-> "MM"]},
     values : {{}}, when : Services]
Tests(when) ==
    {[type |-> "TENSILE", min |-> 2, unit |-> "MPA", when |-> NoService],
     [type |-> "IMPACT", min |-> 2, unit |-> "J", when |-> when]}

RuleSets ==
    {[variables |-> [n \in {"base_materials", "process", "thickness"} |->
        CASE n = "base_materials" -> b [] n = "process" -> p [] n = "thickness" -> t],
      tests |-> Tests(w)] :
        b \in Materials, p \in Process, t \in Thickness, w \in Services}

Evidence ==
    [type : {"TENSILE", "IMPACT"}, result : 1..2, unit : {"MPA", "J"}, passed : BOOLEAN,
     expires : 1..2]
Now == 2
SomeWeld(service) == CHOOSE w \in Welds : w["service"] = service

\* Texts with up to MaxDigits digits before the dot and Decimals + 1 after it,
\* signs in any place, and with one dot too many; a minus in front is the text's.
DigitStrings(n) == UNION {[1..k -> Digit] : k \in 0..n}
Wholes == {Part(g, d) : g \in {NoSign, "+", "-"}, d \in DigitStrings(MaxDigits)}
Fractions == {Part(g, d) : g \in {NoSign, "+", "-"}, d \in DigitStrings(Decimals + 1)}
PartLists ==
    {<<w>> : w \in Wholes} \cup (Wholes \X Fractions)
        \cup {<<w, Part(NoSign, << >>), Part(NoSign, << >>)>> : w \in Wholes}
Texts ==
    {t \in [minus : BOOLEAN, parts : PartLists] : t.minus \/ t.parts[1].sign # "-"}
NoText == << >>
NoMeasurement == << >>

Init ==
    /\ case \in {"coverage", "tests", "numbers", "pages"}
    /\ rule \in {r \in RuleSets : ValidateRuleSet(r, {"base_materials", "thickness"})}
    /\ CASE case = "coverage" -> rule.tests = Tests(NoService)
         [] case = "tests" ->
                \A n \in DOMAIN rule.variables :
                    rule.variables[n].class # "NON_ESSENTIAL" /\ rule.variables[n].when = NoService
         [] case \in {"numbers", "pages"} -> rule = CHOOSE r \in RuleSets : TRUE
    /\ PagingInit
    /\ case # "pages" => filter = ""
    /\ text \in IF case = "numbers" THEN Texts ELSE {NoText}
    /\ measured = NoMeasurement
    /\ sources = << >>
    /\ coverage = << >>
    /\ evidence = << >>

AddSource ==
    /\ case = "coverage"
    /\ Len(sources) < MaxSources
    /\ \E w \in Welds : sources' = Append(sources, w)
    /\ coverage' = RevisionCoverage(rule, sources')
    /\ UNCHANGED <<case, rule, evidence, text, measured, pagingVars>>

AddEvidence ==
    /\ case = "tests"
    /\ Len(evidence) < MaxEvidence
    /\ \E e \in Evidence : evidence' = Append(evidence, e)
    /\ UNCHANGED <<case, rule, sources, coverage, text, measured, pagingVars>>

Units == {"MPa", "kPa", "Pa", "J", "kJ", "HV"}

\* A measurement is taken of the text each value is written as.
Measure ==
    /\ case = "numbers"
    /\ measured = NoMeasurement
    /\ ParseFixed(text) # Rejected
    /\ text = String(ParseFixed(text))
    /\ \E type \in {"TENSILE", "IMPACT", "HARDNESS"}, unit \in Units :
          measured' = [type |-> type, unit |-> unit,
                       value |-> NormalizeMeasurement(type, ParseFixed(text), unit)]
    /\ UNCHANGED <<case, rule, sources, coverage, evidence, text, pagingVars>>

ReadList ==
    /\ case = "pages"
    /\ PagingNext
    /\ UNCHANGED <<case, rule, sources, coverage, evidence, text, measured>>

Next == AddSource \/ AddEvidence \/ Measure \/ ReadList

Spec == Init /\ [][Next]_vars

-----------------------------------------------------------------------------

\* What a rule demands of a weld, with no coverage in between: every variable
\* that applies has its value in the rule, and every source was tested for it.
Permitted(r, n, v) ==
    IF n = "base_materials" THEN ToSet(v) \subseteq r.values
    ELSE IF n \in Discrete THEN v \in r.values
    ELSE InInterval(r.numeric, v)
Warranted(w) ==
    \A n \in Applying(rule, w) :
        LET r == rule.variables[n]
        IN  /\ Permitted(r, n, w[n])
            /\ \A i \in DOMAIN sources :
                  /\ n \in Applying(rule, sources[i])
                  /\ Permitted(r, n, sources[i][n])
                  /\ n \in Numeric \/ sources[i][n] = w[n]

\* A weld found applicable is one that every source warrants by itself.
ApplicableIsWarranted ==
    sources # << >> =>
        \A w \in Welds :
            Assess(coverage, w, rule) = "APPLICABLE" => Warranted(w)

\* The converse, as docs/business-rules.md has it: a revision's range is the
\* intersection of its sources', so what each of them covers all of them cover.
WarrantedIsApplicable ==
    sources # << >> =>
        \A w \in Welds :
            Warranted(w) => Assess(coverage, w, rule) = "APPLICABLE"

\* Sources come in the order of their random identifiers, and the range does
\* not depend on it.
SourceOrderIsIrrelevant ==
    \A i, j \in DOMAIN sources :
        RevisionCoverage(rule, [sources EXCEPT ![i] = sources[j], ![j] = sources[i]])
            = coverage

\* A change that needs no requalification, in the same service, never takes a
\* weld out of the range it was in by more than a condition.
UnblockedChangeStaysInRange ==
    sources # << >> =>
        \A from \in {w \in Welds : Assess(coverage, w, rule) = "APPLICABLE"}, to \in Welds :
            from["service"] = to["service"] /\ Blocking(rule, from, to) = {}
                => Assess(coverage, to, rule) # "NOT_APPLICABLE"

\* A qualification passes on evidence that is in force and meets each test that
\* its service calls for; evidence that expired before then changes nothing.
QualifiedIsTested ==
    \A service \in Services :
        LET w == SomeWeld(service)
        IN  /\ EvaluateQualification(rule, w, evidence, Now) =>
                  \A t \in rule.tests :
                      ConditionApplies(t.when, service) =>
                          \E i \in DOMAIN evidence :
                              /\ Active(evidence[i], Now) /\ evidence[i].type = t.type
                              /\ Meets(evidence[i], t)
            /\ \A i \in DOMAIN evidence :
                  ~Active(evidence[i], Now) =>
                      (EvaluateQualification(rule, w, RemoveAt(evidence, i), Now)
                          <=> EvaluateQualification(rule, w, evidence, Now))

\* Once the evidence at hand passes, adding more cannot fail it.
LaterEvidenceCannotUndo ==
    [][\A service \in Services :
          EvaluateQualification(rule, SomeWeld(service), evidence, Now)
              => EvaluateQualification(rule, SomeWeld(service), evidence', Now)]_vars

\* What a text without signs of its own, other than the minus in front, says:
\* its value in units of the last decimal.
Plain(t) ==
    /\ \A i \in DOMAIN t.parts : t.parts[i].sign = NoSign
    /\ t.parts[1].digits # << >>
    /\ Len(t.parts) = 1 \/ (Len(t.parts) = 2 /\ PartLen(t.parts[2]) <= Decimals)
Denoted(t) ==
    LET whole == Number(t.parts[1].digits) * Scale
        fraction == IF Len(t.parts) = 1 THEN 0
                    ELSE Number(t.parts[2].digits) * Power(Decimals - Len(t.parts[2].digits))
    IN  IF t.minus THEN -(whole + fraction) ELSE whole + fraction

\* A plain decimal text whose value fits is accepted and means what it says; one
\* that does not fit is either refused or wraps around (ParseFixed checks the
\* range of the part before the dot only).
TextMeansItsValue ==
    case = "numbers" /\ Plain(text) =>
        LET v == ParseFixed(text)
        IN  /\ v \in {Rejected, Wrap(Denoted(text))}
            /\ Denoted(text) \in Machine => v = Denoted(text)

\* Every number that is accepted, by whatever spelling, can be read back from the
\* journal and the snapshot as the same number: all but the smallest, whose
\* written form ParseFixed refuses.
WrittenReadsBack ==
    case = "numbers" /\ ParseFixed(text) # Rejected =>
        LET v == ParseFixed(text)
        IN  (ParseFixed(String(v)) = v) <=> (v # Smallest)

\* A measurement in units of the last decimal of the smallest unit of its kind.
UnitsOf == [TENSILE |-> {"MPa", "kPa", "Pa"}, IMPACT |-> {"J", "kJ"}, HARDNESS |-> {"HV"}]
Quantity(value, unit) ==
    CASE unit \in {"MPa", "kJ"} -> value * Kilo * Kilo
      [] unit \in {"kPa", "J"} -> value * Kilo
      [] OTHER -> value
Fits(value, unit) == unit = "kJ" => value * Kilo \in Machine

\* Requests that differ in the unit of a measurement only are one request to the
\* service (its comment at AddEvidence): the same quantity gives the same result,
\* and another quantity another one, unless kilojoules overflow.
SameQuantitySameResult ==
    measured # NoMeasurement /\ measured.value # Rejected =>
        LET given == ParseFixed(text)
        IN  \A u \in UnitsOf[measured.type], v \in Machine :
                Fits(given, measured.unit) /\ Fits(v, u) =>
                    (NormalizeMeasurement(measured.type, v, u) = measured.value
                        <=> Quantity(v, u) = Quantity(given, measured.unit))
=============================================================================
