----------------------------- MODULE MCCasework -----------------------------
(***************************************************************************)
(* Casework for TLC.  Variables of a weld are "low" and "high"; the        *)
(* content "wide" grants a source both, "narrow" and "lenient" its own     *)
(* only; what a revision does not cover is a condition under "lenient" and *)
(* refused otherwise.  "narrow" asks no evidence for "low".  A revision    *)
(* covers what all its sources do.  A change is blocking unless the rule   *)
(* is wide.                                                                *)
(***************************************************************************)
EXTENDS Casework, TLC

MCVariables == {"low", "high"}

MCNeedsTest(c, v) == c # "narrow" \/ v # "low"
Grants(c, v) == IF c = "wide" THEN MCVariables ELSE {v}
MCCoverage(c, V) ==
    IF V = << >> THEN {}
    ELSE {v \in MCVariables : \A q \in DOMAIN V : v \in Grants(c, V[q])}
MCHasGaps(c, V, v) == v \notin MCCoverage(c, V)
MCConclude(c, range, v) ==
    CASE v \in range -> "APPLICABLE"
      [] v \notin range /\ c = "lenient" -> "CONDITIONAL"
      [] OTHER -> "NOT_APPLICABLE"
MCBlocking(c, from, to) == c # "wide" /\ from # to

Ids == Permutations(RuleId) \cup Permutations(QualId) \cup Permutations(RevId)
           \cup Permutations(ReqId) \cup Permutations(AssessId) \cup Permutations(ReviewId)
=============================================================================
