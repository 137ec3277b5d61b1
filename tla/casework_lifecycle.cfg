SPECIFICATION Spec
CONSTANTS
    RuleId = {r1, r2}
    QualId = {q1}
    ProcId = {p1}
    RevId = {v1, v2}
    ReqId = {}
    AssessId = {}
    ReviewId = {c1}
    r1 = r1
    r2 = r2
    q1 = q1
    p1 = p1
    v1 = v1
    v2 = v2
    c1 = c1
    Content = {"wide", "narrow"}
    ValidContent = {"wide", "narrow"}
    Variables = {"low", "high"}
    NeedsTest <- MCNeedsTest
    Coverage <- MCCoverage
    HasGaps <- MCHasGaps
    Conclude <- MCConclude
    Blocking <- MCBlocking
    Key = {}
    NoKey = NoKey
    Nothing = Nothing
    MaxTime = 0
    MaxEvidence = 1
    MaxEdits = 1
    Batch = 6
SYMMETRY Ids
INVARIANTS
    TypeOK
    OneRuleInForce
    PublishedIsPointedAt
    RangeIsReproducible
    VersionsCountWrites
    NoLostUpdate
PROPERTIES
    NoBlockedPublication
CHECK_DEADLOCK FALSE
