SPECIFICATION Spec
CONSTANTS
    RuleId = {r1, r2}
    QualId = {q1}
    ProcId = {p1}
    RevId = {v1}
    ReqId = {n1}
    AssessId = {a1}
    ReviewId = {}
    r1 = r1
    r2 = r2
    q1 = q1
    p1 = p1
    v1 = v1
    n1 = n1
    a1 = a1
    Content = {"wide"}
    ValidContent = {"wide"}
    Variables = {"low"}
    NeedsTest <- MCNeedsTest
    Coverage <- MCCoverage
    HasGaps <- MCHasGaps
    Conclude <- MCConclude
    Blocking <- MCBlocking
    Key = {}
    NoKey = NoKey
    Nothing = Nothing
    MaxTime = 1
    MaxEvidence = 1
    MaxEdits = 0
    Batch = 2
SYMMETRY Ids
INVARIANTS
    FreshMeansUnchallenged
CHECK_DEADLOCK FALSE
