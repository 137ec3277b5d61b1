SPECIFICATION Spec
CONSTANTS
    RuleId = {r1}
    QualId = {q1}
    ProcId = {}
    RevId = {}
    ReqId = {n1, n2}
    AssessId = {}
    ReviewId = {}
    r1 = r1
    q1 = q1
    n1 = n1
    n2 = n2
    k1 = k1
    k2 = k2
    Content = {"wide"}
    ValidContent = {"wide"}
    Variables = {"low", "high"}
    NeedsTest <- MCNeedsTest
    Coverage <- MCCoverage
    HasGaps <- MCHasGaps
    Conclude <- MCConclude
    Blocking <- MCBlocking
    Key = {k1, k2}
    NoKey = NoKey
    Nothing = Nothing
    MaxTime = 1
    MaxEvidence = 2
    MaxEdits = 0
    Batch = 2
SYMMETRY Ids
INVARIANTS
    RetriesCreateNothing
CHECK_DEADLOCK FALSE
