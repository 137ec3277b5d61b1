SPECIFICATION Spec
CONSTANTS
    RuleId = {r1, r2}
    QualId = {q1}
    ProcId = {p1}
    RevId = {v1}
    ReqId = {n1}
    AssessId = {a1, a2}
    ReviewId = {}
    r1 = r1
    r2 = r2
    q1 = q1
    p1 = p1
    v1 = v1
    n1 = n1
    a1 = a1
    a2 = a2
    Content = {"narrow", "lenient"}
    ValidContent = {"narrow", "lenient"}
    Variables = {"low", "high"}
    NeedsTest <- MCNeedsTest
    Coverage <- MCCoverage
    HasGaps <- MCHasGaps
    Conclude <- MCConclude
    Blocking <- MCBlocking
    Key = {}
    NoKey = NoKey
    Nothing = Nothing
    MaxTime = 1
    MaxEvidence = 1
    MaxEdits = 0
    Batch = 2
SYMMETRY Ids
INVARIANTS
    CaseInvariant
    TasksAreDeduplicated
    ConclusionIsReproducible
    NoLostUpdate
PROPERTIES
    TriggersMarkAtOnce
CHECK_DEADLOCK FALSE
