SPECIFICATION Spec
CONSTANTS
    NoInterval = NoInterval
    MaxSources = 3
    MaxEvidence = 2
    MaxDigits = 4
    Half = 32
    Base = 3
    Decimals = 2
    Kilo = 3
    Rejected = Rejected
    TaskId = {1, 2, 3, 4}
    MaxLimit = 2
INVARIANTS
    WarrantedIsApplicable
CHECK_DEADLOCK FALSE
