SPECIFICATION FairSpec
CONSTANTS
    Client = {c1, c2}
    c1 = c1
    c2 = c2
    Key = {k}
    k = k
    Content = {x, y}
    x = x
    y = y
    Loop = {worker}
    worker = worker
    Nobody = Nobody
    NoKey = NoKey
    NoReply = NoReply
    MaxTries <- OneRetry
    Wishes <- OneKey
    MaxChores = 1
INVARIANTS
    AtMostOnce
    AnswersHold
    LoopsFindItOpen
    DrainedBeforeClosing
    ServerInvariant
PROPERTIES
    ShutdownEnds
