SPECIFICATION Spec
CONSTANTS
    Proc = {server}
    Txn = {t1, t2}
    server = server
    t1 = t1
    t2 = t2
    MaxUpdates = 2
    Unreadable = {}
    Exclusive = TRUE
    Faults = {"append"}
    NoDigest = NoDigest
    NoSnapshot = NoSnapshot
    Torn = Torn
    Garbled = Garbled
INVARIANT NeverRefused
