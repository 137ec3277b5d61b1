SPECIFICATION Spec
CONSTANTS
    Proc = {server}
    Txn = {t1, t2, t3, t4}
    server = server
    t1 = t1
    t2 = t2
    t3 = t3
    t4 = t4
    MaxUpdates = 3
    Unreadable = {t4}
    Exclusive = TRUE
    Faults = {"append", "sync", "snapshot", "dirsync", "rotate", "power"}
    NoDigest = NoDigest
    NoSnapshot = NoSnapshot
    Torn = Torn
    Garbled = Garbled
SYMMETRY TxnSymmetry
INVARIANTS
    ConfirmedIsDurable
    RefusedForAReason
    StoreInvariant
    RecoveryInvariant
    RefusalInvariant
PROPERTIES
    ServedOnlyGrows
    ImplementsLedger
