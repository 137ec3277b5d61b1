SPECIFICATION Spec
CONSTANTS
    Proc = {server, importer}
    Txn = {t1, t2}
    server = server
    importer = importer
    t1 = t1
    t2 = t2
    MaxUpdates = 2
    Unreadable = {}
    Exclusive = FALSE
    Faults = {}
    NoDigest = NoDigest
    NoSnapshot = NoSnapshot
    Torn = Torn
    Garbled = Garbled
INVARIANT SnapshotHoldsConfirmed
