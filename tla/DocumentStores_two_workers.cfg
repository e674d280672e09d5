SPECIFICATION Spec
CONSTANTS
    admin = admin
    worker = worker
    worker2 = worker2
    c1 = c1
    c2 = c2
    NoRow = NoRow
    Chunks = {c1, c2}
    Slots = {admin, worker, worker2}
    Does <- TwoWorkers
    Splits <- OneSplit
    Metas <- ApprovedMeta
    Faults = {"parse", "db", "vector"}
INVARIANTS
    ArchivedHasColdCopy
SYMMETRY Symmetry
