SPECIFICATION Spec
CONSTANTS
    admin = admin
    worker = worker
    worker2 = worker2
    c1 = c1
    c2 = c2
    NoRow = NoRow
    Chunks = {c1}
    Slots = {admin, worker}
    Does <- WithWorker
    Splits <- ShorterSplits
    Metas <- AnyMeta
    Faults = {"parse", "vector", "storage"}
INVARIANTS
    RowsFollowDoc
