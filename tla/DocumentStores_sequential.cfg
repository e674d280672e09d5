SPECIFICATION FairSpec
CONSTANTS
    admin = admin
    worker = worker
    worker2 = worker2
    c1 = c1
    c2 = c2
    NoRow = NoRow
    Chunks = {c1, c2}
    Slots = {admin}
    Does <- Sequential
    Splits <- OneSplit
    Metas <- AnyMeta
    Faults = {}
INVARIANTS
    LayersAgree
    HardDeleteIsComplete
PROPERTIES
    WithdrawnIsHidden
