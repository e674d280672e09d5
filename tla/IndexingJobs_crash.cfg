SPECIFICATION Spec
CONSTANTS
    Docs = {d1}
    Jobs = {j1, j2, j3}
    Tasks = {t1, t2, t3}
    Retriers = {t1}
    RlsApplies = FALSE
    Faults = {"config", "parse", "embed", "write", "outage"}
    MaxCrashes = 1
    NoDoc = NoDoc
    NoJob = NoJob
    NoReq = NoReq
INVARIANTS
    SingleRun
SYMMETRY Symmetry
