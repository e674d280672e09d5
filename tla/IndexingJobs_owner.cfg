SPECIFICATION FairSpec
CONSTANTS
    Docs = {d1}
    Jobs = {j1, j2, j3}
    Tasks = {t1, t2}
    Retriers = {t1}
    RlsApplies = FALSE
    Faults = {"parse", "chunk", "embed", "upsert", "write"}
    MaxCrashes = 0
    NoDoc = NoDoc
    NoJob = NoJob
    NoReq = NoReq
INVARIANTS
    TypeOK
    OneActiveJob
    ActiveJobIsCarried
PROPERTIES
    StatusForward
    JobsTerminate
