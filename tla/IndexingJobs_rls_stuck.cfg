SPECIFICATION FairSpec
CONSTANTS
    Docs = {d1}
    Jobs = {j1}
    Tasks = {t1}
    Retriers = {t1}
    RlsApplies = TRUE
    Faults = {}
    MaxCrashes = 0
    NoDoc = NoDoc
    NoJob = NoJob
    NoReq = NoReq
PROPERTIES
    JobsTerminate
