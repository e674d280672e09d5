SPECIFICATION FairSpec
\* Every evaluation job runs once: that part comes to an end
CHECK_DEADLOCK FALSE
CONSTANTS
    Parts = {"eval", "key", "cron"}
    Procs = {p1}
    Editors = {e1}
    InputTypes = {t1}
    MaxVersion = 1
    EvalJobs = {j1, j2}
    Promoters = {a1}
    Cases = 1
    Operators = {a1}
    Lookups = {l1, l2}
    Kids = {1, 2}
    TTL = 1
    Nobody = Nobody
    PlatformAdmins = {d1}
    Visitors = {u1}
    DeleteOrder <- MCDeleteOrder
    Collection = "qdrant"
    Clients = {c1}
    LastItem = 1
    Questions = {"question", "fragment"}
    Fragments = {"fragment"}
    MaxUsed = 1
    Nodes = {n1, n2}
    Conns = {1, 2, 3}
    PoolSize = 1
    Months = 1
    Nothing = Nothing
INVARIANTS
    PublishedKeyIsFound
    LockWorks
    PartitionIsReady
PROPERTIES
    WithdrawnKeyExpires
    TasksGetOn
