SPECIFICATION Spec
\* Schema versions and evaluation jobs are bounded: those parts come to an end
CHECK_DEADLOCK FALSE
CONSTANTS
    Parts = {"schema", "eval", "lora", "tenant", "items"}
    Procs = {p1}
    Editors = {e1, e2}
    InputTypes = {t1}
    MaxVersion = 2
    EvalJobs = {j1, j2}
    Promoters = {a1}
    Cases = 2
    Operators = {a1, a2}
    Lookups = {l1}
    Kids = {1}
    TTL = 1
    Nobody = Nobody
    PlatformAdmins = {d1, d2}
    Visitors = {u1}
    DeleteOrder <- MCDeleteOrder
    Collection = "qdrant"
    Clients = {c1, c2}
    LastItem = 2
    Questions = {"question", "fragment"}
    Fragments = {"fragment"}
    MaxUsed = 1
    Nodes = {n1}
    Conns = {1, 2, 3}
    PoolSize = 1
    Months = 1
    Nothing = Nothing
SYMMETRY Symmetric
INVARIANTS
    TypeOK
    VersionHistory
    ActiveSchemaIsInForce
    PromotedPassedItsGate
    OverrideStaysInItsRun
    OnlyActiveIsServed
    LeftoverIsReported
    DeleteStatusIsTrue
    UsesAreCounted
    ApprovedByDecision
PROPERTIES
    ImportAddsNoDuplicate
