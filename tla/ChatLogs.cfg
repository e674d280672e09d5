SPECIFICATION Spec
CONSTANTS
    None = None
    Requests = {r1, r2}
    Users = {u1, u2}
    Convs = {c1}
    Docs = {d1}
    PageSize = 1
    MaxRecords = 2
    Reverifications = 1
    Withdrawals = 1
    Approvals = 1
SYMMETRY Symmetric
CHECK_DEADLOCK FALSE
INVARIANTS
    TypeOK
    PlainNeedsApproval
    RemovedStaysRemoved
    ReverifyIsComplete
