SPECIFICATION Spec
CONSTANTS
    Instances = {i1}
    Clients = {a1, a2}
    Categories = {routing, pii}
    Routing = routing
    NoInstance = NoInstance
    Sources = {patch, trigger}
    Kinds = {"patch", "put"}
    Spaced = FALSE
    Faulty = TRUE
    MaxWrites = 2
    MaxBreaks = 1
INVARIANTS
    CacheFollowsOverrides
SYMMETRY Symmetry
