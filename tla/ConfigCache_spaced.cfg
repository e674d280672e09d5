SPECIFICATION FairSpec
CONSTANTS
    Instances = {i1}
    Clients = {a1, a2}
    Categories = {routing}
    Routing = routing
    NoInstance = NoInstance
    Sources = {patch, trigger}
    Kinds = {"patch", "put"}
    Spaced = TRUE
    Faulty = FALSE
    MaxWrites = 2
    MaxBreaks = 2
INVARIANTS
    WriteIsVisible
PROPERTIES
    Converges
