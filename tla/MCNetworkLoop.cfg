SPECIFICATION Spec
CONSTANTS
    Clients = {c1}
    Commands = {"mutate", "query", "init", "leave", "info", "config", "take over", "seize"}
    Events = {"Data", "Newcomer", "Leaver", "Config", "Graft", "Prune", "IGiveData", "IGiveConfig", "Sync"}
    None = None
    D = 3
    DLow = 1
    DHigh = 3
    MaxMesh = 4
INVARIANTS
    TypeOK
    WaitersHoldNothing
    OnlyKnownCircles
CHECK_DEADLOCK FALSE
