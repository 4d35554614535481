SPECIFICATION FairSpec
CONSTANTS
    app = app
    sam = sam
    m1 = m1
    Owners <- MCOwners
    App = app
    Monitors <- MCMonitors
    None = None
INVARIANTS
    TypeOK
    DeniedOnlyIfBlocked
    SavedMeansDenied
PROPERTIES
    BlockNoticed
    LiftedIsAllowed
