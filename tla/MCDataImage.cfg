SPECIFICATION Spec
CONSTANTS
    app = app
    sam = sam
    v1 = v1
    v2 = v2
    Owners <- MCOwners
    App = app
    Values <- MCValues
    Empty = Empty
    None = None
    NoCid = NoCid
    Left = Left
    MaxChanges = 2
    MaxJoins = 2
SYMMETRY Symmetry
INVARIANTS
    TypeOK
    ImageComplete
    FlagTells
PROPERTY
    PassKeepsData

\* A node that left or crashed and joins no more may stop.
CHECK_DEADLOCK FALSE
