SPECIFICATION MCSpec
CONSTANTS
    n1 = n1
    n2 = n2
    v1 = v1
    one = one
    four = four
    Nodes = {n1, n2}
    Clients = {c1, c2}
    Owners = {app, usr}
    Keys = {k1}
    Values = {v1, one, four}
    App = app
    None = None
    Separators <- MCSeparators
    TextTimes = {2}
    MetadataPeers <- OneWayPeers
    MaxSkew = 1
    MaxClock = 3
    MaxOps = 2
SYMMETRY ClientSymmetry
CONSTRAINT TextsApart
INVARIANTS
    TypeOK
    Provenance
    StampCoversOrigin
    DeniedOnlyByRequest
PROPERTIES
    OlderOnlyByOverlap
    MergedChangeIsNewer
CHECK_DEADLOCK FALSE
