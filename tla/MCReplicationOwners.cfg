SPECIFICATION MCSpec
CONSTANTS
    n1 = n1
    n2 = n2
    v1 = v1
    one = one
    four = four
    Nodes = {n1, n2}
    Clients = {c1}
    Owners = {app, usr}
    Keys = {k1}
    Values = {v1}
    App = app
    None = None
    Separators <- MCSeparators
    TextTimes = {}
    MetadataPeers <- OneWayPeers
    MaxSkew = 1
    MaxClock = 3
    MaxOps = 2
PROPERTY
    MergeKeepsOthers
CHECK_DEADLOCK FALSE
