SPECIFICATION Spec
CONSTANTS
    DIDs = {app, usr}
    Addrs = {n1, n2, n3}
    CIDs = {h1, h2}
    Auths = {pass}
    NodesCap = 2
    NoAccount = NoAccount
    MaxBlocks = 2
SYMMETRY Symmetry
INVARIANTS
    TypeOK
    LastMessageDecides
PROPERTY
    RegistryKept
