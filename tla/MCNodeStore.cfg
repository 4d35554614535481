SPECIFICATION FairSpec
CONSTANTS
    a1 = a1
    a2 = a2
    u1 = u1
    k1 = k1
    v1 = v1
    Apps = {a1, a2}
    Users = {u1}
    Owners = {a1, a2, u1}
    Keys = {k1}
    Values = {v1}
    None = None
    Gone = Gone
    Clients = {c1, c2}
    Localizers = {l1, l2}
    Image <- Images
    Heard <- Changes
    Uploader = Uploader
    Loop = Loop
    MaxOps = 3
    MaxOthers = 1
INVARIANTS
    TypeOK
    AnswersAreWrites
    FlagDownWhileInitializing
PROPERTIES
    DataChangesAsMeant
    CacheModeEnds
CONSTRAINT FewAtWork
CHECK_DEADLOCK FALSE
