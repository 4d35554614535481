SPECIFICATION Spec
CONSTANTS
    a1 = a1
    a2 = a2
    u1 = u1
    k1 = k1
    v1 = v1
    Apps = {a1, a2}
    Users = {u1}
    Owners = {a1, a2, u1}
    Keys = {k1}
    Values = {v1, v2}
    None = None
    Gone = Gone
    Clients = {c1}
    Localizers = {l1}
    Image <- Images
    Heard <- Changes
    Uploader = Uploader
    Loop = Loop
    MaxOps = 3
    MaxOthers = 0
INVARIANT
    AcceptedWritesRead
CHECK_DEADLOCK FALSE
