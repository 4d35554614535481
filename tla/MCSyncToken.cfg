SPECIFICATION Spec
CONSTANTS
    Nodes = {n1, n2}
    None = None
    MaxUpdates = 2
    SyncFrequency = 1
    WaitPeriod = 0
    SeizeAfter = 2
    HandOver = 1
    LongAgo = 4
    MaxJoins = 2
    MaxFaults = 1
    MaxInFlight = 1
SYMMETRY Symmetry
CONSTRAINT Recoverable
INVARIANTS
    TypeOK
    HolderOrHeir
    TokenKept
CHECK_DEADLOCK FALSE
