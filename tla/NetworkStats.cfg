SPECIFICATION Spec
CONSTANTS
    Process = {daemon, command}
    Peer = {p, q}
    MaxRecords = 2
    MaxAge = 0
    IntLimit = 4
    MaxTime = 2
    None = None
INVARIANTS
    TypeOK
PROPERTIES
    LockedIsAtomic
    LockIsReleased
    UndisturbedRepairs
CHECK_DEADLOCK FALSE
