CONSTANTS
    Creators = {b1, b2}
    Writers = {w1}
    Readers = {}
    NoLock = NoLock
    MaxAttempts = 1
    MaxAuthority = 2
SPECIFICATION AnySpec
INVARIANTS
    AcknowledgedIsDurable
    
    EveryMoveReceipted
    CleanupKeepsAll
PROPERTIES
    ImplementsAtomic
    
CHECK_DEADLOCK FALSE
