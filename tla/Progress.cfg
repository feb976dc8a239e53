CONSTANT
    None = None
SPECIFICATION Spec
PROPERTIES
    EveryCallReturns
    RecordCatchesUp
    EveryRowEnds
    DeadLockIsBroken
    ServerReturns
CHECK_DEADLOCK FALSE
