SPECIFICATION Spec
CONSTANTS
    HB = 4
    LastReg = 5
    CacheLine = 16
    MsrPos <- MCMsrPos
    PageSize = 16
    NPages = 16
    Vector <- MCVector
    Handler <- MCHandler
    Exit <- MCExit
    Cases <- MCVectorCases
    MaxInterrupts = 1
    MaxSwallows = 1
CHECK_DEADLOCK FALSE
PROPERTIES
    SequentialFlow
