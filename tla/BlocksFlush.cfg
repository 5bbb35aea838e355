SPECIFICATION Spec
CONSTANTS
    PageWords = 4
    Frames = {"f", "g"}
    Missing = Missing
    NoExec = NoExec
    Contexts = {"user", "kernel"}
    Map <- MCMap
    Hash <- MCHash
    Entries = {0, 3, 4}
    Vector = 4
    Interrupted <- MCInterrupted
    Codes <- MCCodes
    MAX_TRANS_INS = 2
    MAX_BB_INS = 4
    Ids = {1, 2, 3}
    MaxRefs = 2
    LastWord = 11
    None = None
CHECK_DEADLOCK FALSE
PROPERTIES
    FlushEmptiesCaches
