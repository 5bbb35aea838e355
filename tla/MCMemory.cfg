SPECIFICATION Spec
CONSTANTS
    Cores = {c1, c2}
    PageSize = 2
    NPages = 3
    DdrPages = 2
    Byte = {0, 1}
    Garbage <- MCGarbage
    Unset = Unset
    Lost = Lost
    Calls <- MCCalls
    Candidates <- MCCandidates
    MaxCalls = 3
    MaxTargets = 3
CHECK_DEADLOCK FALSE
SYMMETRY MCSymmetry
INVARIANTS
    TypeOK
    OneHostPage
    HeldIsCached
    HolderOutranksOlder
PROPERTIES
    ImplementsByteStore
