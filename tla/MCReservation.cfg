SPECIFICATION Spec
CONSTANTS
    NCpus = 2
    Words <- MCWords
    Granules <- MCGranules
    GranuleOf <- MCGranuleOf
    MaxUpdates = 1
INVARIANTS
    TypeOK
    StoreNeedsReservation
    LostInWindowOnly
PROPERTIES
    LatestReservationWins
    LossHasCause
