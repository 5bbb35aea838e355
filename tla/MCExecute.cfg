SPECIFICATION Spec
CHECK_DEADLOCK FALSE
CONSTANTS
    HB = 4
    Regs <- MCRegs
    DivHigh <- MCDivHigh
    FpWords <- MCFpWords
    Cases <- MCCases
INVARIANTS
    TypeOK
    MultiWordArithmetic
    ComparesAgree
    ShiftsMatchReference
    SaturationClamps
    ModuloRoundTrip
    VectorAgreesWithScalar
PROPERTIES
    OverflowIsSticky
