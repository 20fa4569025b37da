CONSTANTS
    r1 = r1
    r2 = r2
    r3 = r3
    r4 = r4
    Run = {r1, r2, r3, r4}
    RequeueAtBack = TRUE
    NumKinds = 3
    Limit <- MCLimit
    PassKinds <- MCPassKinds
SPECIFICATION Spec
SYMMETRY MCSymmetry
INVARIANTS
    TypeOK
    CapRespected
    LineWellFormed
    NoIdleSlot
    EverySlotAccounted
    WaitsInOrder
    NotStranded
PROPERTIES
    HeadOfLineFirst
    KeepsItsPlace
CHECK_DEADLOCK FALSE
