CONSTANTS
    None = None
    r1 = r1
    r2 = r2
    t1 = t1
    t2 = t2
    x1 = x1
    a1 = a1
    Run = {r1, r2}
    Task = {t1, t2}
    Target = {x1}
    Artifact = {a1}
    RequeueAtBack = FALSE
    NumKinds = 2
    Limit <- MCLimit
    NumSteps = 2
    SlotsOf <- MCSlotsOf
    SideEffecting = {1, 2}
    TargetOf <- MCTargetOf
    AsyncAdapters = FALSE
    MaxRegenerations = 1
    MaxRequests = 4
    MaxExpiries = 1
    MaxFaults = 0
SPECIFICATION FairSpec
INVARIANTS
    TypeOK
    NoSlotLeaks
    QueuedIsInLine
    OnePassPerRun
    PassHoldsItsSlots
    EffectAtMostOnce
    CompletedIsApproved
    OneStepInReview
    
PROPERTIES
    KeepsThePromise
    QueuedIsDriven
    BlockedIsRetried
CHECK_DEADLOCK FALSE
