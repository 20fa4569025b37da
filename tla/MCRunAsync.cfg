CONSTANTS
    None = None
    r1 = r1
    r2 = r2
    r3 = r3
    t1 = t1
    t2 = t2
    t3 = t3
    a1 = a1
    Run = {r1, r2, r3}
    Task = {t1, t2, t3}
    Target = {}
    Artifact = {a1}
    RequeueAtBack = TRUE
    NumKinds = 2
    Limit <- MCLimit
    NumSteps = 1
    SlotsOf <- MCSlotsOf
    SideEffecting = {1}
    TargetOf <- MCTargetOf
    AsyncAdapters = TRUE
    MaxRegenerations = 0
    MaxRequests = 2
    MaxExpiries = 0
    MaxFaults = 2
SPECIFICATION Spec
SYMMETRY MCSymmetry
INVARIANTS
    EffectsNeedApproval
    DecisionsAreBacked
    NoLockDeadlock
CHECK_DEADLOCK FALSE
