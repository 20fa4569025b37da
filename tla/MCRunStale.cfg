CONSTANTS
    None = None
    r1 = r1
    r2 = r2
    t1 = t1
    t2 = t2
    x1 = x1
    a1 = a1
    Run = {r1, r2}
    Task = {t1, t2}
    Target = {x1}
    Artifact = {a1}
    RequeueAtBack = TRUE
    NumKinds = 2
    Limit <- MCLimit
    NumSteps = 2
    SlotsOf <- MCSlotsOf
    SideEffecting = {1, 2}
    TargetOf <- MCTargetOf
    AsyncAdapters = TRUE
    MaxRegenerations = 1
    MaxRequests = 4
    MaxExpiries = 0
    MaxFaults = 0
SPECIFICATION Spec
SYMMETRY MCTaskSymmetry
INVARIANTS
    CapBoundsPasses
CHECK_DEADLOCK FALSE
