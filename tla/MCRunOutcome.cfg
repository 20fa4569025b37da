CONSTANTS
    None = None
    r1 = r1
    t1 = t1
    t2 = t2
    x1 = x1
    a1 = a1
    Run = {r1}
    Task = {t1, t2}
    Target = {x1}
    Artifact = {a1}
    RequeueAtBack = FALSE
    NumKinds = 2
    Limit <- MCLimit
    NumSteps = 2
    SlotsOf <- MCSlotsOf
    SideEffecting = {1, 2}
    TargetOf <- MCTargetOf
    AsyncAdapters = FALSE
    MaxRegenerations = 1
    MaxRequests = 1
    MaxExpiries = 0
    MaxFaults = 0
SPECIFICATION Spec
SYMMETRY MCTaskSymmetry
PROPERTIES
    OutcomeIsFinal
CHECK_DEADLOCK FALSE
