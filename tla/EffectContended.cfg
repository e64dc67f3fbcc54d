SPECIFICATION Spec
CONSTANTS
    h1 = h1
    h2 = h2
    x1 = x1
    x2 = x2
    Hosts = {h1, h2}
    Controllers = {h1, h2}
    Effects = {e1, e2}
    Keys = {k1, k2}
    e1 = e1
    e2 = e2
    k1 = k1
    k2 = k2
    Execs = {x1, x2}
    NoExec = NoExec
    NoEffect = NoEffect
    MaxAttempts = 2
    RetryOnFailure = TRUE
    RetryOnUnknown = TRUE
    UniqueKeys = TRUE
    AtomicRecovery = TRUE
    ExclusiveRecovery = FALSE
    MaxCrashes = 1
    KeyOf <- OneKey
SYMMETRY Symmetry
INVARIANTS
    RecordedSuccessIsReal
    OneRecordPerKey
CHECK_DEADLOCK FALSE
