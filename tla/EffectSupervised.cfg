SPECIFICATION FairSpec
CONSTANTS
    h1 = h1
    h2 = h2
    x1 = x1
    x2 = x2
    x3 = x3
    Hosts = {h1, h2}
    Controllers = {h1}
    Effects = {e1, e2}
    Keys = {k1, k2}
    e1 = e1
    e2 = e2
    k1 = k1
    k2 = k2
    Execs = {x1, x2, x3}
    NoExec = NoExec
    NoEffect = NoEffect
    MaxAttempts = 2
    RetryOnFailure = FALSE
    RetryOnUnknown = FALSE
    UniqueKeys = TRUE
    AtomicRecovery = FALSE
    ExclusiveRecovery = TRUE
    MaxCrashes = 1
    KeyOf <- OwnKeys
INVARIANTS
    AtMostOneInFlight
    InvocationBudget
    HandlersAreNeverOvertaken
PROPERTIES
    NoInvocationAfterSuccess
    ImplementsBoundary
    RunningResolves
    SuccessSurfaces
CHECK_DEADLOCK FALSE
