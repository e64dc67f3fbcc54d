SPECIFICATION Spec
CONSTANTS
    h1 = h1
    h2 = h2
    l1 = l1
    l2 = l2
    t1 = t1
    t2 = t2
    w1 = w1
    w2 = w2
    Hosts = {h1, h2}
    Workers = {w1, w2}
    Tasks = {t1, t2}
    Leases = {l1, l2}
    Nothing = Nothing
    Limits = {0, 1}
    LeaseTime = 2
    WorkerTimeout = 9
    Age = 0
    MaxTime = 4
    MaxDelay = 0
    FreshHandlers = TRUE
    MaxCrashes = 1
SYMMETRY Symmetry
INVARIANTS
    CompletionIsEarned
PROPERTIES
    NoResultAfterLoss
    ExpiryIsCanonical
    NoOverbooking
CHECK_DEADLOCK FALSE
