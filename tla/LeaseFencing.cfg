SPECIFICATION FairSpec
CONSTANTS
    h1 = h1
    h2 = h2
    l1 = l1
    l2 = l2
    t1 = t1
    t2 = t2
    w1 = w1
    w2 = w2
    Hosts = {h1, h2}
    Workers = {w1}
    Tasks = {t1}
    Leases = {l1, l2}
    Nothing = Nothing
    Limits = {2}
    LeaseTime = 2
    WorkerTimeout = 3
    Age = 3
    MaxTime = 3
    MaxDelay = 1
    FreshHandlers = TRUE
    MaxCrashes = 1
INVARIANTS
    LeaseIsBacked
PROPERTIES
    LeasesEnd
    ImplementsCustody
CHECK_DEADLOCK FALSE
