SPECIFICATION Spec
CONSTANTS
    h1 = h1
    h2 = h2
    l1 = l1
    l2 = l2
    x1 = x1
    x2 = x2
    None = None
    Hosts = {h1, h2}
    Leases = {l1, l2}
    Execs = {x1, x2}
    MaxAttempts = 2
    RetryOnFailure = TRUE
    RetryOnUnknown = FALSE
SYMMETRY Symmetry
INVARIANTS
    CallsAreGoverned
    OwnershipIsKept
    VerdictsAreReal
PROPERTIES
    GovernedBoundary
CHECK_DEADLOCK FALSE
