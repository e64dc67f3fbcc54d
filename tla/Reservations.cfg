SPECIFICATION Spec
CONSTANTS
    h1 = h1
    h2 = h2
    a = a
    b = b
    r1 = r1
    r2 = r2
    None = None
    Hosts = {h1}
    Resources = {r1, r2}
    Candidates = {a, b}
    Demand <- TwoResources
    Total <- Three
    Protected <- One
    Amounts = {0, 1}
    Reports = {2}
    Bound = {a, b}
    MaxDocuments = 6
INVARIANTS
    CommitmentsCovered
    ConsumptionIsAccounted
    SummaryIsReal
CHECK_DEADLOCK FALSE
