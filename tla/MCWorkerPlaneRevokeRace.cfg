SPECIFICATION Spec
CONSTANTS
    w1 = w1
    w2 = w2
    Workers = {w1, w2}
    Capable = {w1, w2}
    g1 = g1
    g2 = g2
    Grants = {g1, g2}
    GrantWorker <- MCGrantWorker
    GrantExpiry <- MCGrantExpiry
    LeaseSeconds = 1
    MaxTime = 2
    Requests = {r1, r2}
    Results = {"ok"}
    Reasons = {"cancel-observed"}
    None = None
SYMMETRY Symmetric
CHECK_DEADLOCK FALSE
PROPERTIES
    NoResultAfterRevoke
