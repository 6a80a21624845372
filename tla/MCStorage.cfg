SPECIFICATION Spec
CONSTANTS
    p1 = p1
    p2 = p2
    p3 = p3
    d1 = d1
    d2 = d2
    Procs = {p1, p2, p3}
    Digests = {d1, d2}
    Workloads <- MCWorkloads
    None = None
    Project = "project"
CHECK_DEADLOCK FALSE
INVARIANTS
    ReferencedIsHeld
    ImageIsPrefix
    RestoredIsWhole
    TablesReplay
    StoreLifecycle
