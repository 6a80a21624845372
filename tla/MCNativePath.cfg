SPECIFICATION Spec
CONSTANTS
    Procs = {p1, p2, p3}
    p1 = p1
    p2 = p2
    p3 = p3
    NoProc = NoProc
    Roots = {r1, r2}
    r1 = r1
    r2 = r2
    Files = {1, 2}
    MaxTransferRetries = 2
    Leases = {"l1", "l2"}
    Workloads <- MCWorkloads
    AttemptIds = {a1}
    Revisions = {1}
    MaxAttemptsLimit = 1
    SequenceMax = 40
    None = None
    Rejected = Rejected
INVARIANTS
    SingleLaunch
    ReleasedIsRecorded
    TerminalIsObserved
CHECK_DEADLOCK FALSE
