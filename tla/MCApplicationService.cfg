SPECIFICATION LiveSpec
CONSTANTS
    Callers = {x1, x2}
    Limits = {2, 3}
    Materials = {1, 2}
    Workloads <- MCWorkloads
    Registry <- MCRegistry
    MaxNodes = 8
    MaxLoopDepth = 2
    AttemptIds = {a1}
    Revisions = {1}
    MaxAttemptsLimit = 1
    SequenceMax = 40
    None = None
    Rejected = Rejected
INVARIANTS
    EffectAtMostOnce
    SpendWithinApproval
    UncertainStaysReserved
    ReceiptBacked
    LedgerConsistent
    SimulatedSound
PROPERTIES
    LostReceiptRecovered
