SPECIFICATION RunSpec
CONSTANTS
    AttemptIds = {a1, a2, a3}
    Revisions = {1, 2}
    MaxAttemptsLimit = 3
    SequenceMax = 9
    None = None
    Rejected = Rejected
SYMMETRY Symmetric
CHECK_DEADLOCK FALSE
INVARIANTS
    RunTypeOK
    StampNeverRejects
    AttemptsRevalidate
    TwoEventsClose
PROPERTIES
    ResolvedAttemptsFrozen
    ImplementsContract
