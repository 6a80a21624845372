SPECIFICATION Spec
CONSTANTS
    Controls = {c1, c2}
    AttemptIds = {a1}
    Revisions = {1}
    MaxAttemptsLimit = 1
    SequenceMax = 3
    CommandTypes = {"run.queued", "run.started", "run.cancelled"}
    None = None
    Rejected = Rejected
SYMMETRY Symmetric
CHECK_DEADLOCK FALSE
INVARIANTS
    TypeOK
    LogReplays
    FrozenHeadFresh
    CacheRowHonest
    AppendResultHonest
PROPERTIES
    ImplementsAggregate
