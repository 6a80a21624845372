SPECIFICATION Spec
CONSTANTS
    AttemptIds = {a1}
    Revisions = {1}
    MaxAttemptsLimit = 1
    SequenceMax = 20
    WorkAttempt = a1
    WorkRevision = 1
    Reconcilers = {p1}
    MaxLeases = 2
    MaxFlips = 1
    MaxCrashes = 0
    None = None
    Rejected = Rejected
CHECK_DEADLOCK FALSE
INVARIANTS
    CompletedWins
