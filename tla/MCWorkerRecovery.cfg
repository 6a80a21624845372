SPECIFICATION FairSpec
CONSTANTS
    AttemptIds = {a1}
    Revisions = {1}
    MaxAttemptsLimit = 1
    SequenceMax = 20
    WorkAttempt = a1
    WorkRevision = 1
    Reconcilers = {p1, p2}
    MaxLeases = 1
    MaxFlips = 2
    MaxCrashes = 1
    None = None
    Rejected = Rejected
CHECK_DEADLOCK FALSE
INVARIANTS
    TypeOK
    SuccessWasRecorded
    CancelWasObserved
PROPERTIES
    CompletedCloses
    ObservedStopCloses
