SPECIFICATION LiveSpec
CONSTANTS
    Clients = {c1, c2}
    Retries = 2
    MaxCollectFiles = 2
    Workloads <- MCWorkloads
    None = None
INVARIANTS
    CompletedIsExecuted
    CancelObservedStops
PROPERTIES
    PendingDelivered
