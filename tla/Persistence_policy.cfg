\* The server may be restarted with the other policy.
SPECIFICATION MSpec
CONSTANTS
    Word = 16
    NoWorker = NoWorker
    WorkerIds = {"worker-1", "worker-2"}
    TaskIds = {"t1", "t2"}
    Demand <- Narrow
    GPULists <- TwoGPUs
    ExplicitIds = {}
    MaxWorkers = 1
    AutoId <- MCAutoId1
    Reported = {"COMPLETED", "FAILED"}
    NestedRLockGranted = TRUE
    BootPolicies = {"simple", "balanced"}
    MaxBoots = 2
    MaxEnds = 2
INVARIANTS
    QueuedNotAssigned
    MeasuredHidesNoTask
    EndsCounted
PROPERTIES
    RestoredAsSaved
\* A server that is down may stay down.
CHECK_DEADLOCK FALSE
