\* The gauge of workers while the server starts.
SPECIFICATION MSpec
CONSTANTS
    Word = 16
    NoWorker = NoWorker
    WorkerIds = {"worker-1", "worker-2"}
    TaskIds = {"t1", "t2"}
    Demand <- Narrow
    GPULists <- TwoGPUs
    ExplicitIds = {}
    MaxWorkers = 1
    AutoId <- MCAutoId1
    Reported = {"COMPLETED", "FAILED"}
    NestedRLockGranted = TRUE
    BootPolicies = {"simple", "balanced"}
    MaxBoots = 2
    MaxEnds = 2
INVARIANT WorkersCounted
\* A server that is down may stay down.
CHECK_DEADLOCK FALSE
