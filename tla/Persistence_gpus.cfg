\* Two workers that number their GPUs alike.
SPECIFICATION PSpec
CONSTANTS
    Word = 16
    NoWorker = NoWorker
    WorkerIds = {"worker-1", "worker-2"}
    TaskIds = {"t1", "t2"}
    Demand <- Narrow
    GPULists <- OneGPU
    ExplicitIds = {}
    MaxWorkers = 2
    AutoId <- MCAutoId2
    Reported = {"RUNNING", "COMPLETED"}
    NestedRLockGranted = TRUE
    BootPolicies = {"balanced"}
    MaxBoots = 2
PROPERTIES
    GPUsRestored
\* A server that is down may stay down.
CHECK_DEADLOCK FALSE
