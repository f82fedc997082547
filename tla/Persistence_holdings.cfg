\* A restart after a task has ended.
SPECIFICATION PSpec
CONSTANTS
    Word = 16
    NoWorker = NoWorker
    WorkerIds = {"worker-1", "worker-2"}
    TaskIds = {"t1", "t2"}
    Demand <- Narrow
    GPULists <- OneGPU
    ExplicitIds = {}
    MaxWorkers = 1
    AutoId <- MCAutoId1
    Reported = {"RUNNING", "COMPLETED"}
    NestedRLockGranted = TRUE
    BootPolicies = {"balanced"}
    MaxBoots = 2
PROPERTIES
    HoldingsRestored
\* A server that is down may stay down.
CHECK_DEADLOCK FALSE
