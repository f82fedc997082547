\* A crash in the middle of a second save.
SPECIFICATION PSpec
CONSTANTS
    Word = 16
    NoWorker = NoWorker
    WorkerIds = {"worker-1", "worker-2"}
    TaskIds = {"t1", "t2"}
    Demand <- Narrow
    GPULists <- OneGPU
    ExplicitIds = {}
    MaxWorkers = 1
    AutoId <- MCAutoId1
    Reported = {"RUNNING", "COMPLETED"}
    NestedRLockGranted = TRUE
    BootPolicies = {"balanced"}
    MaxBoots = 3
PROPERTIES
    SavedTasksSurvive
\* A server that is down may stay down.
CHECK_DEADLOCK FALSE
