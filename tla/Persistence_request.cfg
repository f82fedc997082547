\* RequestTask after a restart with the other policy.
SPECIFICATION PSpec
CONSTANTS
    Word = 16
    NoWorker = NoWorker
    WorkerIds = {"worker-1", "worker-2"}
    TaskIds = {"t1", "t2", "t3"}
    Demand <- Narrow3
    GPULists <- ApartGPUs
    ExplicitIds = {}
    MaxWorkers = 2
    AutoId <- MCAutoId2
    Reported = {}
    NestedRLockGranted = TRUE
    BootPolicies = {"simple", "balanced"}
    MaxBoots = 2
INVARIANTS
    HeldByAssignee
\* A server that is down may stay down.
CHECK_DEADLOCK FALSE
