\* The server is restarted with the policy it had.
SPECIFICATION PSpec
CONSTANTS
    Word = 16
    NoWorker = NoWorker
    WorkerIds = {"worker-1", "worker-2"}
    TaskIds = {"t1", "t2"}
    Demand <- NarrowWide
    GPULists <- UnequalGPUs
    ExplicitIds = {}
    MaxWorkers = 2
    AutoId <- MCAutoId2
    Reported = {"COMPLETED"}
    NestedRLockGranted = TRUE
    BootPolicies = {"balanced"}
    MaxBoots = 2
INVARIANTS
    PTypeOK
    WorkConserving
    HeldByAssignee
    ReferentialIntegrity
PROPERTIES
    UniqueGPUsRestored
\* A server that is down may stay down.
CHECK_DEADLOCK FALSE
