\* Registrations before the saved state is loaded.
SPECIFICATION CSpec
CONSTANTS
    Word = 16
    NoWorker = NoWorker
    WorkerIds = {"worker-1", "worker-2"}
    TaskIds = {"t1"}
    Demand <- Narrow1
    GPULists <- OneGPU
    ExplicitIds = {}
    MaxWorkers = 2
    AutoId <- MCAutoId2
    Reported = {}
    NestedRLockGranted = TRUE
    BootPolicies = {"balanced"}
    MaxBoots = 1
    Procs = {"p", "q"}
    Monitors = {"m"}
INVARIANTS
    UniqueIdentity
\* A server that is down may stay down.
CHECK_DEADLOCK FALSE
