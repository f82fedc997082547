\* Clients that keep their streams.
SPECIFICATION CSpec
CONSTANTS
    Word = 16
    NoWorker = NoWorker
    WorkerIds = {"worker-1", "worker-2"}
    TaskIds = {"t1"}
    Demand <- Narrow1
    GPULists <- OneGPU
    ExplicitIds = {}
    MaxWorkers = 2
    AutoId <- MCAutoId2
    Reported = {}
    NestedRLockGranted = TRUE
    BootPolicies = {"balanced"}
    MaxBoots = 1
    Procs = {"p", "q"}
    Monitors = {"m"}
PROPERTIES
    ServerStops
\* A server that is down may stay down.
CHECK_DEADLOCK FALSE
