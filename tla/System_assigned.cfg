\* A task that the pass assigned.
SPECIFICATION SSpec
CONSTANTS
    Word = 16
    NoWorker = NoWorker
    WorkerIds = {"worker-1", "worker-2"}
    TaskIds = {"t0", "t1", "t2", "u0"}
    Demand <- MCDemand
    GPULists = {}
    ExplicitIds = {}
    MaxWorkers = 2
    AutoId <- MCAutoId
    Reported = {"RUNNING", "COMPLETED"}
    NestedRLockGranted = TRUE
    Me = "worker-1"
    Registered <- MeAlone
    Steps = 1
    Held <- HeldByMe
    Settings <- OnlyQuiet
PROPERTIES
    AssignedIsExecuted
