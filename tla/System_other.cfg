\* RequestTask chooses for one worker and answers another.
SPECIFICATION SSpec
CONSTANTS
    Word = 16
    NoWorker = NoWorker
    WorkerIds = {"worker-1", "worker-2"}
    TaskIds = {"t0", "t1", "t2", "u0"}
    Demand <- WideDemand
    GPULists = {}
    ExplicitIds = {}
    MaxWorkers = 2
    AutoId <- MCAutoId
    Reported = {"RUNNING", "COMPLETED"}
    NestedRLockGranted = TRUE
    Me = "worker-1"
    Registered <- Unequal
    Steps = 1
    Held <- HeldByTwo
    Settings <- OnlyQuiet
INVARIANTS
    EnoughGPUs
