\* Two workers, calls that fail and updates that are late.
SPECIFICATION SSpec
CONSTANTS
    Word = 16
    NoWorker = NoWorker
    WorkerIds = {"worker-1", "worker-2"}
    TaskIds = {"t0", "t1", "t2", "u0"}
    Demand <- MCDemand
    GPULists = {}
    ExplicitIds = {}
    MaxWorkers = 2
    AutoId <- MCAutoId
    Reported = {"RUNNING", "COMPLETED"}
    NestedRLockGranted = TRUE
    Me = "worker-1"
    Registered <- Two
    Steps = 1
    Held <- HeldByTwo
    Settings <- AllSettings
INVARIANTS
    STypeOK
    ExecutedOnce
    BookedWhileExecuted
    EndReachesScheduler
    ReportsOnHeld
    NoSharedGPUUntilCanceled
PROPERTIES
    ExecutedIsReleased
\* After the updates that the bound admits, a worker may wait for another.
CHECK_DEADLOCK FALSE
