\* The handlers on the mutex as Go implements it.
SPECIFICATION Spec
CONSTANTS
    Word = 16
    NoWorker = NoWorker
    WorkerIds = {"worker-1", "worker-2"}
    TaskIds = {"wide", "small", "large"}
    Demand <- ThreeDemand
    GPULists <- MixedLists
    ExplicitIds = {"worker-2"}
    MaxWorkers = 2
    AutoId <- MCAutoId2
    Reported = {"PENDING", "RUNNING", "COMPLETED", "FAILED", "CANCELED"}
    NestedRLockGranted = FALSE
PROPERTIES
    MutexReleased
\* That nothing more happens is what MutexReleased is about.
CHECK_DEADLOCK FALSE
