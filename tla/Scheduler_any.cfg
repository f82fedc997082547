\* Clients that report anything about any task.
SPECIFICATION Spec
CONSTANTS
    Word = 16
    NoWorker = NoWorker
    WorkerIds = {"worker-1", "worker-2"}
    TaskIds = {"wide", "small", "large"}
    Demand <- ThreeDemand
    GPULists <- MixedLists
    ExplicitIds = {"worker-2"}
    MaxWorkers = 2
    AutoId <- MCAutoId2
    Reported = {"PENDING", "RUNNING", "COMPLETED", "FAILED", "CANCELED"}
    NestedRLockGranted = TRUE
INVARIANTS
    TypeOK
    WorkConserving
    PendingExactlyUnassigned
    HeldByAssignee
    IdleIffNothingHeld
PROPERTIES
    AssignedOnceByPass
    MutexReleased
