\* A worker that chooses the id which comes next.
SPECIFICATION Spec
CONSTANTS
    Word = 16
    NoWorker = NoWorker
    WorkerIds = {"worker-1", "worker-2"}
    TaskIds = {"wide", "small", "large"}
    Demand <- ThreeDemand
    GPULists <- MixedLists
    ExplicitIds = {"worker-2"}
    MaxWorkers = 2
    AutoId <- MCAutoId2
    Reported = {"RUNNING", "COMPLETED"}
    NestedRLockGranted = TRUE
INVARIANTS
    AnonymousAccepted
