\* Clients that report on the tasks they hold, as pkg/worker does.
SPECIFICATION OwnerSpec
CONSTANTS
    Word = 16
    NoWorker = NoWorker
    WorkerIds = {"worker-1", "worker-2"}
    TaskIds = {"wide", "small", "large", "cpu"}
    Demand <- MixedDemand
    GPULists <- MixedLists
    ExplicitIds = {}
    MaxWorkers = 2
    AutoId <- MCAutoId2
    Reported = {"RUNNING", "COMPLETED", "FAILED", "CANCELED"}
    NestedRLockGranted = TRUE
INVARIANTS
    GPUsAccounted
    NoDoubleBooking
    AssignmentMeetsDemand
    AnonymousAccepted
    IdleWorkerLeavesNothing
PROPERTIES
    KeepsLedger
\* The instance stops when its tasks have ended; only refused calls remain.
CHECK_DEADLOCK FALSE
