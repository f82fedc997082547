\* The mutex as Go implements it.
SPECIFICATION WSpec
CONSTANTS
    TaskIds = {"t1"}
    Demand <- Narrow1
    GPUList <- TwoGPUs
    Strategies = {}
    Steps = 2
    Updates <- StatusOnly
    NestedRLockGranted = FALSE
PROPERTIES
    WorkerLockReleased
\* The process may have stopped, or wait for ever where Stop does.
CHECK_DEADLOCK FALSE
