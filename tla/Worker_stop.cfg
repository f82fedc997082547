\* A signal while tasks are executed.
SPECIFICATION WSpec
CONSTANTS
    TaskIds = {"t1"}
    Demand <- Narrow1
    GPUList <- TwoGPUs
    Strategies = {}
    Steps = 2
    Updates <- StatusOnly
    NestedRLockGranted = TRUE
PROPERTIES
    StopReturns
\* The process may have stopped, or wait for ever where Stop does.
CHECK_DEADLOCK FALSE
