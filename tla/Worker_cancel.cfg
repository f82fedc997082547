\* A task that is stopped or canceled.
SPECIFICATION WSpec
CONSTANTS
    TaskIds = {"t1"}
    Demand <- Narrow1
    GPUList <- TwoGPUs
    Strategies = {}
    Steps = 2
    Updates <- StatusOnly
    NestedRLockGranted = TRUE
PROPERTIES
    CanceledNeverCompletes
\* The process may have stopped, or wait for ever where Stop does.
CHECK_DEADLOCK FALSE
