\* Updates that cancel no task.
SPECIFICATION FreshSpec
CONSTANTS
    TaskIds = {"t1", "t2"}
    Demand <- Narrow
    GPUList <- TwoGPUs
    Strategies = {"packed", "spread", "memory", "performance"}
    Steps = 1
    Updates <- AnyGPUs
    NestedRLockGranted = TRUE
INVARIANTS
    WTypeOK
    GPUsHeldExclusively
    ReportsInOrder
\* The process may have stopped, or wait for ever where Stop does.
CHECK_DEADLOCK FALSE
