\* Any updates and commands.
SPECIFICATION WSpec
CONSTANTS
    TaskIds = {"t1"}
    Demand <- Narrow1
    GPUList <- TwoGPUs
    Strategies = {}
    Steps = 2
    Updates <- AnyTasks
    NestedRLockGranted = TRUE
INVARIANTS
    ActiveIsExecuted
PROPERTIES
    StartedTaskEnds
\* The process may have stopped, or wait for ever where Stop does.
CHECK_DEADLOCK FALSE
