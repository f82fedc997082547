------------------------------ MODULE MCWorker ------------------------------
(* Small instances of Worker for TLC.                                      *)
EXTENDS Worker

Gpu(id, mem) == [id |-> id, memoryMB |-> mem, available |-> TRUE]
Need(n) == [requiredGPUs |-> n, minGPUMemory |-> 1]

\* A small and a large GPU.
TwoGPUs == <<Gpu("0", 1), Gpu("1", 2)>>

Narrow == [t \in {"t1", "t2"} |-> Need(1)]

Lists(S) == UNION {[L -> {"RUNNING", "CANCELED"}] : L \in SUBSET S}

\* Every view of the GPUs, for a worker that the scheduler takes for busy.
AnyGPUs ==
    [gpus : [{"0", "1"} -> BOOLEAN], status : {"BUSY"}, tasks : Lists({"t1", "t2"})]

Narrow1 == [t \in {"t1"} |-> Need(1)]

\* Every view of one task, with or without another task that the worker lacks.
AnyTasks ==
    [gpus   : [{"0", "1"} -> {TRUE}],
     status : {"BUSY"},
     tasks  : UNION {[L -> {"RUNNING", "COMPLETED", "CANCELED"}] : L \in {{"t1"}, {"other"}}}]

\* Updates that say nothing but the status.
StatusOnly ==
    [gpus : [{"0", "1"} -> {TRUE}], status : {"IDLE", "BUSY"}, tasks : {<<>>}]
==============================================================================
