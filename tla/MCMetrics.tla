----------------------------- MODULE MCMetrics -----------------------------
(* Small instances of SchedulerMetrics for TLC.                            *)
EXTENDS SchedulerMetrics

Gpu(id, mem) == [id |-> id, memoryMB |-> mem, available |-> TRUE]
Need(n, mem) == [requiredGPUs |-> n, minGPUMemory |-> mem]

MCAutoId1 == <<"worker-1">>
TwoGPUs == {<<Gpu("0", 1), Gpu("1", 1)>>}

\* Two tasks that a worker of two GPUs can run together.
Narrow == [t \in {"t1", "t2"} |-> Need(1, 1)]
==============================================================================
