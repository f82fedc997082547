---------------------------- MODULE MCPersistence ----------------------------
(* Small instances of SchedulerPersistence for TLC.                        *)
EXTENDS SchedulerPersistence

Gpu(id, mem) == [id |-> id, memoryMB |-> mem, available |-> TRUE]
Need(n, mem) == [requiredGPUs |-> n, minGPUMemory |-> mem]

MCAutoId1 == <<"worker-1">>
MCAutoId2 == <<"worker-1", "worker-2">>

\* Workers that number their GPUs from 0, as the documentation has them, and
\* workers whose GPUs have ids of their own.
TwoGPUs == {<<Gpu("0", 1), Gpu("1", 1)>>}
ApartGPUs == {<<Gpu("a", 1), Gpu("b", 1)>>, <<Gpu("c", 1), Gpu("d", 1)>>}
UnequalGPUs == {<<Gpu("a", 1), Gpu("b", 1)>>, <<Gpu("c", 1)>>}
OneGPU == {<<Gpu("0", 1)>>}

\* A narrow and a wide task; narrow tasks only.
NarrowWide == [t \in {"t1", "t2"} |-> IF t = "t1" THEN Need(1, 1) ELSE Need(2, 1)]
Narrow1 == [t \in {"t1"} |-> Need(1, 1)]
Narrow == [t \in {"t1", "t2"} |-> Need(1, 1)]
Narrow3 == [t \in {"t1", "t2", "t3"} |-> Need(1, 1)]
==============================================================================
