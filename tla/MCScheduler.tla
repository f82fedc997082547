----------------------------- MODULE MCScheduler -----------------------------
(* Small instances of Scheduler for TLC.                                   *)
EXTENDS SchedulerLedger

Gpu(id, mem) == [id |-> id, memoryMB |-> mem, available |-> TRUE]
Need(n, mem) == [requiredGPUs |-> n, minGPUMemory |-> mem]

\* The ids "worker-1", "worker-2", ... that RegisterWorker generates.
MCAutoId2 == <<"worker-1", "worker-2">>

\* A worker with a small and a large GPU, and one with a single large GPU: they
\* use the same GPU ids, as workers of the documentation do.
MixedLists == {<<Gpu("0", 1), Gpu("1", 2)>>, <<Gpu("0", 2)>>}

\* A wide task, a small one and one for a large GPU.
ThreeDemand == [t \in {"wide", "small", "large"} |->
    CASE t = "wide"  -> Need(2, 1)
      [] t = "small" -> Need(1, 1)
      [] t = "large" -> Need(1, 2)]

\* The same, and a task without GPUs.
MixedDemand == [t \in {"wide", "small", "large", "cpu"} |->
    IF t = "cpu" THEN Need(0, 0) ELSE ThreeDemand[t]]
==============================================================================
