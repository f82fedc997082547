------------------------------ MODULE Protocol ------------------------------
(***************************************************************************)
(* What scheduler and workers have in common: the enumerations and the GPU *)
(* message of proto/scheduler.proto, and how both sides mark the GPUs in   *)
(* their lists.                                                            *)
(***************************************************************************)
EXTENDS Integers, Sequences, FiniteSets

WorkerStatus == {"IDLE", "BUSY", "OFFLINE", "ERROR"}

TaskStatus == {"PENDING", "RUNNING", "COMPLETED", "FAILED", "CANCELED"}

\* What a task asks for, of the Task message.
TaskDemand == [requiredGPUs : Nat, minGPUMemory : Nat]

GPU == [id : STRING, memoryMB : Nat, available : BOOLEAN]

DistinctIds(gpus) ==
    \A i, j \in DOMAIN gpus : gpus[i].id = gpus[j].id => i = j

\* Set Available of every GPU whose id is listed.
MarkGPUs(gpus, ids, available) ==
    [i \in DOMAIN gpus |->
        IF gpus[i].id \in ids THEN [gpus[i] EXCEPT !.available = available] ELSE gpus[i]]
=============================================================================
