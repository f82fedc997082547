------------------------------ MODULE MCSystem ------------------------------
(* Small instances of System for TLC.                                      *)
EXTENDS System

MCAutoId == <<"worker-1", "worker-2">>

Gpu(id, mem) == [id |-> id, memoryMB |-> mem, available |-> TRUE]

\* A small GPU and two large ones.
ThreeGPUs == <<Gpu("0", 1), Gpu("1", 2), Gpu("2", 2)>>

MeAlone == [w \in {"worker-1"} |-> ThreeGPUs]
Two == [w \in {"worker-1", "worker-2"} |-> ThreeGPUs]

\* t2 is content with a small GPU.
MCDemand == [t \in {"t0", "t1", "t2", "u0"} |->
    [requiredGPUs |-> 1, minGPUMemory |-> IF t = "t2" THEN 1 ELSE 2]]

\* t0 and u0 were given the first large GPUs of the two workers.
HeldByMe == [t \in {"t0"} |-> [worker |-> "worker-1", gpus |-> {"1"}]]
HeldByTwo == [t \in {"t0", "u0"} |-> [worker |-> IF t = "t0" THEN "worker-1" ELSE "worker-2", gpus |-> {"1"}]]

\* Me has one GPU, and t1 asks for two.
Unequal == [Two EXCEPT !["worker-1"] = <<Gpu("1", 2)>>]
WideDemand == [MCDemand EXCEPT !["t1"] = [requiredGPUs |-> 2, minGPUMemory |-> 1]]

\* Nothing goes wrong; calls fail and updates are late; one update is late, and
\* the tasks that wait ask for the same GPUs or for others.
QuietSetting == [queue |-> <<"t1", "t2">>, updates |-> 0, lossy |-> FALSE]
FaultySetting == [queue |-> <<"t1">>, updates |-> 3, lossy |-> TRUE]
LateSetting == [queue |-> <<"t1", "t2">>, updates |-> 1, lossy |-> FALSE]
SameSetting == [queue |-> <<"t1", "u0">>, updates |-> 1, lossy |-> FALSE]

OnlyQuiet == {QuietSetting}
OnlyLate == {LateSetting}
OnlySame == {SameSetting}
AllSettings == {LateSetting, FaultySetting}
==============================================================================
