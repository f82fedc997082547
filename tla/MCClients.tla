------------------------------ MODULE MCClients ------------------------------
(* Small instances of Clients for TLC.                                     *)
EXTENDS Clients

MCAutoId2 == <<"worker-1", "worker-2">>
OneGPU == {<<[id |-> "0", memoryMB |-> 1, available |-> TRUE]>>}
Narrow1 == [t \in {"t1"} |-> [requiredGPUs |-> 1, minGPUMemory |-> 1]]
==============================================================================
