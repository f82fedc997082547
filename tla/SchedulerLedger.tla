-------------------------- MODULE SchedulerLedger --------------------------
(***************************************************************************)
(* The scheduler as an implementation of GPULedger: how its tables are     *)
(* read as a ledger.                                                       *)
(***************************************************************************)
EXTENDS Scheduler

\* A list of GPUs without their flags.
Devices(gpus) == {[id |-> gpus[i].id, memoryMB |-> gpus[i].memoryMB] : i \in DOMAIN gpus}

Pool == [w \in DOMAIN workers |-> Devices(workers[w].gpus)]

Queued == {pendingTasks[i] : i \in DOMAIN pendingTasks}

\* The tasks that some worker holds.
HeldTasks == UNION {workers[w].tasks : w \in DOMAIN workers}

Grants == [t \in HeldTasks |-> [worker |-> tasks[t].workerID, gpus |-> tasks[t].assignedGPUs]]

Over == DOMAIN tasks \ (Queued \cup HeldTasks)

Ledger == INSTANCE GPULedger WITH
    pool    <- Pool,
    waiting <- Queued,
    grants  <- Grants,
    over    <- Over,
    DeviceSets <- {Devices(gpus) : gpus \in GPULists}

\* With clients that report on the tasks they hold, the service keeps a correct
\* ledger: every handler and every iteration of the pass joins a worker,
\* submits a task, grants free GPUs that are large enough, ends a running task,
\* or changes nothing that the ledger shows.
KeepsLedger == Ledger!Spec
=============================================================================
