------------------------ MODULE SchedulerPersistence ------------------------
(***************************************************************************)
(* The scheduler server over several lives of its process: cmd/server      *)
(* starts the service, loads the state that an earlier life saved, and     *)
(* saves it when it is told to stop (scheduler_persistence.go, and the     *)
(* manager and database of pkg/persistence).                               *)
(*                                                                         *)
(* A save empties the database and then writes it row by row, each row     *)
(* (with its dependent rows) in a transaction of its own; every            *)
(* transaction is one action, between which the process may crash or the   *)
(* database may fail.                                                      *)
(***************************************************************************)
EXTENDS Scheduler

CONSTANTS
    BootPolicies,   \* the --policy values the server is started with
    MaxBoots        \* bound: lives of the server process

ASSUME PersistenceAssumptions == BootPolicies \subseteq Policies /\ MaxBoots \in Nat

VARIABLES
    db,         \* the tables of the database
    phase,      \* how far main() of cmd/server is
    boots,      \* lives begun
    lastSave,   \* history: the tables as the last finished save had them
    intact      \* history: the database was not written since that save

pvars == <<vars, db, phase, boots, lastSave, intact>>
service == <<workloadPolicy, scan>>
history == <<lastSave, intact>>

Phases == {"down", "serving", "loading", "running", "stopping", "saved", "draining"}

(* The database.  A GPU row is found by the id of the GPU alone: GPUModel  *)
(* has no other primary key.  No query has an ORDER BY, so that tables are *)
(* sets of rows without an order.                                          *)

EmptyDB == [workers |-> <<>>, gpus |-> <<>>, tasks |-> <<>>, taskGPUs |-> {}, pending |-> {}]

EmptyTables == [workers |-> <<>>, tasks |-> <<>>, pendingTasks |-> <<>>]

PTypeOK ==
    /\ TypeOK
    /\ DOMAIN db.workers \subseteq WorkerIds /\ Range(db.workers) \subseteq WorkerStatus
    /\ Range(db.gpus) \subseteq [workerID : WorkerIds, memoryMB : Nat, available : BOOLEAN]
    /\ DOMAIN db.tasks \subseteq TaskIds
    /\ Range(db.tasks) \subseteq [status : TaskStatus, workerID : WorkerIds \cup {NoWorker}]
    /\ db.taskGPUs \subseteq TaskIds \X STRING
    /\ db.pending \subseteq TaskIds
    /\ phase \in Phases
    /\ boots \in 0..MaxBoots
    /\ intact \in BOOLEAN

PInit ==
    /\ Init
    /\ workloadPolicy \in BootPolicies
    /\ db = EmptyDB
    /\ phase = "down"
    /\ boots = 0
    /\ lastSave = EmptyTables
    /\ intact = TRUE

-----------------------------------------------------------------------------
(* Rows.                                                                   *)

\* Mutant: the availability of the GPUs is not written.
WithWorkerAllFree(d, w) ==
    LET gpus == workers[w].gpus
        own == {gpus[i].id : i \in DOMAIN gpus}
        size(g) == gpus[CHOOSE k \in DOMAIN gpus : gpus[k].id = g].memoryMB
    IN  [d EXCEPT !.workers = Put(@, w, workers[w].status),
                  !.gpus = [g \in DOMAIN d.gpus \cup own |->
                              IF g \in own THEN [workerID |-> w, memoryMB |-> size(g), available |-> TRUE]
                                           ELSE d.gpus[g]]]

\* SaveWorker: the worker's row and one row per GPU, over any row of that id.
WithWorker(d, w) ==
    LET gpus == workers[w].gpus
        row(g) == LET i == CHOOSE k \in DOMAIN gpus : gpus[k].id = g
                  IN  [workerID |-> w, memoryMB |-> gpus[i].memoryMB, available |-> gpus[i].available]
        own == {gpus[i].id : i \in DOMAIN gpus}
    IN  [d EXCEPT !.workers = Put(@, w, workers[w].status),
                  !.gpus = [g \in DOMAIN d.gpus \cup own |-> IF g \in own THEN row(g) ELSE d.gpus[g]]]

\* SaveTask: the task's row and one row per GPU it was given.
WithTask(d, t) ==
    [d EXCEPT !.tasks = Put(@, t, [status |-> tasks[t].status, workerID |-> tasks[t].workerID]),
              !.taskGPUs = {r \in @ : r[1] # t} \cup ({t} \X tasks[t].assignedGPUs)]

\* GetWorkerGPUs: the rows with the worker's id, in any order.
GetWorkerGPUs(w) == SetToSeqs({g \in DOMAIN db.gpus : db.gpus[g].workerID = w})

\* Mutant: GPUs come back as free.
LoadedWorkerAllFree(w, rows) ==
    [gpus   |-> [i \in DOMAIN rows |->
                    [id |-> rows[i], memoryMB |-> db.gpus[rows[i]].memoryMB, available |-> TRUE]],
     status |-> db.workers[w],
     tasks  |-> {t \in DOMAIN db.tasks : db.tasks[t].workerID = w}]

\* Mutant: a worker gets back every task that was assigned to any worker.
LoadedWorkerAllTasks(w, rows) ==
    [gpus   |-> [i \in DOMAIN rows |-> [id |-> rows[i],
                                        memoryMB |-> db.gpus[rows[i]].memoryMB,
                                        available |-> db.gpus[rows[i]].available]],
     status |-> db.workers[w],
     tasks  |-> {t \in DOMAIN db.tasks : db.tasks[t].workerID # NoWorker}]

\* loadFromDatabase and the loops of LoadState, with the rows of the worker's
\* GPUs: its tasks are all tasks with its id, whatever their status.
LoadedWorker(w, rows) ==
    [gpus   |-> [i \in DOMAIN rows |-> [id |-> rows[i],
                                        memoryMB |-> db.gpus[rows[i]].memoryMB,
                                        available |-> db.gpus[rows[i]].available]],
     status |-> db.workers[w],
     tasks  |-> {t \in DOMAIN db.tasks : db.tasks[t].workerID = w}]

\* The tables of workers that the rows of the database stand for.
LoadedWorkers ==
    LET ids == DOMAIN db.workers
        answers == {rows \in [ids -> UNION {GetWorkerGPUs(w) : w \in ids}] :
                       \A w \in ids : rows[w] \in GetWorkerGPUs(w)}
    IN  {[w \in ids |-> LoadedWorker(w, rows[w])] : rows \in answers}

\* Mutant: the status of a pending task is not normalised.
LoadedTaskAsStored(t) ==
    [status       |-> db.tasks[t].status,
     workerID     |-> db.tasks[t].workerID,
     assignedGPUs |-> {r[2] : r \in {q \in db.taskGPUs : q[1] = t}}]

\* A pending task is loaded as PENDING whatever its row says.
LoadedTask(t) ==
    [status       |-> IF t \in db.pending THEN "PENDING" ELSE db.tasks[t].status,
     workerID     |-> db.tasks[t].workerID,
     assignedGPUs |-> {r[2] : r \in {q \in db.taskGPUs : q[1] = t}}]

-----------------------------------------------------------------------------
(* main() of cmd/server.                                                   *)

\* The process is gone, and with it everything but the database.
Down ==
    /\ phase' = "down"
    /\ workers' = <<>> /\ tasks' = <<>> /\ pendingTasks' = <<>>
    /\ persistenceManager' = FALSE /\ saveTrigger' = FALSE
    /\ mu' = "free" /\ scan' = 1
    /\ UNCHANGED <<workloadPolicy, db, boots, history>>

\* The server starts to answer calls, with empty tables.
Boot(policy) ==
    /\ phase = "down"
    /\ boots < MaxBoots
    /\ phase' = "serving"
    /\ boots' = boots + 1
    /\ workloadPolicy' = policy
    /\ UNCHANGED <<tables, persistenceManager, saveTrigger, lock, db, history>>

\* EnablePersistence up to where it unlocks: the manager is there.  It may
\* also fail to open the database, or not be wanted (--persistence=false); then
\* the server runs on without it.
EnablePersistence ==
    /\ phase = "serving"
    /\ mu = "free"
    /\ \/ persistenceManager' = TRUE /\ phase' = "loading"
       \/ persistenceManager' = FALSE /\ phase' = "running"
    /\ UNCHANGED <<tables, saveTrigger, service, mu, db, boots, history>>

\* Mutant: the queue is not emptied first.
LoadStateKeepsQueue ==
    /\ phase = "loading"
    /\ mu = "free"
    /\ phase' = "running"
    /\ tasks' = [t \in DOMAIN db.tasks |-> LoadedTask(t)]
    /\ workers' \in LoadedWorkers
    /\ \E queue \in SetToSeqs(db.pending \cap DOMAIN db.tasks) :
          pendingTasks' = pendingTasks \o queue
    /\ UNCHANGED <<persistenceManager, saveTrigger, service, mu, db, boots, history>>

\* LoadState: the tables are replaced by those of the database.
LoadState ==
    /\ phase = "loading"
    /\ mu = "free"
    /\ phase' = "running"
    /\ tasks' = [t \in DOMAIN db.tasks |-> LoadedTask(t)]
    /\ workers' \in LoadedWorkers
    /\ pendingTasks' \in SetToSeqs(db.pending \cap DOMAIN db.tasks)
    /\ UNCHANGED <<persistenceManager, saveTrigger, service, mu, db, boots, history>>

\* A query fails: EnablePersistence warns and the server runs on as it is.
LoadFails ==
    /\ phase = "loading"
    /\ mu = "free"
    /\ phase' = "running"
    /\ UNCHANGED <<vars, db, boots, history>>

\* autoSaveLoop: the ticker fills the channel.  Nothing receives from it.
AutoSaveTick ==
    /\ persistenceManager
    /\ saveTrigger' = TRUE
    /\ UNCHANGED <<tables, persistenceManager, service, mu, db, phase, boots, history>>

\* SIGINT or SIGTERM: DisablePersistence takes the lock, and does nothing more
\* without a manager.
Signal ==
    /\ phase = "running"
    /\ mu = "free"
    /\ phase' = IF persistenceManager THEN "stopping" ELSE "draining"
    /\ UNCHANGED <<vars, db, boots, history>>

\* SaveState takes the lock, and ClearAllState is its first transaction.
SaveBegin ==
    /\ phase = "stopping"
    /\ mu = "free"
    /\ mu' = "save"
    /\ db' = EmptyDB
    /\ intact' = FALSE
    /\ UNCHANGED <<tables, persistenceManager, saveTrigger, service, phase, boots, lastSave>>

\* Workers come first, in the order of a Go map.
SaveWorker(w) ==
    /\ mu = "save"
    /\ w \in DOMAIN workers \ DOMAIN db.workers
    /\ db' = WithWorker(db, w)
    /\ UNCHANGED <<vars, phase, boots, history>>

\* Mutant: tasks are written before the workers they refer to.
SaveTaskFirst(t) ==
    /\ mu = "save"
    /\ t \in DOMAIN tasks \ DOMAIN db.tasks
    /\ db' = WithTask(db, t)
    /\ UNCHANGED <<vars, phase, boots, history>>

\* Then tasks, in the order of a Go map.
SaveTask(t) ==
    /\ mu = "save"
    /\ DOMAIN workers = DOMAIN db.workers
    /\ t \in DOMAIN tasks \ DOMAIN db.tasks
    /\ db' = WithTask(db, t)
    /\ UNCHANGED <<vars, phase, boots, history>>

\* Pending tasks come last, in the order of the queue.
SavePendingTask ==
    /\ mu = "save"
    /\ DOMAIN workers = DOMAIN db.workers
    /\ DOMAIN tasks = DOMAIN db.tasks
    /\ Cardinality(db.pending) < Len(pendingTasks)
    /\ db' = [db EXCEPT !.pending = @ \cup {pendingTasks[Cardinality(@) + 1]}]
    /\ UNCHANGED <<vars, phase, boots, history>>

\* SaveState returns: with everything written...
SaveDone ==
    /\ mu = "save"
    /\ DOMAIN workers = DOMAIN db.workers
    /\ DOMAIN tasks = DOMAIN db.tasks
    /\ Cardinality(db.pending) = Len(pendingTasks)
    /\ mu' = "free"
    /\ phase' = "saved"
    /\ lastSave' = [workers |-> workers, tasks |-> tasks, pendingTasks |-> pendingTasks]
    /\ intact' = TRUE
    /\ UNCHANGED <<tables, persistenceManager, saveTrigger, service, db, boots>>

\* ... or at the first transaction that fails; DisablePersistence ignores it.
SaveFails ==
    /\ phase = "stopping"
    /\ mu \in {"free", "save"}
    /\ mu' = "free"
    /\ phase' = "saved"
    /\ UNCHANGED <<tables, persistenceManager, saveTrigger, service, db, boots, history>>

\* DisablePersistence locks again, stops the manager and forgets it.
StopManager ==
    /\ phase = "saved"
    /\ mu = "free"
    /\ persistenceManager' = FALSE
    /\ saveTrigger' = FALSE
    /\ phase' = "draining"
    /\ UNCHANGED <<tables, service, mu, db, boots, history>>

\* GracefulStop has let the last calls end.
Exit == phase = "draining" /\ mu = "free" /\ Down

Crash == phase # "down" /\ Down

-----------------------------------------------------------------------------

\* The calls of clients, while there is a server to answer them.
Serve ==
    /\ phase # "down"
    /\ \/ Register
       \/ \E t \in TaskIds \ (DOMAIN db.tasks \cup DOMAIN lastSave.tasks) : AddTask(t)
       \/ \E w \in WorkerIds : RequestTask(w)
       \/ Report
       \/ Pass
    /\ UNCHANGED <<db, phase, boots, history>>

PNext ==
    \/ Serve
    \/ \E policy \in BootPolicies : Boot(policy)
    \/ EnablePersistence
    \/ LoadState \/ LoadFails
    \/ AutoSaveTick
    \/ Signal
    \/ SaveBegin
    \/ \E w \in WorkerIds : SaveWorker(w)
    \/ \E t \in TaskIds : SaveTask(t)
    \/ SavePendingTask \/ SaveDone \/ SaveFails
    \/ StopManager \/ Exit
    \/ Crash

\* An assignment pass runs on, main() gets from Serve to the end of LoadState,
\* and the ticker of autoSaveLoop ticks; nothing makes clients call, operators
\* stop or restart the server, or the database work.
PFairness ==
    /\ WF_pvars(Serve /\ mu = "assign")
    /\ WF_pvars(EnablePersistence \/ LoadState)
    /\ WF_pvars(AutoSaveTick)

PSpec == PInit /\ [][PNext]_pvars /\ PFairness

-----------------------------------------------------------------------------
(* Properties.                                                             *)

\* What the database holds makes sense on its own at every moment, also after
\* a crash in the middle of a save: the references to workers and tasks find
\* their rows.  (The GPU that a task-GPU row names is not looked up: LoadState
\* takes over its id.)
ReferentialIntegrity ==
    /\ \A g \in DOMAIN db.gpus : db.gpus[g].workerID \in DOMAIN db.workers
    /\ \A t \in DOMAIN db.tasks : db.tasks[t].workerID \in DOMAIN db.workers \cup {NoWorker}
    /\ \A r \in db.taskGPUs : r[1] \in DOMAIN db.tasks
    /\ db.pending \subseteq DOMAIN db.tasks

\* After a finished save, LoadState brings back the tasks as they were (queued
\* ones as PENDING), the queue up to its order, and the workers' status.
RestoredAsSaved ==
    [][LoadState /\ intact =>
        LET queued == Range(lastSave.pendingTasks) IN
        /\ tasks' = [t \in DOMAIN lastSave.tasks |->
                       IF t \in queued THEN [lastSave.tasks[t] EXCEPT !.status = "PENDING"]
                                       ELSE lastSave.tasks[t]]
        /\ Range(pendingTasks') = queued
        /\ DOMAIN workers' = DOMAIN lastSave.workers
        /\ \A w \in DOMAIN workers' : workers'[w].status = lastSave.workers[w].status]_pvars

\* After a finished save, LoadState gives every worker its GPUs back.
GPUsRestored ==
    [][LoadState /\ intact =>
        \A w \in DOMAIN workers' : Range(workers'[w].gpus) = Range(lastSave.workers[w].gpus)]_pvars

\* It does so at least if no two workers have a GPU of the same id.
UniqueGPUsRestored ==
    [][LoadState /\ intact =>
        LET saved == lastSave.workers IN
        (\A v, w \in DOMAIN saved : \A i \in DOMAIN saved[v].gpus, j \in DOMAIN saved[w].gpus :
            saved[v].gpus[i].id = saved[w].gpus[j].id => v = w)
        => \A w \in DOMAIN saved : Range(workers'[w].gpus) = Range(saved[w].gpus)]_pvars

\* After a finished save, LoadState gives every worker the tasks it held.
HoldingsRestored ==
    [][LoadState /\ intact =>
        \A w \in DOMAIN workers' : workers'[w].tasks = lastSave.workers[w].tasks]_pvars

\* A task that a finished save wrote is known again after every later load.
SavedTasksSurvive ==
    [][LoadState => DOMAIN lastSave.tasks \subseteq DOMAIN tasks']_pvars

\* A save that was asked for is taken up, or persistence comes to its end.
SaveTriggerTaken == saveTrigger ~> ~saveTrigger
=============================================================================
