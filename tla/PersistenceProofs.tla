-------------------------- MODULE PersistenceProofs --------------------------
(***************************************************************************)
(* Proofs about SchedulerPersistence, over any number of lives of the      *)
(* server process, with crashes and failures between any two transactions. *)
(*                                                                         *)
(* Part 1: PInv is inductive.  TInv of HandlerProofs is its part about the *)
(*         tables of the service.                                          *)
(* Part 2: what a finished save and a load restore.                        *)
(* Part 3: Clients, whose server is that of SchedulerPersistence.          *)
(* Part 4: what the service promises in one life holds over all lives, if  *)
(*         the server is always started with the same policy.              *)
(***************************************************************************)
EXTENDS Clients, HandlerProofs

\* Whatever call is served, TInv is preserved.
LEMMA ServeTInv ==
    ASSUME TInv, Serve
    PROVE  TInv'
<1>1. CASE Register
  BY <1>1, RegisterTInv DEF Register
<1>2. CASE \E t \in TaskIds : AddTask(t)
  BY <1>2, AddTaskTInv
<1>3. CASE \E w \in WorkerIds : RequestTask(w)
  BY <1>3, RequestTaskTInv
<1>4. CASE Report
  <2>1. PICK w \in WorkerIds, t \in TaskIds, status \in Reported :
           ReportProgress(w, t, status) \/ ReportEnd(w, t, status)
    BY <1>4 DEF Report
  <2>2. status \in TaskStatus
    BY SchedulerAssumptions
  <2> QED  BY <2>1, <2>2, ReportTInv
<1>5. CASE Pass
  BY <1>5, PassTInv
<1> QED  BY <1>1, <1>2, <1>3, <1>4, <1>5 DEF Serve

-----------------------------------------------------------------------------
(* Part 1: the database.                                                   *)

\* A result set without an ORDER BY: every row once, in some order.
LEMMA SetToSeqsProps ==
    ASSUME NEW S, IsFiniteSet(S), NEW f \in SetToSeqs(S)
    PROVE  /\ f \in Seq(S)
           /\ \A i, j \in DOMAIN f : f[i] = f[j] => i = j
           /\ {f[i] : i \in DOMAIN f} = S
<1> DEFINE n == Cardinality(S)
<1>1. n \in Nat
  BY FS_CardinalityType
<1>2. f \in [1..n -> S] /\ \A i, j \in 1..n : i # j => f[i] # f[j]
  BY DEF SetToSeqs
<1>3. DOMAIN f = 1..n /\ f \in Seq(S)
  BY <1>1, <1>2, SeqDef
<1>4. f \in Injection(1..n, S)
  BY <1>2 DEF Injection, IsInjective
<1>5. Cardinality(1..n) = n
  <2>1. Cardinality(1..n) = IF 1 > n THEN 0 ELSE n - 1 + 1
    BY <1>1, FS_Interval
  <2> QED  BY <2>1, <1>1
<1>6. f \in Surjection(1..n, S)
  BY <1>4, <1>5, FS_Injection
<1>7. \A s \in S : \E i \in 1..n : f[i] = s
  BY <1>6 DEF Surjection
<1> QED  BY <1>2, <1>3, <1>7

\* The ids in a list of GPUs are finitely many.
LEMMA IdsFinite ==
    ASSUME NEW gpus \in Seq(GPU)
    PROVE  IsFiniteSet({gpus[i].id : i \in DOMAIN gpus})
<1> DEFINE S == 1..Len(gpus)
           T == {gpus[i].id : i \in DOMAIN gpus}
           f == [i \in S |-> gpus[i].id]
<1>1. IsFiniteSet(S)
  BY FS_Interval
<1>2. f \in Surjection(S, T)
  BY DEF Surjection
<1> HIDE DEF S, T, f
<1>3. IsFiniteSet(T)
  BY <1>1, <1>2, FS_Surjection
<1> QED  BY <1>3 DEF T

GPURow == [workerID : WorkerIds, memoryMB : Nat, available : BOOLEAN]
TaskRow == [status : TaskStatus, workerID : WorkerIds \cup {NoWorker}]

\* The tables of the database hold rows of their types, finitely many where
\* LoadState has to count them.
DBTyped ==
    /\ db = [workers |-> db.workers, gpus |-> db.gpus, tasks |-> db.tasks,
             taskGPUs |-> db.taskGPUs, pending |-> db.pending]
    /\ DOMAIN db.workers \subseteq WorkerIds /\ IsFiniteSet(DOMAIN db.workers)
    /\ \A w \in DOMAIN db.workers : db.workers[w] \in WorkerStatus
    /\ DOMAIN db.gpus \subseteq STRING /\ IsFiniteSet(DOMAIN db.gpus)
    /\ \A g \in DOMAIN db.gpus : db.gpus[g] \in GPURow
    /\ DOMAIN db.tasks \subseteq TaskIds
    /\ \A t \in DOMAIN db.tasks : db.tasks[t] \in TaskRow
    /\ db.taskGPUs \subseteq TaskIds \X STRING
    /\ db.pending \subseteq TaskIds /\ IsFiniteSet(db.pending)

\* The GPUs that the rows of task_gpus give to a task.
StoredGPUs(t) == {r[2] : r \in {q \in db.taskGPUs : q[1] = t}}

\* SaveWorker writes the worker's row and, as its GPUs have different ids, one
\* row for each GPU; it writes over rows of the same ids and leaves the others.
LEMMA WithWorkerProps ==
    ASSUME TInv, DBTyped, NEW w \in DOMAIN workers, db' = WithWorker(db, w)
    PROVE  LET gpus == workers[w].gpus IN
           /\ DOMAIN db'.workers = DOMAIN db.workers \cup {w}
           /\ db'.workers[w] = workers[w].status
           /\ \A v \in DOMAIN db.workers \ {w} : db'.workers[v] = db.workers[v]
           /\ DOMAIN db'.gpus = DOMAIN db.gpus \cup {gpus[i].id : i \in DOMAIN gpus}
           /\ \A i \in DOMAIN gpus :
                 db'.gpus[gpus[i].id] = [workerID |-> w, memoryMB |-> gpus[i].memoryMB,
                                         available |-> gpus[i].available]
           /\ \A g \in DOMAIN db.gpus \ {gpus[i].id : i \in DOMAIN gpus} : db'.gpus[g] = db.gpus[g]
           /\ db'.tasks = db.tasks /\ db'.taskGPUs = db.taskGPUs /\ db'.pending = db.pending
           /\ DBTyped'
<1> DEFINE gpus == workers[w].gpus
           own == {gpus[i].id : i \in DOMAIN gpus}
           pos(g) == CHOOSE k \in DOMAIN gpus : gpus[k].id = g
           row(g) == [workerID |-> w, memoryMB |-> gpus[pos(g)].memoryMB,
                      available |-> gpus[pos(g)].available]
           newWorkers == Put(db.workers, w, workers[w].status)
           newGPUs == [g \in DOMAIN db.gpus \cup own |-> IF g \in own THEN row(g) ELSE db.gpus[g]]
<1>1. /\ w \in WorkerIds /\ workers[w].status \in WorkerStatus
      /\ gpus \in Seq(GPU) /\ DistinctIds(gpus)
      /\ \A i \in DOMAIN gpus : gpus[i] \in GPU
  BY DEF TInv, TypeOK, IdsDistinct, WorkerRecord
<1>2. db' = [workers |-> newWorkers, gpus |-> newGPUs, tasks |-> db.tasks,
             taskGPUs |-> db.taskGPUs, pending |-> db.pending]
  <2>1. db' = [db EXCEPT !.workers = newWorkers, !.gpus = newGPUs]
    BY DEF WithWorker
  <2> HIDE DEF newWorkers, newGPUs
  <2> QED  BY <2>1 DEF DBTyped
<1>3. \A i \in DOMAIN gpus : pos(gpus[i].id) = i
  BY <1>1 DEF DistinctIds
<1>4. \A i \in DOMAIN gpus : row(gpus[i].id) = [workerID |-> w, memoryMB |-> gpus[i].memoryMB,
                                                available |-> gpus[i].available]
  BY <1>3
<1> HIDE DEF pos
<1>5. \A i \in DOMAIN gpus : row(gpus[i].id) \in GPURow /\ gpus[i].id \in STRING
  BY <1>1, <1>4 DEF GPURow, GPU
<1> HIDE DEF row
<1>6. /\ DOMAIN newGPUs = DOMAIN db.gpus \cup own
      /\ \A i \in DOMAIN gpus : newGPUs[gpus[i].id] = row(gpus[i].id)
      /\ \A g \in DOMAIN db.gpus \ own : newGPUs[g] = db.gpus[g]
  OBVIOUS
<1>7. /\ DOMAIN newWorkers = DOMAIN db.workers \cup {w}
      /\ newWorkers[w] = workers[w].status
      /\ \A v \in DOMAIN db.workers \ {w} : newWorkers[v] = db.workers[v]
  BY DEF Put
<1>8. \A g \in DOMAIN newGPUs : newGPUs[g] \in GPURow /\ g \in STRING
  BY <1>5, <1>6 DEF DBTyped
<1>9. IsFiniteSet(DOMAIN newGPUs)
  <2>1. IsFiniteSet(own)
    BY <1>1, IdsFinite
  <2>2. IsFiniteSet(DOMAIN db.gpus \cup own)
    <3> HIDE DEF own
    <3> QED  BY <2>1, FS_Union DEF DBTyped
  <2> QED  BY <2>2, <1>6
<1>10. IsFiniteSet(DOMAIN newWorkers)
  <2>1. IsFiniteSet(DOMAIN db.workers \cup {w})
    BY FS_AddElement DEF DBTyped
  <2> QED  BY <2>1, <1>7
<1>11. \A v \in DOMAIN newWorkers : newWorkers[v] \in WorkerStatus /\ v \in WorkerIds
  BY <1>1, <1>7 DEF DBTyped
<1> HIDE DEF newWorkers, newGPUs
<1>12. DBTyped'
  BY <1>2, <1>8, <1>9, <1>10, <1>11 DEF DBTyped
<1> QED  BY <1>2, <1>4, <1>6, <1>7, <1>12

\* The second components of the pairs with a fixed first one.
LEMMA SecondsOf ==
    ASSUME NEW t, NEW A
    PROVE  {r[2] : r \in {t} \X A} = A
<1> DEFINE P == {t} \X A
           S == {r[2] : r \in P}
<1>1. ASSUME NEW x \in A PROVE x \in S
  <2>1. <<t, x>> \in P
    OBVIOUS
  <2>2. <<t, x>>[2] = x
    OBVIOUS
  <2> HIDE DEF P
  <2> QED  BY <2>1, <2>2
<1>2. ASSUME NEW x \in S PROVE x \in A
  <2>1. PICK r \in P : x = r[2]
    OBVIOUS
  <2> QED  BY <2>1
<1> HIDE DEF S
<1>3. S = A
  BY <1>1, <1>2
<1> QED  BY <1>3 DEF S

\* SaveTask writes the task's row and replaces the rows of its GPUs.
LEMMA WithTaskProps ==
    ASSUME TInv, DBTyped, NEW t \in DOMAIN tasks, db' = WithTask(db, t)
    PROVE  /\ db'.workers = db.workers /\ db'.gpus = db.gpus /\ db'.pending = db.pending
           /\ DOMAIN db'.tasks = DOMAIN db.tasks \cup {t}
           /\ db'.tasks[t] = [status |-> tasks[t].status, workerID |-> tasks[t].workerID]
           /\ \A u \in DOMAIN db.tasks \ {t} : db'.tasks[u] = db.tasks[u]
           /\ \A r \in db'.taskGPUs : r[1] = t \/ r \in db.taskGPUs
           /\ StoredGPUs(t)' = tasks[t].assignedGPUs
           /\ \A u : u # t => StoredGPUs(u)' = StoredGPUs(u)
           /\ DBTyped'
<1> DEFINE newTasks == Put(db.tasks, t, [status |-> tasks[t].status, workerID |-> tasks[t].workerID])
           newRows == {r \in db.taskGPUs : r[1] # t} \cup ({t} \X tasks[t].assignedGPUs)
<1>1. /\ t \in TaskIds /\ tasks[t].assignedGPUs \subseteq STRING
      /\ [status |-> tasks[t].status, workerID |-> tasks[t].workerID] \in TaskRow
  BY DEF TInv, TypeOK, TaskRecord, TaskRow
<1>2. db' = [workers |-> db.workers, gpus |-> db.gpus, tasks |-> newTasks,
             taskGPUs |-> newRows, pending |-> db.pending]
  <2>1. db' = [db EXCEPT !.tasks = newTasks, !.taskGPUs = newRows]
    BY DEF WithTask
  <2> HIDE DEF newTasks, newRows
  <2> QED  BY <2>1 DEF DBTyped
<1>3. /\ DOMAIN newTasks = DOMAIN db.tasks \cup {t}
      /\ newTasks[t] = [status |-> tasks[t].status, workerID |-> tasks[t].workerID]
      /\ \A u \in DOMAIN db.tasks \ {t} : newTasks[u] = db.tasks[u]
  BY DEF Put
<1>4. \A u \in DOMAIN newTasks : newTasks[u] \in TaskRow /\ u \in TaskIds
  BY <1>1, <1>3 DEF DBTyped
<1>5. /\ \A r \in newRows : r[1] = t \/ r \in db.taskGPUs
      /\ newRows \subseteq TaskIds \X STRING
  BY <1>1 DEF DBTyped
<1>6. {r[2] : r \in {q \in newRows : q[1] = t}} = tasks[t].assignedGPUs
  <2>1. {q \in newRows : q[1] = t} = {t} \X tasks[t].assignedGPUs
    OBVIOUS
  <2>2. {r[2] : r \in {t} \X tasks[t].assignedGPUs} = tasks[t].assignedGPUs
    BY SecondsOf
  <2> QED  BY <2>1, <2>2
<1>7. \A u : u # t => {q \in newRows : q[1] = u} = {q \in db.taskGPUs : q[1] = u}
  OBVIOUS
<1>8. /\ StoredGPUs(t)' = tasks[t].assignedGPUs
      /\ \A u : u # t => StoredGPUs(u)' = StoredGPUs(u)
  <2> HIDE DEF newRows
  <2>1. db'.taskGPUs = newRows
    BY <1>2
  <2> QED  BY <2>1, <1>6, <1>7 DEF StoredGPUs
<1> HIDE DEF newTasks, newRows
<1>9. DBTyped'
  BY <1>2, <1>4, <1>5 DEF DBTyped
<1> QED  BY <1>2, <1>3, <1>5, <1>8, <1>9

\* The rows of the database, as far as they are there, say what the tables W
\* of workers, T of tasks and the queue Q say.  A GPU row belongs to a worker
\* that has a GPU of that id; it says what that GPU is like if no other worker
\* has one of the same id.
WorkersStored(W) == \A w \in DOMAIN db.workers : w \in DOMAIN W /\ db.workers[w] = W[w].status

IdsApart(W) ==
    \A v, w \in DOMAIN W : \A i \in DOMAIN W[v].gpus, j \in DOMAIN W[w].gpus :
        W[v].gpus[i].id = W[w].gpus[j].id => v = w

RowOf(g, w, gpu) ==
    /\ g \in DOMAIN db.gpus
    /\ db.gpus[g] = [workerID |-> w, memoryMB |-> gpu.memoryMB, available |-> gpu.available]

GPUsStored(W) ==
    /\ \A g \in DOMAIN db.gpus : \E i \in DOMAIN W[db.gpus[g].workerID].gpus :
          W[db.gpus[g].workerID].gpus[i].id = g
    /\ IdsApart(W) => \A w \in DOMAIN db.workers : \A i \in DOMAIN W[w].gpus :
          RowOf(W[w].gpus[i].id, w, W[w].gpus[i])

TasksStored(T) ==
    \A t \in DOMAIN db.tasks :
        /\ t \in DOMAIN T
        /\ db.tasks[t] = [status |-> T[t].status, workerID |-> T[t].workerID]
        /\ StoredGPUs(t) = T[t].assignedGPUs

QueueStored(Q) ==
    /\ Cardinality(db.pending) <= Len(Q)
    /\ db.pending = {Q[i] : i \in 1..Cardinality(db.pending)}

Stored(W, T, Q) == WorkersStored(W) /\ GPUsStored(W) /\ TasksStored(T) /\ QueueStored(Q)

\* While SaveState runs it has written a part of the tables as they are.
Saving == mu = "save" => ~intact /\ Stored(workers, tasks, pendingTasks)

\* After a finished save, until the next one begins, everything is there.
Complete ==
    intact =>
        /\ Stored(lastSave.workers, lastSave.tasks, lastSave.pendingTasks)
        /\ DOMAIN db.workers = DOMAIN lastSave.workers
        /\ DOMAIN db.tasks = DOMAIN lastSave.tasks
        /\ db.pending = {lastSave.pendingTasks[i] : i \in DOMAIN lastSave.pendingTasks}
        /\ \A w \in DOMAIN lastSave.workers : lastSave.workers[w] \in WorkerRecord
        /\ \A t \in DOMAIN lastSave.tasks : lastSave.tasks[t] \in TaskRecord

\* A queued task is stored without a worker.
PendingUnassigned == \A t \in db.pending : db.tasks[t].workerID = NoWorker

\* main() and the history.
MainTyped == phase \in Phases /\ boots \in 0..MaxBoots /\ intact \in BOOLEAN

PInv ==
    /\ TInv
    /\ DBTyped
    /\ ReferentialIntegrity
    /\ PendingUnassigned
    /\ Saving
    /\ Complete
    /\ MainTyped

\* The parts of main() that leave the tables alone preserve TInv.
LEMMA SettingsTInv ==
    ASSUME TInv, UNCHANGED <<workers, tasks, pendingTasks, scan>>,
           mu' = mu \/ (mu \in {"free", "save"} /\ mu' \in {"free", "save"}),
           workloadPolicy' \in Policies, persistenceManager' \in BOOLEAN, saveTrigger' \in BOOLEAN
    PROVE  TInv'
<1>1. TypeOK'
  BY DEF TInv, TypeOK
<1>2. IdsDistinct' /\ ScanReset' /\ KnownWorkers' /\ (QueuedNotAssigned => QueuedNotAssigned')
  BY DEF TInv, IdsDistinct, ScanReset, KnownWorkers, QueuedNotAssigned
<1>3. mu' = "stuck" => mu = "stuck"
  OBVIOUS
<1>4. mu # "stuck" <=> mu' # "stuck"
  OBVIOUS
<1> QED  BY <1>1, <1>2, <1>3, <1>4 DEF TInv

\* The empty tables of a process that is gone satisfy TInv.
LEMMA DownTInv ==
    ASSUME TInv, Down
    PROVE  TInv'
<1>1. /\ workers' = <<>> /\ tasks' = <<>> /\ pendingTasks' = <<>>
      /\ mu' = "free" /\ scan' = 1 /\ persistenceManager' = FALSE /\ saveTrigger' = FALSE
      /\ workloadPolicy' = workloadPolicy
  BY DEF Down
<1>2. /\ DOMAIN workers' = {} /\ DOMAIN tasks' = {} /\ Len(pendingTasks') = 0
      /\ DOMAIN pendingTasks' = {} /\ pendingTasks' \in Seq({})
  BY <1>1
<1>3. IsFiniteSet({})
  BY FS_EmptySet
<1>4. TypeOK'
  <2>1. workers' \in [DOMAIN workers' -> WorkerRecord] /\ tasks' \in [DOMAIN tasks' -> TaskRecord]
    BY <1>1, <1>2
  <2>2. DOMAIN workers' \subseteq WorkerIds /\ IsFiniteSet(DOMAIN workers') /\ DOMAIN tasks' \subseteq TaskIds
    BY <1>2, <1>3
  <2>3. pendingTasks' \in Seq(DOMAIN tasks')
    BY <1>2
  <2>4. scan' \in 1..(Len(pendingTasks') + 1)
    BY <1>1, <1>2
  <2> QED  BY <1>1, <2>1, <2>2, <2>3, <2>4 DEF TInv, TypeOK
<1>5. IdsDistinct' /\ ScanReset' /\ KnownWorkers' /\ QueuedNotAssigned'
  BY <1>1, <1>2 DEF IdsDistinct, ScanReset, KnownWorkers, QueuedNotAssigned
<1> QED  BY <1>1, <1>4, <1>5 DEF TInv

\* Calls that are answered while SaveState holds the lock change nothing.
LEMMA ServeSaving ==
    ASSUME TInv, Serve
    PROVE  mu' = "save" => mu = "save" /\ UNCHANGED <<workers, tasks, pendingTasks>>
<1>1. ASSUME Register PROVE mu' # "save"
  BY <1>1 DEF Register, RegisterWorker, StartPass
<1>2. ASSUME NEW t \in TaskIds, AddTask(t) PROVE mu' # "save"
  BY <1>2 DEF AddTask, StartPass
<1>3. ASSUME NEW w \in WorkerIds, RequestTask(w) PROVE mu' # "save"
  BY <1>3 DEF RequestTask, AssignOnRequest, vars, lock
<1>4. ASSUME Report PROVE mu' # "save"
  BY <1>4 DEF Report, ReportProgress, ReportEnd, StartPass
<1>5. ASSUME Pass PROVE mu' # "save"
  BY <1>5 DEF Pass, AssignSkip, AssignDone, AssignTo, lock
<1> QED  BY <1>1, <1>2, <1>3, <1>4, <1>5 DEF Serve

\* A step that leaves the database and the history alone preserves PInv if it
\* preserves TInv and does not change tables that are being saved.
LEMMA DatabaseKept ==
    ASSUME PInv, TInv', MainTyped', UNCHANGED <<db, lastSave, intact>>,
           mu' = "save" => mu = "save" /\ UNCHANGED <<workers, tasks, pendingTasks>>
    PROVE  PInv'
<1>1. DBTyped' /\ ReferentialIntegrity' /\ PendingUnassigned'
  BY DEF PInv, DBTyped, ReferentialIntegrity, PendingUnassigned
<1>2. \A u : StoredGPUs(u)' = StoredGPUs(u)
  BY DEF StoredGPUs
<1>3. Complete'
  <2>1. /\ WorkersStored(lastSave.workers)' <=> WorkersStored(lastSave.workers)
        /\ QueueStored(lastSave.pendingTasks)' <=> QueueStored(lastSave.pendingTasks)
    BY DEF WorkersStored, QueueStored
  <2>2. GPUsStored(lastSave.workers)' <=> GPUsStored(lastSave.workers)
    BY DEF GPUsStored, IdsApart, RowOf
  <2>3. TasksStored(lastSave.tasks)' <=> TasksStored(lastSave.tasks)
    BY <1>2 DEF TasksStored
  <2> QED  BY <2>1, <2>2, <2>3 DEF PInv, Complete, Stored
<1>4. Saving'
  <2> SUFFICES ASSUME mu' = "save" PROVE Saving'
    BY DEF Saving
  <2>1. UNCHANGED <<workers, tasks, pendingTasks>>
    OBVIOUS
  <2>2. /\ WorkersStored(workers)' <=> WorkersStored(workers)
        /\ QueueStored(pendingTasks)' <=> QueueStored(pendingTasks)
    BY <2>1 DEF WorkersStored, QueueStored
  <2>3. GPUsStored(workers)' <=> GPUsStored(workers)
    BY <2>1 DEF GPUsStored, IdsApart, RowOf
  <2>4. TasksStored(tasks)' <=> TasksStored(tasks)
    BY <2>1, <1>2 DEF TasksStored
  <2> QED  BY <2>2, <2>3, <2>4 DEF PInv, Saving, Stored
<1> QED  BY <1>1, <1>3, <1>4 DEF PInv

\* LoadState builds every worker from its own rows: one GPU for each row of
\* its id, in some order.
LEMMA LoadedWorkersProps ==
    ASSUME DBTyped, NEW W \in LoadedWorkers
    PROVE  /\ DOMAIN W = DOMAIN db.workers
           /\ \A w \in DOMAIN W : \E rows :
                 /\ W[w] = LoadedWorker(w, rows)
                 /\ rows \in Seq(DOMAIN db.gpus)
                 /\ \A i, j \in DOMAIN rows : rows[i] = rows[j] => i = j
                 /\ {rows[i] : i \in DOMAIN rows} = {g \in DOMAIN db.gpus : db.gpus[g].workerID = w}
<1> DEFINE ids == DOMAIN db.workers
           answers == {rows \in [ids -> UNION {GetWorkerGPUs(w) : w \in ids}] :
                          \A w \in ids : rows[w] \in GetWorkerGPUs(w)}
<1>1. W \in {[w \in ids |-> LoadedWorker(w, rows[w])] : rows \in answers}
  BY DEF LoadedWorkers
<1>2. PICK rows \in answers : W = [w \in ids |-> LoadedWorker(w, rows[w])]
  BY <1>1
<1>3. ASSUME NEW w \in ids
      PROVE  /\ rows[w] \in Seq(DOMAIN db.gpus)
             /\ \A i, j \in DOMAIN rows[w] : rows[w][i] = rows[w][j] => i = j
             /\ {rows[w][i] : i \in DOMAIN rows[w]} = {g \in DOMAIN db.gpus : db.gpus[g].workerID = w}
  <2> DEFINE S == {g \in DOMAIN db.gpus : db.gpus[g].workerID = w}
  <2>1. IsFiniteSet(S)
    <3>1. S \subseteq DOMAIN db.gpus /\ IsFiniteSet(DOMAIN db.gpus)
      BY DEF DBTyped
    <3> HIDE DEF S
    <3> QED  BY <3>1, FS_Subset
  <2>2. rows[w] \in SetToSeqs(S)
    BY DEF GetWorkerGPUs
  <2>3. S \subseteq DOMAIN db.gpus
    OBVIOUS
  <2> HIDE DEF S
  <2>4. /\ rows[w] \in Seq(S)
        /\ \A i, j \in DOMAIN rows[w] : rows[w][i] = rows[w][j] => i = j
        /\ {rows[w][i] : i \in DOMAIN rows[w]} = S
    BY <2>1, <2>2, SetToSeqsProps
  <2>5. rows[w] \in Seq(DOMAIN db.gpus)
    BY <2>3, <2>4, SeqMonotonic
  <2> QED  BY <2>4, <2>5 DEF S
<1>4. DOMAIN W = ids /\ \A w \in ids : W[w] = LoadedWorker(w, rows[w])
  BY <1>2
<1> QED  BY <1>3, <1>4

\* LoadState preserves TInv: it builds tables that refer to each other, each
\* GPU of a worker once, and queues each task once and without a worker.
LEMMA LoadTInv ==
    ASSUME PInv, LoadState
    PROVE  TInv'
<1>1. /\ mu = "free" /\ mu' = "free"
      /\ tasks' = [t \in DOMAIN db.tasks |-> LoadedTask(t)]
      /\ workers' \in LoadedWorkers
      /\ pendingTasks' \in SetToSeqs(db.pending \cap DOMAIN db.tasks)
      /\ UNCHANGED <<persistenceManager, saveTrigger, workloadPolicy, scan, db>>
  BY DEF LoadState, service
<1>2. TInv /\ DBTyped /\ ReferentialIntegrity /\ PendingUnassigned
  BY DEF PInv
<1>3. /\ DOMAIN workers' = DOMAIN db.workers
      /\ \A w \in DOMAIN workers' : \E rows :
            /\ workers'[w] = LoadedWorker(w, rows)
            /\ rows \in Seq(DOMAIN db.gpus)
            /\ \A i, j \in DOMAIN rows : rows[i] = rows[j] => i = j
            /\ {rows[i] : i \in DOMAIN rows} = {g \in DOMAIN db.gpus : db.gpus[g].workerID = w}
  BY <1>1, <1>2, LoadedWorkersProps
<1>4. ASSUME NEW w \in DOMAIN workers'
      PROVE  workers'[w] \in WorkerRecord /\ DistinctIds(workers'[w].gpus)
  <2>1. PICK rows :
           /\ workers'[w] = LoadedWorker(w, rows)
           /\ rows \in Seq(DOMAIN db.gpus)
           /\ \A i, j \in DOMAIN rows : rows[i] = rows[j] => i = j
    BY <1>3
  <2> DEFINE gpu(g) == [id |-> g, memoryMB |-> db.gpus[g].memoryMB, available |-> db.gpus[g].available]
             gpus == [i \in DOMAIN rows |-> gpu(rows[i])]
  <2>2. \A g \in DOMAIN db.gpus : gpu(g) \in GPU /\ gpu(g).id = g
    BY <1>2 DEF DBTyped, GPURow, GPU
  <2>3. /\ DOMAIN rows = 1..Len(rows) /\ Len(rows) \in Nat
        /\ \A i \in DOMAIN rows : rows[i] \in DOMAIN db.gpus
    BY <2>1
  <2>4. workers'[w] = [gpus |-> gpus, status |-> db.workers[w],
                       tasks |-> {t \in DOMAIN db.tasks : db.tasks[t].workerID = w}]
    BY <2>1 DEF LoadedWorker
  <2> HIDE DEF gpu
  <2>5. gpus \in Seq(GPU) /\ DOMAIN gpus = DOMAIN rows /\ \A i \in DOMAIN rows : gpus[i].id = rows[i]
    <3>1. gpus \in [1..Len(rows) -> GPU]
      BY <2>2, <2>3
    <3>2. gpus \in Seq(GPU)
      BY <3>1, <2>3, SeqDef
    <3> QED  BY <2>2, <2>3, <3>2
  <2> HIDE DEF gpus
  <2>6. DistinctIds(gpus)
    BY <2>1, <2>5 DEF DistinctIds
  <2>7. db.workers[w] \in WorkerStatus /\ DOMAIN db.tasks \subseteq TaskIds
    BY <1>2, <1>3 DEF DBTyped
  <2> QED  BY <2>4, <2>5, <2>6, <2>7 DEF WorkerRecord
<1>5. /\ DOMAIN tasks' = DOMAIN db.tasks
      /\ tasks' \in [DOMAIN db.tasks -> TaskRecord]
      /\ \A t \in DOMAIN db.tasks : tasks'[t].workerID = db.tasks[t].workerID
  <2>1. ASSUME NEW t \in DOMAIN db.tasks
        PROVE  LoadedTask(t) \in TaskRecord /\ LoadedTask(t).workerID = db.tasks[t].workerID
    <3>1. {r[2] : r \in {q \in db.taskGPUs : q[1] = t}} \subseteq STRING
      BY <1>2 DEF DBTyped
    <3>2. db.tasks[t].status \in TaskStatus /\ db.tasks[t].workerID \in WorkerIds \cup {NoWorker}
      BY <1>2 DEF DBTyped, TaskRow
    <3> QED  BY <3>1, <3>2 DEF LoadedTask, TaskRecord, TaskStatus
  <2> QED  BY <2>1, <1>1
<1>6. /\ pendingTasks' \in Seq(DOMAIN tasks')
      /\ \A i, j \in DOMAIN pendingTasks' : pendingTasks'[i] = pendingTasks'[j] => i = j
      /\ \A i \in DOMAIN pendingTasks' : pendingTasks'[i] \in db.pending \cap DOMAIN db.tasks
  <2> DEFINE S == db.pending \cap DOMAIN db.tasks
  <2>1. IsFiniteSet(S)
    <3>1. S \subseteq db.pending /\ IsFiniteSet(db.pending)
      BY <1>2 DEF DBTyped
    <3> HIDE DEF S
    <3> QED  BY <3>1, FS_Subset
  <2>2. S \subseteq DOMAIN tasks' /\ pendingTasks' \in SetToSeqs(S)
    BY <1>1, <1>5
  <2> HIDE DEF S
  <2>3. /\ pendingTasks' \in Seq(S)
        /\ \A i, j \in DOMAIN pendingTasks' : pendingTasks'[i] = pendingTasks'[j] => i = j
    BY <2>1, <2>2, SetToSeqsProps
  <2>4. pendingTasks' \in Seq(DOMAIN tasks')
    BY <2>2, <2>3, SeqMonotonic
  <2>5. \A i \in DOMAIN pendingTasks' : pendingTasks'[i] \in S
    BY <2>3
  <2> QED  BY <2>3, <2>4, <2>5 DEF S
<1>7. TypeOK'
  <2>1. DOMAIN workers' \subseteq WorkerIds /\ IsFiniteSet(DOMAIN workers') /\ DOMAIN tasks' \subseteq TaskIds
    BY <1>2, <1>3, <1>5 DEF DBTyped
  <2>2. workers' \in [DOMAIN workers' -> WorkerRecord]
    <3>1. workers' = [w \in DOMAIN workers' |-> workers'[w]]
      BY <1>1 DEF LoadedWorkers
    <3> QED  BY <3>1, <1>4
  <2>3. scan' \in 1..(Len(pendingTasks') + 1)
    BY <1>1, <1>2, <1>6 DEF TInv, ScanReset
  <2> QED  BY <2>1, <2>2, <2>3, <1>1, <1>2, <1>5, <1>6 DEF TInv, TypeOK
<1>8. IdsDistinct'
  BY <1>4 DEF IdsDistinct
<1>9. ScanReset'
  BY <1>1, <1>2 DEF TInv, ScanReset
<1>10. KnownWorkers'
  BY <1>2, <1>3, <1>5 DEF KnownWorkers, ReferentialIntegrity
<1>11. QueuedNotAssigned'
  BY <1>2, <1>5, <1>6 DEF QueuedNotAssigned, PendingUnassigned
<1> QED  BY <1>1, <1>7, <1>8, <1>9, <1>10, <1>11 DEF TInv

\* The first transaction of a save empties the database.
LEMMA SaveBeginPInv ==
    ASSUME PInv, SaveBegin
    PROVE  PInv'
<1>1. /\ mu = "free" /\ mu' = "save" /\ db' = EmptyDB /\ intact' = FALSE
      /\ UNCHANGED <<workers, tasks, pendingTasks, persistenceManager, saveTrigger, workloadPolicy,
                     scan, phase, boots, lastSave>>
  BY DEF SaveBegin, tables, service
<1>2. TInv'
  BY <1>1, SettingsTInv DEF PInv, TInv, TypeOK
<1>3. /\ DOMAIN db'.workers = {} /\ DOMAIN db'.gpus = {} /\ DOMAIN db'.tasks = {}
      /\ db'.taskGPUs = {} /\ db'.pending = {}
      /\ db' = [workers |-> db'.workers, gpus |-> db'.gpus, tasks |-> db'.tasks,
                taskGPUs |-> db'.taskGPUs, pending |-> db'.pending]
  BY <1>1 DEF EmptyDB
<1>4. IsFiniteSet({}) /\ Cardinality({}) = 0
  BY FS_EmptySet
<1>5. DBTyped'
  BY <1>3, <1>4 DEF DBTyped
<1>6. ReferentialIntegrity' /\ PendingUnassigned'
  BY <1>3 DEF ReferentialIntegrity, PendingUnassigned
<1>7. Saving'
  <2>1. WorkersStored(workers)' /\ GPUsStored(workers)' /\ TasksStored(tasks)'
    BY <1>3 DEF WorkersStored, GPUsStored, TasksStored
  <2>2. QueueStored(pendingTasks)'
    <3>1. Len(pendingTasks') \in Nat
      BY <1>2 DEF TInv, TypeOK
    <3> QED  BY <3>1, <1>3, <1>4 DEF QueueStored
  <2> QED  BY <2>1, <2>2, <1>1 DEF Saving, Stored
<1>8. Complete' /\ MainTyped'
  BY <1>1 DEF PInv, Complete, MainTyped
<1> QED  BY <1>2, <1>5, <1>6, <1>7, <1>8 DEF PInv

\* Writing a worker preserves PInv.
LEMMA SaveWorkerPInv ==
    ASSUME PInv, NEW w \in WorkerIds, SaveWorker(w)
    PROVE  PInv'
<1> DEFINE gpus == workers[w].gpus
           own == {gpus[i].id : i \in DOMAIN gpus}
<1>1. /\ mu = "save" /\ w \in DOMAIN workers /\ w \notin DOMAIN db.workers
      /\ db' = WithWorker(db, w)
      /\ UNCHANGED vars
      /\ UNCHANGED <<workers, tasks, pendingTasks, mu, phase, boots, lastSave, intact>>
  BY DEF SaveWorker, vars, tables, lock, history
<1>2. /\ TInv /\ DBTyped /\ ReferentialIntegrity /\ PendingUnassigned /\ ~intact
      /\ WorkersStored(workers) /\ GPUsStored(workers) /\ TasksStored(tasks) /\ QueueStored(pendingTasks)
  BY <1>1 DEF PInv, Saving, Stored
<1>3. /\ DOMAIN db'.workers = DOMAIN db.workers \cup {w}
      /\ db'.workers[w] = workers[w].status
      /\ \A v \in DOMAIN db.workers \ {w} : db'.workers[v] = db.workers[v]
      /\ DOMAIN db'.gpus = DOMAIN db.gpus \cup own
      /\ \A i \in DOMAIN gpus :
            db'.gpus[gpus[i].id] = [workerID |-> w, memoryMB |-> gpus[i].memoryMB,
                                    available |-> gpus[i].available]
      /\ \A g \in DOMAIN db.gpus \ own : db'.gpus[g] = db.gpus[g]
      /\ db'.tasks = db.tasks /\ db'.taskGPUs = db.taskGPUs /\ db'.pending = db.pending
      /\ DBTyped'
  BY <1>1, <1>2, WithWorkerProps
<1>4. TInv'
  BY <1>1, <1>2, TInvUnchanged
<1>5. \A g \in DOMAIN db'.gpus :
         \/ \E i \in DOMAIN gpus : g = gpus[i].id /\ db'.gpus[g].workerID = w
         \/ g \in DOMAIN db.gpus /\ db'.gpus[g] = db.gpus[g]
  <2> SUFFICES ASSUME NEW g \in DOMAIN db'.gpus
               PROVE  \/ \E i \in DOMAIN gpus : g = gpus[i].id /\ db'.gpus[g].workerID = w
                      \/ g \in DOMAIN db.gpus /\ db'.gpus[g] = db.gpus[g]
    OBVIOUS
  <2>1. CASE g \in own
    <3>1. PICK i \in DOMAIN gpus : g = gpus[i].id
      BY <2>1
    <3> HIDE DEF gpus, own
    <3>2. db'.gpus[g] = [workerID |-> w, memoryMB |-> gpus[i].memoryMB, available |-> gpus[i].available]
      BY <3>1, <1>3
    <3>3. db'.gpus[g].workerID = w
      BY <3>2
    <3> QED  BY <3>1, <3>3
  <2>2. CASE g \notin own
    <3> HIDE DEF own
    <3> QED  BY <2>2, <1>3
  <2> QED  BY <2>1, <2>2
<1>6. ReferentialIntegrity' /\ PendingUnassigned'
  <2> HIDE DEF gpus, own
  <2>1. \A g \in DOMAIN db'.gpus : db'.gpus[g].workerID \in DOMAIN db'.workers
    BY <1>2, <1>3, <1>5 DEF ReferentialIntegrity
  <2> QED  BY <2>1, <1>2, <1>3 DEF ReferentialIntegrity, PendingUnassigned
<1>7. WorkersStored(workers)' /\ TasksStored(tasks)' /\ QueueStored(pendingTasks)'
  <2> HIDE DEF gpus, own
  <2>1. WorkersStored(workers)'
    BY <1>1, <1>2, <1>3 DEF WorkersStored
  <2>2. \A u : StoredGPUs(u)' = StoredGPUs(u)
    BY <1>3 DEF StoredGPUs
  <2> QED  BY <2>1, <2>2, <1>1, <1>2, <1>3 DEF TasksStored, QueueStored
<1>8. GPUsStored(workers)'
  <2>1. ASSUME NEW g \in DOMAIN db'.gpus
        PROVE  \E i \in DOMAIN workers[db'.gpus[g].workerID].gpus :
                  workers[db'.gpus[g].workerID].gpus[i].id = g
    BY <1>2, <1>5 DEF GPUsStored
  <2>2. ASSUME IdsApart(workers), NEW v \in DOMAIN db'.workers, NEW i \in DOMAIN workers[v].gpus
        PROVE  LET gpu == workers[v].gpus[i] IN
               /\ gpu.id \in DOMAIN db'.gpus
               /\ db'.gpus[gpu.id] = [workerID |-> v, memoryMB |-> gpu.memoryMB,
                                      available |-> gpu.available]
    <3>1. CASE v = w
      BY <3>1, <1>3
    <3>2. CASE v # w
      <4>1. v \in DOMAIN db.workers /\ v \in DOMAIN workers
        BY <3>2, <1>2, <1>3 DEF WorkersStored
      <4>2. RowOf(workers[v].gpus[i].id, v, workers[v].gpus[i])
        BY <4>1, <2>2, <1>2 DEF GPUsStored
      <4>3. workers[v].gpus[i].id \notin own
        BY <4>1, <3>2, <2>2, <1>1 DEF IdsApart
      <4> HIDE DEF own, gpus
      <4> QED  BY <4>2, <4>3, <1>3 DEF RowOf
    <3> QED  BY <3>1, <3>2
  <2>3. IdsApart(workers)' <=> IdsApart(workers)
    BY <1>1 DEF IdsApart
  <2> QED  BY <2>1, <2>2, <2>3, <1>1 DEF GPUsStored, RowOf
<1>9. Saving' /\ Complete' /\ MainTyped'
  BY <1>1, <1>2, <1>7, <1>8 DEF PInv, Saving, Stored, Complete, MainTyped
<1> QED  BY <1>3, <1>4, <1>6, <1>9 DEF PInv

\* Writing a task preserves PInv: its worker has been written.
LEMMA SaveTaskPInv ==
    ASSUME PInv, NEW t \in TaskIds, SaveTask(t)
    PROVE  PInv'
<1>1. /\ mu = "save" /\ t \in DOMAIN tasks /\ t \notin DOMAIN db.tasks
      /\ DOMAIN workers = DOMAIN db.workers
      /\ db' = WithTask(db, t)
      /\ UNCHANGED vars
      /\ UNCHANGED <<workers, tasks, pendingTasks, mu, phase, boots, lastSave, intact>>
  BY DEF SaveTask, vars, tables, lock, history
<1>2. /\ TInv /\ DBTyped /\ ReferentialIntegrity /\ PendingUnassigned /\ ~intact
      /\ WorkersStored(workers) /\ GPUsStored(workers) /\ TasksStored(tasks) /\ QueueStored(pendingTasks)
  BY <1>1 DEF PInv, Saving, Stored
<1>3. /\ db'.workers = db.workers /\ db'.gpus = db.gpus /\ db'.pending = db.pending
      /\ DOMAIN db'.tasks = DOMAIN db.tasks \cup {t}
      /\ db'.tasks[t] = [status |-> tasks[t].status, workerID |-> tasks[t].workerID]
      /\ \A u \in DOMAIN db.tasks \ {t} : db'.tasks[u] = db.tasks[u]
      /\ \A r \in db'.taskGPUs : r[1] = t \/ r \in db.taskGPUs
      /\ StoredGPUs(t)' = tasks[t].assignedGPUs
      /\ \A u : u # t => StoredGPUs(u)' = StoredGPUs(u)
      /\ DBTyped'
  BY <1>1, <1>2, WithTaskProps
<1>4. TInv'
  BY <1>1, <1>2, TInvUnchanged
<1>5. tasks[t].workerID \in DOMAIN db.workers \cup {NoWorker}
  BY <1>1, <1>2 DEF TInv, KnownWorkers
<1>6. ReferentialIntegrity'
  <2>1. \A u \in DOMAIN db'.tasks : db'.tasks[u].workerID \in DOMAIN db'.workers \cup {NoWorker}
    BY <1>2, <1>3, <1>5 DEF ReferentialIntegrity
  <2>2. \A r \in db'.taskGPUs : r[1] \in DOMAIN db'.tasks
    BY <1>2, <1>3 DEF ReferentialIntegrity
  <2> QED  BY <2>1, <2>2, <1>2, <1>3 DEF ReferentialIntegrity
<1>7. PendingUnassigned'
  BY <1>1, <1>2, <1>3 DEF ReferentialIntegrity, PendingUnassigned
<1>8. WorkersStored(workers)' /\ GPUsStored(workers)' /\ QueueStored(pendingTasks)'
  BY <1>1, <1>2, <1>3 DEF WorkersStored, GPUsStored, IdsApart, RowOf, QueueStored
<1>9. TasksStored(tasks)'
  <2>1. ASSUME NEW u \in DOMAIN db'.tasks
        PROVE  /\ u \in DOMAIN tasks
               /\ db'.tasks[u] = [status |-> tasks[u].status, workerID |-> tasks[u].workerID]
               /\ StoredGPUs(u)' = tasks[u].assignedGPUs
    <3>1. CASE u = t
      BY <3>1, <1>1, <1>3
    <3>2. CASE u # t
      BY <3>2, <1>2, <1>3 DEF TasksStored
    <3> QED  BY <3>1, <3>2
  <2> QED  BY <2>1, <1>1 DEF TasksStored
<1>10. Saving' /\ Complete' /\ MainTyped'
  BY <1>1, <1>2, <1>8, <1>9 DEF PInv, Saving, Stored, Complete, MainTyped
<1> QED  BY <1>3, <1>4, <1>6, <1>7, <1>10 DEF PInv

\* Writing the next queued task preserves PInv: it is none of those before it,
\* its row has been written, and it has no worker.
LEMMA SavePendingPInv ==
    ASSUME PInv, SavePendingTask
    PROVE  PInv'
<1> DEFINE n == Cardinality(db.pending)
           t == pendingTasks[n + 1]
<1>1. /\ mu = "save" /\ DOMAIN workers = DOMAIN db.workers /\ DOMAIN tasks = DOMAIN db.tasks
      /\ n < Len(pendingTasks)
      /\ db' = [db EXCEPT !.pending = db.pending \cup {t}]
      /\ UNCHANGED vars
      /\ UNCHANGED <<workers, tasks, pendingTasks, mu, phase, boots, lastSave, intact>>
  BY DEF SavePendingTask, vars, tables, lock, history
<1>2. /\ TInv /\ DBTyped /\ ReferentialIntegrity /\ PendingUnassigned /\ ~intact
      /\ WorkersStored(workers) /\ GPUsStored(workers) /\ TasksStored(tasks) /\ QueueStored(pendingTasks)
      /\ QueuedNotAssigned
  BY <1>1 DEF PInv, Saving, Stored, TInv
<1>3. /\ n \in Nat /\ Len(pendingTasks) \in Nat /\ DOMAIN pendingTasks = 1..Len(pendingTasks)
      /\ IsFiniteSet(db.pending)
      /\ n + 1 \in DOMAIN pendingTasks /\ t \in DOMAIN tasks /\ t \in TaskIds
  <2>1. IsFiniteSet(db.pending) /\ n \in Nat
    BY <1>2, FS_CardinalityType DEF DBTyped
  <2>2. pendingTasks \in Seq(DOMAIN tasks) /\ DOMAIN tasks \subseteq TaskIds
    BY <1>2 DEF TInv, TypeOK
  <2> QED  BY <2>1, <2>2, <1>1
<1>4. db.pending = {pendingTasks[i] : i \in 1..n}
  BY <1>2 DEF QueueStored
<1>5. t \notin db.pending
  BY <1>2, <1>3, <1>4, <1>1 DEF QueuedNotAssigned
<1> HIDE DEF t
<1>6. /\ db'.workers = db.workers /\ db'.gpus = db.gpus /\ db'.tasks = db.tasks
      /\ db'.taskGPUs = db.taskGPUs /\ db'.pending = db.pending \cup {t}
      /\ db' = [workers |-> db'.workers, gpus |-> db'.gpus, tasks |-> db'.tasks,
                taskGPUs |-> db'.taskGPUs, pending |-> db'.pending]
  BY <1>1, <1>2 DEF DBTyped
<1>7. IsFiniteSet(db'.pending) /\ Cardinality(db'.pending) = n + 1
  <2>1. IsFiniteSet(db.pending \cup {t}) /\ Cardinality(db.pending \cup {t}) = n + 1
    BY <1>3, <1>5, FS_AddElement
  <2> HIDE DEF n
  <2> QED  BY <2>1, <1>6
<1>8. DBTyped'
  BY <1>2, <1>3, <1>6, <1>7 DEF DBTyped
<1>9. TInv'
  BY <1>1, <1>2, TInvUnchanged
<1>10. ReferentialIntegrity'
  BY <1>1, <1>2, <1>3, <1>6 DEF ReferentialIntegrity
<1>11. PendingUnassigned'
  <2>1. tasks[t].workerID = NoWorker
    BY <1>2, <1>3 DEF QueuedNotAssigned, t
  <2>2. db.tasks[t].workerID = NoWorker
    <3>1. t \in DOMAIN db.tasks
      BY <1>1, <1>3
    <3>2. db.tasks[t] = [status |-> tasks[t].status, workerID |-> tasks[t].workerID]
      BY <3>1, <1>2 DEF TasksStored
    <3> QED  BY <3>2, <2>1
  <2> QED  BY <2>2, <1>2, <1>6 DEF PendingUnassigned
<1>12. QueueStored(pendingTasks)'
  <2>1. n + 1 <= Len(pendingTasks)
    BY <1>1, <1>3
  <2>2. {pendingTasks[i] : i \in 1..(n + 1)} = {pendingTasks[i] : i \in 1..n} \cup {pendingTasks[n + 1]}
    <3>1. 1..(n + 1) = 1..n \cup {n + 1}
      BY <1>3
    <3> HIDE DEF n
    <3> QED  BY <3>1
  <2>3. db'.pending = {pendingTasks[i] : i \in 1..(n + 1)}
    <3> HIDE DEF n
    <3> QED  BY <2>2, <1>4, <1>6 DEF t
  <2> HIDE DEF n
  <2> QED  BY <2>1, <2>3, <1>1, <1>7 DEF QueueStored
<1>13. \A u : StoredGPUs(u)' = StoredGPUs(u)
  BY <1>6 DEF StoredGPUs
<1>14. WorkersStored(workers)' /\ GPUsStored(workers)' /\ TasksStored(tasks)'
  BY <1>1, <1>2, <1>6, <1>13 DEF WorkersStored, GPUsStored, IdsApart, RowOf, TasksStored
<1>15. Saving' /\ Complete' /\ MainTyped'
  BY <1>1, <1>2, <1>12, <1>14 DEF PInv, Saving, Stored, Complete, MainTyped
<1> QED  BY <1>8, <1>9, <1>10, <1>11, <1>15 DEF PInv

\* A save that comes to its end has written everything.
LEMMA SaveDonePInv ==
    ASSUME PInv, SaveDone
    PROVE  PInv'
<1>1. /\ mu = "save" /\ mu' = "free" /\ phase' = "saved" /\ intact' = TRUE
      /\ DOMAIN workers = DOMAIN db.workers /\ DOMAIN tasks = DOMAIN db.tasks
      /\ Cardinality(db.pending) = Len(pendingTasks)
      /\ lastSave' = [workers |-> workers, tasks |-> tasks, pendingTasks |-> pendingTasks]
      /\ UNCHANGED <<workers, tasks, pendingTasks, persistenceManager, saveTrigger, workloadPolicy,
                     scan, db, boots>>
  BY DEF SaveDone, tables, service
<1>2. /\ TInv /\ WorkersStored(workers) /\ GPUsStored(workers) /\ TasksStored(tasks)
      /\ QueueStored(pendingTasks)
  BY <1>1 DEF PInv, Saving, Stored
<1>3. TInv'
  BY <1>1, <1>2, SettingsTInv DEF TInv, TypeOK
<1>4. DBTyped' /\ ReferentialIntegrity' /\ PendingUnassigned' /\ MainTyped' /\ Saving'
  BY <1>1 DEF PInv, DBTyped, ReferentialIntegrity, PendingUnassigned, MainTyped, Phases, Saving
<1>5. lastSave'.workers = workers /\ lastSave'.tasks = tasks /\ lastSave'.pendingTasks = pendingTasks
  BY <1>1
<1>6. \A u : StoredGPUs(u)' = StoredGPUs(u)
  BY <1>1 DEF StoredGPUs
<1>7. Stored(lastSave.workers, lastSave.tasks, lastSave.pendingTasks)'
  <2>1. db' = db
    BY <1>1
  <2>2. WorkersStored(lastSave.workers)'
    BY <2>1, <1>2, <1>5 DEF WorkersStored
  <2>3. GPUsStored(lastSave.workers)'
    BY <2>1, <1>2, <1>5 DEF GPUsStored, IdsApart, RowOf
  <2>4. TasksStored(lastSave.tasks)'
    BY <2>1, <1>2, <1>5, <1>6 DEF TasksStored
  <2>5. QueueStored(lastSave.pendingTasks)'
    BY <2>1, <1>2, <1>5 DEF QueueStored
  <2> QED  BY <2>2, <2>3, <2>4, <2>5 DEF Stored
<1>8. db.pending = {pendingTasks[i] : i \in DOMAIN pendingTasks}
  <2>1. DOMAIN pendingTasks = 1..Len(pendingTasks)
    BY <1>2 DEF TInv, TypeOK
  <2> QED  BY <2>1, <1>1, <1>2 DEF QueueStored
<1>9. /\ \A w \in DOMAIN workers : workers[w] \in WorkerRecord
      /\ \A t \in DOMAIN tasks : tasks[t] \in TaskRecord
  BY <1>2 DEF TInv, TypeOK
<1>10. Complete'
  BY <1>1, <1>5, <1>7, <1>8, <1>9 DEF Complete
<1> QED  BY <1>3, <1>4, <1>10 DEF PInv

\* Every step of the server, a crash included, preserves PInv.
LEMMA NextPInv ==
    ASSUME PInv, [PNext]_pvars
    PROVE  PInv'
<1> USE PersistenceAssumptions
<1>1. TInv /\ MainTyped /\ TypeOK
  BY DEF PInv, TInv
<1>2. CASE UNCHANGED pvars
  <2>1. TInv' /\ MainTyped' /\ UNCHANGED <<db, lastSave, intact>> /\ UNCHANGED <<workers, tasks, pendingTasks, mu>>
    BY <1>1, <1>2, TInvUnchanged DEF pvars, MainTyped, vars, tables, lock
  <2> QED  BY <2>1, DatabaseKept
<1>3. CASE Serve
  <2>1. TInv' /\ MainTyped' /\ UNCHANGED <<db, lastSave, intact>>
    BY <1>1, <1>3, ServeTInv DEF Serve, MainTyped, history
  <2>2. mu' = "save" => mu = "save" /\ UNCHANGED <<workers, tasks, pendingTasks>>
    BY <1>1, <1>3, ServeSaving
  <2> QED  BY <2>1, <2>2, DatabaseKept
<1>4. ASSUME NEW policy \in BootPolicies, Boot(policy) PROVE PInv'
  <2>1. /\ UNCHANGED <<workers, tasks, pendingTasks, persistenceManager, saveTrigger, mu, scan>>
        /\ UNCHANGED <<db, lastSave, intact>> /\ workloadPolicy' \in Policies
    BY <1>4 DEF Boot, tables, lock, history
  <2>2. MainTyped'
    BY <1>1, <1>4 DEF Boot, MainTyped, Phases, history
  <2>3. TInv'
    BY <1>1, <2>1, SettingsTInv DEF TypeOK
  <2> QED  BY <2>1, <2>2, <2>3, DatabaseKept
<1>5. CASE EnablePersistence \/ LoadFails \/ AutoSaveTick \/ Signal \/ StopManager
  <2>1. /\ UNCHANGED <<workers, tasks, pendingTasks, mu, scan, workloadPolicy, db, lastSave, intact>>
        /\ persistenceManager' \in BOOLEAN /\ saveTrigger' \in BOOLEAN
    BY <1>1, <1>5 DEF EnablePersistence, LoadFails, AutoSaveTick, Signal, StopManager, TypeOK,
                      vars, tables, lock, service, history
  <2>2. MainTyped'
    BY <1>1, <1>5 DEF EnablePersistence, LoadFails, AutoSaveTick, Signal, StopManager, MainTyped,
                      Phases, history
  <2>3. TInv'
    BY <1>1, <2>1, SettingsTInv DEF TypeOK
  <2> QED  BY <2>1, <2>2, <2>3, DatabaseKept
<1>6. CASE LoadState
  <2>1. TInv'
    BY <1>6, LoadTInv
  <2>2. mu' # "save" /\ MainTyped' /\ UNCHANGED <<db, lastSave, intact>>
    BY <1>1, <1>6 DEF LoadState, MainTyped, Phases, history
  <2> QED  BY <2>1, <2>2, DatabaseKept
<1>7. CASE SaveFails
  <2>1. /\ UNCHANGED <<workers, tasks, pendingTasks, scan, workloadPolicy, persistenceManager, saveTrigger>>
        /\ UNCHANGED <<db, lastSave, intact>>
        /\ mu \in {"free", "save"} /\ mu' = "free"
    BY <1>7 DEF SaveFails, tables, service, history
  <2>2. MainTyped'
    BY <1>1, <1>7 DEF SaveFails, MainTyped, Phases, history
  <2>3. TInv'
    BY <1>1, <2>1, SettingsTInv DEF TypeOK
  <2> QED  BY <2>1, <2>2, <2>3, DatabaseKept
<1>8. CASE Down
  <2>1. mu' # "save" /\ MainTyped' /\ UNCHANGED <<db, lastSave, intact>>
    BY <1>1, <1>8 DEF Down, MainTyped, Phases, history
  <2>2. TInv'
    BY <1>1, <1>8, DownTInv
  <2> QED  BY <2>1, <2>2, DatabaseKept
<1>9. CASE SaveBegin
  BY <1>9, SaveBeginPInv
<1>10. CASE \E w \in WorkerIds : SaveWorker(w)
  BY <1>10, SaveWorkerPInv
<1>11. CASE \E t \in TaskIds : SaveTask(t)
  BY <1>11, SaveTaskPInv
<1>12. CASE SavePendingTask
  BY <1>12, SavePendingPInv
<1>13. CASE SaveDone
  BY <1>13, SaveDonePInv
<1> QED
  BY <1>2, <1>3, <1>4, <1>5, <1>6, <1>7, <1>8, <1>9, <1>10, <1>11, <1>12, <1>13 DEF PNext, Exit, Crash

\* PInv holds where the first life of the server begins.
LEMMA InitPInv == PInit => PInv
<1> SUFFICES ASSUME PInit PROVE PInv
  OBVIOUS
<1> USE PersistenceAssumptions
<1>1. /\ workers = <<>> /\ tasks = <<>> /\ pendingTasks = <<>>
      /\ workloadPolicy \in Policies /\ persistenceManager = FALSE /\ saveTrigger = FALSE
      /\ mu = "free" /\ scan = 1
      /\ db = EmptyDB /\ phase = "down" /\ boots = 0 /\ lastSave = EmptyTables /\ intact = TRUE
  BY DEF PInit, Init
<1>2. /\ DOMAIN workers = {} /\ DOMAIN tasks = {} /\ DOMAIN pendingTasks = {} /\ Len(pendingTasks) = 0
      /\ pendingTasks \in Seq({})
  BY <1>1
<1>3. IsFiniteSet({}) /\ Cardinality({}) = 0
  BY FS_EmptySet
<1>4. TypeOK
  <2>1. workers \in [DOMAIN workers -> WorkerRecord] /\ tasks \in [DOMAIN tasks -> TaskRecord]
    BY <1>1, <1>2
  <2>2. DOMAIN workers \subseteq WorkerIds /\ IsFiniteSet(DOMAIN workers) /\ DOMAIN tasks \subseteq TaskIds
    BY <1>2, <1>3
  <2>3. pendingTasks \in Seq(DOMAIN tasks)
    BY <1>2
  <2>4. scan \in 1..(Len(pendingTasks) + 1)
    BY <1>1, <1>2
  <2> QED  BY <1>1, <2>1, <2>2, <2>3, <2>4 DEF TypeOK
<1>5. TInv
  BY <1>1, <1>2, <1>4 DEF TInv, IdsDistinct, ScanReset, KnownWorkers, QueuedNotAssigned
<1>6. /\ DOMAIN db.workers = {} /\ DOMAIN db.gpus = {} /\ DOMAIN db.tasks = {}
      /\ db.taskGPUs = {} /\ db.pending = {}
      /\ db = [workers |-> db.workers, gpus |-> db.gpus, tasks |-> db.tasks,
               taskGPUs |-> db.taskGPUs, pending |-> db.pending]
  BY <1>1 DEF EmptyDB
<1>7. DBTyped /\ ReferentialIntegrity /\ PendingUnassigned
  BY <1>3, <1>6 DEF DBTyped, ReferentialIntegrity, PendingUnassigned
<1>8. Saving /\ MainTyped
  BY <1>1 DEF Saving, MainTyped, Phases
<1>9. Complete
  <2>1. /\ DOMAIN lastSave.workers = {} /\ DOMAIN lastSave.tasks = {}
        /\ DOMAIN lastSave.pendingTasks = {} /\ Len(lastSave.pendingTasks) = 0
    BY <1>1 DEF EmptyTables
  <2>2. Stored(lastSave.workers, lastSave.tasks, lastSave.pendingTasks)
    BY <1>3, <1>6, <2>1 DEF Stored, WorkersStored, GPUsStored, TasksStored, QueueStored
  <2> QED  BY <1>6, <2>1, <2>2 DEF Complete
<1> QED  BY <1>5, <1>7, <1>8, <1>9 DEF PInv

\* PInv is an invariant of the server over all its lives.
LEMMA PInvariance == PSpec => []PInv
<1>1. PInit => PInv
  BY InitPInv
<1>2. PInv /\ [PNext]_pvars => PInv'
  BY NextPInv
<1> QED  BY <1>1, <1>2, PTL DEF PSpec

\* The tables of the service and of the database keep their types over every
\* restart, load, failed save and crash.
THEOREM PersistenceTypeCorrect == PSpec => []PTypeOK
<1>1. PInv => PTypeOK
  <2> SUFFICES ASSUME PInv PROVE PTypeOK
    OBVIOUS
  <2>1. TypeOK /\ DBTyped /\ MainTyped
    BY DEF PInv, TInv
  <2>2. Range(db.workers) \subseteq WorkerStatus
    BY <2>1 DEF DBTyped, Range
  <2>3. Range(db.gpus) \subseteq [workerID : WorkerIds, memoryMB : Nat, available : BOOLEAN]
    BY <2>1 DEF DBTyped, Range, GPURow
  <2>4. Range(db.tasks) \subseteq [status : TaskStatus, workerID : WorkerIds \cup {NoWorker}]
    BY <2>1 DEF DBTyped, Range, TaskRow
  <2> QED  BY <2>1, <2>2, <2>3, <2>4 DEF PTypeOK, DBTyped, MainTyped
<1> QED  BY <1>1, PInvariance, PTL

\* At every moment, also between two transactions of a save and after a crash
\* or a failure there, every reference in the database finds its row: SaveState
\* writes workers before tasks and tasks before the queue.
THEOREM DatabaseMakesSense == PSpec => []ReferentialIntegrity
<1>1. PInv => ReferentialIntegrity
  BY DEF PInv
<1> QED  BY <1>1, PInvariance, PTL

\* Where the nested RLock is granted, no task is queued twice or queued while
\* it is assigned, whatever saves, loads and crashes came before, and although
\* RequestTask may book a task on another worker than it is assigned to.
THEOREM QueueHoldsNoAssignedTask ==
    ASSUME NestedRLockGranted
    PROVE  PSpec => []QueuedNotAssigned
<1>1. PInv => QueuedNotAssigned
  BY DEF PInv, TInv
<1> QED  BY <1>1, PInvariance, PTL

-----------------------------------------------------------------------------
(* Part 2: what a finished save and a load restore.                        *)
(* Part 3: Clients, whose server is that of SchedulerPersistence.          *)

\* Where a finished save has not been touched, a task is loaded as it was, but
\* for the status of a queued one.
LEMMA TasksReturn ==
    ASSUME PInv, intact, LoadState
    PROVE  LET queued == Range(lastSave.pendingTasks) IN
           tasks' = [t \in DOMAIN lastSave.tasks |->
                       IF t \in queued THEN [lastSave.tasks[t] EXCEPT !.status = "PENDING"]
                                       ELSE lastSave.tasks[t]]
<1> DEFINE queued == Range(lastSave.pendingTasks)
<1>1. /\ tasks' = [t \in DOMAIN db.tasks |-> LoadedTask(t)]
      /\ DOMAIN db.tasks = DOMAIN lastSave.tasks
      /\ TasksStored(lastSave.tasks)
      /\ \A t \in DOMAIN lastSave.tasks : lastSave.tasks[t] \in TaskRecord
  BY DEF LoadState, PInv, Complete, Stored
<1>2. db.pending = queued
  BY DEF PInv, Complete, Range
<1> HIDE DEF queued
<1>3. ASSUME NEW t \in DOMAIN db.tasks
      PROVE  LoadedTask(t) = IF t \in queued THEN [lastSave.tasks[t] EXCEPT !.status = "PENDING"]
                                             ELSE lastSave.tasks[t]
  <2> DEFINE old == lastSave.tasks[t]
  <2>1. /\ db.tasks[t] = [status |-> old.status, workerID |-> old.workerID]
        /\ StoredGPUs(t) = old.assignedGPUs
        /\ old \in TaskRecord
    BY <1>1 DEF TasksStored
  <2>2. LoadedTask(t) = [status |-> IF t \in queued THEN "PENDING" ELSE db.tasks[t].status,
                         workerID |-> db.tasks[t].workerID, assignedGPUs |-> StoredGPUs(t)]
    BY <1>2 DEF LoadedTask, StoredGPUs
  <2>3. LoadedTask(t) = [status |-> IF t \in queued THEN "PENDING" ELSE old.status,
                         workerID |-> old.workerID, assignedGPUs |-> old.assignedGPUs]
    BY <2>1, <2>2
  <2>4. old = [status |-> old.status, workerID |-> old.workerID, assignedGPUs |-> old.assignedGPUs]
    BY <2>1 DEF TaskRecord
  <2> HIDE DEF old
  <2>5. [old EXCEPT !.status = "PENDING"]
           = [status |-> "PENDING", workerID |-> old.workerID, assignedGPUs |-> old.assignedGPUs]
    BY <2>4
  <2> QED  BY <2>3, <2>4, <2>5 DEF old
<1> QED  BY <1>1, <1>3 DEF queued

\* After a finished save, LoadState brings back the tasks as they were (queued
\* ones as PENDING), the queue up to its order, and the workers' status.
THEOREM SavedStateReturns == PSpec => RestoredAsSaved
<1>1. ASSUME PInv, intact, LoadState
      PROVE  LET queued == Range(lastSave.pendingTasks) IN
             /\ tasks' = [t \in DOMAIN lastSave.tasks |->
                            IF t \in queued THEN [lastSave.tasks[t] EXCEPT !.status = "PENDING"]
                                            ELSE lastSave.tasks[t]]
             /\ Range(pendingTasks') = queued
             /\ DOMAIN workers' = DOMAIN lastSave.workers
             /\ \A w \in DOMAIN workers' : workers'[w].status = lastSave.workers[w].status
  <2>1. /\ DBTyped /\ ReferentialIntegrity
        /\ DOMAIN db.workers = DOMAIN lastSave.workers
        /\ WorkersStored(lastSave.workers)
        /\ db.pending = Range(lastSave.pendingTasks)
    BY <1>1 DEF PInv, Complete, Stored, Range
  <2>2. workers' \in LoadedWorkers /\ pendingTasks' \in SetToSeqs(db.pending \cap DOMAIN db.tasks)
    BY <1>1 DEF LoadState
  <2>3. Range(pendingTasks') = db.pending
    <3>1. db.pending \cap DOMAIN db.tasks = db.pending /\ IsFiniteSet(db.pending)
      BY <2>1 DEF ReferentialIntegrity, DBTyped
    <3>2. pendingTasks' \in SetToSeqs(db.pending)
      BY <2>2, <3>1
    <3>3. {pendingTasks'[i] : i \in DOMAIN pendingTasks'} = db.pending
      BY <3>1, <3>2, SetToSeqsProps
    <3> QED  BY <3>3 DEF Range
  <2>4. /\ DOMAIN workers' = DOMAIN db.workers
        /\ \A w \in DOMAIN workers' : \E rows : workers'[w] = LoadedWorker(w, rows)
    BY <2>1, <2>2, LoadedWorkersProps
  <2>5. ASSUME NEW w \in DOMAIN workers' PROVE workers'[w].status = db.workers[w]
    <3>1. PICK rows : workers'[w] = LoadedWorker(w, rows)
      BY <2>4
    <3>2. LoadedWorker(w, rows).status = db.workers[w]
      BY DEF LoadedWorker
    <3> QED  BY <3>1, <3>2
  <2>6. \A w \in DOMAIN workers' : workers'[w].status = lastSave.workers[w].status
    BY <2>1, <2>4, <2>5 DEF WorkersStored
  <2> QED  BY <1>1, <2>1, <2>3, <2>4, <2>6, TasksReturn
<1> QED  BY <1>1, PInvariance, PTL DEF RestoredAsSaved

\* After a finished save, LoadState gives every worker its GPUs back, booked
\* or free as they were, if no two workers had a GPU of the same id.
THEOREM SavedGPUsReturn == PSpec => UniqueGPUsRestored
<1>1. ASSUME PInv, intact, LoadState, IdsApart(lastSave.workers), NEW w \in DOMAIN lastSave.workers
      PROVE  Range(workers'[w].gpus) = Range(lastSave.workers[w].gpus)
  <2> DEFINE saved == lastSave.workers[w].gpus
  <2>1. /\ DBTyped /\ workers' \in LoadedWorkers
        /\ DOMAIN db.workers = DOMAIN lastSave.workers
        /\ GPUsStored(lastSave.workers)
        /\ saved \in Seq(GPU)
    BY <1>1 DEF PInv, Complete, Stored, LoadState, WorkerRecord
  <2>2. PICK rows :
           /\ workers'[w] = LoadedWorker(w, rows)
           /\ rows \in Seq(DOMAIN db.gpus)
           /\ {rows[i] : i \in DOMAIN rows} = {g \in DOMAIN db.gpus : db.gpus[g].workerID = w}
    <3>1. DOMAIN workers' = DOMAIN db.workers
      BY <2>1, LoadedWorkersProps
    <3>2. w \in DOMAIN workers'
      BY <3>1, <2>1
    <3>3. \E rows :
             /\ workers'[w] = LoadedWorker(w, rows)
             /\ rows \in Seq(DOMAIN db.gpus)
             /\ \A i, j \in DOMAIN rows : rows[i] = rows[j] => i = j
             /\ {rows[i] : i \in DOMAIN rows} = {g \in DOMAIN db.gpus : db.gpus[g].workerID = w}
      BY <2>1, <3>2, LoadedWorkersProps, Zenon
    <3> QED  BY <3>3, Zenon
  <2> DEFINE gpus == workers'[w].gpus
  <2>3. /\ DOMAIN gpus = DOMAIN rows
        /\ \A k \in DOMAIN rows : gpus[k] = [id |-> rows[k], memoryMB |-> db.gpus[rows[k]].memoryMB,
                                             available |-> db.gpus[rows[k]].available]
    BY <2>2 DEF LoadedWorker
  <2>4. \A i \in DOMAIN saved :
           /\ saved[i] = [id |-> saved[i].id, memoryMB |-> saved[i].memoryMB, available |-> saved[i].available]
           /\ saved[i].id \in DOMAIN db.gpus
           /\ db.gpus[saved[i].id] = [workerID |-> w, memoryMB |-> saved[i].memoryMB,
                                      available |-> saved[i].available]
    <3> SUFFICES ASSUME NEW i \in DOMAIN saved
                 PROVE  /\ saved[i] = [id |-> saved[i].id, memoryMB |-> saved[i].memoryMB,
                                       available |-> saved[i].available]
                        /\ RowOf(saved[i].id, w, saved[i])
      BY DEF RowOf
    <3>1. saved[i] \in GPU
      BY <2>1
    <3>2. RowOf(saved[i].id, w, saved[i])
      BY <1>1, <2>1 DEF GPUsStored
    <3> HIDE DEF saved
    <3>3. saved[i] = [id |-> saved[i].id, memoryMB |-> saved[i].memoryMB, available |-> saved[i].available]
      BY <3>1 DEF GPU
    <3> QED  BY <3>2, <3>3
  <2>5. \A g \in DOMAIN db.gpus : db.gpus[g].workerID = w => \E i \in DOMAIN saved : saved[i].id = g
    BY <2>1 DEF GPUsStored
  <2> HIDE DEF saved, gpus
  <2> DEFINE G == db.gpus
  <2>6. \A i \in DOMAIN saved :
           /\ saved[i].id \in DOMAIN G
           /\ G[saved[i].id].workerID = w
           /\ G[saved[i].id].memoryMB = saved[i].memoryMB
           /\ G[saved[i].id].available = saved[i].available
    <3> SUFFICES ASSUME NEW i \in DOMAIN saved
                 PROVE  /\ saved[i].id \in DOMAIN G
                        /\ G[saved[i].id].workerID = w
                        /\ G[saved[i].id].memoryMB = saved[i].memoryMB
                        /\ G[saved[i].id].available = saved[i].available
      OBVIOUS
    <3> HIDE DEF G
    <3>1. saved[i].id \in DOMAIN G
      BY <2>4 DEF G
    <3>2. G[saved[i].id] = [workerID |-> w, memoryMB |-> saved[i].memoryMB, available |-> saved[i].available]
      BY <2>4 DEF G
    <3> QED  BY <3>1, <3>2
  <2>7. ASSUME NEW k \in DOMAIN rows PROVE \E i \in DOMAIN saved : gpus[k] = saved[i]
    <3>1. rows[k] \in DOMAIN db.gpus /\ db.gpus[rows[k]].workerID = w
      BY <2>2
    <3>2. PICK i \in DOMAIN saved : saved[i].id = rows[k]
      BY <3>1, <2>5
    <3>3. db.gpus[rows[k]].memoryMB = saved[i].memoryMB /\ db.gpus[rows[k]].available = saved[i].available
      BY <3>2, <2>6
    <3> QED  BY <3>2, <3>3, <2>3, <2>4
  <2>8. ASSUME NEW i \in DOMAIN saved PROVE \E k \in DOMAIN rows : gpus[k] = saved[i]
    <3>1. saved[i].id \in DOMAIN db.gpus /\ db.gpus[saved[i].id].workerID = w
      BY <2>6
    <3>2. PICK k \in DOMAIN rows : rows[k] = saved[i].id
      BY <3>1, <2>2
    <3>3. db.gpus[rows[k]].memoryMB = saved[i].memoryMB /\ db.gpus[rows[k]].available = saved[i].available
      BY <3>2, <2>6
    <3> QED  BY <3>2, <3>3, <2>3, <2>4
  <2>9. Range(gpus) = Range(saved)
    BY <2>3, <2>7, <2>8 DEF Range
  <2> QED  BY <2>9 DEF gpus, saved
<1>2. PInv /\ [PNext]_pvars =>
        (LoadState /\ intact =>
           LET saved == lastSave.workers IN
           (\A v, w \in DOMAIN saved : \A i \in DOMAIN saved[v].gpus, j \in DOMAIN saved[w].gpus :
               saved[v].gpus[i].id = saved[w].gpus[j].id => v = w)
           => \A w \in DOMAIN saved : Range(workers'[w].gpus) = Range(saved[w].gpus))
  BY <1>1 DEF IdsApart
<1> QED  BY <1>2, PInvariance, PTL DEF UniqueGPUsRestored, PSpec

-----------------------------------------------------------------------------
(* Part 3.                                                                 *)

\* No pass is under way where there is no server.
DownIsFree == phase = "down" => mu = "free"

\* A worker that joins calls RegisterWorker, and keeps the id of the answer.
LEMMA JoinServes ==
    ASSUME PInv, NEW p \in Procs, Join(p)
    PROVE  Serve /\ GeneratedId \in WorkerIds
<1>1. PICK gpus \in GPULists : RegisterWorker(NoWorker, gpus)
  BY DEF Join
<1>2. Serve
  BY <1>1 DEF Join, Listening, Serve, Register
<1>3. IsFiniteSet(DOMAIN workers) /\ Cardinality(DOMAIN workers) < MaxWorkers
  BY <1>1 DEF RegisterWorker, PInv, TInv, TypeOK
<1>4. Cardinality(DOMAIN workers) + 1 \in 1..MaxWorkers
  BY <1>3, FS_CardinalityType, SchedulerAssumptions
<1> QED  BY <1>2, <1>4, SchedulerAssumptions DEF GeneratedId

\* To the server, what clients do is a call, or nothing.
LEMMA ClientStep ==
    ASSUME PInv, DownIsFree, [CNext]_cvars
    PROVE  [PNext]_pvars
<1>1. CASE Server
  <2>1. Pass => mu = "assign"
    BY DEF Pass, AssignSkip, AssignDone, AssignTo
  <2> QED  BY <1>1, <2>1 DEF Server, PNext, Serve, DownIsFree
<1>2. CASE GracefulStop
  BY <1>2 DEF GracefulStop, PNext
<1>3. CASE ServerCrash
  BY <1>3 DEF ServerCrash, PNext
<1>4. ASSUME NEW p \in Procs, Join(p) PROVE PNext
  BY <1>4, JoinServes DEF PNext
<1>5. ASSUME NEW c \in Watchers, StreamEnds(c) \/ Leave(c) \/ \E w \in WorkerIds : Watch(c, w)
      PROVE  UNCHANGED pvars
  BY <1>5 DEF StreamEnds, Leave, Watch
<1>6. ASSUME NEW t \in TaskIds, Submit(t) PROVE UNCHANGED pvars
  BY <1>6 DEF Submit
<1>7. UNCHANGED cvars => UNCHANGED pvars
  BY DEF cvars
<1> QED  BY <1>1, <1>2, <1>3, <1>4, <1>5, <1>6, <1>7 DEF CNext

\* A step that leaves the server down, or ends it, leaves the mutex free.
LEMMA NextDownIsFree ==
    ASSUME DownIsFree, [PNext]_pvars
    PROVE  DownIsFree'
<1> SUFFICES ASSUME phase' = "down" PROVE mu' = "free"
  BY DEF DownIsFree
<1>1. CASE phase = "down" /\ PNext
  BY <1>1 DEF DownIsFree, vars, lock, PNext, Serve, Boot, EnablePersistence, LoadState, LoadFails, AutoSaveTick, Signal, SaveBegin,
     SaveWorker, SaveTask, SavePendingTask, SaveDone, SaveFails, StopManager, Exit, Crash, Down
<1>2. CASE phase # "down" /\ PNext
  BY <1>2 DEF PNext, Serve, Boot, EnablePersistence, LoadState, LoadFails, AutoSaveTick, Signal, SaveBegin,
     SaveWorker, SaveTask, SavePendingTask, SaveDone, SaveFails, StopManager, Exit, Crash, Down
<1>3. CASE UNCHANGED pvars
  BY <1>3 DEF DownIsFree, pvars, vars, lock
<1> QED  BY <1>1, <1>2, <1>3

\* The records of the clients keep their types.
LEMMA NextCTypeOK ==
    ASSUME PInv, CTypeOK, [CNext]_cvars
    PROVE  CTypeOK'
<1> USE DEF CTypeOK
<1>1. CASE Server \/ GracefulStop \/ UNCHANGED cvars
  BY <1>1 DEF Server, GracefulStop, clients, cvars
<1>2. CASE ServerCrash
  BY <1>2 DEF ServerCrash
<1>3. ASSUME NEW p \in Procs, Join(p) PROVE CTypeOK'
  BY <1>3, JoinServes DEF Join
<1>4. ASSUME NEW c \in Watchers, NEW w \in WorkerIds, Watch(c, w) PROVE CTypeOK'
  BY <1>4 DEF Watch
<1>5. ASSUME NEW c \in Watchers, StreamEnds(c) \/ Leave(c) PROVE CTypeOK'
  BY <1>5 DEF StreamEnds, Leave
<1>6. ASSUME NEW t \in TaskIds, Submit(t) PROVE CTypeOK'
  BY <1>6 DEF Submit
<1> QED  BY <1>1, <1>2, <1>3, <1>4, <1>5, <1>6 DEF CNext

LEMMA ClientsInvariance == CSpec => [](PInv /\ DownIsFree /\ CTypeOK)
<1>1. CInit => PInv /\ DownIsFree /\ CTypeOK
  BY InitPInv DEF CInit, CTypeOK, PInit, Init, DownIsFree
<1>2. PInv /\ DownIsFree /\ CTypeOK /\ [CNext]_cvars => PInv' /\ DownIsFree' /\ CTypeOK'
  BY ClientStep, NextPInv, NextDownIsFree, NextCTypeOK
<1> QED  BY <1>1, <1>2, PTL DEF CSpec

\* Worker processes, watchers and cmd/submit call the server of
\* SchedulerPersistence, and do nothing else to it: what is proved of its steps
\* holds for these clients.
THEOREM ClientsCallTheServer == CSpec => PInit /\ [][PNext]_pvars
<1>1. PInv /\ DownIsFree /\ CTypeOK /\ [CNext]_cvars => [PNext]_pvars
  BY ClientStep
<1>2. CInit => PInit
  BY DEF CInit
<1> QED  BY <1>1, <1>2, ClientsInvariance, PTL DEF CSpec

-----------------------------------------------------------------------------
(* Part 4: restarts with the policy the server had.                        *)

\* Every life of the server has the same policy.
SamePolicy == \A p, q \in BootPolicies : p = q

\* The rows of GPUs that would serve a task on worker w.
FittingRows(w, d) ==
    {g \in DOMAIN db.gpus : /\ db.gpus[g].workerID = w
                            /\ db.gpus[g].available
                            /\ db.gpus[g].memoryMB >= d.minGPUMemory}

\* No stored worker would be suitable for a stored pending task.
StoredConserving ==
    \A t \in db.pending, w \in DOMAIN db.workers :
        Accepts(workloadPolicy, db.workers[w])
            => ~(Cardinality(FittingRows(w, Demand[t])) >= Demand[t].requiredGPUs)

\* A row that a save has written describes the GPU of that id that its worker
\* has, also where it was written over the row of another worker.
RowsTrue ==
    mu = "save" =>
        \A g \in DOMAIN db.gpus : \E i \in DOMAIN workers[db.gpus[g].workerID].gpus :
            LET gpu == workers[db.gpus[g].workerID].gpus[i]
            IN  /\ gpu.id = g
                /\ gpu.memoryMB = db.gpus[g].memoryMB
                /\ gpu.available = db.gpus[g].available

\* The inductive invariant: IInv without what a load destroys.  Ended tasks
\* are loaded as held, so that IdleIffNothingHeld is gone, and a crash in a
\* save loses tasks of the queue, so that the queue need not have all of them.
\* Instead it says what is in the database; while a save goes on that follows
\* from the tables.
RInv ==
    /\ workloadPolicy \in BootPolicies
    /\ HeldByAssignee
    /\ WorkConserving
    /\ mu # "save" => StoredConserving
    /\ RowsTrue

\* Calls that find nothing to assign.
LEMMA NothingRequested ==
    ASSUME WorkConserving, NEW w \in WorkerIds, RequestTask(w)
    PROVE  UNCHANGED vars
<1>1. ASSUME NEW i \in DOMAIN pendingTasks, AssignOnRequest(w, i) PROVE FALSE
  <2>1. FirstChoices(workloadPolicy, workers, Demand[pendingTasks[i]]) # {}
    BY <1>1 DEF AssignOnRequest
  <2>2. Suitable(pendingTasks[i]) # {}
    BY <2>1 DEF FirstChoices, Suitable
  <2> QED  BY <2>2 DEF WorkConserving, RequestTask
<1> QED  BY <1>1 DEF RequestTask

\* A report that does not end a task changes one status in the tables.
LEMMA ServeConserves ==
    ASSUME TInv, WorkConserving, Serve
    PROVE  WorkConserving'
<1>1. /\ Len(pendingTasks) \in Nat /\ DOMAIN pendingTasks = 1..Len(pendingTasks)
      /\ \A i \in DOMAIN pendingTasks : i \in Nat \ {0}
  BY DEF TInv, TypeOK
<1>2. ASSUME mu' \in {"assign", "stuck"}, scan' = 1, \A i \in DOMAIN pendingTasks' : i \in Nat \ {0}
      PROVE  WorkConserving'
  BY <1>2 DEF WorkConserving
<1>3. CASE Register
  <2>1. mu' \in {"assign", "stuck"} /\ scan' = 1 /\ UNCHANGED pendingTasks
    BY <1>3 DEF Register, RegisterWorker, StartPass
  <2> QED  BY <2>1, <1>1, <1>2
<1>4. ASSUME NEW t \in TaskIds, AddTask(t) PROVE WorkConserving'
  <2>1. mu' \in {"assign", "stuck"} /\ scan' = 1 /\ pendingTasks' = Append(pendingTasks, t)
    BY <1>4 DEF AddTask, StartPass
  <2>2. \A i \in DOMAIN pendingTasks' : i \in Nat \ {0}
    <3>1. pendingTasks \in Seq(TaskIds)
      BY SeqMonotonic DEF TInv, TypeOK
    <3> QED  BY <2>1, <3>1
  <2> QED  BY <2>1, <2>2, <1>2
<1>5. ASSUME NEW w \in WorkerIds, RequestTask(w) PROVE WorkConserving'
  BY <1>5, NothingRequested DEF vars, tables, lock, WorkConserving, Suitable
<1>6. CASE Report
  <2>1. PICK w \in WorkerIds, t \in TaskIds, status \in Reported :
           ReportProgress(w, t, status) \/ ReportEnd(w, t, status)
    BY <1>6 DEF Report
  <2>2. CASE ReportProgress(w, t, status)
    <3>1. mu = "free" /\ mu' \in {"free", "stuck"} /\ UNCHANGED <<workers, pendingTasks, workloadPolicy>>
      BY <2>2 DEF ReportProgress
    <3> QED  BY <3>1 DEF WorkConserving, Suitable
  <2>3. CASE ReportEnd(w, t, status)
    <3>1. mu' \in {"assign", "stuck"} /\ scan' = 1 /\ UNCHANGED pendingTasks
      BY <2>3 DEF ReportEnd, StartPass
    <3> QED  BY <3>1, <1>1, <1>2
  <2> QED  BY <2>1, <2>2, <2>3
<1>7. CASE Pass
  BY <1>7, PassConserves DEF TInv
<1> QED  BY <1>3, <1>4, <1>5, <1>6, <1>7 DEF Serve

\* Only the pass books tasks, and what it books is recorded with its worker.
LEMMA ServeHolders ==
    ASSUME TInv, WorkConserving, HeldByAssignee, Serve
    PROVE  HeldByAssignee'
<1> USE SchedulerAssumptions
<1>1. /\ workers \in [DOMAIN workers -> WorkerRecord]
      /\ tasks \in [DOMAIN tasks -> TaskRecord]
  BY DEF TInv, TypeOK
<1>2. CASE Register
  <2>1. PICK req \in ExplicitIds \cup {NoWorker}, gpus \in GPULists : RegisterWorker(req, gpus)
    BY <1>2 DEF Register
  <2> DEFINE id == IF req = NoWorker THEN GeneratedId ELSE req
             new == [gpus |-> gpus, status |-> "IDLE", tasks |-> {}]
  <2>2. workers' = Put(workers, id, new) /\ id \notin DOMAIN workers /\ UNCHANGED tasks /\ new.tasks = {}
    BY <2>1 DEF RegisterWorker
  <2> HIDE DEF id, new
  <2> QED  BY <2>2 DEF Put, HeldByAssignee
<1>3. ASSUME NEW t \in TaskIds, AddTask(t) PROVE HeldByAssignee'
  <2> DEFINE new == [status |-> "PENDING", workerID |-> NoWorker, assignedGPUs |-> {}]
  <2>1. t \notin DOMAIN tasks /\ tasks' = Put(tasks, t, new) /\ UNCHANGED workers
    BY <1>3 DEF AddTask
  <2> HIDE DEF new
  <2> QED  BY <2>1 DEF Put, HeldByAssignee
<1>4. ASSUME NEW w \in WorkerIds, RequestTask(w) PROVE HeldByAssignee'
  BY <1>4, NothingRequested DEF vars, tables, HeldByAssignee
<1>5. CASE Report
  <2>1. PICK w \in WorkerIds, t \in TaskIds, status \in Reported :
           ReportProgress(w, t, status) \/ ReportEnd(w, t, status)
    BY <1>5 DEF Report
  <2>2. /\ t \in DOMAIN tasks /\ w \in DOMAIN workers
        /\ tasks' = [tasks EXCEPT ![t].status = status]
        /\ \/ workers' = workers
           \/ workers' = [workers EXCEPT ![w] = DropTask(@, t, tasks[t].assignedGPUs)]
    BY <2>1 DEF ReportProgress, ReportEnd
  <2>3. DOMAIN tasks' = DOMAIN tasks /\ \A u \in DOMAIN tasks : tasks'[u].workerID = tasks[u].workerID
    BY <1>1, <2>2 DEF TaskRecord
  <2>4. DOMAIN workers' = DOMAIN workers /\ \A v \in DOMAIN workers : workers'[v].tasks \subseteq workers[v].tasks
    <3>1. DropTask(workers[w], t, tasks[t].assignedGPUs).tasks \subseteq workers[w].tasks
      BY DEF DropTask
    <3> QED  BY <3>1, <2>2
  <2> QED  BY <2>3, <2>4 DEF HeldByAssignee
<1>6. CASE AssignSkip \/ AssignDone
  BY <1>6 DEF AssignSkip, AssignDone, tables, HeldByAssignee
<1>7. ASSUME NEW w \in WorkerIds, AssignTo(w) PROVE HeldByAssignee'
  <2> DEFINE t == pendingTasks[scan]
             ids == ChosenGPUs(workers[w], Demand[t])
  <2>1. /\ mu = "assign" /\ scan <= Len(pendingTasks)
        /\ w \in DOMAIN workers
        /\ tasks' = [tasks EXCEPT ![t] = Assigned(@, w, ids)]
        /\ workers' = [workers EXCEPT ![w] = TakeTask(@, t, ids)]
    BY <1>7 DEF AssignTo, FirstChoices, Candidates
  <2>2. scan \in DOMAIN pendingTasks /\ t \in DOMAIN tasks /\ tasks[t].workerID = NoWorker
    <3>1. scan \in DOMAIN pendingTasks /\ t \in DOMAIN tasks
      BY <2>1 DEF TInv, TypeOK
    <3>2. QueuedNotAssigned
      BY <2>1 DEF TInv
    <3> QED  BY <3>1, <3>2 DEF QueuedNotAssigned
  <2> HIDE DEF t, ids
  <2>3. /\ DOMAIN tasks' = DOMAIN tasks /\ tasks'[t].workerID = w
        /\ \A u \in DOMAIN tasks \ {t} : tasks'[u] = tasks[u]
    BY <1>1, <2>1, <2>2 DEF Assigned, TaskRecord
  <2>4. /\ DOMAIN workers' = DOMAIN workers /\ workers'[w].tasks = workers[w].tasks \cup {t}
        /\ \A v \in DOMAIN workers \ {w} : workers'[v] = workers[v]
    BY <1>1, <2>1 DEF TakeTask, WorkerRecord
  <2>5. \A v \in DOMAIN workers : t \notin workers[v].tasks
    <3>1. DOMAIN workers \subseteq WorkerIds
      BY DEF TInv, TypeOK
    <3> QED  BY <3>1, <2>2 DEF HeldByAssignee
  <2> QED  BY <2>2, <2>3, <2>4, <2>5 DEF HeldByAssignee
<1> QED  BY <1>2, <1>3, <1>4, <1>5, <1>6, <1>7 DEF Serve, Pass

\* A worker's rows that would serve a task are finitely many.
LEMMA RowsFinite ==
    ASSUME DBTyped, NEW w, NEW d
    PROVE  IsFiniteSet(FittingRows(w, d)) /\ Cardinality(FittingRows(w, d)) \in Nat
<1>1. FittingRows(w, d) \subseteq DOMAIN db.gpus /\ IsFiniteSet(DOMAIN db.gpus)
  BY DEF FittingRows, DBTyped
<1>2. IsFiniteSet(FittingRows(w, d))
  BY <1>1, FS_Subset
<1> QED  BY <1>2, FS_CardinalityType

\* While a save goes on, no more rows would serve a task on a worker than the
\* worker has GPUs that would.
LEMMA RowsWithinGPUs ==
    ASSUME TInv, DBTyped, RowsTrue, mu = "save", NEW w \in DOMAIN workers, NEW d
    PROVE  /\ Cardinality(FittingRows(w, d)) <= Cardinality(FittingGPUs(workers[w].gpus, d))
           /\ Cardinality(FittingRows(w, d)) \in Nat
           /\ Cardinality(FittingGPUs(workers[w].gpus, d)) \in Nat
<1> DEFINE R == FittingRows(w, d)
           gpus == workers[w].gpus
           fit == FittingGPUs(gpus, d)
           f == [g \in R |-> CHOOSE i \in DOMAIN gpus : /\ gpus[i].id = g
                                                       /\ gpus[i].memoryMB = db.gpus[g].memoryMB
                                                       /\ gpus[i].available = db.gpus[g].available]
           image == {f[g] : g \in R}
<1>1. ASSUME NEW g \in R PROVE f[g] \in fit /\ gpus[f[g]].id = g
  <2>1. /\ g \in DOMAIN db.gpus /\ db.gpus[g].workerID = w
        /\ db.gpus[g].available /\ db.gpus[g].memoryMB >= d.minGPUMemory
    BY DEF FittingRows
  <2>2. \E i \in DOMAIN gpus : /\ gpus[i].id = g
                               /\ gpus[i].memoryMB = db.gpus[g].memoryMB
                               /\ gpus[i].available = db.gpus[g].available
    BY <2>1 DEF RowsTrue
  <2>3. f[g] = CHOOSE i \in DOMAIN gpus : /\ gpus[i].id = g
                                          /\ gpus[i].memoryMB = db.gpus[g].memoryMB
                                          /\ gpus[i].available = db.gpus[g].available
    OBVIOUS
  <2> HIDE DEF f
  <2>4. /\ f[g] \in DOMAIN gpus /\ gpus[f[g]].id = g
        /\ gpus[f[g]].memoryMB = db.gpus[g].memoryMB
        /\ gpus[f[g]].available = db.gpus[g].available
    BY <2>2, <2>3
  <2> QED  BY <2>1, <2>4 DEF FittingGPUs
<1>2. DOMAIN f = R
  OBVIOUS
<1> HIDE DEF f, R
<1>3. \A g, h \in R : f[g] = f[h] => g = h
  BY <1>1
<1>4. IsFiniteSet(R) /\ Cardinality(R) \in Nat
  BY RowsFinite DEF R
<1>5. Cardinality(image) = Cardinality(R)
  <2> HIDE DEF image
  <2> QED  BY <1>2, <1>3, <1>4, ImageCount DEF image
<1>6. IsFiniteSet(fit) /\ Cardinality(fit) \in Nat
  <2>1. gpus \in Seq(GPU)
    BY DEF TInv, TypeOK, WorkerRecord
  <2>2. IsFiniteSet(fit)
    BY <2>1, FittingFinite
  <2> QED  BY <2>2, FS_CardinalityType
<1>7. image \subseteq fit
  BY <1>1
<1> HIDE DEF image, fit
<1>8. Cardinality(image) <= Cardinality(fit)
  BY <1>6, <1>7, FS_Subset
<1> QED  BY <1>4, <1>5, <1>6, <1>8 DEF R, fit

\* What a save has written so far leaves nothing to assign, as the tables do.
LEMMA SavingConserves ==
    ASSUME PInv, RInv
    PROVE  StoredConserving
<1> SUFFICES ASSUME mu = "save" PROVE StoredConserving
  BY DEF RInv
<1> USE DEF PInv, RInv
<1> SUFFICES ASSUME NEW t \in db.pending, NEW w \in DOMAIN db.workers,
                    Accepts(workloadPolicy, db.workers[w])
             PROVE  ~(Cardinality(FittingRows(w, Demand[t])) >= Demand[t].requiredGPUs)
  BY DEF StoredConserving
<1>1. w \in DOMAIN workers /\ db.workers[w] = workers[w].status
  BY DEF Saving, Stored, WorkersStored
<1>2. PICK i \in DOMAIN pendingTasks : pendingTasks[i] = t
  <2>1. /\ Cardinality(db.pending) <= Len(pendingTasks)
        /\ db.pending = {pendingTasks[i] : i \in 1..Cardinality(db.pending)}
    BY DEF Saving, Stored, QueueStored
  <2>2. Cardinality(db.pending) \in Nat
    BY FS_CardinalityType DEF DBTyped
  <2>3. DOMAIN pendingTasks = 1..Len(pendingTasks) /\ Len(pendingTasks) \in Nat
    BY DEF TInv, TypeOK
  <2>4. \A k \in 1..Cardinality(db.pending) : k \in DOMAIN pendingTasks
    BY <2>1, <2>2, <2>3
  <2> QED  BY <2>1, <2>4
<1>3. w \notin Candidates(workloadPolicy, workers, Demand[t])
  BY <1>2 DEF WorkConserving, Suitable
<1>4. ~(Cardinality(FittingGPUs(workers[w].gpus, Demand[t])) >= Demand[t].requiredGPUs)
  BY <1>1, <1>3 DEF Candidates
<1>5. t \in TaskIds /\ Demand[t].requiredGPUs \in Nat
  BY SchedulerAssumptions DEF DBTyped, TaskDemand
<1>6. /\ Cardinality(FittingRows(w, Demand[t])) <= Cardinality(FittingGPUs(workers[w].gpus, Demand[t]))
      /\ Cardinality(FittingRows(w, Demand[t])) \in Nat
      /\ Cardinality(FittingGPUs(workers[w].gpus, Demand[t])) \in Nat
  BY <1>1, RowsWithinGPUs
<1> QED  BY <1>4, <1>5, <1>6

\* What a load puts into the tables leaves nothing to assign.
LEMMA LoadConserves ==
    ASSUME PInv, RInv, LoadState
    PROVE  WorkConserving' /\ HeldByAssignee'
<1>1. /\ tasks' = [t \in DOMAIN db.tasks |-> LoadedTask(t)]
      /\ workers' \in LoadedWorkers
      /\ pendingTasks' \in SetToSeqs(db.pending \cap DOMAIN db.tasks)
      /\ workloadPolicy' = workloadPolicy
  BY DEF LoadState, service
<1>2. TInv' /\ DBTyped /\ ReferentialIntegrity /\ StoredConserving
  BY LoadTInv, SavingConserves DEF PInv
<1>3. /\ DOMAIN workers' = DOMAIN db.workers
      /\ \A w \in DOMAIN workers' : \E rows :
            /\ workers'[w] = LoadedWorker(w, rows)
            /\ rows \in Seq(DOMAIN db.gpus)
            /\ \A i, j \in DOMAIN rows : rows[i] = rows[j] => i = j
            /\ {rows[i] : i \in DOMAIN rows} = {g \in DOMAIN db.gpus : db.gpus[g].workerID = w}
  BY <1>1, <1>2, LoadedWorkersProps
<1>4. ASSUME NEW w \in DOMAIN workers', NEW d
      PROVE  /\ workers'[w].status = db.workers[w]
             /\ Cardinality(FittingGPUs(workers'[w].gpus, d)) <= Cardinality(FittingRows(w, d))
             /\ Cardinality(FittingGPUs(workers'[w].gpus, d)) \in Nat
             /\ Cardinality(FittingRows(w, d)) \in Nat
  <2> DEFINE gpus == workers'[w].gpus
             fit == FittingGPUs(gpus, d)
             R == FittingRows(w, d)
  <2>1. PICK rows :
           /\ workers'[w] = LoadedWorker(w, rows)
           /\ \A i, j \in DOMAIN rows : rows[i] = rows[j] => i = j
           /\ {rows[i] : i \in DOMAIN rows} = {g \in DOMAIN db.gpus : db.gpus[g].workerID = w}
    BY <1>3
  <2> DEFINE f == [i \in fit |-> rows[i]]
             image == {f[i] : i \in fit}
  <2>2. /\ workers'[w].status = db.workers[w]
        /\ DOMAIN gpus = DOMAIN rows
        /\ \A i \in DOMAIN rows : /\ gpus[i].memoryMB = db.gpus[rows[i]].memoryMB
                                  /\ gpus[i].available = db.gpus[rows[i]].available
    BY <2>1 DEF LoadedWorker
  <2> HIDE DEF gpus
  <2>3. ASSUME NEW i \in fit PROVE i \in DOMAIN rows /\ rows[i] \in R
    <3>1. i \in DOMAIN rows /\ gpus[i].available /\ gpus[i].memoryMB >= d.minGPUMemory
      BY <2>2 DEF FittingGPUs
    <3>2. rows[i] \in {g \in DOMAIN db.gpus : db.gpus[g].workerID = w}
      BY <2>1, <3>1
    <3> QED  BY <3>1, <3>2, <2>2 DEF FittingRows
  <2> HIDE DEF fit, R
  <2>4. DOMAIN f = fit /\ \A i, j \in fit : f[i] = f[j] => i = j
    BY <2>1, <2>3
  <2>5. image \subseteq R
    BY <2>3
  <2> HIDE DEF f
  <2>6. IsFiniteSet(fit) /\ Cardinality(fit) \in Nat
    <3>1. gpus \in Seq(GPU)
      BY <1>2 DEF TInv, TypeOK, WorkerRecord, gpus
    <3>2. IsFiniteSet(fit)
      BY <3>1, FittingFinite DEF fit
    <3> QED  BY <3>2, FS_CardinalityType
  <2>7. IsFiniteSet(R) /\ Cardinality(R) \in Nat
    BY <1>2, RowsFinite DEF R
  <2>8. Cardinality(image) = Cardinality(fit)
    BY <2>4, <2>6, ImageCount
  <2> HIDE DEF image
  <2>9. Cardinality(image) <= Cardinality(R)
    BY <2>5, <2>7, FS_Subset
  <2> QED  BY <2>2, <2>6, <2>7, <2>8, <2>9 DEF fit, R, gpus
<1>5. WorkConserving'
  <2>1. ASSUME NEW i \in DOMAIN pendingTasks', NEW w \in Candidates(workloadPolicy', workers', Demand[pendingTasks'[i]])
        PROVE  FALSE
    <3> DEFINE t == pendingTasks'[i]
    <3>1. t \in db.pending
      <4> DEFINE S == db.pending \cap DOMAIN db.tasks
      <4>1. IsFiniteSet(S)
        <5>1. S \subseteq db.pending /\ IsFiniteSet(db.pending)
          BY <1>2 DEF DBTyped
        <5> HIDE DEF S
        <5> QED  BY <5>1, FS_Subset
      <4> HIDE DEF S
      <4>2. pendingTasks' \in Seq(S)
        BY <1>1, <4>1, SetToSeqsProps DEF S
      <4>3. t \in S
        BY <4>2
      <4> QED  BY <4>3 DEF S
    <3> HIDE DEF t
    <3>2. /\ w \in DOMAIN workers' /\ Accepts(workloadPolicy, workers'[w].status)
          /\ Cardinality(FittingGPUs(workers'[w].gpus, Demand[t])) >= Demand[t].requiredGPUs
      BY <2>1, <1>1 DEF Candidates, t
    <3>3. Demand[t].requiredGPUs \in Nat
      BY <1>2, <3>1, SchedulerAssumptions DEF DBTyped, TaskDemand
    <3>4. /\ workers'[w].status = db.workers[w]
          /\ Cardinality(FittingRows(w, Demand[t])) >= Demand[t].requiredGPUs
      <4>1. /\ workers'[w].status = db.workers[w]
            /\ Cardinality(FittingGPUs(workers'[w].gpus, Demand[t])) <= Cardinality(FittingRows(w, Demand[t]))
            /\ Cardinality(FittingGPUs(workers'[w].gpus, Demand[t])) \in Nat
            /\ Cardinality(FittingRows(w, Demand[t])) \in Nat
        BY <1>4, <3>2
      <4> QED  BY <4>1, <3>2, <3>3
    <3> QED  BY <3>1, <3>2, <3>4, <1>2, <1>3 DEF StoredConserving
  <2> QED  BY <2>1 DEF WorkConserving, Suitable
<1>6. HeldByAssignee'
  <2>1. ASSUME NEW w \in DOMAIN workers', NEW t \in workers'[w].tasks
        PROVE  t \in DOMAIN tasks' /\ tasks'[t].workerID = w
    <3>1. t \in DOMAIN db.tasks /\ db.tasks[t].workerID = w
      <4>1. PICK rows : workers'[w] = LoadedWorker(w, rows)
        BY <1>3
      <4>2. workers'[w].tasks = {u \in DOMAIN db.tasks : db.tasks[u].workerID = w}
        BY <4>1 DEF LoadedWorker
      <4> QED  BY <4>2
    <3> QED  BY <3>1, <1>1 DEF LoadedTask
  <2> QED  BY <2>1 DEF HeldByAssignee
<1> QED  BY <1>5, <1>6

\* A transaction of a save keeps the rest of RInv if it keeps the rows true.
LEMMA SaveStepRInv ==
    ASSUME RInv, mu = "save", UNCHANGED vars, RowsTrue'
    PROVE  RInv'
<1>1. UNCHANGED <<workers, tasks, pendingTasks, workloadPolicy, mu, scan>>
  BY DEF vars, tables, lock
<1>2. workloadPolicy' \in BootPolicies /\ HeldByAssignee' /\ WorkConserving'
  BY <1>1 DEF RInv, HeldByAssignee, WorkConserving, Suitable
<1> QED  BY <1>1, <1>2 DEF RInv

\* SaveWorker writes over rows with ids of w's GPUs, and what it writes is true.
LEMMA SaveWorkerRInv ==
    ASSUME PInv, RInv, NEW w \in WorkerIds, SaveWorker(w)
    PROVE  RInv'
<1>1. /\ mu = "save" /\ w \in DOMAIN workers /\ UNCHANGED vars /\ UNCHANGED <<workers, mu>>
      /\ db' = WithWorker(db, w)
  BY DEF SaveWorker, vars, tables, lock
<1>2. TInv /\ DBTyped /\ RowsTrue
  BY DEF PInv, RInv
<1> DEFINE own == {workers[w].gpus[i].id : i \in DOMAIN workers[w].gpus}
<1>3. /\ DOMAIN db'.gpus = DOMAIN db.gpus \cup own
      /\ \A i \in DOMAIN workers[w].gpus :
            db'.gpus[workers[w].gpus[i].id] = [workerID |-> w, memoryMB |-> workers[w].gpus[i].memoryMB,
                                               available |-> workers[w].gpus[i].available]
      /\ \A g \in DOMAIN db.gpus \ own : db'.gpus[g] = db.gpus[g]
  BY <1>1, <1>2, WithWorkerProps
<1>4. ASSUME NEW g \in DOMAIN db'.gpus
      PROVE  \E i \in DOMAIN workers[db'.gpus[g].workerID].gpus :
                LET gpu == workers[db'.gpus[g].workerID].gpus[i]
                IN  /\ gpu.id = g
                    /\ gpu.memoryMB = db'.gpus[g].memoryMB
                    /\ gpu.available = db'.gpus[g].available
  <2>1. CASE g \in own
    <3>1. PICK i \in DOMAIN workers[w].gpus : workers[w].gpus[i].id = g
      BY <2>1
    <3>2. /\ db'.gpus[g].workerID = w
          /\ db'.gpus[g].memoryMB = workers[w].gpus[i].memoryMB
          /\ db'.gpus[g].available = workers[w].gpus[i].available
      <4>1. db'.gpus[g] = [workerID |-> w, memoryMB |-> workers[w].gpus[i].memoryMB,
                           available |-> workers[w].gpus[i].available]
        <5> HIDE DEF own
        <5> QED  BY <1>3, <3>1
      <4> QED  BY <4>1
    <3> QED  BY <3>1, <3>2
  <2>2. CASE g \notin own
    <3> HIDE DEF own
    <3>1. g \in DOMAIN db.gpus /\ db'.gpus[g] = db.gpus[g]
      BY <2>2, <1>3
    <3> QED  BY <3>1, <1>1, <1>2 DEF RowsTrue
  <2> QED  BY <2>1, <2>2
<1>5. RowsTrue'
  BY <1>1, <1>4 DEF RowsTrue
<1> QED  BY <1>1, <1>5, SaveStepRInv

\* A step that leaves the database alone keeps the rest of RInv if it keeps
\* what RInv says of the tables.
LEMMA OtherStepRInv ==
    ASSUME PInv, RInv, SamePolicy, UNCHANGED db, workloadPolicy' \in BootPolicies,
           HeldByAssignee', WorkConserving',
           mu' = "save" => mu = "save" /\ UNCHANGED workers
    PROVE  RInv'
<1>1. workloadPolicy' = workloadPolicy
  BY DEF SamePolicy, RInv
<1>2. \A w, d : FittingRows(w, d)' = FittingRows(w, d)
  BY DEF FittingRows
<1>3. StoredConserving'
  <2>1. StoredConserving
    BY SavingConserves
  <2> QED  BY <2>1, <1>1, <1>2 DEF StoredConserving
<1>4. RowsTrue'
  BY DEF RInv, RowsTrue
<1> QED  BY <1>3, <1>4 DEF RInv

\* Every step of the server preserves RInv.
LEMMA NextRInv ==
    ASSUME SamePolicy, PInv, RInv, [PNext]_pvars
    PROVE  RInv'
<1>1. TInv /\ workloadPolicy \in BootPolicies /\ HeldByAssignee /\ WorkConserving
  BY DEF PInv, RInv
<1>2. ASSUME UNCHANGED <<workers, tasks, pendingTasks, mu, scan, db>>, workloadPolicy' \in BootPolicies
      PROVE  RInv'
  <2>1. workloadPolicy' = workloadPolicy
    BY <1>1, <1>2 DEF SamePolicy
  <2>2. HeldByAssignee' /\ WorkConserving'
    BY <1>1, <1>2, <2>1 DEF HeldByAssignee, WorkConserving, Suitable
  <2> QED  BY <1>2, <2>2, OtherStepRInv
<1>3. CASE UNCHANGED pvars
  <2>1. UNCHANGED <<workers, tasks, pendingTasks, mu, scan, db, workloadPolicy>>
    BY <1>3 DEF pvars, vars, tables, lock
  <2> QED  BY <2>1, <1>1, <1>2
<1>4. CASE Serve
  <2>1. workloadPolicy' = workloadPolicy /\ UNCHANGED db
    BY <1>4 DEF Serve, Register, RegisterWorker, AddTask, RequestTask, AssignOnRequest, Report,
                ReportProgress, ReportEnd, Pass, AssignSkip, AssignDone, AssignTo, vars
  <2>2. HeldByAssignee' /\ WorkConserving'
    BY <1>1, <1>4, ServeHolders, ServeConserves
  <2>3. mu' = "save" => mu = "save" /\ UNCHANGED workers
    BY <1>1, <1>4, ServeSaving
  <2> QED  BY <1>1, <2>1, <2>2, <2>3, OtherStepRInv
<1>5. CASE (\E policy \in BootPolicies : Boot(policy)) \/ EnablePersistence \/ LoadFails
            \/ AutoSaveTick \/ Signal \/ StopManager
  <2>1. UNCHANGED <<workers, tasks, pendingTasks, mu, scan, db>> /\ workloadPolicy' \in BootPolicies
    BY <1>1, <1>5 DEF Boot, EnablePersistence, LoadFails, AutoSaveTick, Signal, StopManager,
                      vars, tables, lock, service
  <2> QED  BY <2>1, <1>2
<1>6. CASE LoadState
  <2>1. UNCHANGED <<db, workloadPolicy>> /\ mu' # "save"
    BY <1>6 DEF LoadState, service
  <2>2. WorkConserving' /\ HeldByAssignee'
    BY <1>6, LoadConserves
  <2> QED  BY <1>1, <2>1, <2>2, OtherStepRInv
<1>7. CASE SaveFails \/ SaveDone
  <2>1. UNCHANGED <<workers, tasks, pendingTasks, db, workloadPolicy>> /\ mu \in {"free", "save"} /\ mu' = "free"
    BY <1>7 DEF SaveFails, SaveDone, tables, service
  <2>2. HeldByAssignee' /\ WorkConserving'
    BY <1>1, <2>1 DEF HeldByAssignee, WorkConserving, Suitable
  <2> QED  BY <1>1, <2>1, <2>2, OtherStepRInv
<1>8. CASE Down
  <2>1. /\ workers' = <<>> /\ pendingTasks' = <<>> /\ mu' = "free"
        /\ UNCHANGED <<db, workloadPolicy>>
    BY <1>8 DEF Down
  <2>2. DOMAIN workers' = {} /\ DOMAIN pendingTasks' = {}
    BY <2>1
  <2>3. HeldByAssignee' /\ WorkConserving'
    BY <2>2 DEF HeldByAssignee, WorkConserving
  <2> QED  BY <1>1, <2>1, <2>3, OtherStepRInv
<1>9. CASE SaveBegin
  <2>1. /\ UNCHANGED <<workers, tasks, pendingTasks, workloadPolicy>> /\ mu = "free" /\ mu' = "save"
        /\ db' = EmptyDB
    BY <1>9 DEF SaveBegin, tables, service
  <2>2. HeldByAssignee' /\ WorkConserving'
    BY <1>1, <2>1 DEF HeldByAssignee, WorkConserving, Suitable
  <2>3. DOMAIN db'.gpus = {}
    BY <2>1 DEF EmptyDB
  <2>4. RowsTrue'
    BY <2>3 DEF RowsTrue
  <2> QED  BY <1>1, <2>1, <2>2, <2>4 DEF RInv
<1>10. CASE \E w \in WorkerIds : SaveWorker(w)
  BY <1>10, SaveWorkerRInv
<1>11. ASSUME mu = "save", UNCHANGED vars, db'.gpus = db.gpus PROVE RInv'
  <2>1. UNCHANGED <<workers, mu>>
    BY <1>11 DEF vars, tables, lock
  <2>2. RowsTrue'
    BY <1>11, <2>1 DEF RInv, RowsTrue
  <2> QED  BY <1>11, <2>2, SaveStepRInv
<1>12. CASE \E t \in TaskIds : SaveTask(t)
  <2>1. PICK t \in TaskIds : SaveTask(t)
    BY <1>12
  <2>2. mu = "save" /\ t \in DOMAIN tasks /\ UNCHANGED vars /\ db' = WithTask(db, t)
    BY <2>1 DEF SaveTask
  <2>3. db'.gpus = db.gpus
    BY <2>2, WithTaskProps DEF PInv
  <2> QED  BY <2>2, <2>3, <1>11
<1>13. CASE SavePendingTask
  <2>1. mu = "save" /\ UNCHANGED vars
    BY <1>13 DEF SavePendingTask
  <2>2. db'.gpus = db.gpus
    <3> DEFINE queued == db.pending \cup {pendingTasks[Cardinality(db.pending) + 1]}
    <3>1. db' = [db EXCEPT !.pending = queued]
      BY <1>13 DEF SavePendingTask
    <3> HIDE DEF queued
    <3> QED  BY <3>1 DEF PInv, DBTyped
  <2> QED  BY <2>1, <2>2, <1>11
<1> QED
  BY <1>3, <1>4, <1>5, <1>6, <1>7, <1>8, <1>9, <1>10, <1>12, <1>13 DEF PNext, Exit, Crash

\* RInv holds where the first life of the server begins, and ever after.
LEMMA RestartInvariance ==
    ASSUME SamePolicy
    PROVE  PSpec => []RInv
<1>1. PInit => RInv
  <2> SUFFICES ASSUME PInit PROVE RInv
    OBVIOUS
  <2>1. workers = <<>> /\ pendingTasks = <<>> /\ db = EmptyDB /\ mu = "free" /\ workloadPolicy \in BootPolicies
    BY DEF PInit, Init
  <2>2. DOMAIN workers = {} /\ DOMAIN pendingTasks = {} /\ db.pending = {}
    BY <2>1 DEF EmptyDB
  <2> QED  BY <2>1, <2>2 DEF RInv, HeldByAssignee, WorkConserving, StoredConserving, RowsTrue
<1>2. PInv /\ RInv /\ [PNext]_pvars => RInv'
  BY NextRInv
<1> QED  BY <1>1, <1>2, PInvariance, PTL DEF PSpec

\* If the server is always started with the same policy, no pending task suits
\* a worker between two calls in any of its lives: not after LoadState, which
\* runs no assignPendingTasks, not after a crash that leaves a part of a save,
\* and not where the rows of two workers with GPUs of the same id were written
\* over each other.
THEOREM RestartLeavesNothingUndone ==
    ASSUME SamePolicy
    PROVE  PSpec => []WorkConserving
<1>1. RInv => WorkConserving
  BY DEF RInv
<1> QED  BY <1>1, RestartInvariance, PTL

\* Then RequestTask, which would book a task on another worker than it records,
\* does not come to do so, and the workers' tasks and the tasks' workers agree
\* over all saves, loads and crashes.
THEOREM RestartKeepsOneHolder ==
    ASSUME SamePolicy
    PROVE  PSpec => []HeldByAssignee
<1>1. RInv => HeldByAssignee
  BY DEF RInv
<1> QED  BY <1>1, RestartInvariance, PTL
=============================================================================
