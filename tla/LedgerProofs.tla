---------------------------- MODULE LedgerProofs ----------------------------
(***************************************************************************)
(* The scheduler implements GPULedger: under the mapping of                *)
(* SchedulerLedger every step of OwnerSpec is a step of the ledger or      *)
(* leaves it unchanged.  It rests on OInv, the inductive invariant of      *)
(* SchedulerProofs.                                                        *)
(***************************************************************************)
EXTENDS SchedulerLedger, SchedulerProofs

\* The mapped state, one name for each of the ledger's variables.
book == <<Pool, Queued, Grants, Over>>

\* NewScheduler maps to the empty ledger.
LEMMA InitImplements == Init => Ledger!Init
<1> SUFFICES ASSUME Init PROVE Ledger!Init
  OBVIOUS
<1>1. workers = <<>> /\ tasks = <<>> /\ pendingTasks = <<>>
  BY DEF Init
<1>2. DOMAIN workers = {} /\ DOMAIN tasks = {} /\ DOMAIN pendingTasks = {}
  BY <1>1
<1>3. Queued = {} /\ HeldTasks = {} /\ Over = {}
  BY <1>2 DEF Queued, HeldTasks, Over
<1>4. Pool = <<>> /\ Grants = <<>>
  BY <1>2, <1>3 DEF Pool, Grants
<1> QED  BY <1>3, <1>4 DEF Ledger!Init

\* Held tasks are known, and no queued task is held.
LEMMA HeldFacts ==
    ASSUME OInv
    PROVE  /\ Queued \subseteq DOMAIN tasks
           /\ HeldTasks \subseteq DOMAIN tasks
           /\ \A w \in DOMAIN workers : \A t \in workers[w].tasks :
                 tasks[t].workerID = w /\ t \notin Queued
           /\ \A t \in HeldTasks : \E w \in DOMAIN workers : t \in workers[w].tasks
<1> USE DEF OInv, IInv
<1>1. Queued \subseteq DOMAIN tasks
  <2>1. \A i \in DOMAIN pendingTasks : pendingTasks[i] \in DOMAIN tasks
    BY DEF TypeOK
  <2> QED  BY <2>1 DEF Queued
<1>2. \A t \in HeldTasks : \E w \in DOMAIN workers : t \in workers[w].tasks
  BY DEF HeldTasks
<1>3. \A w \in DOMAIN workers : \A t \in workers[w].tasks :
         t \in DOMAIN tasks /\ tasks[t].workerID = w
  BY DEF HeldByAssignee
<1>4. \A w \in DOMAIN workers : w # NoWorker
  BY SchedulerAssumptions DEF TypeOK
<1>5. \A w \in DOMAIN workers : \A t \in workers[w].tasks : t \notin Queued
  BY <1>3, <1>4 DEF PendingExactlyUnassigned, Queued
<1> QED  BY <1>1, <1>2, <1>3, <1>5

\* A step that changes no GPU list, queue, holding or assignment is none of the
\* ledger's.
LEMMA LedgerUntouched ==
    ASSUME OInv, DOMAIN workers' = DOMAIN workers,
           \A w \in DOMAIN workers : workers'[w].gpus = workers[w].gpus
                                     /\ workers'[w].tasks = workers[w].tasks,
           pendingTasks' = pendingTasks, DOMAIN tasks' = DOMAIN tasks,
           \A t \in DOMAIN tasks : /\ tasks'[t].workerID = tasks[t].workerID
                                   /\ tasks'[t].assignedGPUs = tasks[t].assignedGPUs
    PROVE  UNCHANGED book
<1>1. Queued' = Queued
  BY DEF Queued
<1>2. HeldTasks' = HeldTasks
  BY DEF HeldTasks
<1>3. Over' = Over
  BY <1>1, <1>2 DEF Over
<1>4. Pool' = Pool
  BY DEF Pool
<1>5. Grants' = Grants
  BY <1>2, HeldFacts DEF Grants
<1> QED  BY <1>1, <1>3, <1>4, <1>5 DEF book

\* RegisterWorker joins a worker with the GPUs it registers.
LEMMA RegisterImplements ==
    ASSUME OInv, Register
    PROVE  Ledger!Next
<1>1. PICK req \in ExplicitIds \cup {NoWorker}, gpus \in GPULists : RegisterWorker(req, gpus)
  BY DEF Register
<1> DEFINE id == IF req = NoWorker THEN GeneratedId ELSE req
<1>2. /\ id \notin DOMAIN workers
      /\ workers' = Put(workers, id, [gpus |-> gpus, status |-> "IDLE", tasks |-> {}])
      /\ UNCHANGED <<tasks, pendingTasks>>
  BY <1>1 DEF RegisterWorker
<1>3. id \in WorkerIds
  <2>1. IInv'
    BY <1>1, RegisterIInv DEF OInv
  <2>2. id \in DOMAIN workers'
    BY <1>2 DEF Put
  <2> QED  BY <2>1, <2>2 DEF IInv, TypeOK
<1> HIDE DEF id
<1>4. /\ DOMAIN workers' = DOMAIN workers \cup {id}
      /\ workers'[id].gpus = gpus /\ workers'[id].tasks = {}
      /\ \A w \in DOMAIN workers : workers'[w] = workers[w]
  BY <1>2 DEF Put
<1>5. Queued' = Queued
  BY <1>2 DEF Queued
<1>6. HeldTasks' = HeldTasks
  BY <1>4 DEF HeldTasks
<1>7. Grants' = Grants /\ Over' = Over
  BY <1>2, <1>5, <1>6 DEF Grants, Over
<1>8. Pool' = [v \in DOMAIN Pool \cup {id} |-> IF v = id THEN Devices(gpus) ELSE Pool[v]]
  BY <1>2, <1>4 DEF Pool
<1>9. DOMAIN Pool = DOMAIN workers
  BY DEF Pool
<1>10. Ledger!Join(id, Devices(gpus))
  BY <1>2, <1>5, <1>7, <1>8, <1>9 DEF Ledger!Join
<1> QED  BY <1>3, <1>10 DEF Ledger!Next

\* AddTask submits a task.
LEMMA AddTaskImplements ==
    ASSUME OInv, NEW t \in TaskIds, AddTask(t)
    PROVE  Ledger!Next
<1>1. /\ t \notin DOMAIN tasks
      /\ DOMAIN tasks' = DOMAIN tasks \cup {t}
      /\ \A u \in DOMAIN tasks : tasks'[u] = tasks[u]
      /\ pendingTasks' = Append(pendingTasks, t)
      /\ workers' = workers
  BY DEF AddTask, Put
<1>2. Queued' = Queued \cup {t}
  <2>1. pendingTasks \in Seq(DOMAIN tasks)
    BY DEF OInv, IInv, TypeOK
  <2>2. /\ DOMAIN pendingTasks = 1..Len(pendingTasks) /\ Len(pendingTasks) \in Nat
        /\ DOMAIN pendingTasks' = 1..(Len(pendingTasks) + 1)
        /\ pendingTasks'[Len(pendingTasks) + 1] = t
        /\ \A i \in 1..Len(pendingTasks) : pendingTasks'[i] = pendingTasks[i]
    BY <2>1, <1>1
  <2>3. \A i \in 1..(Len(pendingTasks) + 1) : i \in 1..Len(pendingTasks) \/ i = Len(pendingTasks) + 1
    BY <2>2
  <2>4. /\ Len(pendingTasks) + 1 \in 1..(Len(pendingTasks) + 1)
        /\ 1..Len(pendingTasks) \subseteq 1..(Len(pendingTasks) + 1)
    BY <2>2
  <2> QED  BY <2>2, <2>3, <2>4 DEF Queued
<1>3. HeldTasks' = HeldTasks
  BY <1>1 DEF HeldTasks
<1>4. Grants' = Grants
  BY <1>1, <1>3, HeldFacts DEF Grants
<1>5. Over' = Over
  BY <1>1, <1>2, <1>3, HeldFacts DEF Over
<1>6. Pool' = Pool
  BY <1>1 DEF Pool
<1>7. t \notin Queued \cup DOMAIN Grants \cup Over
  BY <1>1, HeldFacts DEF Grants, Over
<1>8. Ledger!Submit(t)
  BY <1>2, <1>4, <1>5, <1>6, <1>7 DEF Ledger!Submit
<1> QED  BY <1>8 DEF Ledger!Next

\* Marking GPUs changes nothing that the pool shows of them.
LEMMA DevicesMarked ==
    ASSUME NEW gpus \in Seq(GPU), NEW ids, NEW b \in BOOLEAN
    PROVE  Devices(MarkGPUs(gpus, ids, b)) = Devices(gpus)
<1>1. \A i \in DOMAIN gpus : gpus[i] \in GPU
  OBVIOUS
<1> DEFINE marked == MarkGPUs(gpus, ids, b)
<1>2. /\ DOMAIN marked = DOMAIN gpus
      /\ \A i \in DOMAIN gpus : marked[i].id = gpus[i].id /\ marked[i].memoryMB = gpus[i].memoryMB
  BY <1>1 DEF MarkGPUs, GPU
<1> HIDE DEF marked
<1>3. Devices(marked) = Devices(gpus)
  BY <1>2 DEF Devices
<1> QED  BY <1>3 DEF marked

\* An iteration of assignPendingTasks that assigns grants free GPUs, large
\* enough, to a task that waits: free by GPUsAccounted, since the policy chooses
\* by the flags.
LEMMA AssignToImplements ==
    ASSUME OInv, NEW w \in WorkerIds, AssignTo(w)
    PROVE  Ledger!Next
<1> DEFINE t == pendingTasks[scan]
           ids == ChosenGPUs(workers[w], Demand[t])
           old == workers[w]
<1> USE DEF OInv, IInv
<1>1. /\ w \in DOMAIN workers
      /\ tasks' = [tasks EXCEPT ![t] = Assigned(@, w, ids)]
      /\ workers' = [workers EXCEPT ![w] = TakeTask(@, t, ids)]
      /\ pendingTasks' = RemoveAt(pendingTasks, scan)
  BY DEF AssignTo, FirstChoices, Candidates, Dequeue
<1>2. /\ scan \in 1..Len(pendingTasks) /\ Len(pendingTasks) \in Nat
      /\ pendingTasks \in Seq(DOMAIN tasks) /\ DOMAIN pendingTasks = 1..Len(pendingTasks)
      /\ t \in DOMAIN tasks /\ t \in TaskIds /\ tasks[t] \in TaskRecord
  BY DEF AssignTo, TypeOK
<1>3. old \in WorkerRecord /\ old.gpus \in Seq(GPU)
  BY <1>1 DEF TypeOK, WorkerRecord
<1>4. /\ DOMAIN workers' = DOMAIN workers
      /\ workers'[w].gpus = MarkGPUs(old.gpus, ids, FALSE)
      /\ workers'[w].tasks = old.tasks \cup {t}
      /\ \A v \in DOMAIN workers \ {w} : workers'[v] = workers[v]
  BY <1>1, <1>3 DEF TakeTask, WorkerRecord
<1>5. /\ DOMAIN tasks' = DOMAIN tasks
      /\ tasks'[t].workerID = w /\ tasks'[t].assignedGPUs = ids
      /\ \A u \in DOMAIN tasks \ {t} : tasks'[u] = tasks[u]
  BY <1>1, <1>2 DEF Assigned, TaskRecord
<1>6. t \in Queued /\ t \notin HeldTasks
  BY <1>2, HeldFacts DEF Queued
<1>7. Queued' = Queued \ {t}
  <2>1. /\ pendingTasks' \in Seq(DOMAIN tasks)
        /\ Len(pendingTasks') = Len(pendingTasks) - 1
        /\ \A j \in 1..(Len(pendingTasks) - 1) :
              pendingTasks'[j] = IF j < scan THEN pendingTasks[j] ELSE pendingTasks[j + 1]
    BY <1>1, <1>2, RemoveAtProps
  <2>2. DOMAIN pendingTasks' = 1..(Len(pendingTasks) - 1)
    BY <2>1
  <2>3. \A i \in 1..Len(pendingTasks) : pendingTasks[i] = t => i = scan
    BY <1>2 DEF PendingExactlyUnassigned
  <2>4. \A j \in 1..(Len(pendingTasks) - 1) : pendingTasks'[j] \in Queued \ {t}
    <3> SUFFICES ASSUME NEW j \in 1..(Len(pendingTasks) - 1)
                 PROVE  pendingTasks'[j] \in Queued \ {t}
      OBVIOUS
    <3>1. PICK i \in 1..Len(pendingTasks) : i # scan /\ pendingTasks'[j] = pendingTasks[i]
      BY <1>2, <2>1
    <3> QED  BY <1>2, <2>3, <3>1 DEF Queued
  <2>5. \A u \in Queued \ {t} : \E j \in 1..(Len(pendingTasks) - 1) : pendingTasks'[j] = u
    <3> SUFFICES ASSUME NEW u \in Queued \ {t}
                 PROVE  \E j \in 1..(Len(pendingTasks) - 1) : pendingTasks'[j] = u
      OBVIOUS
    <3>1. PICK i \in 1..Len(pendingTasks) : pendingTasks[i] = u /\ i # scan
      BY <1>2 DEF Queued
    <3>2. CASE i < scan
      BY <1>2, <2>1, <3>1, <3>2
    <3>3. CASE i > scan
      <4>1. i - 1 \in 1..(Len(pendingTasks) - 1) /\ ~(i - 1 < scan) /\ (i - 1) + 1 = i
        BY <1>2, <3>1, <3>3
      <4> QED  BY <2>1, <3>1, <4>1
    <3> QED  BY <1>2, <3>1, <3>2, <3>3
  <2>6. Queued' = {pendingTasks'[j] : j \in 1..(Len(pendingTasks) - 1)}
    BY <2>2 DEF Queued
  <2> QED  BY <2>4, <2>5, <2>6
<1>8. \A id \in ids : \E d \in Devices(old.gpus) : d.id = id /\ d.memoryMB >= Demand[t].minGPUMemory
  <2> SUFFICES ASSUME NEW id \in ids
               PROVE  \E d \in Devices(old.gpus) : d.id = id /\ d.memoryMB >= Demand[t].minGPUMemory
    OBVIOUS
  <2>1. PICK i \in DOMAIN old.gpus : old.gpus[i].id = id /\ old.gpus[i].memoryMB >= Demand[t].minGPUMemory
    BY DEF ChosenGPUs, FirstFitting, FittingGPUs
  <2>2. [id |-> old.gpus[i].id, memoryMB |-> old.gpus[i].memoryMB] \in Devices(old.gpus)
    BY DEF Devices
  <2> QED  BY <2>1, <2>2
<1>9. \A u \in old.tasks : tasks[u].assignedGPUs \cap ids = {}
  BY <1>1, <1>3, ChosenWereFree DEF GPUsAccounted
<1>10. Devices(MarkGPUs(old.gpus, ids, FALSE)) = Devices(old.gpus)
  BY <1>3, DevicesMarked
<1> HIDE DEF t, ids
<1>11. HeldTasks' = HeldTasks \cup {t}
  <2>1. \A v \in DOMAIN workers : workers'[v].tasks = IF v = w THEN workers[v].tasks \cup {t} ELSE workers[v].tasks
    BY <1>4
  <2> QED  BY <1>1, <1>4, <2>1 DEF HeldTasks
<1>12. Grants' = [u \in DOMAIN Grants \cup {t} |->
                     IF u = t THEN [worker |-> w, gpus |-> ids] ELSE Grants[u]]
  BY <1>5, <1>6, <1>11, HeldFacts DEF Grants
<1>13. Over' = Over
  BY <1>5, <1>6, <1>7, <1>11 DEF Over
<1>14. Pool' = Pool
  BY <1>1, <1>4, <1>10 DEF Pool
<1>15. w \in DOMAIN Pool /\ Pool[w] = Devices(old.gpus)
  BY <1>1 DEF Pool
<1>16. \A u \in DOMAIN Grants : Grants[u].worker = w => Grants[u].gpus \cap ids = {}
  <2> SUFFICES ASSUME NEW u \in HeldTasks, tasks[u].workerID = w
               PROVE  tasks[u].assignedGPUs \cap ids = {}
    BY DEF Grants
  <2>1. u \in old.tasks
    BY HeldFacts
  <2> QED  BY <2>1, <1>9
<1>17. Ledger!Grant(t, w, ids)
  BY <1>6, <1>7, <1>8, <1>12, <1>13, <1>14, <1>15, <1>16 DEF Ledger!Grant
<1>18. ids \in SUBSET {d.id : d \in Pool[w]}
  BY <1>8, <1>15
<1> QED  BY <1>2, <1>15, <1>17, <1>18 DEF Ledger!Next

\* A terminal report of the holder ends a running task.
LEMMA ReportEndImplements ==
    ASSUME OInv, NEW w \in DOMAIN workers, NEW t \in workers[w].tasks, NEW status \in TaskStatus,
           ReportEnd(w, t, status)
    PROVE  Ledger!Next \/ UNCHANGED book
<1> DEFINE ids == tasks[t].assignedGPUs
           old == workers[w]
<1> USE DEF OInv, IInv
<1>1. /\ t \in DOMAIN tasks
      /\ tasks' = [tasks EXCEPT ![t].status = status]
      /\ \/ workers' = [workers EXCEPT ![w] = DropTask(@, t, ids)]
         \/ UNCHANGED workers
      /\ pendingTasks' = pendingTasks
  BY DEF ReportEnd
<1>2. /\ DOMAIN tasks' = DOMAIN tasks
      /\ \A u \in DOMAIN tasks : /\ tasks'[u].assignedGPUs = tasks[u].assignedGPUs
                                 /\ tasks'[u].workerID = tasks[u].workerID
  BY <1>1 DEF TypeOK, TaskRecord
<1>3. CASE UNCHANGED workers
  BY <1>1, <1>2, <1>3, LedgerUntouched
<1>4. CASE workers' = [workers EXCEPT ![w] = DropTask(@, t, ids)]
  <2>1. old \in WorkerRecord /\ old.gpus \in Seq(GPU)
    BY DEF TypeOK, WorkerRecord
  <2>2. /\ DOMAIN workers' = DOMAIN workers
        /\ workers'[w].gpus = MarkGPUs(old.gpus, ids, TRUE)
        /\ workers'[w].tasks = old.tasks \ {t}
        /\ \A v \in DOMAIN workers \ {w} : workers'[v] = workers[v]
    BY <1>4 DEF DropTask
  <2>3. Devices(MarkGPUs(old.gpus, ids, TRUE)) = Devices(old.gpus)
    BY <2>1, DevicesMarked
  <2> HIDE DEF ids
  <2>4. t \in TaskIds /\ t \in HeldTasks /\ t \notin Queued
    BY <1>1, HeldFacts DEF TypeOK, HeldTasks
  <2>5. \A v \in DOMAIN workers : workers'[v].tasks = workers[v].tasks \ {t}
    <3>1. \A v \in DOMAIN workers \ {w} : t \notin workers[v].tasks
      BY HeldFacts
    <3> QED  BY <2>2, <3>1
  <2>6. HeldTasks' = HeldTasks \ {t}
    BY <2>2, <2>5 DEF HeldTasks
  <2>7. Queued' = Queued
    BY <1>1 DEF Queued
  <2>8. Over' = Over \cup {t}
    BY <1>1, <1>2, <2>4, <2>6, <2>7 DEF Over
  <2>9. Grants' = [u \in DOMAIN Grants \ {t} |-> Grants[u]]
    BY <1>2, <2>6, HeldFacts DEF Grants
  <2>10. Pool' = Pool
    BY <2>2, <2>3 DEF Pool
  <2>11. t \in DOMAIN Grants
    BY <2>4 DEF Grants
  <2>12. Ledger!End(t)
    BY <2>7, <2>8, <2>9, <2>10, <2>11 DEF Ledger!End
  <2> QED  BY <2>4, <2>12 DEF Ledger!Next
<1> QED  BY <1>1, <1>3, <1>4

\* Every step of the scheduler is one of the ledger, or none.
LEMMA StepImplements == OInv /\ [OwnerNext]_vars => [Ledger!Next]_book
<1> SUFFICES ASSUME OInv, [OwnerNext]_vars PROVE Ledger!Next \/ UNCHANGED book
  OBVIOUS
<1>1. CASE Register
  BY <1>1, RegisterImplements
<1>2. CASE \E t \in TaskIds : AddTask(t)
  BY <1>2, AddTaskImplements
<1>3. ASSUME UNCHANGED tables PROVE UNCHANGED book
  BY <1>3, LedgerUntouched DEF tables
<1>4. CASE \E w \in WorkerIds : RequestTask(w)
  <2>1. UNCHANGED tables
    BY <1>4, RequestTaskIdle DEF OInv, vars
  <2> QED  BY <2>1, <1>3
<1>5. CASE \E w \in WorkerIds, t \in TaskIds : OwnReport(w, t)
  <2>1. PICK w \in DOMAIN workers, t \in TaskIds, status \in TaskStatus :
           /\ t \in workers[w].tasks
           /\ ReportProgress(w, t, status) \/ ReportEnd(w, t, status)
    BY <1>5, SchedulerAssumptions DEF OwnReport
  <2>2. CASE ReportProgress(w, t, status)
    <3>1. /\ workers' = workers /\ pendingTasks' = pendingTasks /\ t \in DOMAIN tasks
          /\ tasks' = [tasks EXCEPT ![t].status = status]
      BY <2>2 DEF ReportProgress
    <3>2. /\ DOMAIN tasks' = DOMAIN tasks
          /\ \A u \in DOMAIN tasks : /\ tasks'[u].workerID = tasks[u].workerID
                                     /\ tasks'[u].assignedGPUs = tasks[u].assignedGPUs
      BY <3>1 DEF OInv, IInv, TypeOK, TaskRecord
    <3> QED  BY <3>1, <3>2, LedgerUntouched
  <2>3. CASE ReportEnd(w, t, status)
    BY <2>1, <2>3, ReportEndImplements
  <2> QED  BY <2>1, <2>2, <2>3
<1>6. CASE Pass
  <2>1. CASE AssignSkip \/ AssignDone
    <3>1. UNCHANGED tables
      BY <2>1 DEF AssignSkip, AssignDone
    <3> QED  BY <3>1, <1>3
  <2>2. CASE \E w \in WorkerIds : AssignTo(w)
    BY <2>2, AssignToImplements
  <2> QED  BY <1>6, <2>1, <2>2 DEF Pass
<1>7. CASE UNCHANGED vars
  BY <1>3, <1>7 DEF vars
<1> QED  BY <1>1, <1>2, <1>4, <1>5, <1>6, <1>7 DEF OwnerNext

\* With workers that report on the tasks they hold, the scheduler implements the
\* ledger, for either policy and any number of workers, GPUs and tasks: a GPU is
\* granted to one task at a time, to one that waits, and only if large enough;
\* a grant is fixed until the task ends, and an ended task never runs again.
THEOREM SchedulerKeepsLedger == OwnerSpec => KeepsLedger
<1>1. OwnerSpec => []OInv
  BY InitOInv, OwnerNextOInv, PTL DEF OwnerSpec
<1>2. OInv /\ [OwnerNext]_vars => [Ledger!Next]_(Ledger!ledger)
  BY StepImplements DEF Ledger!ledger, book
<1>3. KeepsLedger <=> Ledger!Init /\ [][Ledger!Next]_(Ledger!ledger)
  BY DEF KeepsLedger, Ledger!Spec
<1> QED  BY <1>1, <1>2, <1>3, InitImplements, PTL DEF OwnerSpec
=============================================================================
