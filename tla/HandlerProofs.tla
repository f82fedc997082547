---------------------------- MODULE HandlerProofs ----------------------------
(***************************************************************************)
(* More proofs about the handlers of Scheduler.                            *)
(*                                                                         *)
(* Part 1: what a policy answers with is what the task asked for, and      *)
(*         stays so while the task is held; generated ids never collide    *)
(*         where all ids are generated.                                    *)
(* Part 2: TInv, what the handlers keep of the tables also after a load,   *)
(*         where RequestTask may assign and the invariants of              *)
(*         SchedulerProofs do not hold any more.                           *)
(***************************************************************************)
EXTENDS SchedulerProofs

\* The GPUs of a list that carry one of the ids.
Given(gpus, ids) == {i \in DOMAIN gpus : gpus[i].id \in ids}

\* They are as many as the demand says, and each is large enough.
Meets(gpus, ids, d) ==
    /\ Cardinality(Given(gpus, ids)) = d.requiredGPUs
    /\ Cardinality(ids) = d.requiredGPUs
    /\ \A i \in Given(gpus, ids) : gpus[i].memoryMB >= d.minGPUMemory

\* AssignTask slices availableGPUs[:RequiredGPUs] of a suitable worker: the ids
\* it answers with are exactly as many GPUs of that worker, each large enough.
LEMMA ChosenMeets ==
    ASSUME NEW w \in WorkerRecord, NEW d \in TaskDemand, DistinctIds(w.gpus),
           Cardinality(FittingGPUs(w.gpus, d)) >= d.requiredGPUs
    PROVE  Meets(w.gpus, ChosenGPUs(w, d), d)
<1> DEFINE gpus == w.gpus
           F == FittingGPUs(gpus, d)
           C == FirstFitting(gpus, d)
           ids == ChosenGPUs(w, d)
<1>1. gpus \in Seq(GPU) /\ DOMAIN gpus = 1..Len(gpus) /\ Len(gpus) \in Nat
  BY DEF WorkerRecord
<1>2. d.requiredGPUs \in Nat /\ d.minGPUMemory \in Nat
  BY DEF TaskDemand
<1>3. F \in SUBSET Nat /\ F \in SUBSET DOMAIN gpus /\ IsFiniteSet(F) /\ Cardinality(F) \in Nat
  <2>1. IsFiniteSet(F) /\ Cardinality(F) \in Nat
    BY <1>1, FittingFinite
  <2>2. F \in SUBSET DOMAIN gpus
    BY DEF FittingGPUs
  <2>3. F \in SUBSET Nat
    BY <2>2, <1>1
  <2> QED  BY <2>1, <2>2, <2>3
<1>4. C \in SUBSET F /\ IsFiniteSet(C)
  BY <1>3, FS_Subset DEF FirstFitting
<1>5. Cardinality(C) = d.requiredGPUs
  <2>1. C = {i \in F : Cardinality({j \in F : j < i}) < d.requiredGPUs}
    BY DEF FirstFitting
  <2> HIDE DEF C, F
  <2> QED  BY <2>1, <1>2, <1>3, FirstOfSet DEF F
<1>6. ids = {gpus[i].id : i \in C}
  BY DEF ChosenGPUs
<1>7. \A i \in DOMAIN gpus : gpus[i].id \in ids <=> i \in C
  <2> SUFFICES ASSUME NEW i \in DOMAIN gpus, gpus[i].id \in ids PROVE i \in C
    BY <1>6
  <2>1. PICK j \in C : gpus[j].id = gpus[i].id
    BY <1>6
  <2>2. j = i
    BY <2>1, <1>3, <1>4 DEF DistinctIds
  <2> QED  BY <2>1, <2>2
<1>8. Given(gpus, ids) = C
  BY <1>3, <1>4, <1>7 DEF Given
<1>9. Cardinality(ids) = Cardinality(C)
  <2> DEFINE f == [i \in C |-> gpus[i].id]
  <2>1. ids = {f[i] : i \in C} /\ DOMAIN f = C
    BY <1>6
  <2>2. \A i, j \in C : f[i] = f[j] => i = j
    BY <1>3, <1>4 DEF DistinctIds
  <2> HIDE DEF f, C, ids
  <2> QED  BY <2>1, <2>2, <1>4, ImageCount
<1>10. \A i \in C : gpus[i].memoryMB >= d.minGPUMemory
  <2>1. \A i \in F : gpus[i].memoryMB >= d.minGPUMemory
    BY DEF FittingGPUs
  <2> QED  BY <2>1, <1>4
<1>11. Meets(gpus, ids, d)
  <2> HIDE DEF C, ids
  <2> QED  BY <1>5, <1>8, <1>9, <1>10 DEF Meets
<1> QED  BY <1>11

\* Booking and releasing change neither.
LEMMA MeetsMarked ==
    ASSUME NEW gpus \in Seq(GPU), NEW ids, NEW d, Meets(gpus, ids, d),
           NEW marked, NEW b \in BOOLEAN
    PROVE  Meets(MarkGPUs(gpus, marked, b), ids, d)
<1>1. /\ DOMAIN MarkGPUs(gpus, marked, b) = DOMAIN gpus
      /\ \A i \in DOMAIN gpus : /\ MarkGPUs(gpus, marked, b)[i].id = gpus[i].id
                                /\ MarkGPUs(gpus, marked, b)[i].memoryMB = gpus[i].memoryMB
  BY MarkGPUsProps
<1>2. Given(MarkGPUs(gpus, marked, b), ids) = Given(gpus, ids)
  BY <1>1 DEF Given
<1>3. \A i \in Given(gpus, ids) : i \in DOMAIN gpus
  BY DEF Given
<1> QED  BY <1>1, <1>2, <1>3 DEF Meets

\* Marking leaves the ids distinct.
LEMMA DistinctMarked ==
    ASSUME NEW gpus \in Seq(GPU), DistinctIds(gpus), NEW marked, NEW b \in BOOLEAN
    PROVE  DistinctIds(MarkGPUs(gpus, marked, b))
  BY MarkGPUsProps DEF DistinctIds

\* No worker has two GPUs of one id.
IdsDistinct == \A w \in DOMAIN workers : DistinctIds(workers[w].gpus)

\* The inductive invariant: a task's ids select GPUs of its worker by id, so
\* that they select as many as asked for only while ids are distinct.
DInv == IInv /\ IdsDistinct /\ AssignmentMeetsDemand

\* The property in terms of Meets.
LEMMA AssignmentMeets ==
    AssignmentMeetsDemand <=>
        \A w \in DOMAIN workers : \A t \in workers[w].tasks :
            Meets(workers[w].gpus, tasks[t].assignedGPUs, Demand[t])
  BY DEF AssignmentMeetsDemand, Meets, Given

\* A step that leaves the workers and the assigned GPUs alone.
LEMMA NothingGiven ==
    ASSUME DInv, UNCHANGED workers, DOMAIN tasks \subseteq DOMAIN tasks',
           \A u \in DOMAIN tasks : tasks'[u].assignedGPUs = tasks[u].assignedGPUs
    PROVE  IdsDistinct' /\ AssignmentMeetsDemand'
<1>1. \A w \in DOMAIN workers : workers[w].tasks \subseteq DOMAIN tasks
  BY DEF DInv, IInv, HeldByAssignee
<1>2. \A w \in DOMAIN workers : \A t \in workers[w].tasks :
          Meets(workers[w].gpus, tasks[t].assignedGPUs, Demand[t])
  BY AssignmentMeets DEF DInv
<1>3. \A w \in DOMAIN workers' : \A t \in workers'[w].tasks :
          Meets(workers'[w].gpus, tasks'[t].assignedGPUs, Demand[t])
  BY <1>1, <1>2
<1>4. AssignmentMeetsDemand'
  BY <1>3 DEF AssignmentMeetsDemand, Meets, Given
<1> QED  BY <1>4 DEF DInv, IdsDistinct

\* RegisterWorker preserves DInv.
LEMMA RegisterDInv ==
    ASSUME DInv, Register
    PROVE  IdsDistinct' /\ AssignmentMeetsDemand'
<1>0. PICK req \in ExplicitIds \cup {NoWorker}, gpus \in GPULists : RegisterWorker(req, gpus)
  BY DEF Register
<1> DEFINE id == IF req = NoWorker THEN GeneratedId ELSE req
<1>1. /\ id \notin DOMAIN workers
      /\ workers' = Put(workers, id, [gpus |-> gpus, status |-> "IDLE", tasks |-> {}])
      /\ UNCHANGED tasks
  BY <1>0 DEF RegisterWorker
<1> HIDE DEF id
<1>2. DistinctIds(gpus)
  BY GPUListsAssumption
<1>3. /\ DOMAIN workers' = DOMAIN workers \cup {id}
      /\ workers'[id].gpus = gpus /\ workers'[id].tasks = {}
      /\ \A w \in DOMAIN workers : workers'[w] = workers[w]
  BY <1>1 DEF Put
<1>4. IdsDistinct'
  BY <1>2, <1>3 DEF DInv, IdsDistinct
<1>5. AssignmentMeetsDemand'
  <2> SUFFICES ASSUME NEW w \in DOMAIN workers', NEW t \in workers'[w].tasks
               PROVE  Meets(workers'[w].gpus, tasks'[t].assignedGPUs, Demand[t])
    BY DEF AssignmentMeetsDemand, Meets, Given
  <2>1. w \in DOMAIN workers /\ workers'[w] = workers[w] /\ tasks' = tasks
    BY <1>1, <1>3
  <2> QED  BY <2>1, AssignmentMeets DEF DInv
<1> QED  BY <1>4, <1>5

\* Booking a task in assignPendingTasks preserves DInv.
LEMMA AssignToDInv ==
    ASSUME DInv, NEW w \in WorkerIds, AssignTo(w)
    PROVE  IdsDistinct' /\ AssignmentMeetsDemand'
<1> DEFINE t == pendingTasks[scan]
           old == workers[w]
           ids == ChosenGPUs(old, Demand[t])
<1> USE SchedulerAssumptions
<1>1. /\ w \in DOMAIN workers
      /\ Cardinality(FittingGPUs(old.gpus, Demand[t])) >= Demand[t].requiredGPUs
      /\ tasks' = [tasks EXCEPT ![t] = Assigned(@, w, ids)]
      /\ workers' = [workers EXCEPT ![w] = TakeTask(@, t, ids)]
  BY DEF AssignTo, FirstChoices, Candidates
<1>2. /\ t \in DOMAIN tasks /\ tasks[t] \in TaskRecord /\ tasks[t].workerID = NoWorker
      /\ Demand[t] \in TaskDemand
  <2>1. scan \in DOMAIN pendingTasks /\ t \in DOMAIN tasks
    BY DEF AssignTo, DInv, IInv, TypeOK
  <2> QED  BY <2>1 DEF DInv, IInv, TypeOK, PendingExactlyUnassigned
<1>3. old \in WorkerRecord /\ old.gpus \in Seq(GPU) /\ DistinctIds(old.gpus)
  BY <1>1 DEF DInv, IInv, TypeOK, WorkerRecord, IdsDistinct
<1>4. /\ DOMAIN workers' = DOMAIN workers
      /\ workers'[w].gpus = MarkGPUs(old.gpus, ids, FALSE)
      /\ workers'[w].tasks = old.tasks \cup {t}
      /\ \A v \in DOMAIN workers \ {w} : workers'[v] = workers[v]
  BY <1>1, <1>3 DEF TakeTask, WorkerRecord
<1>5. /\ tasks'[t].assignedGPUs = ids
      /\ \A u \in DOMAIN tasks \ {t} : tasks'[u] = tasks[u]
  BY <1>1, <1>2 DEF Assigned, TaskRecord
<1>6. \A v \in DOMAIN workers : \A u \in workers[v].tasks : u \in DOMAIN tasks \ {t}
  BY <1>2 DEF DInv, IInv, TypeOK, HeldByAssignee
<1>7. Meets(old.gpus, ids, Demand[t])
  BY <1>1, <1>2, <1>3, ChosenMeets
<1>8. \A v \in DOMAIN workers : \A u \in workers[v].tasks :
          Meets(workers[v].gpus, tasks[u].assignedGPUs, Demand[u])
  BY AssignmentMeets DEF DInv
<1> HIDE DEF t, ids
<1>9. IdsDistinct'
  <2>1. DistinctIds(workers'[w].gpus)
    BY <1>3, <1>4, DistinctMarked
  <2> QED  BY <2>1, <1>4 DEF DInv, IdsDistinct
<1>10. AssignmentMeetsDemand'
  <2> SUFFICES ASSUME NEW v \in DOMAIN workers', NEW u \in workers'[v].tasks
               PROVE  Meets(workers'[v].gpus, tasks'[u].assignedGPUs, Demand[u])
    BY DEF AssignmentMeetsDemand, Meets, Given
  <2>1. CASE v # w
    BY <2>1, <1>4, <1>5, <1>6, <1>8
  <2>2. CASE v = w /\ u = t
    <3>1. Meets(MarkGPUs(old.gpus, ids, FALSE), ids, Demand[t])
      BY <1>3, <1>7, MeetsMarked
    <3> QED  BY <3>1, <2>2, <1>4, <1>5
  <2>3. CASE v = w /\ u # t
    <3>1. u \in old.tasks /\ tasks'[u] = tasks[u]
      BY <2>3, <1>1, <1>4, <1>5, <1>6
    <3>2. Meets(old.gpus, tasks[u].assignedGPUs, Demand[u])
      BY <3>1, <1>1, <1>8
    <3>3. Meets(MarkGPUs(old.gpus, ids, FALSE), tasks[u].assignedGPUs, Demand[u])
      BY <3>2, <1>3, MeetsMarked
    <3> QED  BY <3>1, <3>3, <2>3, <1>4
  <2> QED  BY <2>1, <2>2, <2>3
<1> QED  BY <1>9, <1>10

\* Releasing a task in ReportTaskStatus preserves DInv, whoever reports.
LEMMA ReportEndDInv ==
    ASSUME DInv, NEW w \in DOMAIN workers, NEW t \in TaskIds, NEW status \in TaskStatus,
           ReportEnd(w, t, status)
    PROVE  IdsDistinct' /\ AssignmentMeetsDemand'
<1> DEFINE ids == tasks[t].assignedGPUs
           old == workers[w]
<1>1. /\ t \in DOMAIN tasks
      /\ tasks' = [tasks EXCEPT ![t].status = status]
      /\ \/ workers' = [workers EXCEPT ![w] = DropTask(@, t, ids)]
         \/ UNCHANGED workers
  BY DEF ReportEnd
<1>2. DOMAIN tasks' = DOMAIN tasks
      /\ \A u \in DOMAIN tasks : tasks'[u].assignedGPUs = tasks[u].assignedGPUs
  BY <1>1 DEF DInv, IInv, TypeOK, TaskRecord
<1>3. CASE UNCHANGED workers
  BY <1>2, <1>3, NothingGiven
<1>4. CASE workers' = [workers EXCEPT ![w] = DropTask(@, t, ids)]
  <2>1. old.gpus \in Seq(GPU) /\ DistinctIds(old.gpus)
    BY DEF DInv, IInv, TypeOK, WorkerRecord, IdsDistinct
  <2>2. /\ DOMAIN workers' = DOMAIN workers
        /\ workers'[w].gpus = MarkGPUs(old.gpus, ids, TRUE)
        /\ workers'[w].tasks = old.tasks \ {t}
        /\ \A v \in DOMAIN workers \ {w} : workers'[v] = workers[v]
    BY <1>4 DEF DropTask
  <2>3. \A v \in DOMAIN workers : \A u \in workers[v].tasks : u \in DOMAIN tasks
    BY DEF DInv, IInv, HeldByAssignee
  <2>4. \A v \in DOMAIN workers : \A u \in workers[v].tasks :
            Meets(workers[v].gpus, tasks[u].assignedGPUs, Demand[u])
    BY AssignmentMeets DEF DInv
  <2> HIDE DEF ids
  <2>5. IdsDistinct'
    <3>1. DistinctIds(workers'[w].gpus)
      BY <2>1, <2>2, DistinctMarked
    <3> QED  BY <3>1, <2>2 DEF DInv, IdsDistinct
  <2>6. AssignmentMeetsDemand'
    <3> SUFFICES ASSUME NEW v \in DOMAIN workers', NEW u \in workers'[v].tasks
                 PROVE  Meets(workers'[v].gpus, tasks'[u].assignedGPUs, Demand[u])
      BY DEF AssignmentMeetsDemand, Meets, Given
    <3>1. /\ v \in DOMAIN workers /\ u \in workers[v].tasks
          /\ tasks'[u].assignedGPUs = tasks[u].assignedGPUs
      BY <2>2, <2>3, <1>2
    <3>2. Meets(workers[v].gpus, tasks[u].assignedGPUs, Demand[u])
      BY <3>1, <2>4
    <3>3. CASE v # w
      BY <3>1, <3>2, <3>3, <2>2
    <3>4. CASE v = w
      <4>1. Meets(MarkGPUs(old.gpus, ids, TRUE), tasks[u].assignedGPUs, Demand[u])
        BY <3>2, <3>4, <2>1, MeetsMarked
      <4> QED  BY <4>1, <3>1, <3>4, <2>2
    <3> QED  BY <3>3, <3>4
  <2> QED  BY <2>5, <2>6
<1> QED  BY <1>1, <1>3, <1>4

\* Every step preserves DInv.
LEMMA NextDInv == DInv /\ [Next]_vars => DInv'
<1> SUFFICES ASSUME DInv, [Next]_vars PROVE DInv'
  OBVIOUS
<1>1. IInv'
  BY NextIInv DEF DInv
<1>2. IdsDistinct' /\ AssignmentMeetsDemand'
  <2>1. CASE Register
    BY <2>1, RegisterDInv
  <2>2. CASE \E t \in TaskIds : AddTask(t)
    <3>1. UNCHANGED workers /\ DOMAIN tasks \subseteq DOMAIN tasks'
          /\ \A u \in DOMAIN tasks : tasks'[u] = tasks[u]
      BY <2>2 DEF AddTask, Put
    <3> QED  BY <3>1, NothingGiven
  <2>3. CASE \E w \in WorkerIds : RequestTask(w)
    <3>1. UNCHANGED <<workers, tasks>>
      BY <2>3, RequestTaskIdle DEF DInv, vars, tables
    <3> QED  BY <3>1, NothingGiven
  <2>4. CASE Report
    <3>1. PICK w \in WorkerIds, t \in TaskIds, status \in TaskStatus :
             ReportProgress(w, t, status) \/ ReportEnd(w, t, status)
      BY <2>4, SchedulerAssumptions DEF Report
    <3>2. CASE ReportProgress(w, t, status)
      <4>1. UNCHANGED workers /\ t \in DOMAIN tasks
            /\ tasks' = [tasks EXCEPT ![t].status = status]
        BY <3>2 DEF ReportProgress
      <4>2. DOMAIN tasks' = DOMAIN tasks
            /\ \A u \in DOMAIN tasks : tasks'[u].assignedGPUs = tasks[u].assignedGPUs
        BY <4>1 DEF DInv, IInv, TypeOK, TaskRecord
      <4> QED  BY <4>1, <4>2, NothingGiven
    <3>3. CASE ReportEnd(w, t, status)
      <4>1. w \in DOMAIN workers
        BY <3>3 DEF ReportEnd
      <4> QED  BY <4>1, <3>3, ReportEndDInv
    <3> QED  BY <3>1, <3>2, <3>3
  <2>5. CASE Pass
    <3>1. CASE AssignSkip \/ AssignDone
      <4>1. UNCHANGED <<workers, tasks>>
        BY <3>1 DEF AssignSkip, AssignDone, tables
      <4> QED  BY <4>1, NothingGiven
    <3>2. CASE \E w \in WorkerIds : AssignTo(w)
      BY <3>2, AssignToDInv
    <3> QED  BY <2>5, <3>1, <3>2 DEF Pass
  <2>6. CASE UNCHANGED vars
    <3>1. UNCHANGED <<workers, tasks>>
      BY <2>6 DEF vars, tables
    <3> QED  BY <3>1, NothingGiven
  <2> QED  BY <2>1, <2>2, <2>3, <2>4, <2>5, <2>6 DEF Next
<1> QED  BY <1>1, <1>2 DEF DInv

\* NewScheduler establishes DInv.
LEMMA InitDInv == Init => DInv
<1> SUFFICES ASSUME Init PROVE DInv
  OBVIOUS
<1>1. DOMAIN workers = {}
  BY DEF Init
<1> QED  BY <1>1, InitIInv DEF DInv, IdsDistinct, AssignmentMeetsDemand

\* A task that a worker holds was given as many GPUs of that worker as it asked
\* for, each with the memory it asked for: the slice of AssignTask is neither
\* too long nor too short, and neither booking nor releasing by anybody changes
\* what the ids in AssignedGPUs stand for.
THEOREM HeldTasksGetTheirGPUs == Spec => []AssignmentMeetsDemand
<1>1. DInv => AssignmentMeetsDemand
  BY DEF DInv
<1> QED  BY <1>1, InitDInv, NextDInv, PTL DEF Spec

-----------------------------------------------------------------------------

\* Only RegisterWorker enters workers, and nothing removes one.
LEMMA OnlyRegisterAdds ==
    ASSUME IInv, [Next]_vars, ~Register
    PROVE  DOMAIN workers' = DOMAIN workers
<1>1. CASE \E t \in TaskIds : AddTask(t)
  BY <1>1 DEF AddTask
<1>2. CASE \E w \in WorkerIds : RequestTask(w)
  BY <1>2, RequestTaskIdle DEF vars, tables
<1>3. CASE Report
  BY <1>3 DEF Report, ReportProgress, ReportEnd
<1>4. CASE Pass
  BY <1>4 DEF Pass, AssignSkip, AssignDone, AssignTo, tables
<1>5. CASE UNCHANGED vars
  BY <1>5 DEF vars, tables
<1> QED  BY <1>1, <1>2, <1>3, <1>4, <1>5 DEF Next

\* The ids in use are the first ones that RegisterWorker generates.
FirstAutoIds ==
    LET n == Cardinality(DOMAIN workers)
    IN  n \in 0..MaxWorkers /\ DOMAIN workers = {AutoId[k] : k \in 1..n}

\* fmt.Sprintf("worker-%d", len(s.workers)+1) is a new id as long as every
\* worker leaves it to the scheduler to choose one: RegisterWorker refuses none
\* of them.
THEOREM AnonymousNeverRefused ==
    ASSUME ExplicitIds = {}, \A m, n \in 1..MaxWorkers : AutoId[m] = AutoId[n] => m = n
    PROVE  Spec => []AnonymousAccepted
<1> USE SchedulerAssumptions
<1>1. Init => FirstAutoIds
  <2> SUFFICES ASSUME Init PROVE FirstAutoIds
    OBVIOUS
  <2>1. DOMAIN workers = {} /\ Cardinality({}) = 0
    BY FS_EmptySet DEF Init
  <2> QED  BY <2>1 DEF FirstAutoIds
<1>2. IInv /\ FirstAutoIds /\ [Next]_vars => FirstAutoIds'
  <2> SUFFICES ASSUME IInv, FirstAutoIds, [Next]_vars PROVE FirstAutoIds'
    OBVIOUS
  <2> DEFINE n == Cardinality(DOMAIN workers)
  <2>1. CASE ~Register
    BY <2>1, OnlyRegisterAdds DEF FirstAutoIds
  <2>2. CASE Register
    <3>1. PICK gpus \in GPULists : RegisterWorker(NoWorker, gpus)
      BY <2>2 DEF Register
    <3>2. /\ n < MaxWorkers
          /\ AutoId[n + 1] \notin DOMAIN workers
          /\ DOMAIN workers' = DOMAIN workers \cup {AutoId[n + 1]}
      BY <3>1 DEF RegisterWorker, GeneratedId, Put
    <3>3. n \in 0..MaxWorkers /\ n \in Nat /\ DOMAIN workers = {AutoId[k] : k \in 1..n}
      BY DEF FirstAutoIds
    <3>4. Cardinality(DOMAIN workers') = n + 1
      BY <3>2, FS_AddElement DEF IInv, TypeOK
    <3> HIDE DEF n
    <3>5. n + 1 \in 0..MaxWorkers /\ 1..(n + 1) = 1..n \cup {n + 1}
      BY <3>2, <3>3
    <3>6. DOMAIN workers' = {AutoId[k] : k \in 1..(n + 1)}
      BY <3>2, <3>3, <3>5
    <3> QED  BY <3>4, <3>5, <3>6 DEF FirstAutoIds
  <2> QED  BY <2>1, <2>2
<1>3. FirstAutoIds => AnonymousAccepted
  BY DEF FirstAutoIds, AnonymousAccepted, GeneratedId
<1> QED  BY <1>1, <1>2, <1>3, Invariance, PTL DEF Spec

-----------------------------------------------------------------------------
(* Part 2.                                                                 *)

\* The tables refer to workers that are in the table.
KnownWorkers == \A t \in DOMAIN tasks : tasks[t].workerID \in DOMAIN workers \cup {NoWorker}

\* A pass leaves its index where the next one begins.
ScanReset == mu \in {"free", "save"} => scan = 1

TInv ==
    /\ TypeOK
    /\ IdsDistinct
    /\ ScanReset
    /\ KnownWorkers
    /\ NestedRLockGranted => mu # "stuck"
    /\ mu # "stuck" => QueuedNotAssigned

\* TInv and its parts are about these variables alone.
LEMMA TInvUnchanged ==
    ASSUME TInv, UNCHANGED vars
    PROVE  TInv'
  BY DEF TInv, vars, tables, lock, TypeOK, IdsDistinct, ScanReset, KnownWorkers, QueuedNotAssigned

\* Giving the queued task at i to worker w and booking it on worker v, as
\* RequestTask does with two workers and assignPendingTasks with one.
LEMMA Booking ==
    ASSUME TypeOK, NEW v \in DOMAIN workers, NEW w \in DOMAIN workers,
           NEW i \in DOMAIN pendingTasks, NEW ids \in SUBSET STRING,
           tasks' = [tasks EXCEPT ![pendingTasks[i]] = Assigned(@, w, ids)],
           workers' = [workers EXCEPT ![v] = TakeTask(@, pendingTasks[i], ids)],
           pendingTasks' = Dequeue(pendingTasks, i)
    PROVE  /\ DOMAIN workers' = DOMAIN workers
           /\ workers' \in [DOMAIN workers' -> WorkerRecord]
           /\ DOMAIN tasks' = DOMAIN tasks
           /\ tasks' \in [DOMAIN tasks' -> TaskRecord]
           /\ pendingTasks' \in Seq(DOMAIN tasks')
           /\ Len(pendingTasks') = Len(pendingTasks) - 1
           /\ IdsDistinct => IdsDistinct'
           /\ KnownWorkers => KnownWorkers'
           /\ QueuedNotAssigned => QueuedNotAssigned'
<1> DEFINE t == pendingTasks[i]
           n == Len(pendingTasks)
<1>1. /\ pendingTasks \in Seq(DOMAIN tasks) /\ n \in Nat /\ DOMAIN pendingTasks = 1..n
      /\ i \in 1..n /\ t \in DOMAIN tasks /\ t \in TaskIds
      /\ tasks[t] \in TaskRecord /\ workers[v] \in WorkerRecord /\ w \in WorkerIds
  BY DEF TypeOK
<1>2. /\ Assigned(tasks[t], w, ids) \in TaskRecord
      /\ Assigned(tasks[t], w, ids).workerID = w
  BY <1>1 DEF Assigned, TaskRecord, TaskStatus
<1>3. TakeTask(workers[v], t, ids) \in WorkerRecord
  BY <1>1, TakeTaskType
<1>4. TakeTask(workers[v], t, ids).gpus = MarkGPUs(workers[v].gpus, ids, FALSE)
  BY <1>1 DEF TakeTask, WorkerRecord
<1>5. /\ DOMAIN workers' = DOMAIN workers
      /\ workers'[v] = TakeTask(workers[v], t, ids)
      /\ \A u \in DOMAIN workers \ {v} : workers'[u] = workers[u]
  OBVIOUS
<1>6. /\ DOMAIN tasks' = DOMAIN tasks
      /\ tasks'[t] = Assigned(tasks[t], w, ids)
      /\ \A u \in DOMAIN tasks \ {t} : tasks'[u] = tasks[u]
  BY <1>1
<1>7. workers' \in [DOMAIN workers' -> WorkerRecord]
  BY <1>3 DEF TypeOK
<1>8. tasks' \in [DOMAIN tasks' -> TaskRecord]
  BY <1>2 DEF TypeOK
<1>9. /\ pendingTasks' \in Seq(DOMAIN tasks)
      /\ Len(pendingTasks') = n - 1
      /\ \A j \in 1..(n - 1) : pendingTasks'[j] = IF j < i THEN pendingTasks[j] ELSE pendingTasks[j + 1]
  BY <1>1, RemoveAtProps DEF Dequeue
<1>10. IdsDistinct => IdsDistinct'
  <2> SUFFICES ASSUME IdsDistinct, NEW u \in DOMAIN workers PROVE DistinctIds(workers'[u].gpus)
    BY <1>5 DEF IdsDistinct
  <2>1. CASE u = v
    <3>1. workers[v].gpus \in Seq(GPU) /\ DistinctIds(workers[v].gpus)
      BY <1>1 DEF IdsDistinct, WorkerRecord
    <3>2. DistinctIds(MarkGPUs(workers[v].gpus, ids, FALSE))
      BY <3>1, DistinctMarked
    <3> QED  BY <3>2, <2>1, <1>4, <1>5
  <2>2. CASE u # v
    BY <2>2, <1>5 DEF IdsDistinct
  <2> QED  BY <2>1, <2>2
<1> HIDE DEF t, n
<1>11. KnownWorkers => KnownWorkers'
  <2> SUFFICES ASSUME KnownWorkers, NEW u \in DOMAIN tasks
               PROVE  tasks'[u].workerID \in DOMAIN workers \cup {NoWorker}
    BY <1>5, <1>6 DEF KnownWorkers
  <2> QED  BY <1>2, <1>6 DEF KnownWorkers
<1>12. QueuedNotAssigned => QueuedNotAssigned'
  <2> SUFFICES ASSUME QueuedNotAssigned PROVE QueuedNotAssigned'
    OBVIOUS
  <2> DEFINE old(j) == IF j < i THEN j ELSE j + 1
  <2>1. DOMAIN pendingTasks' = 1..(n - 1)
    BY <1>1, <1>9
  <2>2. \A j \in 1..(n - 1) : old(j) \in 1..n /\ old(j) # i /\ pendingTasks'[j] = pendingTasks[old(j)]
    BY <1>1, <1>9
  <2>3. \A j, k \in 1..(n - 1) : old(j) = old(k) => j = k
    BY <1>1
  <2> HIDE DEF old
  <2>4. ASSUME NEW j \in 1..(n - 1), NEW k \in 1..(n - 1), pendingTasks'[j] = pendingTasks'[k]
        PROVE  j = k
    <3>1. old(j) = old(k)
      BY <2>2, <2>4, <1>1 DEF QueuedNotAssigned
    <3> QED  BY <3>1, <2>3
  <2>5. ASSUME NEW j \in 1..(n - 1) PROVE tasks'[pendingTasks'[j]].workerID = NoWorker
    <3>1. old(j) \in DOMAIN pendingTasks /\ old(j) # i /\ pendingTasks'[j] = pendingTasks[old(j)]
      BY <2>2, <1>1
    <3>2. pendingTasks[old(j)] # t
      BY <3>1, <1>1 DEF QueuedNotAssigned, t
    <3>3. pendingTasks[old(j)] \in DOMAIN tasks
      BY <3>1, <1>1
    <3> QED  BY <3>1, <3>2, <3>3, <1>6 DEF QueuedNotAssigned
  <2> QED  BY <2>1, <2>4, <2>5 DEF QueuedNotAssigned
<1> QED  BY <1>5, <1>6, <1>7, <1>8, <1>9, <1>10, <1>11, <1>12 DEF n

\* RegisterWorker preserves TInv.
LEMMA RegisterTInv ==
    ASSUME TInv, NEW req \in ExplicitIds \cup {NoWorker}, NEW gpus \in GPULists,
           RegisterWorker(req, gpus)
    PROVE  TInv'
<1> DEFINE n == Cardinality(DOMAIN workers)
           id == IF req = NoWorker THEN GeneratedId ELSE req
           new == [gpus |-> gpus, status |-> "IDLE", tasks |-> {}]
<1> USE SchedulerAssumptions
<1>1. /\ workers' = Put(workers, id, new)
      /\ UNCHANGED <<tasks, pendingTasks, workloadPolicy, persistenceManager>>
      /\ mu = "free" /\ mu' = (IF NestedRLockGranted THEN "assign" ELSE "stuck") /\ scan' = 1
      /\ saveTrigger' \in BOOLEAN
  BY DEF RegisterWorker, StartPass, UpdatePersistentState, TInv, TypeOK
<1>2. id \in WorkerIds
  <2>1. n \in Nat
    BY FS_CardinalityType DEF TInv, TypeOK
  <2>2. n < MaxWorkers
    BY DEF RegisterWorker
  <2> QED  BY <2>1, <2>2 DEF GeneratedId
<1>3. new \in WorkerRecord /\ new.gpus = gpus /\ DistinctIds(gpus)
  BY GPUListsAssumption DEF WorkerRecord, WorkerStatus
<1> HIDE DEF id, new
<1>4. /\ DOMAIN workers' = DOMAIN workers \cup {id}
      /\ workers'[id] = new
      /\ \A w \in DOMAIN workers \ {id} : workers'[w] = workers[w]
  BY <1>1 DEF Put
<1>5. TypeOK'
  <2>1. IsFiniteSet(DOMAIN workers')
    <3>1. IsFiniteSet(DOMAIN workers)
      BY DEF TInv, TypeOK
    <3>2. IsFiniteSet(DOMAIN workers \cup {id})
      BY <3>1, FS_AddElement
    <3> QED  BY <3>2, <1>4
  <2>2. workers' \in [DOMAIN workers' -> WorkerRecord]
    BY <1>1, <1>3 DEF Put, TInv, TypeOK
  <2>3. scan' \in 1..(Len(pendingTasks') + 1)
    BY <1>1 DEF TInv, TypeOK
  <2> QED  BY <1>1, <1>2, <1>4, <2>1, <2>2, <2>3 DEF TInv, TypeOK
<1>6. IdsDistinct'
  BY <1>3, <1>4 DEF TInv, IdsDistinct
<1>7. ScanReset'
  BY <1>1 DEF ScanReset
<1>8. KnownWorkers'
  BY <1>1, <1>4 DEF TInv, KnownWorkers
<1>9. QueuedNotAssigned => QueuedNotAssigned'
  BY <1>1 DEF QueuedNotAssigned
<1> QED  BY <1>1, <1>5, <1>6, <1>7, <1>8, <1>9 DEF TInv

\* AddTask preserves TInv.
LEMMA AddTaskTInv ==
    ASSUME TInv, NEW t \in TaskIds, AddTask(t)
    PROVE  TInv'
<1> DEFINE new == [status |-> "PENDING", workerID |-> NoWorker, assignedGPUs |-> {}]
           n == Len(pendingTasks)
<1> USE SchedulerAssumptions
<1>1. /\ t \notin DOMAIN tasks
      /\ tasks' = Put(tasks, t, new)
      /\ pendingTasks' = Append(pendingTasks, t)
      /\ UNCHANGED <<workers, workloadPolicy, persistenceManager>>
      /\ mu = "free" /\ mu' = (IF NestedRLockGranted THEN "assign" ELSE "stuck") /\ scan' = 1
      /\ saveTrigger' \in BOOLEAN
  BY DEF AddTask, StartPass, UpdatePersistentState, TInv, TypeOK
<1>2. new \in TaskRecord /\ new.workerID = NoWorker
  BY DEF TaskRecord, TaskStatus
<1> HIDE DEF new
<1>3. /\ DOMAIN tasks' = DOMAIN tasks \cup {t}
      /\ tasks'[t] = new
      /\ \A u \in DOMAIN tasks : tasks'[u] = tasks[u]
  BY <1>1 DEF Put
<1>4. pendingTasks \in Seq(DOMAIN tasks') /\ t \in DOMAIN tasks' /\ pendingTasks \in Seq(DOMAIN tasks)
  BY <1>3, SeqMonotonic DEF TInv, TypeOK
<1>5. /\ pendingTasks' \in Seq(DOMAIN tasks')
      /\ n \in Nat
      /\ DOMAIN pendingTasks = 1..n
      /\ DOMAIN pendingTasks' = 1..(n + 1)
      /\ Len(pendingTasks') = n + 1
      /\ \A i \in 1..n : pendingTasks'[i] = pendingTasks[i] /\ pendingTasks[i] \in DOMAIN tasks
      /\ pendingTasks'[n + 1] = t
  BY <1>1, <1>4
<1>6. TypeOK'
  <2>1. tasks' \in [DOMAIN tasks' -> TaskRecord]
    BY <1>1, <1>2 DEF Put, TInv, TypeOK
  <2>2. scan' \in 1..(Len(pendingTasks') + 1)
    BY <1>1, <1>5
  <2> QED  BY <1>1, <1>3, <1>5, <2>1, <2>2 DEF TInv, TypeOK
<1> HIDE DEF n
<1>7. IdsDistinct' /\ ScanReset'
  BY <1>1 DEF TInv, IdsDistinct, ScanReset
<1>8. KnownWorkers'
  BY <1>1, <1>2, <1>3 DEF TInv, KnownWorkers
<1>9. ASSUME QueuedNotAssigned PROVE QueuedNotAssigned'
  <2>1. ASSUME NEW i \in 1..(n + 1), NEW j \in 1..(n + 1), pendingTasks'[i] = pendingTasks'[j]
        PROVE  i = j
    <3>1. \A k \in 1..(n + 1) : k \in 1..n \/ k = n + 1
      BY <1>5
    <3>2. CASE i \in 1..n /\ j \in 1..n
      BY <3>2, <2>1, <1>5, <1>9 DEF QueuedNotAssigned
    <3>3. CASE i \notin 1..n \/ j \notin 1..n
      BY <3>1, <3>3, <2>1, <1>1, <1>5
    <3> QED  BY <3>2, <3>3
  <2>2. ASSUME NEW i \in 1..(n + 1) PROVE tasks'[pendingTasks'[i]].workerID = NoWorker
    <3>1. CASE i \in 1..n
      BY <3>1, <1>3, <1>5, <1>9 DEF QueuedNotAssigned
    <3>2. CASE i = n + 1
      BY <3>2, <1>2, <1>3, <1>5
    <3> QED  BY <3>1, <3>2, <1>5
  <2> QED  BY <2>1, <2>2, <1>5 DEF QueuedNotAssigned
<1> QED  BY <1>1, <1>6, <1>7, <1>8, <1>9 DEF TInv

\* RequestTask preserves TInv, whether it assigns or not.
LEMMA RequestTaskTInv ==
    ASSUME TInv, NEW req \in WorkerIds, RequestTask(req)
    PROVE  TInv'
<1> USE SchedulerAssumptions
<1>1. CASE UNCHANGED vars
  BY <1>1, TInvUnchanged
<1>2. ASSUME NEW i \in DOMAIN pendingTasks, AssignOnRequest(req, i) PROVE TInv'
  <2> DEFINE t == pendingTasks[i]
  <2>1. /\ mu = "free" /\ req \in DOMAIN workers
        /\ UNCHANGED <<workloadPolicy, persistenceManager, scan>>
    BY <1>2 DEF RequestTask, AssignOnRequest
  <2>2. PICK w \in FirstChoices(workloadPolicy, workers, Demand[t]) :
           LET ids == ChosenGPUs(workers[w], Demand[t]) IN
           /\ tasks' = [tasks EXCEPT ![t] = Assigned(@, w, ids)]
           /\ IF NestedRLockGranted
              THEN /\ workers' = [workers EXCEPT ![req] = TakeTask(@, t, ids)]
                   /\ pendingTasks' = Dequeue(pendingTasks, i)
                   /\ UNCHANGED mu
              ELSE /\ workers' = [workers EXCEPT ![req].status = "BUSY"]
                   /\ mu' = "stuck"
                   /\ UNCHANGED pendingTasks
    BY <1>2 DEF AssignOnRequest
  <2> DEFINE ids == ChosenGPUs(workers[w], Demand[t])
  <2>3. w \in DOMAIN workers /\ workers[w] \in WorkerRecord /\ workers[req] \in WorkerRecord
    BY <2>1, <2>2 DEF FirstChoices, Candidates, TInv, TypeOK
  <2>4. ids \in SUBSET STRING
    BY <2>3, ChosenGPUsType
  <2>5. saveTrigger' \in BOOLEAN
    BY <1>2 DEF AssignOnRequest, UpdatePersistentState, TInv, TypeOK
  <2>6. scan = 1
    BY <2>1 DEF TInv, ScanReset
  <2>7. CASE NestedRLockGranted
    <3>1. /\ tasks' = [tasks EXCEPT ![t] = Assigned(@, w, ids)]
          /\ workers' = [workers EXCEPT ![req] = TakeTask(@, t, ids)]
          /\ pendingTasks' = Dequeue(pendingTasks, i)
          /\ UNCHANGED mu
      BY <2>2, <2>7
    <3> HIDE DEF ids
    <3>2. /\ DOMAIN workers' = DOMAIN workers
          /\ workers' \in [DOMAIN workers' -> WorkerRecord]
          /\ DOMAIN tasks' = DOMAIN tasks
          /\ tasks' \in [DOMAIN tasks' -> TaskRecord]
          /\ pendingTasks' \in Seq(DOMAIN tasks')
          /\ Len(pendingTasks') = Len(pendingTasks) - 1
          /\ IdsDistinct => IdsDistinct'
          /\ KnownWorkers => KnownWorkers'
          /\ QueuedNotAssigned => QueuedNotAssigned'
      BY <3>1, <2>1, <2>3, <2>4, Booking DEF TInv
    <3>3. scan' \in 1..(Len(pendingTasks') + 1)
      BY <3>2, <2>1, <2>6
    <3>4. TypeOK'
      BY <3>1, <3>2, <3>3, <2>1, <2>5 DEF TInv, TypeOK
    <3>5. ScanReset'
      BY <3>1, <2>1 DEF TInv, ScanReset
    <3> QED  BY <3>1, <3>2, <3>4, <3>5, <2>1 DEF TInv
  <2>8. CASE ~NestedRLockGranted
    <3>1. /\ tasks' = [tasks EXCEPT ![t] = Assigned(@, w, ids)]
          /\ workers' = [workers EXCEPT ![req].status = "BUSY"]
          /\ mu' = "stuck"
          /\ UNCHANGED pendingTasks
      BY <2>2, <2>8
    <3> HIDE DEF ids
    <3>2. t \in DOMAIN tasks /\ tasks[t] \in TaskRecord
      BY DEF TInv, TypeOK
    <3>3. /\ Assigned(tasks[t], w, ids) \in TaskRecord
          /\ Assigned(tasks[t], w, ids).workerID = w
      BY <3>2, <2>3, <2>4 DEF Assigned, TaskRecord, TaskStatus, TInv, TypeOK
    <3>4. /\ DOMAIN tasks' = DOMAIN tasks
          /\ tasks' \in [DOMAIN tasks' -> TaskRecord]
          /\ tasks'[t].workerID = w
          /\ \A u \in DOMAIN tasks \ {t} : tasks'[u] = tasks[u]
      BY <3>1, <3>2, <3>3 DEF TInv, TypeOK
    <3>5. /\ DOMAIN workers' = DOMAIN workers
          /\ workers' \in [DOMAIN workers' -> WorkerRecord]
          /\ \A v \in DOMAIN workers : workers'[v].gpus = workers[v].gpus
      BY <3>1, <2>1 DEF WorkerRecord, WorkerStatus, TInv, TypeOK
    <3>6. TypeOK'
      BY <3>1, <3>4, <3>5, <2>1, <2>5 DEF TInv, TypeOK
    <3>7. IdsDistinct' /\ ScanReset'
      BY <3>1, <3>5 DEF TInv, IdsDistinct, ScanReset
    <3>8. KnownWorkers'
      BY <3>4, <3>5, <2>3 DEF TInv, KnownWorkers
    <3> QED  BY <3>1, <3>6, <3>7, <3>8, <2>8 DEF TInv
  <2> QED  BY <2>7, <2>8
<1> QED  BY <1>1, <1>2 DEF RequestTask

\* Reports preserve TInv, whoever makes them.
LEMMA ReportTInv ==
    ASSUME TInv, NEW w \in WorkerIds, NEW t \in TaskIds, NEW status \in TaskStatus,
           ReportProgress(w, t, status) \/ ReportEnd(w, t, status)
    PROVE  TInv'
<1> DEFINE ids == tasks[t].assignedGPUs
<1> USE SchedulerAssumptions
<1>1. /\ mu = "free" /\ w \in DOMAIN workers /\ t \in DOMAIN tasks
      /\ tasks' = [tasks EXCEPT ![t].status = status]
      /\ \/ workers' = [workers EXCEPT ![w] = DropTask(@, t, ids)]
         \/ UNCHANGED workers
      /\ mu' \in {"free", "assign", "stuck"}
      /\ NestedRLockGranted => mu' # "stuck"
      /\ scan' \in {1, scan}
      /\ saveTrigger' \in BOOLEAN
      /\ UNCHANGED <<pendingTasks, workloadPolicy, persistenceManager>>
  BY DEF ReportProgress, ReportEnd, StartPass, UpdatePersistentState, TInv, TypeOK
<1>2. scan' = 1
  BY <1>1 DEF TInv, ScanReset
<1>3. /\ DOMAIN tasks' = DOMAIN tasks
      /\ tasks' \in [DOMAIN tasks' -> TaskRecord]
      /\ \A u \in DOMAIN tasks : tasks'[u].workerID = tasks[u].workerID
  BY <1>1 DEF TInv, TypeOK, TaskRecord
<1>4. /\ DOMAIN workers' = DOMAIN workers
      /\ workers' \in [DOMAIN workers' -> WorkerRecord]
      /\ IdsDistinct'
  <2>1. workers[w] \in WorkerRecord /\ workers[w].gpus \in Seq(GPU) /\ DistinctIds(workers[w].gpus)
    BY <1>1 DEF TInv, TypeOK, IdsDistinct, WorkerRecord
  <2>2. CASE UNCHANGED workers
    BY <2>2 DEF TInv, TypeOK, IdsDistinct
  <2>3. CASE workers' = [workers EXCEPT ![w] = DropTask(@, t, ids)]
    <3> HIDE DEF ids
    <3>1. DropTask(workers[w], t, ids) \in WorkerRecord
      BY <2>1, DropTaskType
    <3>2. DropTask(workers[w], t, ids).gpus = MarkGPUs(workers[w].gpus, ids, TRUE)
      BY DEF DropTask
    <3>3. DistinctIds(MarkGPUs(workers[w].gpus, ids, TRUE))
      BY <2>1, DistinctMarked
    <3>4. /\ DOMAIN workers' = DOMAIN workers
          /\ workers' \in [DOMAIN workers' -> WorkerRecord]
          /\ workers'[w] = DropTask(workers[w], t, ids)
          /\ \A v \in DOMAIN workers \ {w} : workers'[v] = workers[v]
      BY <2>3, <3>1, <1>1 DEF TInv, TypeOK
    <3>5. IdsDistinct'
      BY <3>2, <3>3, <3>4 DEF TInv, IdsDistinct
    <3> QED  BY <3>4, <3>5
  <2> QED  BY <1>1, <2>2, <2>3
<1>5. TypeOK'
  BY <1>1, <1>2, <1>3, <1>4 DEF TInv, TypeOK
<1>6. ScanReset'
  BY <1>2 DEF ScanReset
<1>7. KnownWorkers'
  BY <1>3, <1>4 DEF TInv, KnownWorkers
<1>8. ASSUME QueuedNotAssigned PROVE QueuedNotAssigned'
  <2>1. \A i \in DOMAIN pendingTasks : pendingTasks[i] \in DOMAIN tasks
    BY DEF TInv, TypeOK
  <2> QED  BY <2>1, <1>1, <1>3, <1>8 DEF QueuedNotAssigned
<1> QED  BY <1>1, <1>4, <1>5, <1>6, <1>7, <1>8 DEF TInv

\* The iterations of assignPendingTasks preserve TInv.
LEMMA PassTInv ==
    ASSUME TInv, Pass
    PROVE  TInv'
<1> USE SchedulerAssumptions
<1>1. CASE AssignSkip
  <2>1. /\ UNCHANGED <<workers, tasks, pendingTasks, workloadPolicy, persistenceManager, saveTrigger>>
        /\ mu = "assign" /\ mu' = "assign"
        /\ scan <= Len(pendingTasks) /\ scan' = scan + 1
    BY <1>1 DEF AssignSkip, tables
  <2>2. scan' \in 1..(Len(pendingTasks') + 1)
    BY <2>1 DEF TInv, TypeOK
  <2> QED
    BY <2>1, <2>2 DEF TInv, TypeOK, IdsDistinct, ScanReset, KnownWorkers, QueuedNotAssigned
<1>2. CASE AssignDone
  <2>1. /\ UNCHANGED <<workers, tasks, pendingTasks, workloadPolicy, persistenceManager>>
        /\ mu = "assign" /\ mu' = "free" /\ scan' = 1 /\ saveTrigger' \in BOOLEAN
    BY <1>2 DEF AssignDone, tables, UpdatePersistentState, TInv, TypeOK
  <2> QED
    BY <2>1 DEF TInv, TypeOK, IdsDistinct, ScanReset, KnownWorkers, QueuedNotAssigned
<1>3. ASSUME NEW w \in WorkerIds, AssignTo(w) PROVE TInv'
  <2> DEFINE t == pendingTasks[scan]
             ids == ChosenGPUs(workers[w], Demand[t])
  <2>1. /\ w \in DOMAIN workers
        /\ tasks' = [tasks EXCEPT ![t] = Assigned(@, w, ids)]
        /\ workers' = [workers EXCEPT ![w] = TakeTask(@, t, ids)]
        /\ pendingTasks' = Dequeue(pendingTasks, scan)
        /\ mu = "assign"
        /\ UNCHANGED <<workloadPolicy, persistenceManager, saveTrigger, mu, scan>>
    BY <1>3 DEF AssignTo, FirstChoices, Candidates, lock
  <2>2. scan \in DOMAIN pendingTasks /\ scan \in 1..Len(pendingTasks) /\ Len(pendingTasks) \in Nat
    BY <1>3 DEF AssignTo, TInv, TypeOK
  <2>3. workers[w] \in WorkerRecord
    BY <2>1 DEF TInv, TypeOK
  <2>4. ids \in SUBSET STRING
    BY <2>3, ChosenGPUsType
  <2> HIDE DEF ids
  <2>5. /\ DOMAIN workers' = DOMAIN workers
        /\ workers' \in [DOMAIN workers' -> WorkerRecord]
        /\ DOMAIN tasks' = DOMAIN tasks
        /\ tasks' \in [DOMAIN tasks' -> TaskRecord]
        /\ pendingTasks' \in Seq(DOMAIN tasks')
        /\ Len(pendingTasks') = Len(pendingTasks) - 1
        /\ IdsDistinct => IdsDistinct'
        /\ KnownWorkers => KnownWorkers'
        /\ QueuedNotAssigned => QueuedNotAssigned'
    BY <2>1, <2>2, <2>4, Booking DEF TInv
  <2>6. scan' \in 1..(Len(pendingTasks') + 1)
    BY <2>1, <2>2, <2>5
  <2>7. TypeOK'
    BY <2>1, <2>5, <2>6 DEF TInv, TypeOK
  <2>8. ScanReset'
    BY <2>1 DEF ScanReset
  <2> QED  BY <2>1, <2>5, <2>7, <2>8 DEF TInv
<1> QED  BY <1>1, <1>2, <1>3 DEF Pass
==============================================================================
