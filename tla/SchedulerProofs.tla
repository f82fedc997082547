--------------------------- MODULE SchedulerProofs ---------------------------
(***************************************************************************)
(* Proofs about Scheduler, for every set of workers, tasks, demands and    *)
(* GPU lists, and for either reading of the mutex.                         *)
(*                                                                         *)
(* Part 1: lemmas about the operators of WorkloadPolicy and Scheduler.     *)
(* Part 2: IInv is inductive, with any clients (Spec).                     *)
(* Part 3: OInv is inductive, with clients that report on the tasks they   *)
(*         hold (OwnerSpec).                                               *)
(***************************************************************************)
EXTENDS Scheduler, ProtocolProofs, FiniteSetTheorems, SequenceTheorems, TLAPS

\* Deleting the i-th element, as assignPendingTasks and RequestTask do with
\* append(q[:i], q[i+1:]...), keeps the others in their order.
LEMMA RemoveAtProps ==
    ASSUME NEW S, NEW s \in Seq(S), NEW i \in 1..Len(s)
    PROVE  /\ RemoveAt(s, i) \in Seq(S)
           /\ Len(RemoveAt(s, i)) = Len(s) - 1
           /\ \A j \in 1..(Len(s) - 1) : RemoveAt(s, i)[j] = IF j < i THEN s[j] ELSE s[j + 1]
<1> DEFINE front == SubSeq(s, 1, i - 1)
           back == SubSeq(s, i + 1, Len(s))
<1>1. Len(s) \in Nat /\ \A j \in 1..Len(s) : s[j] \in S
  OBVIOUS
<1>2. /\ front \in Seq(S) /\ Len(front) = i - 1
      /\ \A j \in 1..(i - 1) : front[j] = s[j]
  BY <1>1, SubSeqProperties
<1>3. /\ back \in Seq(S) /\ Len(back) = Len(s) - i
      /\ \A j \in 1..(Len(s) - i) : back[j] = s[i + j]
  <2>1. \A j \in (i + 1)..Len(s) : s[j] \in S
    BY <1>1
  <2>2. /\ back \in Seq(S)
        /\ Len(back) = IF i + 1 <= Len(s) THEN Len(s) - (i + 1) + 1 ELSE 0
        /\ \A j \in 1..(Len(s) - (i + 1) + 1) : back[j] = s[i + 1 + j - 1]
    BY <1>1, <2>1, SubSeqProperties
  <2> QED  BY <1>1, <2>2
<1>4. RemoveAt(s, i) = front \o back
  BY DEF RemoveAt
<1>5. /\ front \o back \in Seq(S)
      /\ Len(front \o back) = Len(front) + Len(back)
      /\ \A j \in 1..(Len(front) + Len(back)) :
            (front \o back)[j] = IF j <= Len(front) THEN front[j] ELSE back[j - Len(front)]
  BY <1>2, <1>3, ConcatProperties
<1> HIDE DEF front, back
<1> QED  BY <1>1, <1>2, <1>3, <1>4, <1>5

\* Booking a task on a worker, the body of assignPendingTasks, gives a worker.
LEMMA TakeTaskType ==
    ASSUME NEW w \in WorkerRecord, NEW t \in TaskIds, NEW ids
    PROVE  /\ TakeTask(w, t, ids) \in WorkerRecord
           /\ TakeTask(w, t, ids).status = "BUSY"
           /\ TakeTask(w, t, ids).tasks = w.tasks \cup {t}
<1>1. MarkGPUs(w.gpus, ids, FALSE) \in Seq(GPU)
  BY MarkGPUsProps DEF WorkerRecord
<1> QED  BY <1>1 DEF TakeTask, WorkerRecord, WorkerStatus

\* Releasing a task, the COMPLETED/FAILED branch of ReportTaskStatus, gives a worker.
LEMMA DropTaskType ==
    ASSUME NEW w \in WorkerRecord, NEW t \in TaskIds, NEW ids
    PROVE  DropTask(w, t, ids) \in WorkerRecord
<1>1. MarkGPUs(w.gpus, ids, TRUE) \in Seq(GPU)
  BY MarkGPUsProps DEF WorkerRecord
<1> QED  BY <1>1 DEF DropTask, WorkerRecord, WorkerStatus

\* What AssignTask answers with, availableGPUs[:RequiredGPUs], is a set of ids.
LEMMA ChosenGPUsType ==
    ASSUME NEW w \in WorkerRecord, NEW d
    PROVE  ChosenGPUs(w, d) \in SUBSET STRING
<1>1. w.gpus \in Seq(GPU)
  BY DEF WorkerRecord
<1>2. \A i \in DOMAIN w.gpus : w.gpus[i] \in GPU
  BY <1>1
<1>3. \A i \in DOMAIN w.gpus : w.gpus[i].id \in STRING
  BY <1>2 DEF GPU
<1> QED  BY <1>3 DEF ChosenGPUs, FirstFitting, FittingGPUs

\* A worker has finitely many GPUs that fit a task.
LEMMA FittingFinite ==
    ASSUME NEW gpus \in Seq(GPU), NEW d
    PROVE  /\ IsFiniteSet(FittingGPUs(gpus, d))
           /\ Cardinality(FittingGPUs(gpus, d)) \in Nat
<1>1. IsFiniteSet(1..Len(gpus))
  BY FS_Interval
<1>2. FittingGPUs(gpus, d) \subseteq 1..Len(gpus)
  BY DEF FittingGPUs
<1>3. IsFiniteSet(FittingGPUs(gpus, d))
  BY <1>1, <1>2, FS_Subset
<1> QED  BY <1>3, FS_CardinalityType

\* Booking a task adds no GPU to those that fit some other task.
LEMMA FittingShrinks ==
    ASSUME NEW gpus \in Seq(GPU), NEW ids, NEW d
    PROVE  FittingGPUs(MarkGPUs(gpus, ids, FALSE), d) \subseteq FittingGPUs(gpus, d)
<1>1. SUFFICES ASSUME NEW i \in FittingGPUs(MarkGPUs(gpus, ids, FALSE), d)
               PROVE  i \in FittingGPUs(gpus, d)
  OBVIOUS
<1>2. i \in DOMAIN gpus /\ MarkGPUs(gpus, ids, FALSE)[i].available
  BY MarkGPUsProps DEF FittingGPUs
<1>3. gpus[i].id \notin ids
  BY <1>2, MarkGPUsProps
<1>4. MarkGPUs(gpus, ids, FALSE)[i] = gpus[i]
  BY <1>2, <1>3 DEF MarkGPUs
<1> QED  BY <1>2, <1>4 DEF FittingGPUs

\* Booking a task on a worker the policy accepted makes no worker suitable for
\* a task none suited before: this is why one pass of assignPendingTasks, which
\* never goes back to a task it has passed by, is enough.
LEMMA CandidatesShrink ==
    ASSUME NEW policy \in Policies,
           NEW ws, ws \in [DOMAIN ws -> WorkerRecord],
           NEW d \in TaskDemand, NEW e \in TaskDemand,
           NEW w \in Candidates(policy, ws, d),
           NEW t \in TaskIds, NEW ids
    PROVE  Candidates(policy, [ws EXCEPT ![w] = TakeTask(@, t, ids)], e)
               \subseteq Candidates(policy, ws, e)
<1> DEFINE ws2 == [ws EXCEPT ![w] = TakeTask(@, t, ids)]
           fit == FittingGPUs(ws[w].gpus, e)
           fit2 == FittingGPUs(ws2[w].gpus, e)
<1>1. w \in DOMAIN ws /\ ws[w] \in WorkerRecord /\ Accepts(policy, ws[w].status)
  BY DEF Candidates
<1>2. ws2[w] = TakeTask(ws[w], t, ids) /\ \A v \in DOMAIN ws \ {w} : ws2[v] = ws[v]
  BY <1>1
<1> HIDE DEF ws2
<1>3. fit2 \subseteq fit
  <2>1. ws[w].gpus \in Seq(GPU)
    BY <1>1 DEF WorkerRecord
  <2>2. ws2[w].gpus = MarkGPUs(ws[w].gpus, ids, FALSE)
    BY <1>1, <1>2 DEF TakeTask, WorkerRecord
  <2> QED  BY <2>1, <2>2, FittingShrinks
<1>4. Cardinality(fit2) <= Cardinality(fit) /\ Cardinality(fit) \in Nat /\ Cardinality(fit2) \in Nat
  <2>1. ws[w].gpus \in Seq(GPU)
    BY <1>1 DEF WorkerRecord
  <2>2. IsFiniteSet(fit)
    BY <2>1, FittingFinite
  <2>3. IsFiniteSet(fit2) /\ Cardinality(fit2) <= Cardinality(fit)
    BY <2>2, <1>3, FS_Subset
  <2> QED  BY <2>2, <2>3, FS_CardinalityType
<1>5. e.requiredGPUs \in Nat
  BY DEF TaskDemand
<1>6. ASSUME NEW v \in Candidates(policy, ws2, e) PROVE v \in Candidates(policy, ws, e)
  <2>1. v \in DOMAIN ws /\ Cardinality(FittingGPUs(ws2[v].gpus, e)) >= e.requiredGPUs
                        /\ Accepts(policy, ws2[v].status)
    BY <1>6 DEF Candidates, ws2
  <2>2. CASE v = w
    BY <2>1, <2>2, <1>1, <1>4, <1>5 DEF Candidates
  <2>3. CASE v # w
    BY <2>1, <2>3, <1>2 DEF Candidates
  <2> QED  BY <2>2, <2>3
<1> QED  BY <1>6 DEF ws2

\* The inductive invariant.  WorkConserving alone is not inductive: RequestTask
\* is harmless only because no pending task suits anyone while mu is free, and
\* the pass keeps it only because booking never frees a GPU, which takes the
\* types; HeldByAssignee needs that a queued task is held by nobody, which is
\* PendingExactlyUnassigned.
IInv ==
    /\ TypeOK
    /\ PendingExactlyUnassigned
    /\ HeldByAssignee
    /\ IdleIffNothingHeld
    /\ WorkConserving

\* NewScheduler establishes it.
LEMMA InitIInv == Init => IInv
<1> SUFFICES ASSUME Init PROVE IInv
  OBVIOUS
<1>1. DOMAIN workers = {} /\ DOMAIN tasks = {} /\ DOMAIN pendingTasks = {} /\ Len(pendingTasks) = 0
  BY DEF Init
<1>2. TypeOK
  <2>1. workers \in [DOMAIN workers -> WorkerRecord] /\ tasks \in [DOMAIN tasks -> TaskRecord]
    BY <1>1 DEF Init
  <2>2. pendingTasks \in Seq(DOMAIN tasks)
    BY DEF Init
  <2>3. scan \in 1..(Len(pendingTasks) + 1)
    BY <1>1 DEF Init
  <2>4. IsFiniteSet(DOMAIN workers)
    BY <1>1, FS_EmptySet
  <2>5. /\ workloadPolicy \in Policies /\ persistenceManager \in BOOLEAN
        /\ saveTrigger \in BOOLEAN /\ mu \in {"free", "assign", "save", "stuck"}
    BY DEF Init
  <2> QED  BY <1>1, <2>1, <2>2, <2>3, <2>4, <2>5 DEF TypeOK
<1> QED  BY <1>1, <1>2 DEF IInv, PendingExactlyUnassigned, HeldByAssignee,
                           IdleIffNothingHeld, WorkConserving

\* RegisterWorker preserves it: the new worker holds nothing, and the pass that
\* follows owes WorkConserving nothing before its first step.
LEMMA RegisterIInv ==
    ASSUME IInv, NEW req \in ExplicitIds \cup {NoWorker}, NEW gpus \in GPULists,
           RegisterWorker(req, gpus)
    PROVE  IInv'
<1> DEFINE n == Cardinality(DOMAIN workers)
           id == IF req = NoWorker THEN GeneratedId ELSE req
           new == [gpus |-> gpus, status |-> "IDLE", tasks |-> {}]
<1> USE SchedulerAssumptions
<1>1. /\ id \notin DOMAIN workers
      /\ workers' = Put(workers, id, new)
      /\ UNCHANGED <<tasks, pendingTasks, workloadPolicy, persistenceManager>>
      /\ mu' \in {"assign", "stuck"} /\ scan' = 1
      /\ saveTrigger' \in BOOLEAN
  BY DEF RegisterWorker, StartPass, UpdatePersistentState, IInv, TypeOK
<1>2. id \in WorkerIds
  <2>1. n \in Nat
    BY FS_CardinalityType DEF IInv, TypeOK
  <2>2. n < MaxWorkers
    BY DEF RegisterWorker
  <2> QED  BY <2>1, <2>2 DEF GeneratedId
<1>3. new \in WorkerRecord
  BY DEF WorkerRecord, WorkerStatus
<1> HIDE DEF id, new
<1>4. /\ DOMAIN workers' = DOMAIN workers \cup {id}
      /\ workers'[id] = new
      /\ \A w \in DOMAIN workers : workers'[w] = workers[w]
  BY <1>1 DEF Put
<1>5. TypeOK'
  <2>1. IsFiniteSet(DOMAIN workers')
    <3>1. IsFiniteSet(DOMAIN workers)
      BY DEF IInv, TypeOK
    <3>2. IsFiniteSet(DOMAIN workers \cup {id})
      BY <3>1, FS_AddElement
    <3> QED  BY <3>2, <1>4
  <2>2. workers' \in [DOMAIN workers' -> WorkerRecord]
    BY <1>1, <1>3 DEF Put, IInv, TypeOK
  <2>3. scan' \in 1..(Len(pendingTasks') + 1)
    BY <1>1 DEF IInv, TypeOK
  <2> QED  BY <1>1, <1>2, <1>4, <2>1, <2>2, <2>3 DEF IInv, TypeOK
<1>6. PendingExactlyUnassigned'
  BY <1>1 DEF IInv, PendingExactlyUnassigned
<1>7. HeldByAssignee' /\ IdleIffNothingHeld'
  <2>1. new.tasks = {} /\ new.status = "IDLE"
    BY DEF new
  <2> QED  BY <1>1, <1>4, <2>1 DEF IInv, HeldByAssignee, IdleIffNothingHeld
<1>8. WorkConserving'
  BY <1>1 DEF IInv, TypeOK, WorkConserving
<1> QED  BY <1>5, <1>6, <1>7, <1>8 DEF IInv

\* AddTask preserves it: the new task is at the end of the queue and unassigned.
LEMMA AddTaskIInv ==
    ASSUME IInv, NEW t \in TaskIds, AddTask(t)
    PROVE  IInv'
<1> DEFINE new == [status |-> "PENDING", workerID |-> NoWorker, assignedGPUs |-> {}]
<1> USE SchedulerAssumptions
<1>1. /\ t \notin DOMAIN tasks
      /\ tasks' = Put(tasks, t, new)
      /\ pendingTasks' = Append(pendingTasks, t)
      /\ UNCHANGED <<workers, workloadPolicy, persistenceManager>>
      /\ mu' \in {"assign", "stuck"} /\ scan' = 1
      /\ saveTrigger' \in BOOLEAN
  BY DEF AddTask, StartPass, UpdatePersistentState, IInv, TypeOK
<1>2. new \in TaskRecord /\ new.workerID = NoWorker
  BY DEF TaskRecord, TaskStatus
<1> HIDE DEF new
<1>3. /\ DOMAIN tasks' = DOMAIN tasks \cup {t}
      /\ tasks'[t] = new
      /\ \A u \in DOMAIN tasks : tasks'[u] = tasks[u]
  BY <1>1 DEF Put
<1>4. pendingTasks \in Seq(DOMAIN tasks') /\ t \in DOMAIN tasks'
  BY <1>3, SeqMonotonic DEF IInv, TypeOK
<1>5. /\ pendingTasks' \in Seq(DOMAIN tasks')
      /\ Len(pendingTasks) \in Nat
      /\ DOMAIN pendingTasks = 1..Len(pendingTasks)
      /\ DOMAIN pendingTasks' = 1..(Len(pendingTasks) + 1)
      /\ Len(pendingTasks') = Len(pendingTasks) + 1
      /\ \A i \in 1..Len(pendingTasks) : pendingTasks'[i] = pendingTasks[i]
      /\ pendingTasks'[Len(pendingTasks) + 1] = t
  BY <1>1, <1>4
<1>6. TypeOK'
  <2>1. tasks' \in [DOMAIN tasks' -> TaskRecord]
    BY <1>1, <1>2 DEF Put, IInv, TypeOK
  <2>2. scan' \in 1..(Len(pendingTasks') + 1)
    BY <1>1, <1>5
  <2> QED  BY <1>1, <1>3, <1>5, <2>1, <2>2 DEF IInv, TypeOK
<1>7. PendingExactlyUnassigned'
  <2>1. \A i \in 1..Len(pendingTasks) : pendingTasks[i] \in DOMAIN tasks
    BY <1>5 DEF IInv, TypeOK
  <2>2. \A i, j \in DOMAIN pendingTasks' : pendingTasks'[i] = pendingTasks'[j] => i = j
    BY <1>1, <1>5, <2>1 DEF IInv, PendingExactlyUnassigned
  <2>3. ASSUME NEW u \in DOMAIN tasks'
        PROVE  tasks'[u].workerID = NoWorker <=>
                  \E i \in DOMAIN pendingTasks' : pendingTasks'[i] = u
    <3>1. CASE u = t
      BY <3>1, <1>2, <1>3, <1>5
    <3>2. CASE u # t
      <4>1. u \in DOMAIN tasks /\ tasks'[u] = tasks[u]
        BY <3>2, <1>3
      <4>2. (\E i \in DOMAIN pendingTasks' : pendingTasks'[i] = u)
               <=> \E i \in DOMAIN pendingTasks : pendingTasks[i] = u
        BY <3>2, <1>5
      <4> QED  BY <4>1, <4>2 DEF IInv, PendingExactlyUnassigned
    <3> QED  BY <3>1, <3>2
  <2> QED  BY <2>2, <2>3 DEF PendingExactlyUnassigned
<1>8. HeldByAssignee' /\ IdleIffNothingHeld'
  BY <1>1, <1>3 DEF IInv, HeldByAssignee, IdleIffNothingHeld
<1>9. WorkConserving'
  BY <1>1, <1>5 DEF WorkConserving
<1> QED  BY <1>6, <1>7, <1>8, <1>9 DEF IInv

\* RequestTask always finds that no pending task suits any worker.
LEMMA RequestTaskIdle ==
    ASSUME IInv, NEW req \in WorkerIds, RequestTask(req)
    PROVE  UNCHANGED vars
<1>1. ASSUME NEW i \in DOMAIN pendingTasks, AssignOnRequest(req, i) PROVE FALSE
  <2>1. FirstChoices(workloadPolicy, workers, Demand[pendingTasks[i]]) # {}
    BY <1>1 DEF AssignOnRequest
  <2>2. Suitable(pendingTasks[i]) # {}
    BY <2>1 DEF FirstChoices, Suitable
  <2> QED  BY <2>2 DEF IInv, WorkConserving, RequestTask
<1> QED  BY <1>1 DEF RequestTask

\* A report changes nothing but the status of a known task in the table of tasks.
LEMMA StatusOnly ==
    ASSUME IInv, NEW t \in DOMAIN tasks, NEW status \in TaskStatus,
           tasks' = [tasks EXCEPT ![t].status = status], UNCHANGED pendingTasks
    PROVE  /\ DOMAIN tasks' = DOMAIN tasks
           /\ tasks' \in [DOMAIN tasks' -> TaskRecord]
           /\ \A u \in DOMAIN tasks : tasks'[u].workerID = tasks[u].workerID
           /\ pendingTasks' \in Seq(DOMAIN tasks')
           /\ PendingExactlyUnassigned'
<1>1. tasks \in [DOMAIN tasks -> TaskRecord]
  BY DEF IInv, TypeOK
<1>2. DOMAIN tasks' = DOMAIN tasks
  OBVIOUS
<1>3. tasks' \in [DOMAIN tasks' -> TaskRecord]
  BY <1>1 DEF TaskRecord
<1>4. \A u \in DOMAIN tasks : tasks'[u].workerID = tasks[u].workerID
  BY <1>1 DEF TaskRecord
<1>5. pendingTasks' \in Seq(DOMAIN tasks')
  BY <1>2 DEF IInv, TypeOK
<1>6. PendingExactlyUnassigned'
  BY <1>2, <1>4 DEF IInv, PendingExactlyUnassigned
<1> QED  BY <1>2, <1>3, <1>4, <1>5, <1>6

\* ReportTaskStatus with a status that ends nothing preserves it.
LEMMA ReportProgressIInv ==
    ASSUME IInv, NEW w \in WorkerIds, NEW t \in TaskIds, NEW status \in TaskStatus,
           ReportProgress(w, t, status)
    PROVE  IInv'
<1> USE SchedulerAssumptions
<1>1. /\ mu = "free"
      /\ t \in DOMAIN tasks
      /\ tasks' = [tasks EXCEPT ![t].status = status]
      /\ UNCHANGED <<workers, pendingTasks, workloadPolicy, persistenceManager, scan>>
      /\ mu' \in {"free", "stuck"}
      /\ saveTrigger' \in BOOLEAN
  BY DEF ReportProgress, UpdatePersistentState, IInv, TypeOK
<1>2. /\ DOMAIN tasks' = DOMAIN tasks
      /\ tasks' \in [DOMAIN tasks' -> TaskRecord]
      /\ \A u \in DOMAIN tasks : tasks'[u].workerID = tasks[u].workerID
      /\ pendingTasks' \in Seq(DOMAIN tasks')
      /\ PendingExactlyUnassigned'
  BY <1>1, StatusOnly
<1>3. TypeOK'
  BY <1>1, <1>2 DEF IInv, TypeOK
<1>4. HeldByAssignee' /\ IdleIffNothingHeld'
  BY <1>1, <1>2 DEF IInv, HeldByAssignee, IdleIffNothingHeld
<1>5. WorkConserving'
  BY <1>1 DEF IInv, WorkConserving, Suitable
<1> QED  BY <1>2, <1>3, <1>4, <1>5 DEF IInv

\* ReportTaskStatus with COMPLETED or FAILED preserves it, whoever reports.
LEMMA ReportEndIInv ==
    ASSUME IInv, NEW w \in WorkerIds, NEW t \in TaskIds, NEW status \in TaskStatus,
           ReportEnd(w, t, status)
    PROVE  IInv'
<1> DEFINE ids == tasks[t].assignedGPUs
           old == workers[w]
           new == DropTask(old, t, ids)
<1> USE SchedulerAssumptions
<1>1. /\ w \in DOMAIN workers
      /\ t \in DOMAIN tasks
      /\ tasks' = [tasks EXCEPT ![t].status = status]
      /\ UNCHANGED <<pendingTasks, workloadPolicy, persistenceManager, saveTrigger>>
      /\ mu' \in {"assign", "stuck"} /\ scan' = 1
      /\ workers' = [workers EXCEPT ![w] = new] \/ UNCHANGED workers
  BY DEF ReportEnd, StartPass
<1>2. /\ DOMAIN tasks' = DOMAIN tasks
      /\ tasks' \in [DOMAIN tasks' -> TaskRecord]
      /\ \A u \in DOMAIN tasks : tasks'[u].workerID = tasks[u].workerID
      /\ pendingTasks' \in Seq(DOMAIN tasks')
      /\ PendingExactlyUnassigned'
  BY <1>1, StatusOnly
<1>3. old \in WorkerRecord
  BY <1>1 DEF IInv, TypeOK
<1>4. new \in WorkerRecord
  BY <1>3, DropTaskType
<1>5. /\ new.tasks = old.tasks \ {t}
      /\ new.status = IF old.tasks \subseteq {t} THEN "IDLE" ELSE old.status
  BY DEF DropTask
<1>6. old.status = "IDLE" <=> old.tasks = {}
  BY <1>1 DEF IInv, IdleIffNothingHeld
<1>7. new.status = "IDLE" <=> new.tasks = {}
  BY <1>5, <1>6
<1> HIDE DEF new, old, ids
<1>8. /\ DOMAIN workers' = DOMAIN workers
      /\ \A v \in DOMAIN workers : workers'[v] = workers[v] \/ (v = w /\ workers'[v] = new)
  BY <1>1
<1>9. TypeOK'
  <2>1. workers' \in [DOMAIN workers' -> WorkerRecord]
    BY <1>1, <1>4 DEF IInv, TypeOK
  <2>2. scan' \in 1..(Len(pendingTasks') + 1)
    BY <1>1 DEF IInv, TypeOK
  <2> QED  BY <1>1, <1>2, <1>8, <2>1, <2>2 DEF IInv, TypeOK
<1>10. HeldByAssignee'
  <2>1. \A v \in DOMAIN workers : workers'[v].tasks \subseteq workers[v].tasks
    BY <1>5, <1>8 DEF old
  <2> QED  BY <1>2, <1>8, <2>1 DEF IInv, HeldByAssignee
<1>11. IdleIffNothingHeld'
  BY <1>7, <1>8 DEF IInv, IdleIffNothingHeld
<1>12. WorkConserving'
  BY <1>1 DEF IInv, TypeOK, WorkConserving
<1> QED  BY <1>2, <1>9, <1>10, <1>11, <1>12 DEF IInv

\* assignPendingTasks leaves nothing assignable behind its index: a task it has
\* passed by suits no worker, and booking one makes no worker suitable again.
LEMMA PassConserves ==
    ASSUME TypeOK, WorkConserving, Pass
    PROVE  WorkConserving'
<1> DEFINE n == Len(pendingTasks)
<1>1. /\ mu = "assign" /\ n \in Nat /\ DOMAIN pendingTasks = 1..n /\ scan \in 1..(n + 1)
      /\ \A i \in 1..n : pendingTasks[i] \in DOMAIN tasks
      /\ pendingTasks \in Seq(DOMAIN tasks) /\ DOMAIN tasks \subseteq TaskIds
  BY DEF TypeOK, Pass, AssignSkip, AssignDone, AssignTo
<1> HIDE DEF n
<1>2. CASE AssignSkip
  <2>1. /\ mu' = "assign" /\ Suitable(pendingTasks[scan]) = {} /\ scan' = scan + 1
        /\ UNCHANGED <<workers, pendingTasks, workloadPolicy>>
    BY <1>1, <1>2 DEF AssignSkip, tables
  <2>2. ASSUME NEW i \in DOMAIN pendingTasks, i < scan + 1
        PROVE  Suitable(pendingTasks[i]) = {}
    <3>1. i < scan \/ i = scan
      BY <1>1, <2>2
    <3> QED  BY <3>1, <1>1, <2>1 DEF WorkConserving
  <2> QED  BY <2>1, <2>2 DEF WorkConserving, Suitable
<1>3. CASE AssignDone
  <2>1. mu' = "free" /\ scan > n /\ UNCHANGED <<workers, pendingTasks, workloadPolicy>>
    BY <1>3 DEF AssignDone, tables, n
  <2>2. \A i \in DOMAIN pendingTasks : i < scan
    BY <1>1, <2>1
  <2>3. \A i \in DOMAIN pendingTasks : Suitable(pendingTasks[i]) = {}
    BY <1>1, <2>2 DEF WorkConserving
  <2> QED  BY <2>1, <2>3 DEF WorkConserving, Suitable
<1>4. ASSUME NEW w \in WorkerIds, AssignTo(w) PROVE WorkConserving'
  <2> DEFINE t == pendingTasks[scan]
             ids == ChosenGPUs(workers[w], Demand[t])
  <2>1. /\ scan <= n /\ w \in Candidates(workloadPolicy, workers, Demand[t])
        /\ workers' = [workers EXCEPT ![w] = TakeTask(@, t, ids)]
        /\ pendingTasks' = RemoveAt(pendingTasks, scan)
        /\ UNCHANGED <<workloadPolicy, mu, scan>>
    BY <1>4 DEF AssignTo, FirstChoices, lock, Dequeue, n
  <2>2. scan \in 1..n /\ t \in TaskIds
    BY <1>1, <2>1
  <2>3. /\ DOMAIN pendingTasks' = 1..(n - 1)
        /\ \A j \in 1..(n - 1) : j < scan => pendingTasks'[j] = pendingTasks[j]
    <3>1. /\ RemoveAt(pendingTasks, scan) \in Seq(DOMAIN tasks)
          /\ Len(RemoveAt(pendingTasks, scan)) = n - 1
          /\ \A j \in 1..(n - 1) : RemoveAt(pendingTasks, scan)[j] =
                IF j < scan THEN pendingTasks[j] ELSE pendingTasks[j + 1]
      BY <1>1, <2>2, RemoveAtProps DEF n
    <3> QED  BY <2>1, <3>1
  <2>4. \A u \in TaskIds : Demand[u] \in TaskDemand
    BY SchedulerAssumptions
  <2> HIDE DEF t, ids
  <2>5. ASSUME NEW i \in DOMAIN pendingTasks', i < scan
        PROVE  Candidates(workloadPolicy', workers', Demand[pendingTasks'[i]]) = {}
    <3>1. i \in DOMAIN pendingTasks /\ pendingTasks'[i] = pendingTasks[i] /\ pendingTasks[i] \in TaskIds
      BY <2>5, <1>1, <2>2, <2>3
    <3>2. Candidates(workloadPolicy, workers, Demand[pendingTasks[i]]) = {}
      BY <3>1, <2>5, <1>1 DEF WorkConserving, Suitable
    <3>3. Candidates(workloadPolicy, workers', Demand[pendingTasks[i]])
             \subseteq Candidates(workloadPolicy, workers, Demand[pendingTasks[i]])
      <4>1. workers \in [DOMAIN workers -> WorkerRecord] /\ workloadPolicy \in Policies
        BY DEF TypeOK
      <4> QED  BY <4>1, <2>1, <2>2, <2>4, <3>1, CandidatesShrink
    <3> QED  BY <3>1, <3>2, <3>3, <2>1
  <2> QED  BY <2>1, <2>5, <1>1 DEF WorkConserving, Suitable
<1> QED  BY <1>2, <1>3, <1>4 DEF Pass

\* An iteration of assignPendingTasks that finds no worker preserves it.
LEMMA AssignSkipIInv ==
    ASSUME IInv, AssignSkip
    PROVE  IInv'
<1>1. /\ mu = "assign" /\ mu' = "assign"
      /\ Suitable(pendingTasks[scan]) = {}
      /\ scan <= Len(pendingTasks) /\ scan' = scan + 1
      /\ UNCHANGED <<workers, tasks, pendingTasks, workloadPolicy, persistenceManager, saveTrigger>>
  BY DEF AssignSkip, tables
<1>2. Len(pendingTasks) \in Nat /\ DOMAIN pendingTasks = 1..Len(pendingTasks)
      /\ scan \in 1..(Len(pendingTasks) + 1)
  BY DEF IInv, TypeOK
<1>3. TypeOK'
  <2>1. scan' \in 1..(Len(pendingTasks') + 1)
    BY <1>1, <1>2
  <2> QED  BY <1>1, <2>1 DEF IInv, TypeOK
<1>4. PendingExactlyUnassigned' /\ HeldByAssignee' /\ IdleIffNothingHeld'
  BY <1>1 DEF IInv, PendingExactlyUnassigned, HeldByAssignee, IdleIffNothingHeld
<1>5. WorkConserving'
  BY PassConserves DEF IInv, Pass
<1> QED  BY <1>3, <1>4, <1>5 DEF IInv

\* The end of assignPendingTasks preserves it: every task has been passed by.
LEMMA AssignDoneIInv ==
    ASSUME IInv, AssignDone
    PROVE  IInv'
<1> USE SchedulerAssumptions
<1>1. /\ mu = "assign" /\ mu' = "free"
      /\ scan > Len(pendingTasks) /\ scan' = 1
      /\ UNCHANGED <<workers, tasks, pendingTasks, workloadPolicy, persistenceManager>>
      /\ saveTrigger' \in BOOLEAN
  BY DEF AssignDone, tables, UpdatePersistentState, IInv, TypeOK
<1>2. Len(pendingTasks) \in Nat /\ DOMAIN pendingTasks = 1..Len(pendingTasks)
      /\ scan \in 1..(Len(pendingTasks) + 1)
  BY DEF IInv, TypeOK
<1>3. TypeOK'
  <2>1. scan' \in 1..(Len(pendingTasks') + 1)
    BY <1>1, <1>2
  <2> QED  BY <1>1, <2>1 DEF IInv, TypeOK
<1>4. PendingExactlyUnassigned' /\ HeldByAssignee' /\ IdleIffNothingHeld'
  BY <1>1 DEF IInv, PendingExactlyUnassigned, HeldByAssignee, IdleIffNothingHeld
<1>5. WorkConserving'
  BY PassConserves DEF IInv, Pass
<1> QED  BY <1>3, <1>4, <1>5 DEF IInv

\* An iteration of assignPendingTasks that books a task preserves it.
LEMMA AssignToIInv ==
    ASSUME IInv, NEW w \in WorkerIds, AssignTo(w)
    PROVE  IInv'
<1> DEFINE t == pendingTasks[scan]
           ids == ChosenGPUs(workers[w], Demand[t])
           old == workers[w]
           new == TakeTask(old, t, ids)
           n == Len(pendingTasks)
<1> USE SchedulerAssumptions
<1>1. /\ mu = "assign" /\ scan <= n
      /\ w \in Candidates(workloadPolicy, workers, Demand[t])
      /\ tasks' = [tasks EXCEPT ![t] = Assigned(@, w, ids)]
      /\ workers' = [workers EXCEPT ![w] = new]
      /\ pendingTasks' = RemoveAt(pendingTasks, scan)
      /\ UNCHANGED <<workloadPolicy, persistenceManager, saveTrigger, mu, scan>>
  BY DEF AssignTo, FirstChoices, lock, Dequeue
<1>2. /\ n \in Nat /\ DOMAIN pendingTasks = 1..n /\ scan \in 1..n
      /\ \A i \in 1..n : pendingTasks[i] \in DOMAIN tasks
      /\ pendingTasks \in Seq(DOMAIN tasks)
  BY <1>1 DEF IInv, TypeOK
<1>3. t \in DOMAIN tasks /\ t \in TaskIds /\ tasks[t] \in TaskRecord /\ w \in DOMAIN workers
  BY <1>1, <1>2 DEF IInv, TypeOK, Candidates
<1>4. old \in WorkerRecord
  BY <1>3 DEF IInv, TypeOK
<1>5. /\ new \in WorkerRecord
      /\ new.status = "BUSY" /\ new.tasks = old.tasks \cup {t}
  BY <1>3, <1>4, TakeTaskType
<1>6. ids \in SUBSET STRING
  BY <1>4, ChosenGPUsType
<1>7. /\ Assigned(tasks[t], w, ids) \in TaskRecord
      /\ Assigned(tasks[t], w, ids).workerID = w
  BY <1>3, <1>6 DEF Assigned, TaskRecord, TaskStatus
<1>8. /\ pendingTasks' \in Seq(DOMAIN tasks)
      /\ Len(pendingTasks') = n - 1
      /\ DOMAIN pendingTasks' = 1..(n - 1)
      /\ \A j \in 1..(n - 1) :
            pendingTasks'[j] = IF j < scan THEN pendingTasks[j] ELSE pendingTasks[j + 1]
  <2>1. /\ RemoveAt(pendingTasks, scan) \in Seq(DOMAIN tasks)
        /\ Len(RemoveAt(pendingTasks, scan)) = n - 1
        /\ \A j \in 1..(n - 1) : RemoveAt(pendingTasks, scan)[j] =
              IF j < scan THEN pendingTasks[j] ELSE pendingTasks[j + 1]
    BY <1>2, RemoveAtProps
  <2> QED  BY <1>1, <2>1
<1> HIDE DEF t, ids, old, new, n
<1>9. /\ DOMAIN tasks' = DOMAIN tasks
      /\ tasks'[t].workerID = w
      /\ \A u \in DOMAIN tasks \ {t} : tasks'[u] = tasks[u]
  BY <1>1, <1>3, <1>7
<1>10. /\ DOMAIN workers' = DOMAIN workers
       /\ workers'[w] = new
       /\ \A v \in DOMAIN workers \ {w} : workers'[v] = workers[v]
  BY <1>1, <1>3
<1>11. TypeOK'
  <2>1. workers' \in [DOMAIN workers' -> WorkerRecord]
    BY <1>1, <1>5 DEF IInv, TypeOK
  <2>2. tasks' \in [DOMAIN tasks' -> TaskRecord]
    BY <1>1, <1>7 DEF IInv, TypeOK
  <2>3. scan' \in 1..(Len(pendingTasks') + 1)
    BY <1>1, <1>2, <1>8
  <2> QED  BY <1>1, <1>8, <1>9, <1>10, <2>1, <2>2, <2>3 DEF IInv, TypeOK
<1>12. \A i, j \in 1..n : pendingTasks[i] = pendingTasks[j] => i = j
  BY <1>2 DEF IInv, PendingExactlyUnassigned
<1>13. tasks[t].workerID = NoWorker
  BY <1>2, <1>3 DEF IInv, PendingExactlyUnassigned, t
<1>14. PendingExactlyUnassigned'
  <2>1. \A i, j \in DOMAIN pendingTasks' : pendingTasks'[i] = pendingTasks'[j] => i = j
    <3>1. SUFFICES ASSUME NEW i \in 1..(n - 1), NEW j \in 1..(n - 1),
                          pendingTasks'[i] = pendingTasks'[j]
                   PROVE  i = j
      BY <1>8
    <3> DEFINE at(k) == IF k < scan THEN k ELSE k + 1
    <3>2. pendingTasks[at(i)] = pendingTasks[at(j)] /\ at(i) \in 1..n /\ at(j) \in 1..n
      BY <3>1, <1>2, <1>8
    <3>3. at(i) = at(j)
      BY <3>2, <1>12
    <3> QED  BY <3>3, <1>2
  <2>2. ASSUME NEW u \in DOMAIN tasks'
        PROVE  tasks'[u].workerID = NoWorker <=>
                  \E i \in DOMAIN pendingTasks' : pendingTasks'[i] = u
    <3>1. CASE u = t
      <4>1. \A i \in DOMAIN pendingTasks' : pendingTasks'[i] # t
        BY <1>2, <1>8, <1>12 DEF t
      <4> QED  BY <3>1, <4>1, <1>9
    <3>2. CASE u # t
      <4>1. (\E i \in DOMAIN pendingTasks : pendingTasks[i] = u)
               => \E i \in DOMAIN pendingTasks' : pendingTasks'[i] = u
        <5>1. SUFFICES ASSUME NEW i \in 1..n, pendingTasks[i] = u
                       PROVE  \E j \in 1..(n - 1) : pendingTasks'[j] = u
          BY <1>2, <1>8
        <5>2. CASE i < scan
          <6>1. i \in 1..(n - 1) /\ pendingTasks'[i] = u
            BY <5>1, <5>2, <1>2, <1>8
          <6> QED  BY <6>1
        <5>3. CASE i > scan
          <6>1. i - 1 \in 1..(n - 1) /\ pendingTasks'[i - 1] = u
            BY <5>1, <5>3, <1>2, <1>8
          <6> QED  BY <6>1
        <5>4. CASE i = scan
          BY <5>1, <5>4, <3>2 DEF t
        <5> QED  BY <5>2, <5>3, <5>4, <1>2
      <4>2. (\E i \in DOMAIN pendingTasks' : pendingTasks'[i] = u)
               => \E i \in DOMAIN pendingTasks : pendingTasks[i] = u
        <5>1. SUFFICES ASSUME NEW i \in 1..(n - 1), pendingTasks'[i] = u
                       PROVE  \E j \in 1..n : pendingTasks[j] = u
          BY <1>2, <1>8
        <5>2. i \in 1..n /\ i + 1 \in 1..n
          BY <1>2
        <5> QED  BY <5>1, <5>2, <1>8
      <4>3. u \in DOMAIN tasks /\ tasks'[u] = tasks[u]
        BY <3>2, <1>9
      <4> QED  BY <4>1, <4>2, <4>3 DEF IInv, PendingExactlyUnassigned
    <3> QED  BY <3>1, <3>2
  <2> QED  BY <2>1, <2>2 DEF PendingExactlyUnassigned
<1>15. HeldByAssignee'
  <2>1. ASSUME NEW v \in DOMAIN workers, NEW u \in workers[v].tasks
        PROVE  u \in DOMAIN tasks /\ u # t /\ tasks[u].workerID = v
    BY <1>13 DEF IInv, TypeOK, HeldByAssignee
  <2>2. ASSUME NEW v \in DOMAIN workers', NEW u \in workers'[v].tasks
        PROVE  u \in DOMAIN tasks' /\ tasks'[u].workerID = v
    <3>1. CASE u = t
      <4>1. v = w
        BY <3>1, <2>1, <1>10
      <4> QED  BY <3>1, <4>1, <1>3, <1>9
    <3>2. CASE u # t
      <4>1. u \in workers[v].tasks
        BY <3>2, <1>5, <1>10 DEF old
      <4> QED  BY <4>1, <3>2, <2>1, <1>9, <1>10
    <3> QED  BY <3>1, <3>2
  <2> QED  BY <2>2 DEF HeldByAssignee
<1>16. IdleIffNothingHeld'
  BY <1>5, <1>10 DEF IInv, IdleIffNothingHeld
<1>17. WorkConserving'
  BY PassConserves DEF IInv, Pass
<1> QED  BY <1>11, <1>14, <1>15, <1>16, <1>17 DEF IInv

\* Every step of the service preserves it.
LEMMA NextIInv == IInv /\ [Next]_vars => IInv'
<1> SUFFICES ASSUME IInv, [Next]_vars PROVE IInv'
  OBVIOUS
<1>1. CASE Register
  BY <1>1, RegisterIInv DEF Register
<1>2. CASE \E t \in TaskIds : AddTask(t)
  BY <1>2, AddTaskIInv
<1>3. CASE \E w \in WorkerIds : RequestTask(w)
  <2>1. UNCHANGED vars
    BY <1>3, RequestTaskIdle
  <2> QED
    BY <2>1 DEF vars, tables, lock, IInv, TypeOK, PendingExactlyUnassigned, HeldByAssignee,
                IdleIffNothingHeld, WorkConserving, Suitable
<1>4. CASE Report
  <2>1. PICK w \in WorkerIds, t \in TaskIds, status \in Reported :
           ReportProgress(w, t, status) \/ ReportEnd(w, t, status)
    BY <1>4 DEF Report
  <2>2. status \in TaskStatus
    BY SchedulerAssumptions
  <2> QED  BY <2>1, <2>2, ReportProgressIInv, ReportEndIInv
<1>5. CASE Pass
  BY <1>5, AssignSkipIInv, AssignDoneIInv, AssignToIInv DEF Pass
<1>6. CASE UNCHANGED vars
  BY <1>6 DEF vars, tables, lock, IInv, TypeOK, PendingExactlyUnassigned, HeldByAssignee,
              IdleIffNothingHeld, WorkConserving, Suitable
<1> QED  BY <1>1, <1>2, <1>3, <1>4, <1>5, <1>6 DEF Next

\* It holds in every state of the service.
LEMMA Invariance == Spec => []IInv
  BY InitIInv, NextIInv, PTL DEF Spec

\* The tables of the scheduler keep the types that scheduler.go declares, and
\* the index of assignPendingTasks never points beyond the end of the queue.
THEOREM TypeCorrect == Spec => []TypeOK
<1>1. IInv => TypeOK
  BY DEF IInv
<1> QED  BY <1>1, Invariance, PTL

\* After every handler no pending task suits any worker: one pass of
\* assignPendingTasks is enough, whatever clients register, add or report.
THEOREM PassLeavesNothingUndone == Spec => []WorkConserving
<1>1. IInv => WorkConserving
  BY DEF IInv
<1> QED  BY <1>1, Invariance, PTL

\* pendingTasks holds every unassigned task once and no other, although
\* assignPendingTasks deletes from it while it loops over it.
THEOREM QueueIsExact == Spec => []PendingExactlyUnassigned
<1>1. IInv => PendingExactlyUnassigned
  BY DEF IInv
<1> QED  BY <1>1, Invariance, PTL

\* A task that a worker holds names that worker as its own, so that no two
\* workers hold a task, whatever clients report to ReportTaskStatus.
THEOREM OneHolder == Spec => []HeldByAssignee
<1>1. IInv => HeldByAssignee
  BY DEF IInv
<1> QED  BY <1>1, Invariance, PTL

\* ReportTaskStatus makes a worker IDLE exactly when its last task has ended.
THEOREM IdleIsFree == Spec => []IdleIffNothingHeld
<1>1. IInv => IdleIffNothingHeld
  BY DEF IInv
<1> QED  BY <1>1, Invariance, PTL

\* A task changes its worker only in assignPendingTasks, and only from none:
\* RequestTask never assigns one.
THEOREM PollingAssignsNothing == Spec => AssignedOnceByPass
<1> DEFINE Change == \A t \in DOMAIN tasks : tasks'[t].workerID # tasks[t].workerID =>
                        mu = "assign" /\ tasks[t].workerID = NoWorker
<1>1. IInv /\ [Next]_vars => [Change]_vars
  <2> SUFFICES ASSUME IInv, [Next]_vars PROVE [Change]_vars
    OBVIOUS
  <2>1. CASE Register
    BY <2>1 DEF Register, RegisterWorker
  <2>2. CASE \E t \in TaskIds : AddTask(t)
    BY <2>2 DEF AddTask, Put
  <2>3. CASE \E w \in WorkerIds : RequestTask(w)
    BY <2>3, RequestTaskIdle
  <2>4. CASE Report
    <3>1. PICK t \in DOMAIN tasks, status \in TaskStatus :
             tasks' = [tasks EXCEPT ![t].status = status] /\ UNCHANGED pendingTasks
      BY <2>4, SchedulerAssumptions DEF Report, ReportProgress, ReportEnd
    <3> QED  BY <3>1, StatusOnly
  <2>5. CASE Pass
    <3>1. CASE AssignSkip \/ AssignDone
      BY <3>1 DEF AssignSkip, AssignDone, tables
    <3>2. CASE \E w \in WorkerIds : AssignTo(w)
      <4>1. /\ mu = "assign" /\ scan \in DOMAIN pendingTasks
            /\ pendingTasks[scan] \in DOMAIN tasks
            /\ \A u \in DOMAIN tasks \ {pendingTasks[scan]} : tasks'[u] = tasks[u]
        BY <3>2 DEF AssignTo, IInv, TypeOK
      <4>2. tasks[pendingTasks[scan]].workerID = NoWorker
        BY <4>1 DEF IInv, PendingExactlyUnassigned
      <4> QED  BY <4>1, <4>2
    <3> QED  BY <2>5, <3>1, <3>2 DEF Pass
  <2>6. CASE UNCHANGED vars
    BY <2>6
  <2> QED  BY <2>1, <2>2, <2>3, <2>4, <2>5, <2>6 DEF Next
<1>2. AssignedOnceByPass <=> [][Change]_vars
  BY DEF AssignedOnceByPass
<1> HIDE DEF Change
<1> QED  BY <1>1, <1>2, Invariance, PTL DEF Spec

-----------------------------------------------------------------------------

\* The inductive invariant for workers that report on the tasks they hold.
\* Neither part is inductive without the other: freeing the GPUs of a task is
\* harmless only if no other task was given them, and giving a free GPU to a
\* task is harmless only if free means given to nobody.
OInv == IInv /\ GPUsAccounted /\ NoDoubleBooking

\* Those workers are clients of the service like any other.
LEMMA OwnerNextIsNext == OwnerNext => Next
  BY DEF OwnerNext, Next, OwnReport, Report

\* A step that leaves the workers and the assigned GPUs alone.
LEMMA NothingBooked ==
    ASSUME OInv, UNCHANGED workers, DOMAIN tasks \subseteq DOMAIN tasks',
           \A u \in DOMAIN tasks : tasks'[u].assignedGPUs = tasks[u].assignedGPUs
    PROVE  GPUsAccounted' /\ NoDoubleBooking'
<1>1. \A w \in DOMAIN workers : workers[w].tasks \subseteq DOMAIN tasks
  BY DEF OInv, IInv, HeldByAssignee
<1>2. GPUsAccounted'
  BY <1>1 DEF OInv, GPUsAccounted
<1>3. NoDoubleBooking'
  BY <1>1 DEF OInv, NoDoubleBooking
<1> QED  BY <1>2, <1>3

\* RegisterWorker preserves OInv: a new worker's GPUs are free and it holds nothing.
LEMMA RegisterAccounts ==
    ASSUME OInv, Register
    PROVE  GPUsAccounted' /\ NoDoubleBooking'
<1>0. PICK req \in ExplicitIds \cup {NoWorker}, gpus \in GPULists : RegisterWorker(req, gpus)
  BY DEF Register
<1> DEFINE id == IF req = NoWorker THEN GeneratedId ELSE req
<1>1. /\ id \notin DOMAIN workers
      /\ workers' = Put(workers, id, [gpus |-> gpus, status |-> "IDLE", tasks |-> {}])
      /\ UNCHANGED tasks
  BY <1>0 DEF RegisterWorker
<1> HIDE DEF id
<1>2. \A i \in DOMAIN gpus : gpus[i].available
  BY GPUListsAssumption
<1>3. /\ DOMAIN workers' = DOMAIN workers \cup {id}
      /\ workers'[id].gpus = gpus /\ workers'[id].tasks = {}
      /\ \A w \in DOMAIN workers : workers'[w] = workers[w]
  BY <1>1 DEF Put
<1>4. GPUsAccounted'
  <2> SUFFICES ASSUME NEW w \in DOMAIN workers', NEW i \in DOMAIN workers'[w].gpus
               PROVE  workers'[w].gpus[i].available <=>
                        \A t \in workers'[w].tasks :
                            workers'[w].gpus[i].id \notin tasks'[t].assignedGPUs
    BY DEF GPUsAccounted
  <2>1. CASE w = id
    BY <2>1, <1>2, <1>3
  <2>2. CASE w \in DOMAIN workers
    <3>1. workers'[w] = workers[w] /\ tasks' = tasks
      BY <2>2, <1>1, <1>3
    <3>2. i \in DOMAIN workers[w].gpus
      BY <3>1
    <3>3. workers[w].gpus[i].available <=>
            \A t \in workers[w].tasks : workers[w].gpus[i].id \notin tasks[t].assignedGPUs
      BY <2>2, <3>2 DEF OInv, GPUsAccounted
    <3> QED  BY <3>1, <3>3
  <2> QED  BY <2>1, <2>2, <1>3
<1>5. NoDoubleBooking'
  BY <1>1, <1>3 DEF OInv, NoDoubleBooking
<1> QED  BY <1>4, <1>5

\* The GPUs that a policy chooses are free before they are given away.
LEMMA ChosenWereFree ==
    ASSUME NEW w \in WorkerRecord, NEW d, NEW id \in ChosenGPUs(w, d)
    PROVE  \E i \in DOMAIN w.gpus : w.gpus[i].id = id /\ w.gpus[i].available
  BY DEF ChosenGPUs, FirstFitting, FittingGPUs

\* Booking a task in assignPendingTasks preserves OInv.
LEMMA AssignToAccounts ==
    ASSUME OInv, NEW w \in WorkerIds, AssignTo(w)
    PROVE  GPUsAccounted' /\ NoDoubleBooking'
<1> DEFINE t == pendingTasks[scan]
           ids == ChosenGPUs(workers[w], Demand[t])
           old == workers[w]
<1> USE SchedulerAssumptions
<1>1. /\ w \in DOMAIN workers
      /\ tasks' = [tasks EXCEPT ![t] = Assigned(@, w, ids)]
      /\ workers' = [workers EXCEPT ![w] = TakeTask(@, t, ids)]
  BY DEF AssignTo, FirstChoices, Candidates
<1>2. t \in DOMAIN tasks /\ tasks[t] \in TaskRecord /\ tasks[t].workerID = NoWorker
  <2>1. scan \in DOMAIN pendingTasks /\ t \in DOMAIN tasks
    BY DEF AssignTo, OInv, IInv, TypeOK
  <2> QED  BY <2>1 DEF OInv, IInv, TypeOK, PendingExactlyUnassigned
<1>3. old \in WorkerRecord /\ old.gpus \in Seq(GPU)
  BY <1>1 DEF OInv, IInv, TypeOK, WorkerRecord
<1>4. /\ DOMAIN workers' = DOMAIN workers
      /\ workers'[w].gpus = MarkGPUs(old.gpus, ids, FALSE)
      /\ workers'[w].tasks = old.tasks \cup {t}
      /\ \A v \in DOMAIN workers \ {w} : workers'[v] = workers[v]
  BY <1>1, <1>3 DEF TakeTask, WorkerRecord
<1>5. /\ tasks'[t].assignedGPUs = ids
      /\ \A u \in DOMAIN tasks \ {t} : tasks'[u] = tasks[u]
  BY <1>1, <1>2 DEF Assigned, TaskRecord
<1>6. \A v \in DOMAIN workers : \A u \in workers[v].tasks : u \in DOMAIN tasks \ {t}
  BY <1>2 DEF OInv, IInv, TypeOK, HeldByAssignee
<1>7. \A id \in ids : \A u \in old.tasks : id \notin tasks[u].assignedGPUs
  BY <1>1, <1>3, ChosenWereFree DEF OInv, GPUsAccounted
<1> HIDE DEF t, ids
<1>8. GPUsAccounted'
  <2>1. SUFFICES ASSUME NEW v \in DOMAIN workers', NEW i \in DOMAIN workers'[v].gpus
                 PROVE  workers'[v].gpus[i].available <=>
                          \A u \in workers'[v].tasks :
                             workers'[v].gpus[i].id \notin tasks'[u].assignedGPUs
    BY DEF GPUsAccounted
  <2>2. CASE v # w
    BY <2>2, <1>4, <1>5, <1>6 DEF OInv, GPUsAccounted
  <2>3. CASE v = w
    <3>1. i \in DOMAIN old.gpus /\ workers'[v].gpus[i].id = old.gpus[i].id
      <4>1. i \in DOMAIN old.gpus
        BY <2>3, <1>4 DEF MarkGPUs
      <4>2. old.gpus[i] \in GPU
        BY <4>1, <1>3
      <4> QED  BY <4>1, <4>2, <2>3, <1>4 DEF MarkGPUs, GPU
    <3>2. old.gpus[i].available <=> \A u \in old.tasks : old.gpus[i].id \notin tasks[u].assignedGPUs
      BY <3>1, <1>1 DEF OInv, GPUsAccounted
    <3>3. (\A u \in workers'[v].tasks : old.gpus[i].id \notin tasks'[u].assignedGPUs)
             <=> /\ old.gpus[i].id \notin ids
                 /\ \A u \in old.tasks : old.gpus[i].id \notin tasks[u].assignedGPUs
      BY <2>3, <1>1, <1>4, <1>5, <1>6
    <3>4. CASE old.gpus[i].id \in ids
      <4>1. workers'[v].gpus[i].available = FALSE
        <5>1. old.gpus[i] \in GPU
          BY <3>1, <1>3
        <5> QED  BY <5>1, <3>1, <3>4, <2>3, <1>4 DEF MarkGPUs, GPU
      <4> QED  BY <4>1, <3>1, <3>3, <3>4
    <3>5. CASE old.gpus[i].id \notin ids
      <4>1. workers'[v].gpus[i] = old.gpus[i]
        BY <3>1, <3>5, <2>3, <1>4 DEF MarkGPUs
      <4> QED  BY <4>1, <3>2, <3>3, <3>5
    <3> QED  BY <3>4, <3>5
  <2> QED  BY <2>2, <2>3
<1>9. NoDoubleBooking'
  <2>1. SUFFICES ASSUME NEW v \in DOMAIN workers', NEW u1 \in workers'[v].tasks,
                        NEW u2 \in workers'[v].tasks, u1 # u2
                 PROVE  tasks'[u1].assignedGPUs \cap tasks'[u2].assignedGPUs = {}
    BY DEF NoDoubleBooking
  <2>2. CASE v # w \/ (u1 # t /\ u2 # t)
    <3>1. u1 \in workers[v].tasks /\ u2 \in workers[v].tasks /\ u1 # t /\ u2 # t
      BY <2>2, <1>4, <1>6
    <3> QED  BY <3>1, <2>1, <1>4, <1>5, <1>6 DEF OInv, NoDoubleBooking
  <2>3. CASE v = w /\ u1 = t
    BY <2>1, <2>3, <1>1, <1>4, <1>5, <1>6, <1>7
  <2>4. CASE v = w /\ u2 = t
    BY <2>1, <2>4, <1>1, <1>4, <1>5, <1>6, <1>7
  <2> QED  BY <2>2, <2>3, <2>4
<1> QED  BY <1>8, <1>9

\* Releasing a task in ReportTaskStatus preserves OInv.
LEMMA ReportEndAccounts ==
    ASSUME OInv, NEW w \in DOMAIN workers, NEW t \in workers[w].tasks, NEW status \in TaskStatus,
           ReportEnd(w, t, status)
    PROVE  GPUsAccounted' /\ NoDoubleBooking'
<1> DEFINE ids == tasks[t].assignedGPUs
           old == workers[w]
<1>1. /\ t \in DOMAIN tasks
      /\ tasks' = [tasks EXCEPT ![t].status = status]
      /\ \/ workers' = [workers EXCEPT ![w] = DropTask(@, t, ids)]
         \/ UNCHANGED workers
  BY DEF ReportEnd
<1>2. DOMAIN tasks' = DOMAIN tasks
      /\ \A u \in DOMAIN tasks : tasks'[u].assignedGPUs = tasks[u].assignedGPUs
  BY <1>1 DEF OInv, IInv, TypeOK, TaskRecord
<1>3. CASE UNCHANGED workers
  BY <1>2, <1>3, NothingBooked
<1>4. CASE workers' = [workers EXCEPT ![w] = DropTask(@, t, ids)]
  <2>1. old \in WorkerRecord /\ old.gpus \in Seq(GPU)
    BY DEF OInv, IInv, TypeOK, WorkerRecord
  <2>2. /\ DOMAIN workers' = DOMAIN workers
        /\ workers'[w].gpus = MarkGPUs(old.gpus, ids, TRUE)
        /\ workers'[w].tasks = old.tasks \ {t}
        /\ \A v \in DOMAIN workers \ {w} : workers'[v] = workers[v]
    BY <1>4 DEF DropTask
  <2>3. \A v \in DOMAIN workers : \A u \in workers[v].tasks : u \in DOMAIN tasks
    BY DEF OInv, IInv, HeldByAssignee
  <2>4. \A u \in old.tasks \ {t} : \A id \in ids : id \notin tasks[u].assignedGPUs
    BY DEF OInv, NoDoubleBooking
  <2> HIDE DEF ids
  <2>5. GPUsAccounted'
    <3>1. SUFFICES ASSUME NEW v \in DOMAIN workers', NEW i \in DOMAIN workers'[v].gpus
                   PROVE  workers'[v].gpus[i].available <=>
                            \A u \in workers'[v].tasks :
                               workers'[v].gpus[i].id \notin tasks'[u].assignedGPUs
      BY DEF GPUsAccounted
    <3>2. CASE v # w
      BY <3>2, <1>2, <2>2, <2>3 DEF OInv, GPUsAccounted
    <3>3. CASE v = w
      <4>1. i \in DOMAIN old.gpus /\ old.gpus[i] \in GPU
        BY <3>3, <2>1, <2>2 DEF MarkGPUs
      <4>2. workers'[v].gpus[i].id = old.gpus[i].id
        BY <4>1, <3>3, <2>2 DEF MarkGPUs, GPU
      <4>3. old.gpus[i].available <=> \A u \in old.tasks : old.gpus[i].id \notin tasks[u].assignedGPUs
        BY <4>1 DEF OInv, GPUsAccounted
      <4>4. (\A u \in workers'[v].tasks : old.gpus[i].id \notin tasks'[u].assignedGPUs)
               <=> \A u \in old.tasks \ {t} : old.gpus[i].id \notin tasks[u].assignedGPUs
        BY <3>3, <1>2, <2>2, <2>3
      <4>5. CASE old.gpus[i].id \in ids
        <5>1. workers'[v].gpus[i].available = TRUE
          BY <4>1, <4>5, <3>3, <2>2 DEF MarkGPUs, GPU
        <5> QED  BY <5>1, <4>2, <4>4, <4>5, <2>4
      <4>6. CASE old.gpus[i].id \notin ids
        <5>1. workers'[v].gpus[i] = old.gpus[i]
          BY <4>1, <4>6, <3>3, <2>2 DEF MarkGPUs
        <5> QED  BY <5>1, <4>3, <4>4, <4>6 DEF ids
      <4> QED  BY <4>5, <4>6
    <3> QED  BY <3>2, <3>3
  <2>6. NoDoubleBooking'
    <3>1. \A v \in DOMAIN workers : workers'[v].tasks \subseteq workers[v].tasks
      BY <2>2
    <3> QED  BY <3>1, <1>2, <2>2, <2>3 DEF OInv, NoDoubleBooking
  <2> QED  BY <2>5, <2>6
<1> QED  BY <1>1, <1>3, <1>4

\* Every step preserves OInv.
LEMMA OwnerNextOInv == OInv /\ [OwnerNext]_vars => OInv'
<1> SUFFICES ASSUME OInv, [OwnerNext]_vars PROVE OInv'
  OBVIOUS
<1>1. IInv'
  BY OwnerNextIsNext, NextIInv DEF OInv
<1>2. GPUsAccounted' /\ NoDoubleBooking'
  <2>1. CASE Register
    BY <2>1, RegisterAccounts
  <2>2. CASE \E t \in TaskIds : AddTask(t)
    <3>1. UNCHANGED workers /\ DOMAIN tasks \subseteq DOMAIN tasks'
          /\ \A u \in DOMAIN tasks : tasks'[u] = tasks[u]
      BY <2>2 DEF AddTask, Put
    <3> QED  BY <3>1, NothingBooked
  <2>3. CASE \E w \in WorkerIds : RequestTask(w)
    <3>1. UNCHANGED <<workers, tasks>>
      BY <2>3, RequestTaskIdle DEF OInv, vars, tables
    <3> QED  BY <3>1, NothingBooked
  <2>4. CASE \E w \in WorkerIds, t \in TaskIds : OwnReport(w, t)
    <3>1. PICK w \in DOMAIN workers, t \in TaskIds, status \in TaskStatus :
             /\ t \in workers[w].tasks
             /\ ReportProgress(w, t, status) \/ ReportEnd(w, t, status)
      BY <2>4, SchedulerAssumptions DEF OwnReport
    <3>2. CASE ReportProgress(w, t, status)
      <4>1. UNCHANGED workers /\ t \in DOMAIN tasks
            /\ tasks' = [tasks EXCEPT ![t].status = status]
        BY <3>2 DEF ReportProgress
      <4>2. DOMAIN tasks' = DOMAIN tasks
            /\ \A u \in DOMAIN tasks : tasks'[u].assignedGPUs = tasks[u].assignedGPUs
        BY <4>1 DEF OInv, IInv, TypeOK, TaskRecord
      <4> QED  BY <4>1, <4>2, NothingBooked
    <3>3. CASE ReportEnd(w, t, status)
      BY <3>1, <3>3, ReportEndAccounts
    <3> QED  BY <3>1, <3>2, <3>3
  <2>5. CASE Pass
    <3>1. CASE AssignSkip \/ AssignDone
      <4>1. UNCHANGED <<workers, tasks>>
        BY <3>1 DEF AssignSkip, AssignDone, tables
      <4> QED  BY <4>1, NothingBooked
    <3>2. CASE \E w \in WorkerIds : AssignTo(w)
      BY <3>2, AssignToAccounts
    <3> QED  BY <2>5, <3>1, <3>2 DEF Pass
  <2>6. CASE UNCHANGED vars
    <3>1. UNCHANGED <<workers, tasks>>
      BY <2>6 DEF vars, tables
    <3> QED  BY <3>1, NothingBooked
  <2> QED  BY <2>1, <2>2, <2>3, <2>4, <2>5, <2>6 DEF OwnerNext
<1> QED  BY <1>1, <1>2 DEF OInv

\* NewScheduler establishes OInv.
LEMMA InitOInv == Init => OInv
<1> SUFFICES ASSUME Init PROVE OInv
  OBVIOUS
<1>1. DOMAIN workers = {}
  BY DEF Init
<1> QED  BY <1>1, InitIInv DEF OInv, GPUsAccounted, NoDoubleBooking

\* With workers that report on the tasks they hold, a GPU's Available flag is
\* false exactly while a held task was given that GPU: ReportTaskStatus and
\* assignPendingTasks neither leak a GPU nor free one that is in use.
THEOREM EveryGPUAccounted == OwnerSpec => []GPUsAccounted
<1>1. OInv => GPUsAccounted
  BY DEF OInv
<1> QED  BY <1>1, InitOInv, OwnerNextOInv, PTL DEF OwnerSpec

\* With such workers, no two tasks that a worker holds were given the same GPU.
THEOREM NoGPUSharedByTasks == OwnerSpec => []NoDoubleBooking
<1>1. OInv => NoDoubleBooking
  BY DEF OInv
<1> QED  BY <1>1, InitOInv, OwnerNextOInv, PTL DEF OwnerSpec

\* A worker that holds nothing could take any task that it has enough GPUs for,
\* under either policy, and therefore no such task waits.
THEOREM IdleWorkerTakesAll == OwnerSpec => []IdleWorkerLeavesNothing
<1>1. OInv => IdleWorkerLeavesNothing
  <2> SUFFICES ASSUME OInv, NEW w \in DOMAIN workers, mu = "free", workers[w].tasks = {},
                      NEW i \in DOMAIN pendingTasks
               PROVE  ~Fits(w, pendingTasks[i])
    BY DEF IdleWorkerLeavesNothing
  <2> DEFINE t == pendingTasks[i]
             gpus == workers[w].gpus
  <2>1. workers[w].status = "IDLE"
    BY DEF OInv, IInv, IdleIffNothingHeld
  <2>2. \A k \in DOMAIN gpus : gpus[k].available
    BY DEF OInv, GPUsAccounted
  <2>3. Candidates(workloadPolicy, workers, Demand[t]) = {}
    BY DEF OInv, IInv, WorkConserving, Suitable
  <2>4. ~(Cardinality(FittingGPUs(gpus, Demand[t])) >= Demand[t].requiredGPUs)
    BY <2>1, <2>3 DEF Candidates, Accepts
  <2>5. FittingGPUs(gpus, Demand[t]) = {k \in DOMAIN gpus : gpus[k].memoryMB >= Demand[t].minGPUMemory}
    BY <2>2 DEF FittingGPUs
  <2> QED  BY <2>4, <2>5 DEF Fits
<1> QED  BY <1>1, InitOInv, OwnerNextOInv, PTL DEF OwnerSpec
==============================================================================
