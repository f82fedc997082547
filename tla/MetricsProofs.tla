---------------------------- MODULE MetricsProofs ----------------------------
(***************************************************************************)
(* Proofs about SchedulerMetrics, over any number of lives of the server:  *)
(* the gauge of pending tasks from one measurement to the next, and the    *)
(* counters from one load to the next.  Where the lock that updateMetrics  *)
(* asks for is not granted no hook returns, and the theorems say so.       *)
(***************************************************************************)
EXTENDS SchedulerMetrics, PersistenceProofs

\* Below the hooks, the server of SchedulerPersistence takes the steps.
LEMMA MNextIsPNext == [MNext]_mvars => [PNext]_pvars
<1> SUFFICES ASSUME [MNext]_mvars PROVE [PNext]_pvars
  OBVIOUS
<1>1. CASE MServe
  <2>1. ASSUME MRegister PROVE Register
    BY <2>1 DEF MRegister
  <2>2. ASSUME NEW t \in TaskIds, MAddTask(t) PROVE AddTask(t)
    BY <2>2 DEF MAddTask
  <2>3. ASSUME NEW w \in WorkerIds, MRequestTask(w) PROVE RequestTask(w)
    BY <2>3 DEF MRequestTask
  <2>4. ASSUME NEW w \in WorkerIds, NEW t \in TaskIds, NEW status \in Reported, MReport(w, t, status)
        PROVE  Report
    BY <2>4 DEF MReport, Report
  <2>5. ASSUME MPass PROVE Pass
    BY <2>5 DEF MPass
  <2>6. Serve
    BY <1>1, <2>1, <2>2, <2>3, <2>4, <2>5 DEF MServe, Serve
  <2> QED  BY <2>6 DEF PNext
<1>2. CASE ZeroGauges
  BY <1>2 DEF ZeroGauges
<1>3. CASE MEnablePersistence \/ MLoadState \/ MDown
  BY <1>3 DEF MEnablePersistence, MLoadState, MDown, PNext
<1>4. CASE MOther
  BY <1>4 DEF MOther, PNext
<1>5. CASE UNCHANGED mvars
  BY <1>5 DEF mvars
<1> QED  BY <1>1, <1>2, <1>3, <1>4, <1>5 DEF MNext

\* The invariant of the tables and the database holds below the hooks.
LEMMA MInvariance == MSpec => []PInv
<1>1. MInit => PInv
  BY InitPInv DEF MInit
<1>2. PInv /\ [MNext]_mvars => PInv'
  BY MNextIsPNext, NextPInv
<1> QED  BY <1>1, <1>2, PTL DEF MSpec

-----------------------------------------------------------------------------
(* The gauge of pending tasks.                                             *)

\* The inductive invariant of the gauge.
BInv == gauges.pending \in Nat /\ MeasuredHidesNoTask

\* A new measurement shows the queue as it is.
LEMMA MeasuredPending ==
    ASSUME NEW ts, NEW queue \in Seq(TaskIds), NEW ws
    PROVE  Measured(ts, queue, ws).pending = Len(queue) /\ Len(queue) \in Nat
  BY DEF Measured

\* Taking a task from the queue shortens it, as RequestTask and the iterations
\* of assignPendingTasks do.
LEMMA AssigningShortens ==
    ASSUME TInv, Pass \/ (NestedRLockGranted /\ \E w \in WorkerIds : RequestTask(w))
    PROVE  Len(pendingTasks') <= Len(pendingTasks)
<1>1. /\ pendingTasks \in Seq(DOMAIN tasks) /\ Len(pendingTasks) \in Nat
      /\ DOMAIN pendingTasks = 1..Len(pendingTasks)
  BY DEF TInv, TypeOK
<1>2. ASSUME NEW i \in DOMAIN pendingTasks, pendingTasks' = Dequeue(pendingTasks, i)
      PROVE  Len(pendingTasks') <= Len(pendingTasks)
  BY <1>1, <1>2, RemoveAtProps DEF Dequeue
<1>3. CASE AssignSkip \/ AssignDone
  BY <1>1, <1>3 DEF AssignSkip, AssignDone, tables
<1>4. CASE \E w \in WorkerIds : AssignTo(w)
  <2>1. scan \in DOMAIN pendingTasks /\ pendingTasks' = Dequeue(pendingTasks, scan)
    BY <1>1, <1>4 DEF AssignTo, TInv, TypeOK
  <2> QED  BY <2>1, <1>2
<1>5. CASE NestedRLockGranted /\ \E w \in WorkerIds : RequestTask(w)
  <2>1. UNCHANGED vars \/ \E i \in DOMAIN pendingTasks : pendingTasks' = Dequeue(pendingTasks, i)
    BY <1>5 DEF RequestTask, AssignOnRequest
  <2> QED  BY <2>1, <1>1, <1>2 DEF vars, tables
<1> QED  BY <1>3, <1>4, <1>5 DEF Pass

\* From any measurement until main() sets the gauges to zero or LoadState
\* replaces the queue, scheduler_tasks_pending never shows fewer tasks than
\* wait in pendingTasks, although assignPendingTasks runs after the hooks.
THEOREM MeasuredGaugeHidesNoTask ==
    ASSUME NestedRLockGranted
    PROVE  MSpec => []MeasuredHidesNoTask
<1>1. MInit => BInv
  <2> SUFFICES ASSUME MInit PROVE BInv
    OBVIOUS
  <2>1. pendingTasks = <<>> /\ gauges.pending = 0
    BY DEF MInit, PInit, Init, NoGauges
  <2>2. gauges.pending = Len(pendingTasks) /\ Len(pendingTasks) = 0
    BY <2>1
  <2> QED  BY <2>2 DEF BInv, MeasuredHidesNoTask
<1>2. PInv /\ BInv /\ [MNext]_mvars => BInv'
  <2> SUFFICES ASSUME PInv, BInv, [MNext]_mvars PROVE BInv'
    OBVIOUS
  <2> USE DEF BInv, MeasuredHidesNoTask
  <2>1. TInv /\ TInv'
    BY MNextIsPNext, NextPInv DEF PInv
  <2>2. pendingTasks \in Seq(TaskIds) /\ pendingTasks' \in Seq(TaskIds)
        /\ Len(pendingTasks) \in Nat /\ Len(pendingTasks') \in Nat
    BY <2>1 DEF TInv, TypeOK
  <2>3. ASSUME NEW ts, NEW ws, Measure(ts, pendingTasks, ws), Len(pendingTasks') <= Len(pendingTasks)
        PROVE  BInv'
    <3>1. gauges'.pending = Len(pendingTasks)
      BY <2>2, <2>3, MeasuredPending DEF Measure
    <3> QED  BY <3>1, <2>2, <2>3
  <2>4. ASSUME UNCHANGED <<gauges, measured>>, Len(pendingTasks') <= Len(pendingTasks) PROVE BInv'
    BY <2>2, <2>4
  <2>5. ASSUME gauges'.pending \in Nat, measured' = FALSE PROVE BInv'
    BY <2>5
  <2>6. CASE MServe
    <3>1. CASE MRegister
      <4>1. Measure(tasks, pendingTasks, workers') /\ UNCHANGED pendingTasks
        BY <3>1 DEF MRegister, Register, RegisterWorker
      <4> QED  BY <4>1, <2>2, <2>3
    <3>2. ASSUME NEW t \in TaskIds, MAddTask(t) PROVE BInv'
      <4>1. gauges'.pending = Len(pendingTasks')
        BY <2>2, <3>2, MeasuredPending DEF MAddTask, Measure
      <4> QED  BY <4>1, <2>2
    <3>3. ASSUME NEW w \in WorkerIds, MRequestTask(w) PROVE BInv'
      <4>1. Len(pendingTasks') <= Len(pendingTasks)
        BY <3>3, <2>1, AssigningShortens DEF MRequestTask
      <4>2. UNCHANGED <<gauges, measured>> \/ Measure(tasks', pendingTasks, workers)
        BY <3>3 DEF MRequestTask
      <4> QED  BY <4>1, <4>2, <2>3, <2>4
    <3>4. ASSUME NEW w \in WorkerIds, NEW t \in TaskIds, NEW status \in Reported, MReport(w, t, status)
          PROVE  BInv'
      <4>1. UNCHANGED pendingTasks
        BY <3>4 DEF MReport, ReportProgress, ReportEnd
      <4>2. UNCHANGED <<gauges, measured>> \/ Measure(tasks', pendingTasks, workers)
        BY <3>4 DEF MReport
      <4> QED  BY <4>1, <4>2, <2>2, <2>3, <2>4
    <3>5. CASE MPass
      <4>1. Len(pendingTasks') <= Len(pendingTasks)
        BY <3>5, <2>1, AssigningShortens DEF MPass
      <4> QED  BY <4>1, <3>5, <2>4 DEF MPass
    <3> QED  BY <2>6, <3>1, <3>2, <3>3, <3>4, <3>5 DEF MServe
  <2>7. CASE ZeroGauges
    BY <2>5, <2>7 DEF ZeroGauges, NoGauges
  <2>8. CASE MEnablePersistence \/ MOther
    <3>1. UNCHANGED <<pendingTasks, gauges, measured>>
      BY <2>8 DEF MEnablePersistence, MOther, EnablePersistence, Boot, LoadFails, AutoSaveTick, Signal,
                  SaveBegin, SaveWorker, SaveTask, SavePendingTask, SaveDone, SaveFails, StopManager,
                  vars, tables
    <3> QED  BY <3>1, <2>2, <2>4
  <2>9. CASE MLoadState
    BY <2>5, <2>9 DEF MLoadState
  <2>10. CASE MDown
    <3>1. gauges'.pending = 0 /\ pendingTasks' = <<>>
      BY <2>10 DEF MDown, NoGauges, Exit, Crash, Down
    <3> QED  BY <3>1
  <2>11. CASE UNCHANGED mvars
    <3>1. UNCHANGED <<pendingTasks, gauges, measured>>
      BY <2>11 DEF mvars, pvars, vars, tables
    <3> QED  BY <3>1, <2>2, <2>4
  <2> QED  BY <2>6, <2>7, <2>8, <2>9, <2>10, <2>11 DEF MNext
<1>3. BInv => MeasuredHidesNoTask
  BY DEF BInv
<1> QED  BY <1>1, <1>2, <1>3, MInvariance, PTL DEF MSpec

-----------------------------------------------------------------------------
(* The counters.                                                           *)

\* The tasks that ended with a status and were released.
Ended(status) == OverIn(tasks, workers, status)

\* The counters, with what was there at the last load, are what the tables say.
CountersAgree ==
    /\ counters.total + carried.total = Cardinality(DOMAIN tasks)
    /\ counters.completed + carried.completed = Cardinality(Ended("COMPLETED"))
    /\ counters.failed + carried.failed = Cardinality(Ended("FAILED"))

\* A held task is in the table, is held once, and does not wait.
HoldersApart ==
    \A w \in DOMAIN workers : \A t \in workers[w].tasks :
        /\ t \in DOMAIN tasks
        /\ \A i \in DOMAIN pendingTasks : pendingTasks[i] # t
        /\ \A v \in DOMAIN workers : t \in workers[v].tasks => v = w

\* A waiting task has not ended, so that no assignment takes an ended task back.
WaitingIsPending == \A i \in DOMAIN pendingTasks : tasks[pendingTasks[i]].status = "PENDING"

\* The counters and what is added to them are numbers.
CountersTyped ==
    /\ counters \in [total : Nat, completed : Nat, failed : Nat]
    /\ carried \in [total : Int, completed : Int, failed : Int]

\* The inductive invariant of the counters.
CInv ==
    /\ IsFiniteSet(DOMAIN tasks)
    /\ HoldersApart
    /\ CountersTyped
    /\ owned => WaitingIsPending /\ CountersAgree

\* Finitely many tasks are stored.
RowsCountable == IsFiniteSet(DOMAIN db.tasks)

\* The tasks that have ended can be counted.
LEMMA EndedFinite ==
    ASSUME IsFiniteSet(DOMAIN tasks), NEW status
    PROVE  IsFiniteSet(Ended(status)) /\ Cardinality(Ended(status)) \in Nat
<1>1. Ended(status) \in SUBSET DOMAIN tasks
  BY DEF Ended, OverIn
<1>2. IsFiniteSet(Ended(status))
  BY <1>1, FS_Subset
<1> QED  BY <1>2, FS_CardinalityType

\* A step of a hook that counts nothing.
LEMMA NothingEnds ==
    ASSUME CountersAgree, UNCHANGED <<counters, carried>>, DOMAIN tasks' = DOMAIN tasks,
           \A status \in Terminal : Ended(status)' = Ended(status)
    PROVE  CountersAgree'
<1>1. Ended("COMPLETED")' = Ended("COMPLETED") /\ Ended("FAILED")' = Ended("FAILED")
  BY DEF Terminal
<1> QED  BY <1>1 DEF CountersAgree

\* A step that changes no table of the service.
LEMMA TablesKept ==
    ASSUME CInv, UNCHANGED <<tables, counters, since>>
    PROVE  CInv'
  BY DEF CInv, CountersAgree, CountersTyped, HoldersApart, WaitingIsPending, Ended, OverIn, tables, since

\* Registering a worker ends no task.
LEMMA RegisterCInv ==
    ASSUME CInv, MRegister
    PROVE  CInv'
<1>0. PICK req \in ExplicitIds \cup {NoWorker}, gpus \in GPULists : RegisterWorker(req, gpus)
  BY DEF MRegister, Register
<1> DEFINE id == IF req = NoWorker THEN GeneratedId ELSE req
<1>1. /\ id \notin DOMAIN workers
      /\ workers' = Put(workers, id, [gpus |-> gpus, status |-> "IDLE", tasks |-> {}])
      /\ UNCHANGED <<tasks, pendingTasks, counters, since>>
  BY <1>0 DEF RegisterWorker, MRegister
<1> HIDE DEF id
<1>2. /\ DOMAIN workers' = DOMAIN workers \cup {id}
      /\ workers'[id].tasks = {}
      /\ \A w \in DOMAIN workers : workers'[w] = workers[w]
  BY <1>1 DEF Put
<1>3. \A status : Ended(status)' = Ended(status)
  BY <1>1, <1>2 DEF Ended, OverIn
<1>4. CountersAgree => CountersAgree'
  BY <1>1, <1>3, NothingEnds DEF since
<1>5. HoldersApart'
  <2>1. \A w \in DOMAIN workers' : \A t \in workers'[w].tasks : w \in DOMAIN workers /\ t \in workers[w].tasks
    BY <1>2
  <2> QED  BY <2>1, <1>1 DEF CInv, HoldersApart
<1> QED  BY <1>1, <1>4, <1>5 DEF CInv, CountersTyped, WaitingIsPending, since

\* A new task is counted once and has not ended.
LEMMA AddTaskCInv ==
    ASSUME TInv, CInv, NEW t \in TaskIds, MAddTask(t)
    PROVE  CInv'
<1> DEFINE new == [status |-> "PENDING", workerID |-> NoWorker, assignedGPUs |-> {}]
<1>1. /\ t \notin DOMAIN tasks
      /\ tasks' = Put(tasks, t, new)
      /\ pendingTasks' = Append(pendingTasks, t)
      /\ UNCHANGED <<workers, owned, carried>>
      /\ counters' = [counters EXCEPT !.total = @ + 1]
  BY DEF MAddTask, AddTask, since
<1>2. /\ DOMAIN tasks' = DOMAIN tasks \cup {t}
      /\ tasks'[t].status = "PENDING"
      /\ \A u \in DOMAIN tasks : tasks'[u] = tasks[u]
  BY <1>1 DEF Put
<1>3. IsFiniteSet(DOMAIN tasks') /\ Cardinality(DOMAIN tasks') = Cardinality(DOMAIN tasks) + 1
      /\ Cardinality(DOMAIN tasks) \in Nat
  BY <1>1, <1>2, FS_AddElement, FS_CardinalityType DEF CInv
<1>4. /\ CountersTyped'
      /\ counters'.total = counters.total + 1
      /\ counters'.completed = counters.completed /\ counters'.failed = counters.failed
  BY <1>1 DEF CInv, CountersTyped
<1>5. ASSUME NEW status \in Terminal PROVE Ended(status)' = Ended(status)
  <2>1. status # "PENDING"
    BY DEF Terminal
  <2> QED  BY <1>1, <1>2, <2>1 DEF Ended, OverIn
<1>6. Ended("COMPLETED")' = Ended("COMPLETED") /\ Ended("FAILED")' = Ended("FAILED")
  BY <1>5 DEF Terminal
<1>7. CountersAgree => CountersAgree'
  BY <1>1, <1>3, <1>4, <1>6 DEF CInv, CountersAgree, CountersTyped
<1>8. /\ Len(pendingTasks) \in Nat
      /\ DOMAIN pendingTasks' = 1..(Len(pendingTasks) + 1)
      /\ DOMAIN pendingTasks = 1..Len(pendingTasks)
      /\ pendingTasks'[Len(pendingTasks) + 1] = t
      /\ \A i \in 1..Len(pendingTasks) : pendingTasks'[i] = pendingTasks[i]
                                         /\ pendingTasks[i] \in DOMAIN tasks
  BY <1>1 DEF TInv, TypeOK
<1>9. ASSUME NEW i \in DOMAIN pendingTasks'
      PROVE  \/ pendingTasks'[i] = t
             \/ i \in DOMAIN pendingTasks /\ pendingTasks'[i] = pendingTasks[i] /\ pendingTasks[i] \in DOMAIN tasks
  <2>1. i \in 1..Len(pendingTasks) \/ i = Len(pendingTasks) + 1
    BY <1>8
  <2> QED  BY <2>1, <1>8
<1>10. WaitingIsPending => WaitingIsPending'
  BY <1>2, <1>9 DEF WaitingIsPending
<1>11. HoldersApart'
  BY <1>1, <1>2, <1>9 DEF CInv, HoldersApart
<1> QED  BY <1>1, <1>3, <1>4, <1>7, <1>10, <1>11 DEF CInv

\* An assignment, by the pass or by RequestTask, takes no ended task back.
LEMMA GivenCInv ==
    ASSUME TInv, QueuedNotAssigned, CInv, UNCHANGED <<counters, since>>,
           NEW v \in DOMAIN workers, NEW w, NEW ids, NEW k \in DOMAIN pendingTasks,
           tasks' = [tasks EXCEPT ![pendingTasks[k]] = Assigned(@, w, ids)],
           workers' = [workers EXCEPT ![v] = TakeTask(@, pendingTasks[k], ids)],
           pendingTasks' = Dequeue(pendingTasks, k)
    PROVE  CInv'
<1> DEFINE t == pendingTasks[k]
           n == Len(pendingTasks)
<1>1. /\ pendingTasks \in Seq(DOMAIN tasks) /\ n \in Nat /\ DOMAIN pendingTasks = 1..n /\ k \in 1..n
      /\ t \in DOMAIN tasks /\ tasks[t] \in TaskRecord /\ workers[v] \in WorkerRecord
  BY DEF TInv, TypeOK
<1>2. /\ DOMAIN tasks' = DOMAIN tasks
      /\ tasks'[t].status = "RUNNING"
      /\ \A u \in DOMAIN tasks \ {t} : tasks'[u] = tasks[u]
  BY <1>1 DEF Assigned, TaskRecord
<1>3. /\ DOMAIN workers' = DOMAIN workers
      /\ workers'[v].tasks = workers[v].tasks \cup {t}
      /\ \A u \in DOMAIN workers \ {v} : workers'[u] = workers[u]
  BY <1>1 DEF TakeTask, WorkerRecord
<1>4. ASSUME NEW i \in DOMAIN pendingTasks'
      PROVE  \E j \in DOMAIN pendingTasks : j # k /\ pendingTasks'[i] = pendingTasks[j]
  <2>1. i \in 1..(n - 1) /\ pendingTasks'[i] = IF i < k THEN pendingTasks[i] ELSE pendingTasks[i + 1]
    BY <1>1, RemoveAtProps DEF Dequeue
  <2>2. CASE i < k
    BY <1>1, <2>1, <2>2
  <2>3. CASE ~(i < k)
    <3>1. i + 1 \in 1..n /\ i + 1 # k
      BY <1>1, <2>1, <2>3
    <3> QED  BY <1>1, <2>1, <2>3, <3>1
  <2> QED  BY <2>2, <2>3
<1>5. \A i \in DOMAIN pendingTasks' :
         pendingTasks'[i] # t /\ \E j \in DOMAIN pendingTasks : pendingTasks'[i] = pendingTasks[j]
  BY <1>4 DEF QueuedNotAssigned
<1>6. \A u \in DOMAIN workers : t \notin workers[u].tasks
  BY DEF CInv, HoldersApart
<1> HIDE DEF t, n
<1>7. HoldersApart'
  <2> SUFFICES ASSUME NEW u \in DOMAIN workers, NEW s \in workers'[u].tasks
               PROVE  /\ s \in DOMAIN tasks
                      /\ \A i \in DOMAIN pendingTasks' : pendingTasks'[i] # s
                      /\ \A x \in DOMAIN workers : s \in workers'[x].tasks => x = u
    BY <1>2, <1>3 DEF HoldersApart
  <2>1. CASE s = t
    BY <2>1, <1>1, <1>3, <1>5, <1>6
  <2>2. CASE s # t
    <3>1. s \in workers[u].tasks /\ \A x \in DOMAIN workers : s \in workers'[x].tasks => s \in workers[x].tasks
      BY <2>2, <1>3
    <3> QED  BY <3>1, <1>5 DEF CInv, HoldersApart
  <2> QED  BY <2>1, <2>2
<1>8. ASSUME WaitingIsPending PROVE WaitingIsPending'
  <2> SUFFICES ASSUME NEW i \in DOMAIN pendingTasks' PROVE tasks'[pendingTasks'[i]].status = "PENDING"
    BY DEF WaitingIsPending
  <2>1. PICK j \in DOMAIN pendingTasks : pendingTasks'[i] = pendingTasks[j]
    BY <1>5
  <2>2. pendingTasks[j] # t /\ pendingTasks[j] \in DOMAIN tasks
    BY <2>1, <1>1, <1>5
  <2> QED  BY <2>1, <2>2, <1>2, <1>8 DEF WaitingIsPending
<1>9. ASSUME WaitingIsPending, CountersAgree PROVE CountersAgree'
  <2>1. tasks[t].status = "PENDING"
    BY <1>9 DEF WaitingIsPending, t
  <2>2. \A s \in Terminal : Ended(s)' = Ended(s)
    <3> SUFFICES ASSUME NEW s \in Terminal, NEW u \in DOMAIN tasks
                 PROVE  u \in Ended(s)' <=> u \in Ended(s)
      BY <1>2 DEF Ended, OverIn
    <3>1. s # "PENDING" /\ s # "RUNNING"
      BY DEF Terminal
    <3>2. CASE u = t
      BY <3>1, <3>2, <2>1, <1>2 DEF Ended, OverIn
    <3>3. CASE u # t
      <4>1. (\A x \in DOMAIN workers' : u \notin workers'[x].tasks)
               <=> \A x \in DOMAIN workers : u \notin workers[x].tasks
        BY <3>3, <1>3
      <4> QED  BY <4>1, <3>3, <1>2 DEF Ended, OverIn
    <3> QED  BY <3>2, <3>3
  <2> QED  BY <2>2, <1>2, <1>9, NothingEnds DEF since
<1> QED  BY <1>2, <1>7, <1>8, <1>9 DEF CInv, CountersTyped, since

\* Polling that is refused changes nothing; polling that assigns counts nothing.
LEMMA RequestTaskCInv ==
    ASSUME NestedRLockGranted, TInv, CInv, NEW req \in WorkerIds, MRequestTask(req)
    PROVE  CInv'
<1>1. RequestTask(req) /\ UNCHANGED <<counters, since>>
  BY DEF MRequestTask
<1>2. CASE UNCHANGED vars
  BY <1>1, <1>2, TablesKept DEF vars
<1>3. ASSUME NEW i \in DOMAIN pendingTasks, AssignOnRequest(req, i) PROVE CInv'
  <2>1. QueuedNotAssigned /\ req \in DOMAIN workers
    BY <1>1 DEF TInv, RequestTask
  <2>2. PICK w \in FirstChoices(workloadPolicy, workers, Demand[pendingTasks[i]]) :
           LET ids == ChosenGPUs(workers[w], Demand[pendingTasks[i]]) IN
           /\ tasks' = [tasks EXCEPT ![pendingTasks[i]] = Assigned(@, w, ids)]
           /\ workers' = [workers EXCEPT ![req] = TakeTask(@, pendingTasks[i], ids)]
           /\ pendingTasks' = Dequeue(pendingTasks, i)
    BY <1>3 DEF AssignOnRequest
  <2> QED  BY <1>1, <2>1, <2>2, GivenCInv
<1> QED  BY <1>1, <1>2, <1>3 DEF RequestTask

\* The pass takes no ended task back.
LEMMA PassCInv ==
    ASSUME NestedRLockGranted, TInv, CInv, MPass
    PROVE  CInv'
<1>1. Pass /\ UNCHANGED <<counters, since>>
  BY DEF MPass
<1>2. CASE AssignSkip \/ AssignDone
  BY <1>1, <1>2, TablesKept DEF AssignSkip, AssignDone
<1>3. ASSUME NEW w \in WorkerIds, AssignTo(w) PROVE CInv'
  <2> DEFINE ids == ChosenGPUs(workers[w], Demand[pendingTasks[scan]])
  <2>1. /\ w \in DOMAIN workers /\ scan \in DOMAIN pendingTasks /\ QueuedNotAssigned
        /\ tasks' = [tasks EXCEPT ![pendingTasks[scan]] = Assigned(@, w, ids)]
        /\ workers' = [workers EXCEPT ![w] = TakeTask(@, pendingTasks[scan], ids)]
        /\ pendingTasks' = Dequeue(pendingTasks, scan)
    BY <1>3 DEF AssignTo, FirstChoices, Candidates, TInv, TypeOK
  <2> HIDE DEF ids
  <2> QED  BY <1>1, <2>1, GivenCInv
<1> QED  BY <1>1, <1>2, <1>3 DEF Pass

\* A report: an end of a held task is counted once, and nothing else is.
LEMMA ReportCInv ==
    ASSUME NestedRLockGranted, TInv, CInv, NEW w \in WorkerIds, NEW t \in TaskIds,
           NEW status \in Reported, MReport(w, t, status)
    PROVE  CInv'
<1> USE SchedulerAssumptions
<1>1. /\ w \in DOMAIN workers /\ t \in DOMAIN tasks
      /\ tasks' = [tasks EXCEPT ![t].status = status]
      /\ \/ status \notin Terminal /\ UNCHANGED <<workers, counters>>
         \/ /\ status \in Terminal /\ counters' = Counted(status)
            /\ workers' = [workers EXCEPT ![w] = DropTask(@, t, tasks[t].assignedGPUs)]
      /\ UNCHANGED <<pendingTasks, carried>>
      /\ owned' = (owned /\ t \in workers[w].tasks)
  BY DEF MReport, ReportProgress, ReportEnd
<1>2. /\ DOMAIN tasks' = DOMAIN tasks
      /\ tasks'[t].status = status
      /\ \A u \in DOMAIN tasks \ {t} : tasks'[u] = tasks[u]
  BY <1>1 DEF TInv, TypeOK, TaskRecord
<1>3. /\ DOMAIN workers' = DOMAIN workers
      /\ \A v \in DOMAIN workers : workers'[v].tasks = IF v = w /\ status \in Terminal
                                                        THEN workers[v].tasks \ {t} ELSE workers[v].tasks
  <2>1. workers[w] \in WorkerRecord
    BY <1>1 DEF TInv, TypeOK
  <2>2. CASE status \notin Terminal
    BY <1>1, <2>2
  <2>3. CASE status \in Terminal
    <3>1. workers' = [workers EXCEPT ![w] = DropTask(@, t, tasks[t].assignedGPUs)]
      BY <1>1, <2>3
    <3>2. DropTask(workers[w], t, tasks[t].assignedGPUs).tasks = workers[w].tasks \ {t}
      BY DEF DropTask
    <3> QED  BY <1>1, <2>3, <3>1, <3>2
  <2> QED  BY <2>2, <2>3
<1>4. HoldersApart'
  <2>1. \A v \in DOMAIN workers : workers'[v].tasks \subseteq workers[v].tasks
    BY <1>3
  <2> QED  BY <2>1, <1>1, <1>2, <1>3 DEF CInv, HoldersApart
<1>5. ASSUME status \in Terminal
      PROVE  /\ CountersTyped'
             /\ counters'.total = counters.total
             /\ counters'.completed = IF status = "COMPLETED" THEN counters.completed + 1
                                                              ELSE counters.completed
             /\ counters'.failed = IF status = "FAILED" THEN counters.failed + 1 ELSE counters.failed
  <2> DEFINE c == IF status = "COMPLETED" THEN counters.completed + 1 ELSE counters.completed
             f == IF status = "FAILED" THEN counters.failed + 1 ELSE counters.failed
  <2>1. counters \in [total : Nat, completed : Nat, failed : Nat]
    BY DEF CInv, CountersTyped
  <2>2. c \in Nat /\ f \in Nat /\ counters.total \in Nat
    BY <2>1
  <2>3. counters' = [total |-> counters.total, completed |-> c, failed |-> f]
    BY <2>1, <1>1, <1>5 DEF Counted
  <2> HIDE DEF c, f
  <2>4. /\ counters' \in [total : Nat, completed : Nat, failed : Nat]
        /\ counters'.total = counters.total /\ counters'.completed = c /\ counters'.failed = f
    BY <2>2, <2>3
  <2> QED  BY <2>4, <1>1 DEF c, f, CInv, CountersTyped
<1>6. CountersTyped'
  <2>1. status \notin Terminal => UNCHANGED counters
    BY <1>1
  <2> QED  BY <2>1, <1>1, <1>5 DEF CInv, CountersTyped
<1>7. ASSUME owned' PROVE WaitingIsPending' /\ CountersAgree'
  <2>1. /\ t \in workers[w].tasks
        /\ WaitingIsPending /\ CountersAgree
        /\ \A i \in DOMAIN pendingTasks : pendingTasks[i] # t
        /\ \A v \in DOMAIN workers : t \in workers[v].tasks => v = w
    BY <1>1, <1>7 DEF CInv, HoldersApart
  <2>2. WaitingIsPending'
    <3>1. \A i \in DOMAIN pendingTasks : pendingTasks[i] \in DOMAIN tasks
      BY DEF TInv, TypeOK
    <3> QED  BY <3>1, <2>1, <1>1, <1>2 DEF WaitingIsPending
  <2>3. \A s : t \notin Ended(s)
    BY <2>1, <1>1 DEF Ended, OverIn
  <2>4. ASSUME NEW s, NEW u, u # t PROVE u \in Ended(s)' <=> u \in Ended(s)
    <3>1. (\A v \in DOMAIN workers' : u \notin workers'[v].tasks)
             <=> \A v \in DOMAIN workers : u \notin workers[v].tasks
      <4>1. \A v \in DOMAIN workers : u \in workers'[v].tasks <=> u \in workers[v].tasks
        BY <2>4, <1>3
      <4> QED  BY <4>1, <1>3
    <3>2. u \in DOMAIN tasks => tasks'[u] = tasks[u]
      BY <2>4, <1>2
    <3> QED  BY <3>1, <3>2, <1>2 DEF Ended, OverIn
  <2>5. CASE status \notin Terminal
    <3>1. \A s \in Terminal : t \notin Ended(s)'
      BY <2>5, <1>2 DEF Ended, OverIn
    <3>2. ASSUME NEW s \in Terminal PROVE Ended(s)' = Ended(s)
      <4>1. \A u : u \in Ended(s)' <=> u \in Ended(s)
        BY <3>1, <2>3, <2>4
      <4>2. Ended(s)' \subseteq Ended(s) /\ Ended(s) \subseteq Ended(s)'
        BY <4>1
      <4> QED  BY <4>2
    <3> QED  BY <3>2, <2>1, <2>2, <2>5, <1>1, <1>2, NothingEnds
  <2>6. CASE status \in Terminal
    <3>1. t \in Ended(status)'
      BY <2>1, <2>6, <1>1, <1>2, <1>3 DEF Ended, OverIn
    <3>2. Ended(status)' = Ended(status) \cup {t}
      BY <3>1, <2>4
    <3>3. ASSUME NEW s, s # status PROVE Ended(s)' = Ended(s)
      <4>1. t \notin Ended(s)'
        BY <3>3, <1>2 DEF Ended, OverIn
      <4>2. \A u : u \in Ended(s)' <=> u \in Ended(s)
        BY <4>1, <2>3, <2>4
      <4>3. Ended(s)' \subseteq Ended(s) /\ Ended(s) \subseteq Ended(s)'
        BY <4>2
      <4> QED  BY <4>3
    <3>4. /\ Cardinality(Ended(status)') = Cardinality(Ended(status)) + 1
          /\ \A s : Cardinality(Ended(s)) \in Nat
      BY <3>2, <2>3, EndedFinite, FS_AddElement DEF CInv
    <3>5. counters \in [total : Nat, completed : Nat, failed : Nat]
          /\ carried \in [total : Int, completed : Int, failed : Int]
      BY DEF CInv, CountersTyped
    <3>6. CASE status = "COMPLETED"
      <4>1. Ended("FAILED")' = Ended("FAILED")
        BY <3>3, <3>6
      <4>2. /\ counters'.completed = counters.completed + 1
            /\ counters'.failed = counters.failed /\ counters'.total = counters.total
        BY <1>5, <2>6, <3>6
      <4>3. CountersAgree'
        BY <4>1, <4>2, <3>4, <3>5, <3>6, <2>1, <1>1, <1>2 DEF CountersAgree
      <4> QED  BY <4>3, <2>2
    <3>7. CASE status = "FAILED"
      <4>1. Ended("COMPLETED")' = Ended("COMPLETED")
        BY <3>3, <3>7
      <4>2. /\ counters'.failed = counters.failed + 1
            /\ counters'.completed = counters.completed /\ counters'.total = counters.total
        BY <1>5, <2>6, <3>7
      <4>3. CountersAgree'
        BY <4>1, <4>2, <3>4, <3>5, <3>7, <2>1, <1>1, <1>2 DEF CountersAgree
      <4> QED  BY <4>3, <2>2
    <3> QED  BY <2>6, <3>6, <3>7 DEF Terminal
  <2> QED  BY <2>5, <2>6
<1> QED  BY <1>2, <1>4, <1>6, <1>7 DEF CInv

\* A load: what the counters have not seen is carried, every task comes back to
\* the worker of its row alone, and a queued one as PENDING and to nobody.
LEMMA LoadCInv ==
    ASSUME PInv, RowsCountable, CInv, MLoadState
    PROVE  CInv'
<1>1. /\ tasks' = [t \in DOMAIN db.tasks |-> LoadedTask(t)]
      /\ workers' \in LoadedWorkers
      /\ pendingTasks' \in SetToSeqs(db.pending \cap DOMAIN db.tasks)
      /\ UNCHANGED counters
      /\ carried' = [k \in DOMAIN counters |-> Tally(tasks', workers')[k] - counters[k]]
  BY DEF MLoadState, LoadState
<1>2. DBTyped /\ PendingUnassigned
  BY DEF PInv
<1>3. \A w \in DOMAIN workers' : workers'[w].tasks = {t \in DOMAIN db.tasks : db.tasks[t].workerID = w}
  BY <1>1, <1>2, LoadedWorkersProps DEF LoadedWorker
<1>4. /\ DOMAIN tasks' = DOMAIN db.tasks
      /\ \A t \in db.pending \cap DOMAIN db.tasks : tasks'[t].status = "PENDING"
  BY <1>1 DEF LoadedTask
<1>5. \A i \in DOMAIN pendingTasks' : pendingTasks'[i] \in db.pending \cap DOMAIN db.tasks
  <2> DEFINE S == db.pending \cap DOMAIN db.tasks
  <2>1. IsFiniteSet(S)
    <3>1. S \subseteq db.pending /\ IsFiniteSet(db.pending)
      BY <1>2 DEF DBTyped
    <3> HIDE DEF S
    <3> QED  BY <3>1, FS_Subset
  <2>2. pendingTasks' \in SetToSeqs(S)
    BY <1>1
  <2> HIDE DEF S
  <2>3. {pendingTasks'[i] : i \in DOMAIN pendingTasks'} = S
    BY <2>1, <2>2, SetToSeqsProps
  <2> QED  BY <2>3 DEF S
<1>6. HoldersApart'
  <2> SUFFICES ASSUME NEW w \in DOMAIN workers', NEW t \in workers'[w].tasks
               PROVE  /\ t \in DOMAIN tasks'
                      /\ \A i \in DOMAIN pendingTasks' : pendingTasks'[i] # t
                      /\ \A v \in DOMAIN workers' : t \in workers'[v].tasks => v = w
    BY DEF HoldersApart
  <2>1. t \in DOMAIN db.tasks /\ db.tasks[t].workerID = w
    BY <1>3
  <2>2. w # NoWorker
    <3>1. w \in WorkerIds
      BY <1>1, <1>2, LoadedWorkersProps DEF DBTyped
    <3> QED  BY <3>1, SchedulerAssumptions
  <2> QED  BY <2>1, <2>2, <1>2, <1>3, <1>4, <1>5 DEF PendingUnassigned
<1>7. WaitingIsPending'
  BY <1>4, <1>5 DEF WaitingIsPending
<1>8. IsFiniteSet(DOMAIN tasks')
  BY <1>4 DEF RowsCountable
<1>9. /\ Cardinality(DOMAIN tasks') \in Nat
      /\ \A status : Cardinality(OverIn(tasks', workers', status)) \in Nat
  <2>1. ASSUME NEW status PROVE Cardinality(OverIn(tasks', workers', status)) \in Nat
    <3>1. OverIn(tasks', workers', status) \in SUBSET DOMAIN tasks'
      BY DEF OverIn
    <3>2. IsFiniteSet(OverIn(tasks', workers', status))
      BY <3>1, <1>8, FS_Subset
    <3> QED  BY <3>2, FS_CardinalityType
  <2> QED  BY <2>1, <1>8, FS_CardinalityType
<1> DEFINE n == Cardinality(DOMAIN tasks')
           c == Cardinality(OverIn(tasks', workers', "COMPLETED"))
           f == Cardinality(OverIn(tasks', workers', "FAILED"))
<1>10. Tally(tasks', workers') = [total |-> n, completed |-> c, failed |-> f]
  BY DEF Tally
<1>11. n \in Nat /\ c \in Nat /\ f \in Nat
  BY <1>9
<1>12. counters \in [total : Nat, completed : Nat, failed : Nat]
  BY DEF CInv, CountersTyped
<1>13. (CountersAgree)' <=>
         /\ counters'.total + carried'.total = n
         /\ counters'.completed + carried'.completed = c
         /\ counters'.failed + carried'.failed = f
  BY DEF CountersAgree, Ended
<1> HIDE DEF n, c, f
<1>14. carried' = [total |-> n - counters.total, completed |-> c - counters.completed,
                   failed |-> f - counters.failed]
  BY <1>1, <1>10, <1>12
<1>15. CountersTyped'
  BY <1>1, <1>11, <1>12, <1>14 DEF CountersTyped
<1>16. CountersAgree'
  BY <1>1, <1>11, <1>12, <1>13, <1>14
<1> QED  BY <1>6, <1>7, <1>8, <1>15, <1>16 DEF CInv

\* A process that is gone leaves nothing to count.
LEMMA NothingCounted ==
    ASSUME workers = <<>>, tasks = <<>>, pendingTasks = <<>>, counters = NoCounts, carried = NoCounts
    PROVE  CInv
<1>1. DOMAIN tasks = {} /\ DOMAIN workers = {} /\ DOMAIN pendingTasks = {}
  OBVIOUS
<1>2. Ended("COMPLETED") = {} /\ Ended("FAILED") = {}
  BY <1>1 DEF Ended, OverIn
<1>3. IsFiniteSet({}) /\ Cardinality({}) = 0
  BY FS_EmptySet
<1>4. /\ counters.total = 0 /\ counters.completed = 0 /\ counters.failed = 0
      /\ carried.total = 0 /\ carried.completed = 0 /\ carried.failed = 0
  BY DEF NoCounts
<1>5. CountersAgree
  <2>1. /\ Cardinality(DOMAIN tasks) = 0
        /\ Cardinality(Ended("COMPLETED")) = 0 /\ Cardinality(Ended("FAILED")) = 0
    BY <1>1, <1>2, <1>3, Zenon
  <2>2. 0 + 0 = 0
    OBVIOUS
  <2> QED  BY <2>1, <2>2, <1>4, Zenon DEF CountersAgree
<1>6. CountersTyped
  BY DEF CountersTyped, NoCounts
<1> QED  BY <1>1, <1>3, <1>5, <1>6 DEF CInv, HoldersApart, WaitingIsPending

\* Saves write finitely many rows, as there are finitely many tasks.
LEMMA RowsStayCountable ==
    ASSUME PInv, RowsCountable, CInv, [PNext]_pvars
    PROVE  RowsCountable'
<1>1. CASE UNCHANGED db
  BY <1>1 DEF RowsCountable
<1>2. CASE SaveBegin
  BY <1>2, FS_EmptySet DEF SaveBegin, EmptyDB, RowsCountable
<1>3. ASSUME NEW w \in WorkerIds, SaveWorker(w) PROVE RowsCountable'
  <2>1. db'.tasks = db.tasks
    BY <1>3 DEF SaveWorker, WithWorker, PInv, DBTyped
  <2> QED  BY <2>1 DEF RowsCountable
<1>4. ASSUME NEW t \in TaskIds, SaveTask(t) PROVE RowsCountable'
  <2>1. DOMAIN db'.tasks = DOMAIN db.tasks \cup {t}
    BY <1>4, WithTaskProps DEF SaveTask, PInv
  <2> QED  BY <2>1, FS_AddElement DEF RowsCountable
<1>5. CASE SavePendingTask
  <2>1. db'.tasks = db.tasks
    BY <1>5 DEF SavePendingTask, PInv, DBTyped
  <2> QED  BY <2>1 DEF RowsCountable
<1> QED  BY <1>1, <1>2, <1>3, <1>4, <1>5 DEF PNext, Serve, Boot, EnablePersistence, LoadState, LoadFails,
            AutoSaveTick, Signal, SaveDone, SaveFails, StopManager, Exit, Crash, Down, pvars

\* The counters stay right over every step.
LEMMA NextCInv ==
    ASSUME NestedRLockGranted, PInv, RowsCountable, CInv, [MNext]_mvars
    PROVE  CInv'
<1>1. TInv
  BY DEF PInv
<1>2. CASE MServe
  BY <1>1, <1>2, RegisterCInv, AddTaskCInv, RequestTaskCInv, ReportCInv, PassCInv DEF MServe
<1>3. CASE ZeroGauges \/ MEnablePersistence \/ MOther \/ UNCHANGED mvars
  <2>1. UNCHANGED <<tables, counters, since>>
    BY <1>3 DEF ZeroGauges, MEnablePersistence, MOther, EnablePersistence, Boot, LoadFails, AutoSaveTick,
                Signal, SaveBegin, SaveWorker, SaveTask, SavePendingTask, SaveDone, SaveFails, StopManager,
                mvars, pvars, vars, since
  <2> QED  BY <2>1, TablesKept
<1>4. CASE MLoadState
  BY <1>4, LoadCInv
<1>5. CASE MDown
  <2>1. /\ workers' = <<>> /\ tasks' = <<>> /\ pendingTasks' = <<>>
        /\ counters' = NoCounts /\ carried' = NoCounts
    BY <1>5 DEF MDown, Exit, Crash, Down
  <2>2. /\ DOMAIN tasks' = {} /\ DOMAIN workers' = {} /\ DOMAIN pendingTasks' = {}
    BY <2>1
  <2>3. Ended("COMPLETED")' = {} /\ Ended("FAILED")' = {}
    BY <2>2 DEF Ended, OverIn
  <2>4. IsFiniteSet({}) /\ Cardinality({}) = 0
    BY FS_EmptySet
  <2>5. /\ counters'.total = 0 /\ counters'.completed = 0 /\ counters'.failed = 0
        /\ carried'.total = 0 /\ carried'.completed = 0 /\ carried'.failed = 0
    BY <2>1 DEF NoCounts
  <2>6. CountersAgree'
    <3>1. /\ Cardinality(DOMAIN tasks') = 0
          /\ Cardinality(Ended("COMPLETED")') = 0 /\ Cardinality(Ended("FAILED")') = 0
      BY <2>2, <2>3, <2>4, Zenon
    <3>2. 0 + 0 = 0
      OBVIOUS
    <3> QED  BY <3>1, <3>2, <2>5, Zenon DEF CountersAgree
  <2>7. CountersTyped'
    BY <2>1 DEF CountersTyped, NoCounts
  <2> QED  BY <2>2, <2>4, <2>6, <2>7 DEF CInv, HoldersApart, WaitingIsPending
<1> QED  BY <1>2, <1>3, <1>4, <1>5 DEF MNext

\* scheduler_tasks_total, _completed and _failed agree with the tables, over
\* restarts and whatever RequestTask assigns: the hook of ReportTaskStatus
\* counts every end once, under the status it has, and no task that has ended
\* is taken up again, as long as clients report on the tasks they hold.
THEOREM EveryEndCountedOnce ==
    ASSUME NestedRLockGranted
    PROVE  MSpec => []EndsCounted
<1>1. MInit => CInv /\ RowsCountable
  <2> SUFFICES ASSUME MInit PROVE CInv /\ RowsCountable
    OBVIOUS
  <2>1. CInv
    BY NothingCounted DEF MInit, PInit, Init
  <2>2. DOMAIN db.tasks = {}
    BY DEF MInit, PInit, EmptyDB
  <2> QED  BY <2>1, <2>2, FS_EmptySet DEF RowsCountable
<1>2. PInv /\ CInv /\ RowsCountable /\ [MNext]_mvars => CInv' /\ RowsCountable'
  BY NextCInv, RowsStayCountable, MNextIsPNext
<1>3. CInv => EndsCounted
  <2> SUFFICES ASSUME CInv, owned PROVE \A k \in DOMAIN counters : counters[k] + carried[k] = Tally(tasks, workers)[k]
    BY DEF EndsCounted
  <2>1. DOMAIN counters = {"total", "completed", "failed"}
    BY DEF CInv, CountersTyped
  <2> QED  BY <2>1 DEF CInv, CountersAgree, Ended, Tally
<1> QED  BY <1>1, <1>2, <1>3, MInvariance, PTL DEF MSpec
=============================================================================
