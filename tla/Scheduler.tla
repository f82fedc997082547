----------------------------- MODULE Scheduler -----------------------------
(***************************************************************************)
(* The scheduler service of pkg/scheduler/scheduler.go: its tables, the    *)
(* RPC handlers that change them, and the assignment pass those handlers   *)
(* end with.                                                               *)
(*                                                                         *)
(* Every handler holds Scheduler.mu from its first to its last statement,  *)
(* so a handler is one action, except for assignPendingTasks: its loop is  *)
(* one action per iteration, taken while mu = "assign" and while no other  *)
(* handler can run.  Calls refused for their arguments and read-only calls *)
(* change nothing and are stuttering steps.                                *)
(***************************************************************************)
EXTENDS WorkloadPolicy, SequencesExt

CONSTANTS
    WorkerIds,      \* worker ids
    TaskIds,        \* task ids
    NoWorker,       \* the empty worker id, ""
    Demand,         \* the demand of each task: RequiredGPUs and MinGPUMemory
    GPULists,       \* the GPU lists that a worker may register with
    ExplicitIds,    \* the ids that workers register under of their own accord
    MaxWorkers,     \* bound: registrations accepted
    AutoId,         \* AutoId[n] is the id "worker-n"
    Reported,       \* the statuses that clients report
    \* FALSE is Go's sync.RWMutex: RLock by the goroutine that holds Lock waits
    \* for ever.  TRUE grants it, which is what the handlers are written for.
    NestedRLockGranted

\* Mutant: a canceled task gives its GPUs back.
TerminalOrCanceled == {"COMPLETED", "FAILED", "CANCELED"}

\* The statuses that end a task for the scheduler; CANCELED is not one of them.
Terminal == {"COMPLETED", "FAILED"}

ASSUME SchedulerAssumptions ==
    /\ NoWorker \notin WorkerIds
    /\ Demand \in [TaskIds -> TaskDemand]
    /\ GPULists \subseteq Seq(GPU)
    /\ ExplicitIds \subseteq WorkerIds
    /\ MaxWorkers \in Nat
    /\ AutoId \in [1..MaxWorkers -> WorkerIds]
    /\ Reported \subseteq TaskStatus
    /\ NestedRLockGranted \in BOOLEAN

\* A worker reports its GPUs as free when it registers (cmd/worker), and no
\* two of them share an id.
ASSUME GPUListsAssumption ==
    \A gpus \in GPULists : DistinctIds(gpus) /\ \A i \in DOMAIN gpus : gpus[i].available

VARIABLES
    workers,            \* map[string]*Worker
    tasks,              \* map[string]*Task
    pendingTasks,       \* []*Task, by id
    workloadPolicy,     \* the policy the server was started with
    persistenceManager, \* persistenceManager # nil
    saveTrigger,        \* the manager's channel of capacity 1: full or not
    mu,                 \* "free", "assign" (held by a pass), "save" (held by
                        \* SaveState) or "stuck" (its holder waits for itself)
    scan                \* the loop index of assignPendingTasks, from 1

tables == <<workers, tasks, pendingTasks>>
lock == <<mu, scan>>
vars == <<tables, workloadPolicy, persistenceManager, saveTrigger, lock>>

WorkerRecord == [gpus : Seq(GPU), status : WorkerStatus, tasks : SUBSET TaskIds]
TaskRecord == [status : TaskStatus, workerID : WorkerIds \cup {NoWorker},
               assignedGPUs : SUBSET STRING]

\* Every table holds what its Go declaration says.
TypeOK ==
    /\ DOMAIN workers \subseteq WorkerIds /\ IsFiniteSet(DOMAIN workers)
    /\ workers \in [DOMAIN workers -> WorkerRecord]
    /\ DOMAIN tasks \subseteq TaskIds
    /\ tasks \in [DOMAIN tasks -> TaskRecord]
    /\ pendingTasks \in Seq(DOMAIN tasks)
    /\ workloadPolicy \in Policies
    /\ persistenceManager \in BOOLEAN
    /\ saveTrigger \in BOOLEAN
    /\ mu \in {"free", "assign", "save", "stuck"}
    /\ scan \in 1..(Len(pendingTasks) + 1)

\* NewScheduler.
Init ==
    /\ workers = <<>>
    /\ tasks = <<>>
    /\ pendingTasks = <<>>
    /\ workloadPolicy \in Policies
    /\ persistenceManager = FALSE
    /\ saveTrigger = FALSE
    /\ mu = "free"
    /\ scan = 1

-----------------------------------------------------------------------------
(* Helpers.                                                                *)

\* m[k] = v
Put(m, k, v) == [x \in DOMAIN m \cup {k} |-> IF x = k THEN v ELSE m[x]]

\* Mutant: the task behind the one at i is removed.
DequeueNext(queue, i) == RemoveAt(queue, IF i < Len(queue) THEN i + 1 ELSE i)

\* Mutant: the result of append is not assigned.
DequeueForgotten(queue, i) == queue

\* append(s.pendingTasks[:i], s.pendingTasks[i+1:]...)
Dequeue(queue, i) == RemoveAt(queue, i)

\* Mutant: the GPUs stay marked as free.
TakeTaskUnmarked(w, t, ids) == [w EXCEPT !.status = "BUSY", !.tasks = @ \cup {t}]

\* What assigning task t does to the worker record w that takes it.
TakeTask(w, t, ids) ==
    [w EXCEPT !.gpus = MarkGPUs(@, ids, FALSE), !.status = "BUSY", !.tasks = @ \cup {t}]

\* Mutant: the worker becomes IDLE whatever else it holds.
DropTaskAlwaysIdle(w, t, ids) ==
    [gpus |-> MarkGPUs(w.gpus, ids, TRUE), status |-> "IDLE", tasks |-> w.tasks \ {t}]

\* Mutant: the worker does not become IDLE again.
DropTaskStaysBusy(w, t, ids) ==
    [gpus |-> MarkGPUs(w.gpus, ids, TRUE), status |-> w.status, tasks |-> w.tasks \ {t}]

\* Mutant: the GPUs are not freed.
DropTaskLeaks(w, t, ids) ==
    [gpus |-> w.gpus, status |-> IF w.tasks \subseteq {t} THEN "IDLE" ELSE w.status,
     tasks |-> w.tasks \ {t}]

\* What the end of task t does to the worker record w that reports it.
DropTask(w, t, ids) ==
    [gpus   |-> MarkGPUs(w.gpus, ids, TRUE),
     status |-> IF w.tasks \subseteq {t} THEN "IDLE" ELSE w.status,
     tasks  |-> w.tasks \ {t}]

\* Mutant: the task does not record its worker.
AssignedAnonymously(task, w, ids) == [task EXCEPT !.status = "RUNNING", !.assignedGPUs = ids]

\* What assigning a task does to its own record.
Assigned(task, w, ids) ==
    [task EXCEPT !.status = "RUNNING", !.workerID = w, !.assignedGPUs = ids]

Suitable(t) == Candidates(workloadPolicy, workers, Demand[t])

\* UpdatePersistentState, called with mu held: TriggerSave fills the channel
\* if a persistence manager is there, and drops the trigger if it is full.
UpdatePersistentState ==
    saveTrigger' = (saveTrigger \/ (NestedRLockGranted /\ persistenceManager))

\* Mutant: the handler ends without assignPendingTasks.
NoPass == mu' = "free" /\ scan' = 1

\* The handler goes on with assignPendingTasks, unless updateMetrics or
\* UpdatePersistentState has it wait for the lock it holds itself.
StartPass ==
    /\ mu' = IF NestedRLockGranted THEN "assign" ELSE "stuck"
    /\ scan' = 1

-----------------------------------------------------------------------------
(* Handlers.                                                               *)

\* Mutant: the wrong table is counted.
GeneratedIdFromQueue == AutoId[Len(pendingTasks) + 1]

\* fmt.Sprintf("worker-%d", len(s.workers)+1)
GeneratedId == AutoId[Cardinality(DOMAIN workers) + 1]

\* A worker registers under req, or under a generated id if req is empty.
RegisterWorker(req, gpus) ==
    LET workerID == IF req = NoWorker THEN GeneratedId ELSE req
    IN  /\ mu = "free"
        /\ Cardinality(DOMAIN workers) < MaxWorkers
        /\ workerID \notin DOMAIN workers
        /\ workers' = Put(workers, workerID, [gpus |-> gpus, status |-> "IDLE", tasks |-> {}])
        /\ UpdatePersistentState
        /\ StartPass
        /\ UNCHANGED <<tasks, pendingTasks, workloadPolicy, persistenceManager>>

\* Mutant: the task is queued and not entered in s.tasks.
AddTaskQueueOnly(t) ==
    /\ mu = "free"
    /\ t \notin DOMAIN tasks
    /\ pendingTasks' = Append(pendingTasks, t)
    /\ UpdatePersistentState
    /\ StartPass
    /\ UNCHANGED <<workers, tasks, workloadPolicy, persistenceManager>>

\* A task arrives.  Its id is new: submitters make ids from the time.
AddTask(t) ==
    /\ mu = "free"
    /\ t \notin DOMAIN tasks
    /\ tasks' = Put(tasks, t, [status |-> "PENDING", workerID |-> NoWorker, assignedGPUs |-> {}])
    /\ pendingTasks' = Append(pendingTasks, t)
    /\ UpdatePersistentState
    /\ StartPass
    /\ UNCHANGED <<workers, workloadPolicy, persistenceManager>>

\* RequestTask of worker req has come to the pending task at index i.
AssignOnRequest(req, i) ==
    LET t == pendingTasks[i] IN
    /\ \A j \in 1..(i - 1) : Suitable(pendingTasks[j]) = {}
    /\ \E w \in FirstChoices(workloadPolicy, workers, Demand[t]) :
          LET ids == ChosenGPUs(workers[w], Demand[t]) IN
          /\ tasks' = [tasks EXCEPT ![t] = Assigned(@, w, ids)]
          /\ IF NestedRLockGranted
             THEN /\ workers' = [workers EXCEPT ![req] = TakeTask(@, t, ids)]
                  /\ pendingTasks' = Dequeue(pendingTasks, i)
                  /\ UNCHANGED mu
             ELSE /\ workers' = [workers EXCEPT ![req].status = "BUSY"]
                  /\ mu' = "stuck"
                  /\ UNCHANGED pendingTasks
    /\ UpdatePersistentState
    /\ UNCHANGED <<workloadPolicy, persistenceManager, scan>>

\* Worker req polls.  It is told that there is no task for it if none of the
\* pending ones suits any worker.  Otherwise the first that does is assigned:
\* the task records the worker that the policy chose, while the booking goes to
\* the worker that asked.
RequestTask(req) ==
    /\ mu = "free"
    /\ req \in DOMAIN workers
    /\ \/ /\ \A i \in DOMAIN pendingTasks : Suitable(pendingTasks[i]) = {}
          /\ UNCHANGED vars
       \/ \E i \in DOMAIN pendingTasks : AssignOnRequest(req, i)

\* Mutant: a task that is reported as CANCELED is queued again.
ReportProgressRequeues(w, t, status) ==
    /\ mu = "free"
    /\ w \in DOMAIN workers
    /\ t \in DOMAIN tasks
    /\ status \notin Terminal
    /\ tasks' = [tasks EXCEPT ![t].status = status]
    /\ pendingTasks' = IF status = "CANCELED" THEN Append(pendingTasks, t) ELSE pendingTasks
    /\ UNCHANGED <<workers, workloadPolicy, persistenceManager, saveTrigger, mu, scan>>

\* Worker w reports that task t goes on, or was canceled.
ReportProgress(w, t, status) ==
    /\ mu = "free"
    /\ w \in DOMAIN workers
    /\ t \in DOMAIN tasks
    /\ status \notin Terminal
    /\ tasks' = [tasks EXCEPT ![t].status = status]
    /\ mu' = IF NestedRLockGranted THEN "free" ELSE "stuck"
    /\ UpdatePersistentState
    /\ UNCHANGED <<workers, pendingTasks, workloadPolicy, persistenceManager, scan>>

\* Worker w reports the end of task t.  The GPUs that are freed are those of
\* the reporting worker that carry the ids the task was given.
ReportEnd(w, t, status) ==
    /\ mu = "free"
    /\ w \in DOMAIN workers
    /\ t \in DOMAIN tasks
    /\ status \in Terminal
    /\ tasks' = [tasks EXCEPT ![t].status = status]
    /\ workers' = IF NestedRLockGranted
                  THEN [workers EXCEPT ![w] = DropTask(@, t, tasks[t].assignedGPUs)]
                  ELSE workers
    /\ StartPass
    /\ UNCHANGED <<pendingTasks, workloadPolicy, persistenceManager, saveTrigger>>

-----------------------------------------------------------------------------
(* assignPendingTasks, one iteration at a time.                            *)

\* Mutant: continue without i++, as in a loop written with while.
AssignSkipInPlace ==
    /\ mu = "assign"
    /\ scan <= Len(pendingTasks)
    /\ Suitable(pendingTasks[scan]) = {}
    /\ UNCHANGED vars

\* No worker suits the task at the index: go to the next one.
AssignSkip ==
    /\ mu = "assign"
    /\ scan <= Len(pendingTasks)
    /\ Suitable(pendingTasks[scan]) = {}
    /\ scan' = scan + 1
    /\ UNCHANGED <<tables, workloadPolicy, persistenceManager, saveTrigger, mu>>

\* Worker w gets the task at the index; the next one moves up to that index.
AssignTo(w) ==
    /\ mu = "assign"
    /\ scan <= Len(pendingTasks)
    /\ LET t == pendingTasks[scan]
           ids == ChosenGPUs(workers[w], Demand[t])
       IN  /\ w \in FirstChoices(workloadPolicy, workers, Demand[t])
           /\ tasks' = [tasks EXCEPT ![t] = Assigned(@, w, ids)]
           /\ workers' = [workers EXCEPT ![w] = TakeTask(@, t, ids)]
    /\ pendingTasks' = Dequeue(pendingTasks, scan)
    /\ UNCHANGED <<workloadPolicy, persistenceManager, saveTrigger, lock>>

\* Mutant: the loop may be left before its end.
AssignBreak ==
    /\ mu = "assign"
    /\ mu' = "free"
    /\ scan' = 1
    /\ UpdatePersistentState
    /\ UNCHANGED <<tables, workloadPolicy, persistenceManager>>

\* The pass is over: its handler unlocks.  The save that a pass with an
\* assignment triggers, and the one at the end of ReportTaskStatus, are one:
\* the trigger of RegisterWorker and AddTask is still in the channel.
AssignDone ==
    /\ mu = "assign"
    /\ scan > Len(pendingTasks)
    /\ mu' = "free"
    /\ scan' = 1
    /\ UpdatePersistentState
    /\ UNCHANGED <<tables, workloadPolicy, persistenceManager>>

Pass == AssignSkip \/ AssignDone \/ \E w \in WorkerIds : AssignTo(w)

-----------------------------------------------------------------------------
(* The service, with clients that call its handlers in any order.          *)

Register ==
    \E req \in ExplicitIds \cup {NoWorker}, gpus \in GPULists : RegisterWorker(req, gpus)

\* Any client may report on any task in the name of any worker.
Report ==
    \E w \in WorkerIds, t \in TaskIds, status \in Reported :
        ReportProgress(w, t, status) \/ ReportEnd(w, t, status)

Next ==
    \/ Register
    \/ \E t \in TaskIds : AddTask(t)
    \/ \E w \in WorkerIds : RequestTask(w)
    \/ Report
    \/ Pass

\* A handler that holds the lock and does not wait runs on.
Fairness == WF_vars(Pass)

Spec == Init /\ [][Next]_vars /\ Fairness

(* The service with clients that report as pkg/worker does where no status  *)
(* update has it cancel a task (ReportsOnHeld of System): on the tasks they   *)
(* hold, and nothing about a task after its end.                            *)

OwnReport(w, t) ==
    /\ w \in DOMAIN workers
    /\ t \in workers[w].tasks
    /\ \E status \in Reported : ReportProgress(w, t, status) \/ ReportEnd(w, t, status)

OwnerNext ==
    \/ Register
    \/ \E t \in TaskIds : AddTask(t)
    \/ \E w \in WorkerIds : RequestTask(w)
    \/ \E w \in WorkerIds, t \in TaskIds : OwnReport(w, t)
    \/ Pass

OwnerSpec == Init /\ [][OwnerNext]_vars

-----------------------------------------------------------------------------
(* Properties that hold whatever the clients report.                       *)

\* After every handler no pending task suits any worker: the pass that ends
\* RegisterWorker, AddTask and ReportTaskStatus looks at every task once only,
\* and the tasks it has passed by do not become assignable behind its back.
WorkConserving ==
    \A i \in DOMAIN pendingTasks :
        mu \in {"free", "save"} \/ (mu = "assign" /\ i < scan) => Suitable(pendingTasks[i]) = {}

\* A task is queued once, and exactly until it is given to a worker: deleting
\* from pendingTasks while looping over it (i--) loses and repeats nothing.
PendingExactlyUnassigned ==
    /\ \A i, j \in DOMAIN pendingTasks : pendingTasks[i] = pendingTasks[j] => i = j
    /\ \A t \in DOMAIN tasks :
          tasks[t].workerID = NoWorker <=> \E i \in DOMAIN pendingTasks : pendingTasks[i] = t

\* A task is queued once, and never while it is assigned, also after saves and
\* loads (SchedulerPersistence), where RequestTask may assign.
QueuedNotAssigned ==
    /\ \A i, j \in DOMAIN pendingTasks : pendingTasks[i] = pendingTasks[j] => i = j
    /\ \A i \in DOMAIN pendingTasks : tasks[pendingTasks[i]].workerID = NoWorker

\* A worker's Tasks and the tasks' WorkerID agree, so that no task is held by
\* two workers, although RequestTask books on a worker other than the one it
\* records and ReportTaskStatus trusts the worker id it is sent.
HeldByAssignee ==
    \A w \in DOMAIN workers : \A t \in workers[w].tasks :
        t \in DOMAIN tasks /\ tasks[t].workerID = w

\* A worker is IDLE exactly when it holds no task; the simple policy relies on
\* it to find a worker again once its last task has ended.
IdleIffNothingHeld ==
    \A w \in DOMAIN workers : workers[w].status = "IDLE" <=> workers[w].tasks = {}

\* Only the pass gives tasks to workers, once each: RequestTask, the call that
\* workers poll with, never gets to its assigning branch.
AssignedOnceByPass ==
    [][\A t \in DOMAIN tasks : tasks'[t].workerID # tasks[t].workerID =>
          mu = "assign" /\ tasks[t].workerID = NoWorker]_vars

\* The lock is released again: the pass ends although it may restart its index,
\* and no handler waits for the lock it holds.
MutexReleased == (mu # "free") ~> (mu = "free")

\* Where all ids are generated, "worker-(len+1)" is always a new one, so that a
\* worker that registers without an id is never refused.
AnonymousAccepted ==
    Cardinality(DOMAIN workers) < MaxWorkers => GeneratedId \notin DOMAIN workers

\* A held task has as many GPUs of its worker as it asked for, each large enough.
AssignmentMeetsDemand ==
    \A w \in DOMAIN workers : \A t \in workers[w].tasks :
        LET given == {i \in DOMAIN workers[w].gpus :
                         workers[w].gpus[i].id \in tasks[t].assignedGPUs}
        IN  /\ Cardinality(given) = Demand[t].requiredGPUs
            /\ Cardinality(tasks[t].assignedGPUs) = Demand[t].requiredGPUs
            /\ \A i \in given : workers[w].gpus[i].memoryMB >= Demand[t].minGPUMemory

-----------------------------------------------------------------------------
(* Properties that need clients that report on their own tasks only.       *)

\* A GPU is marked free exactly when no task held by its worker was given it:
\* none is leaked and none is offered while it is in use.
GPUsAccounted ==
    \A w \in DOMAIN workers : \A i \in DOMAIN workers[w].gpus :
        workers[w].gpus[i].available <=>
            \A t \in workers[w].tasks : workers[w].gpus[i].id \notin tasks[t].assignedGPUs

\* No two tasks that a worker holds were given the same GPU.
NoDoubleBooking ==
    \A w \in DOMAIN workers : \A t, u \in workers[w].tasks :
        t # u => tasks[t].assignedGPUs \cap tasks[u].assignedGPUs = {}

\* The worker could run the task if it ran nothing else.
Fits(w, t) ==
    Cardinality({i \in DOMAIN workers[w].gpus :
                    workers[w].gpus[i].memoryMB >= Demand[t].minGPUMemory})
        >= Demand[t].requiredGPUs

\* A worker that holds nothing leaves no task waiting that it could run, for
\* either policy: whatever it has run before, the ends of its tasks have made
\* all its GPUs and the worker itself eligible again, and a pass has looked.
IdleWorkerLeavesNothing ==
    \A w \in DOMAIN workers : mu = "free" /\ workers[w].tasks = {} =>
        \A i \in DOMAIN pendingTasks : ~Fits(w, pendingTasks[i])
=============================================================================
