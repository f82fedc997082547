------------------------------- MODULE Worker -------------------------------
(***************************************************************************)
(* One worker process: pkg/worker/worker.go with main() of cmd/worker.     *)
(*                                                                         *)
(* Its goroutines are the poller (pollForTasks), one executor per task     *)
(* (the function executeTask starts), the receivers of the status stream   *)
(* (reportStatus: the reconnect ticker and SYNC_STATE may start further    *)
(* ones), the cleaners that a status update starts, and main() itself.     *)
(* They share the worker's fields under one RWMutex; a stretch of code     *)
(* between two lock operations or calls is one action.                     *)
(*                                                                         *)
(* What the scheduler answers and streams is the environment: calls return *)
(* at any time, polls are answered with any task not seen before, and      *)
(* status updates come from the set Updates.  Names, configurations,       *)
(* metric values, the metric frequency and the priorities that a worker    *)
(* is sent decide nothing and are left out.                                *)
(***************************************************************************)
EXTENDS Protocol

CONSTANTS
    TaskIds,            \* ids of the tasks that may be granted, each once
    Demand,             \* the demand of each task
    GPUList,            \* the GPUs the process was started with
    Strategies,         \* the allocation strategies that UPDATE_CONFIG sets
    Steps,              \* bound: iterations of executeTask's loop, 20 in the code
    Updates,            \* the status updates that may arrive
    NestedRLockGranted  \* FALSE is Go's RWMutex, as in Scheduler

ASSUME WorkerAssumptions ==
    /\ Demand \in [TaskIds -> TaskDemand]
    /\ GPUList \in Seq(GPU)
    /\ DistinctIds(GPUList)
    /\ \A i \in DOMAIN GPUList : GPUList[i].available
    /\ Strategies \subseteq {"packed", "spread", "memory", "performance"}
    /\ Steps \in Nat
    /\ \A s \in Updates :
          /\ \A id \in DOMAIN s.gpus : s.gpus[id] \in BOOLEAN
          /\ s.status \in WorkerStatus
          /\ \A t \in DOMAIN s.tasks : s.tasks[t] \in TaskStatus
    /\ NestedRLockGranted \in BOOLEAN

VARIABLES
    gpus,           \* Worker.GPUs
    status,         \* Worker.Status
    activeTasks,    \* the keys of Worker.ActiveTasks
    paused,         \* Worker.Paused
    strategy,       \* Worker.GPUAllocation
    wmu,            \* Worker.mu: "free", or "stuck" when its holder waits for it
    taskRec,        \* the Task records, which goroutines keep when they are
                    \* deleted from ActiveTasks: status, GPU ids and the number
                    \* of Metrics (one for each iteration that did its work)
    pc,             \* where the executor of each task is
    progress,       \* iterations its loop has finished
    poller,         \* where pollForTasks is
    cleaners,       \* goroutines that are about to remove a task
    reports,        \* reportTaskStatus calls under way: by whom, on which task,
                    \* and the status sent, once it was read
    main            \* where main() is

wvars == <<gpus, status, activeTasks, paused, strategy, wmu, taskRec, pc, progress,
           poller, cleaners, reports, main>>
config == <<paused, strategy>>

Executing == {"starting", "loop", "step", "working", "ending", "cleanup", "fail", "failing"}

ReportRecord ==
    [by : {"executor", "cleaner", "receiver"}, task : TaskIds, status : TaskStatus \cup {"unread"}]

\* The fields of Worker and Task hold what their Go declarations say, and every
\* goroutine is at one of its places.
WTypeOK ==
    /\ gpus \in Seq(GPU)
    /\ status \in WorkerStatus
    /\ activeTasks \subseteq TaskIds
    /\ paused \in BOOLEAN
    /\ strategy \in {"packed"} \cup Strategies
    /\ wmu \in {"free", "stuck"}
    /\ taskRec \in [TaskIds -> [status : TaskStatus, gpuIDs : SUBSET STRING, metrics : Nat]]
    /\ pc \in [TaskIds -> Executing \cup {"none", "done", "failed"}]
    /\ progress \in [TaskIds -> 0..Steps]
    /\ poller \in {"idle", "requesting", "executing", "gone"}
    /\ cleaners \subseteq [task : TaskIds, reports : BOOLEAN]
    /\ reports \subseteq ReportRecord
    /\ main \in {"running", "stopping", "waiting", "stopped"}

\* NewWorker, and Start with a registration that succeeds.
WInit ==
    /\ gpus = GPUList
    /\ status = "IDLE"
    /\ activeTasks = {}
    /\ paused = FALSE
    /\ strategy = "packed"
    /\ wmu = "free"
    /\ taskRec = [t \in TaskIds |-> [status |-> "PENDING", gpuIDs |-> {}, metrics |-> 0]]
    /\ pc = [t \in TaskIds |-> "none"]
    /\ progress = [t \in TaskIds |-> 0]
    /\ poller = "idle"
    /\ cleaners = {}
    /\ reports = {}
    /\ main = "running"

-----------------------------------------------------------------------------
(* The mutex, the context and the allocation of GPUs.                      *)

\* Stop waits for tasks while it holds the read lock; the process is gone when
\* Stop has returned.
CanRead == wmu = "free" /\ main # "stopped"
CanWrite == CanRead /\ main # "waiting"

\* main() has called cancel().
Cancelled == main # "running"

\* Mutant: Available is not looked at.
FreeOrNot == DOMAIN gpus

Free == {i \in DOMAIN gpus : gpus[i].available}

\* Mutant: a GPU that is in use counts as free.
InUseNever(id) == FALSE

\* gpuInUse: some active task has the GPU.
InUse(id) == \E t \in activeTasks : id \in taskRec[t].gpuIDs

\* The strategy takes the free GPU at i before the one at j.  The performance
\* strategy compares cores and bandwidth, which cmd/worker leaves at zero.
TakenBefore(i, j) ==
    LET rank(k) == Cardinality({h \in Free : h < k})
    IN  CASE strategy = "packed" -> i < j
          [] strategy = "spread" -> \/ rank(i) % 2 < rank(j) % 2
                                    \/ rank(i) % 2 = rank(j) % 2 /\ i < j
          [] strategy = "memory" -> gpus[i].memoryMB > gpus[j].memoryMB
          [] strategy = "performance" -> FALSE

\* Mutant: i <= task.RequiredGpus.
AllocationsOneMore(n) ==
    IF Cardinality(Free) < n
    THEN {{}}
    ELSE {S \in SUBSET Free : /\ Cardinality(S) = n + 1
                              /\ \A i \in S, j \in Free \ S : ~TakenBefore(j, i)}

\* allocateGPUs: n free GPUs that the strategy takes first, or none at all if
\* there are fewer.  GPUs it does not tell apart may come in any order.
Allocations(n) ==
    IF Cardinality(Free) < n
    THEN {{}}
    ELSE {S \in SUBSET Free : /\ Cardinality(S) = n
                              /\ \A i \in S, j \in Free \ S : ~TakenBefore(j, i)}

-----------------------------------------------------------------------------
(* The poller.                                                             *)

\* One round of the loop: not while paused, and not without a free GPU.
Poll ==
    /\ poller = "idle"
    /\ ~Cancelled
    /\ CanRead
    /\ ~paused
    /\ Free # {}
    /\ poller' = "requesting"
    /\ UNCHANGED <<gpus, status, activeTasks, config, wmu, taskRec, pc, progress, cleaners, reports, main>>

\* RequestTask answers with an error, or fails.
PollRefused ==
    /\ poller = "requesting"
    /\ main # "stopped"
    /\ poller' = "idle"
    /\ UNCHANGED <<gpus, status, activeTasks, config, wmu, taskRec, pc, progress, cleaners, reports, main>>

\* RequestTask answers with task t: executeTask up to its first report, for
\* which the poller waits.
ExecuteTask(t) ==
    /\ poller = "requesting"
    /\ pc[t] = "none"
    /\ CanWrite
    /\ \E S \in Allocations(Demand[t].requiredGPUs) :
          LET ids == {gpus[i].id : i \in S} IN
          /\ gpus' = MarkGPUs(gpus, ids, FALSE)
          /\ taskRec' = [taskRec EXCEPT ![t] = [status |-> "RUNNING", gpuIDs |-> ids, metrics |-> 0]]
    /\ status' = "BUSY"
    /\ activeTasks' = activeTasks \cup {t}
    /\ pc' = [pc EXCEPT ![t] = "starting"]
    /\ poller' = "executing"
    /\ reports' = reports \cup {[by |-> "executor", task |-> t, status |-> "unread"]}
    /\ UNCHANGED <<config, wmu, progress, cleaners, main>>

PollerGone ==
    /\ poller = "idle"
    /\ Cancelled
    /\ main # "stopped"
    /\ poller' = "gone"
    /\ UNCHANGED <<gpus, status, activeTasks, config, wmu, taskRec, pc, progress, cleaners, reports, main>>

-----------------------------------------------------------------------------
(* reportTaskStatus.                                                       *)

\* The status is read under the lock, and the call goes out.
SendReport(r) ==
    /\ r \in reports
    /\ r.status = "unread"
    /\ CanRead
    /\ reports' = (reports \ {r}) \cup {[r EXCEPT !.status = taskRec[r.task].status]}
    /\ UNCHANGED <<gpus, status, activeTasks, config, wmu, taskRec, pc, progress, poller, cleaners, main>>

\* The call has returned, with or without an error, and its caller goes on.
Returned(r) ==
    /\ r \in reports
    /\ r.status # "unread"
    /\ main # "stopped"
    /\ reports' = reports \ {r}
    /\ IF r.by # "executor"
       THEN UNCHANGED <<pc, progress, poller>>
       ELSE /\ pc' = [pc EXCEPT ![r.task] = CASE @ = "starting" -> "loop"
                                              [] @ = "working"  -> "loop"
                                              [] @ = "ending"   -> "cleanup"
                                              [] @ = "failing"  -> "failed"]
            /\ progress' = IF pc[r.task] = "working" THEN [progress EXCEPT ![r.task] = @ + 1] ELSE progress
            /\ poller' = IF pc[r.task] = "starting" THEN "idle" ELSE poller
    /\ UNCHANGED <<gpus, status, activeTasks, config, wmu, taskRec, cleaners, main>>

-----------------------------------------------------------------------------
(* The executor of a task.                                                 *)

\* Mutant: one iteration too many.
MoreStepsByOne(t) == progress[t] <= Steps

\* progress <= 1.0
MoreSteps(t) == progress[t] < Steps

\* Mutant: the loop ends where the worker is paused.
LoopPausedLeaves(t) ==
    /\ pc[t] = "loop"
    /\ MoreSteps(t)
    /\ CanRead
    /\ ~Cancelled
    /\ paused
    /\ pc' = [pc EXCEPT ![t] = "done"]
    /\ UNCHANGED <<gpus, status, activeTasks, config, wmu, taskRec, progress, poller, cleaners, reports, main>>

\* The worker is paused: sleep, and continue with the next iteration.
LoopPaused(t) ==
    /\ pc[t] = "loop"
    /\ MoreSteps(t)
    /\ CanRead
    /\ ~Cancelled
    /\ paused
    /\ progress' = [progress EXCEPT ![t] = @ + 1]
    /\ UNCHANGED <<gpus, status, activeTasks, config, wmu, taskRec, pc, poller, cleaners, reports, main>>

\* Mutant: continue, before progress is advanced.
LoopGoContinues(t) ==
    /\ pc[t] = "loop"
    /\ MoreSteps(t)
    /\ CanRead
    /\ ~Cancelled
    /\ ~paused
    /\ UNCHANGED wvars

\* The worker is not paused, or the context is done.
LoopGo(t) ==
    /\ pc[t] = "loop"
    /\ MoreSteps(t)
    /\ \/ Cancelled /\ main # "stopped" /\ pc' = [pc EXCEPT ![t] = "fail"]
       \/ ~Cancelled /\ CanRead /\ ~paused /\ pc' = [pc EXCEPT ![t] = "step"]
    /\ UNCHANGED <<gpus, status, activeTasks, config, wmu, taskRec, progress, poller, cleaners, reports, main>>

\* The executor of t changes the task record under the lock, and reports.
ExecutorReports(t, from, to, record) ==
    /\ pc[t] = from
    /\ CanWrite
    /\ taskRec' = [taskRec EXCEPT ![t] = record]
    /\ pc' = [pc EXCEPT ![t] = to]
    /\ reports' = reports \cup {[by |-> "executor", task |-> t, status |-> "unread"]}
    /\ UNCHANGED <<gpus, status, activeTasks, config, wmu, progress, poller, cleaners, main>>

\* Mutant: go w.reportTaskStatus(ctx, task).
StepWithoutWaiting(t) ==
    /\ pc[t] = "step"
    /\ CanWrite
    /\ taskRec' = [taskRec EXCEPT ![t].metrics = @ + 1]
    /\ pc' = [pc EXCEPT ![t] = "loop"]
    /\ progress' = [progress EXCEPT ![t] = @ + 1]
    /\ reports' = reports \cup {[by |-> "receiver", task |-> t, status |-> "unread"]}
    /\ UNCHANGED <<gpus, status, activeTasks, config, wmu, poller, cleaners, main>>

\* An iteration does its work.
Step(t) == ExecutorReports(t, "step", "working", [taskRec[t] EXCEPT !.metrics = @ + 1])

\* The context is done: the task fails.
Fail(t) == ExecutorReports(t, "fail", "failing", [taskRec[t] EXCEPT !.status = "FAILED"])

\* Mutant: the status is not set.
CompleteUnmarked(t) ==
    /\ ~MoreSteps(t)
    /\ ExecutorReports(t, "loop", "ending", taskRec[t])

\* The loop is over.
Complete(t) ==
    /\ ~MoreSteps(t)
    /\ ExecutorReports(t, "loop", "ending", [taskRec[t] EXCEPT !.status = "COMPLETED"])

\* Mutant: nothing is done about a task that a cleaner has deleted.
CleanupIfActive(t) ==
    /\ pc[t] = "cleanup"
    /\ t \in activeTasks
    /\ CanWrite
    /\ activeTasks' = activeTasks \ {t}
    /\ gpus' = MarkGPUs(gpus, taskRec[t].gpuIDs, TRUE)
    /\ status' = IF activeTasks' = {} THEN "IDLE" ELSE status
    /\ pc' = [pc EXCEPT ![t] = "done"]
    /\ UNCHANGED <<config, wmu, taskRec, progress, poller, cleaners, reports, main>>

\* After its last report: the GPUs are free again and DoneCh is closed.
Cleanup(t) ==
    /\ pc[t] = "cleanup"
    /\ CanWrite
    /\ activeTasks' = activeTasks \ {t}
    /\ gpus' = MarkGPUs(gpus, taskRec[t].gpuIDs, TRUE)
    /\ status' = IF activeTasks' = {} THEN "IDLE" ELSE status
    /\ pc' = [pc EXCEPT ![t] = "done"]
    /\ UNCHANGED <<config, wmu, taskRec, progress, poller, cleaners, reports, main>>

-----------------------------------------------------------------------------
(* The receivers and the cleaners they start.  The stream ends with the    *)
(* context, but what was received before is still handled.                 *)

Ended == {"COMPLETED", "FAILED", "CANCELED"}

\* The availability that update s gives to the GPUs no active task has.
Synchronized(s) ==
    [i \in DOMAIN gpus |->
        IF gpus[i].id \in DOMAIN s.gpus /\ ~InUse(gpus[i].id)
        THEN [gpus[i] EXCEPT !.available = s.gpus[gpus[i].id]]
        ELSE gpus[i]]

\* Active tasks that update s does not list; a list without tasks says nothing.
Unlisted(s) == IF DOMAIN s.tasks = {} THEN {} ELSE activeTasks \ DOMAIN s.tasks

\* Active tasks that update s lists with another status.
Differing(s) == {t \in activeTasks \cap DOMAIN s.tasks : s.tasks[t] # taskRec[t].status}

\* recordStatusChange, called with the lock held, takes the read lock.
StuckInMetrics(s) == status # s.status /\ ~NestedRLockGranted

\* processStatusUpdate and updateTaskPriority.  Cleaners of one task and kind
\* that wait at the same time are taken as one.
StatusUpdate(s) ==
    /\ CanWrite
    /\ gpus' = Synchronized(s)
    /\ status' = s.status
    /\ IF StuckInMetrics(s)
       THEN wmu' = "stuck" /\ UNCHANGED <<taskRec, cleaners>>
       ELSE /\ taskRec' = [t \in TaskIds |->
                             IF t \in Unlisted(s) THEN [taskRec[t] EXCEPT !.status = "CANCELED"]
                             ELSE IF t \in Differing(s) THEN [taskRec[t] EXCEPT !.status = s.tasks[t]]
                             ELSE taskRec[t]]
            /\ cleaners' = cleaners
                 \cup {[task |-> t, reports |-> TRUE] : t \in Unlisted(s)}
                 \cup {[task |-> t, reports |-> FALSE] : t \in {u \in Differing(s) : s.tasks[u] \in Ended}}
            /\ UNCHANGED wmu
    /\ UNCHANGED <<activeTasks, config, pc, progress, poller, reports, main>>

\* The goroutine that removes a canceled task.  The executor is not told.
Clean(c) ==
    /\ c \in cleaners
    /\ CanWrite
    /\ cleaners' = cleaners \ {c}
    /\ activeTasks' = activeTasks \ {c.task}
    /\ gpus' = MarkGPUs(gpus, taskRec[c.task].gpuIDs, TRUE)
    /\ reports' = reports \cup (IF c.reports THEN {[by |-> "cleaner", task |-> c.task, status |-> "unread"]}
                                             ELSE {})
    /\ UNCHANGED <<status, config, wmu, taskRec, pc, progress, poller, main>>

-----------------------------------------------------------------------------
(* Commands (handleCommand).                                               *)

\* PAUSE and RESUME.
SetPaused(on) ==
    /\ CanWrite
    /\ paused' = on
    /\ UNCHANGED <<gpus, status, activeTasks, strategy, wmu, taskRec, pc, progress, poller, cleaners, reports, main>>

\* STOP_TASK: stopTask marks the task and reports.
StopTask(t) ==
    /\ t \in activeTasks
    /\ CanWrite
    /\ taskRec' = [taskRec EXCEPT ![t].status = "CANCELED"]
    /\ reports' = reports \cup {[by |-> "receiver", task |-> t, status |-> "unread"]}
    /\ UNCHANGED <<gpus, status, activeTasks, config, wmu, pc, progress, poller, cleaners, main>>

\* UPDATE_CONFIG with a strategy that updateGPUAllocationStrategy accepts.
SetStrategy(s) ==
    /\ CanWrite
    /\ strategy' = s
    /\ UNCHANGED <<gpus, status, activeTasks, paused, wmu, taskRec, pc, progress, poller, cleaners, reports, main>>

-----------------------------------------------------------------------------
(* main() of cmd/worker.                                                   *)

\* A signal: cancel(), and Stop closes the connection.
Signal ==
    /\ main = "running"
    /\ main' = "stopping"
    /\ UNCHANGED <<gpus, status, activeTasks, config, wmu, taskRec, pc, progress, poller, cleaners, reports>>

\* Stop takes the read lock and begins to wait for the active tasks.
StopBegin ==
    /\ main = "stopping"
    /\ CanRead
    /\ main' = "waiting"
    /\ UNCHANGED <<gpus, status, activeTasks, config, wmu, taskRec, pc, progress, poller, cleaners, reports>>

\* Every active task's DoneCh is closed.
StopEnd ==
    /\ main = "waiting"
    /\ \A t \in activeTasks : pc[t] = "done"
    /\ main' = "stopped"
    /\ UNCHANGED <<gpus, status, activeTasks, config, wmu, taskRec, pc, progress, poller, cleaners, reports>>

-----------------------------------------------------------------------------

Executor(t) ==
    LoopPaused(t) \/ LoopGo(t) \/ Step(t) \/ Fail(t) \/ Complete(t) \/ Cleanup(t)

\* A step of the goroutine that executes t, the calls it waits for included.
ExecutorRuns(t) ==
    \/ Executor(t)
    \/ \E r \in reports : r.by = "executor" /\ r.task = t /\ (SendReport(r) \/ Returned(r))

\* Steps of the process's own goroutines.
Inner ==
    \/ Poll \/ PollRefused \/ PollerGone
    \/ \E t \in TaskIds : ExecuteTask(t) \/ Executor(t)
    \/ \E r \in reports : SendReport(r) \/ Returned(r)
    \/ \E c \in cleaners : Clean(c)

Stopping == Signal \/ StopBegin \/ StopEnd

Configure == (\E on \in BOOLEAN : SetPaused(on)) \/ (\E s \in Strategies : SetStrategy(s))

WNext ==
    \/ Inner
    \/ Configure
    \/ Stopping
    \/ \E t \in TaskIds : StopTask(t)
    \/ \E s \in Updates : StatusUpdate(s)

\* The runtime schedules every goroutine that can run, and an RPC returns.
WFairness ==
    /\ \A t \in TaskIds : WF_wvars(ExecutorRuns(t))
    /\ WF_wvars(StopBegin \/ StopEnd)

WSpec == WInit /\ [][WNext]_wvars /\ WFairness

(* The worker while no task is canceled: updates that list tasks list all   *)
(* active ones as not ended, and no STOP_TASK comes.                        *)

Fresh(s) ==
    DOMAIN s.tasks # {} =>
        \A t \in activeTasks : t \in DOMAIN s.tasks /\ s.tasks[t] \notin Ended

FreshNext ==
    \/ Inner
    \/ Configure
    \/ Stopping
    \/ \E s \in Updates : Fresh(s) /\ StatusUpdate(s)

FreshSpec == WInit /\ [][FreshNext]_wvars /\ WFairness

-----------------------------------------------------------------------------
(* Properties that hold whatever updates and commands arrive.              *)

\* A task is active only while its executor exists, or once a cancelled context
\* has ended it: cleaners and executors both delete tasks, in any order, and
\* neither leaves one behind that nobody will ever delete.
ActiveIsExecuted ==
    \A t \in activeTasks : pc[t] \in Executing \/ (Cancelled /\ pc[t] = "failed")

\* A task that was started ends and closes its DoneCh, although it may be
\* canceled, stopped or deleted from ActiveTasks at any point of its execution,
\* unless the process is told to stop or the worker is paused again and again.
StartedTaskEnds ==
    \A t \in TaskIds : (pc[t] = "starting") ~> (pc[t] = "done" \/ Cancelled \/ []<>paused)

\* The worker's lock is released again, so that polling and execution go on.
WorkerLockReleased == []<>(wmu = "free")

\* After a signal Stop returns and the process ends.
StopReturns == (main = "stopping") ~> (main = "stopped")

\* A task that completes has done the work of every iteration.
CompletedDidItsWork ==
    \A t \in TaskIds : pc[t] \in {"ending", "cleanup", "done"} => taskRec[t].metrics = Steps

\* A task that was stopped or canceled does not complete after all.
CanceledNeverCompletes ==
    [][\A t \in TaskIds : taskRec[t].status = "CANCELED" => taskRec'[t].status # "COMPLETED"]_wvars

-----------------------------------------------------------------------------
(* Properties that need updates that cancel no task.                       *)

\* A task has its GPUs for itself as long as it is executed: they are marked as
\* taken, also against the scheduler's differing view of them, and no other
\* executed task has them.
GPUsHeldExclusively ==
    \A t \in TaskIds : pc[t] \in Executing =>
        /\ \A i \in DOMAIN gpus : gpus[i].id \in taskRec[t].gpuIDs => ~gpus[i].available
        /\ \A u \in TaskIds \ {t} :
              pc[u] \in Executing => taskRec[t].gpuIDs \cap taskRec[u].gpuIDs = {}

\* One report on a task is under way at a time, and its executor waits for it:
\* reports arrive in the order of the statuses, and none follows the last one.
ReportsInOrder ==
    /\ \A r \in reports : pc[r.task] \in {"starting", "working", "ending", "failing"}
    /\ \A r, q \in reports : r.task = q.task => r = q
=============================================================================
