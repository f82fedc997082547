------------------------------- MODULE System -------------------------------
(***************************************************************************)
(* The scheduler and its workers, joined by the calls RequestTask and      *)
(* ReportTaskStatus and by the MonitorWorker stream.  One worker, Me, is   *)
(* the process of Worker.  Of the others there are the calls they make:    *)
(* they poll, and report whatever they like on the tasks they were         *)
(* answered with.                                                          *)
(*                                                                         *)
(* RequestTask gives out tasks only where a pass has left assignable ones, *)
(* which is after a restart with the other policy (AssignedOnceByPass of   *)
(* Scheduler, Persistence_request.cfg).  So the initial state is the one   *)
(* of a server that ran the simple policy and was started again with the   *)
(* balanced one: the workers, registered before, hold what the pass gave   *)
(* them, and other tasks wait.                                             *)
(*                                                                         *)
(* The scheduler sends no commands, so that the worker is never paused,    *)
(* and tasks are stopped by status updates only.                           *)
(***************************************************************************)
EXTENDS Scheduler

CONSTANTS
    Me,             \* the worker whose process is looked at
    Registered,     \* the registered workers, Me among them, with their GPUs
    Steps,          \* bound: iterations of executeTask's loop
    Held,           \* the tasks held at first, by which worker and on which GPUs
    Settings        \* the circumstances to look at, of which each behaviour has
                    \* one: the queue at first, how many status updates the
                    \* stream brings (0 is no stream) and whether calls may fail

GPUList == Registered[Me]
Others == DOMAIN Registered \ {Me}

\* The tasks that are held were given GPUs of their worker, and the others wait
\* in the queue once.
ASSUME SystemAssumptions ==
    /\ Me \in DOMAIN Registered /\ DOMAIN Registered \subseteq WorkerIds
    /\ IsFiniteSet(DOMAIN Registered)
    /\ \A w \in DOMAIN Registered :
          /\ Registered[w] \in Seq(GPU)
          /\ DistinctIds(Registered[w])
          /\ \A i \in DOMAIN Registered[w] : Registered[w][i].available
    /\ Steps \in Nat
    /\ "none" \notin TaskIds
    /\ DOMAIN Held \subseteq TaskIds
    /\ \A t \in DOMAIN Held :
          /\ Held[t].worker \in DOMAIN Registered
          /\ Held[t].gpus \subseteq {Registered[Held[t].worker][i].id : i \in DOMAIN Registered[Held[t].worker]}
    /\ \A s \in Settings :
          /\ s.queue \in Seq(TaskIds \ DOMAIN Held)
          /\ \A i, j \in DOMAIN s.queue : s.queue[i] = s.queue[j] => i = j
          /\ s.updates \in Nat

VARIABLES
    \* the worker's variables, see Worker
    gpus, status, activeTasks, paused, strategy, wmu, taskRec, pc, progress,
    poller, cleaners, reports, main,
    setting,        \* one of Settings
    reply,          \* the task that RequestTask has answered with, or "none"
    stream,         \* status updates on their way, the oldest first
    sent,           \* how many were sent
    theirs,         \* the tasks that each other worker was answered with
    canceled,       \* tasks that a status update has canceled at Me
    lost            \* tasks whose end an update or a failed call has hidden
                    \* from the scheduler

W == INSTANCE Worker WITH Updates <- {}, Strategies <- {}

wvars == <<gpus, status, activeTasks, paused, strategy, wmu, taskRec, pc, progress,
           poller, cleaners, reports, main>>
history == <<canceled, lost>>
svars == <<vars, wvars, reply, stream, sent, theirs, history, setting>>

HeldBy(w) == {t \in DOMAIN Held : Held[t].worker = w}

SInit ==
    /\ setting \in Settings
    /\ workers = [w \in DOMAIN Registered |->
                    [gpus   |-> MarkGPUs(Registered[w], UNION {Held[t].gpus : t \in HeldBy(w)}, FALSE),
                     status |-> IF HeldBy(w) = {} THEN "IDLE" ELSE "BUSY",
                     tasks  |-> HeldBy(w)]]
    /\ tasks = [t \in DOMAIN Held \cup Range(setting.queue) |->
                  IF t \in DOMAIN Held
                  THEN [status |-> "RUNNING", workerID |-> Held[t].worker, assignedGPUs |-> Held[t].gpus]
                  ELSE [status |-> "PENDING", workerID |-> NoWorker, assignedGPUs |-> {}]]
    /\ pendingTasks = setting.queue
    /\ workloadPolicy = "balanced"
    /\ persistenceManager = FALSE
    /\ saveTrigger = FALSE
    /\ mu = "free"
    /\ scan = 1
    /\ W!WInit
    /\ reply = "none"
    /\ stream = <<>>
    /\ sent = 0
    /\ theirs = [v \in Others |-> {}]
    /\ canceled = {}
    /\ lost = {}

-----------------------------------------------------------------------------
(* RequestTask.                                                            *)

\* The scheduler answers Me with the task at index i.
Grant(i) ==
    /\ poller = "requesting"
    /\ reply = "none"
    /\ mu = "free"
    /\ AssignOnRequest(Me, i)
    /\ reply' = pendingTasks[i]
    /\ UNCHANGED <<wvars, stream, sent, theirs, history, setting>>

\* It has none for it.
Refuse ==
    /\ reply = "none"
    /\ mu = "free"
    /\ \A i \in DOMAIN pendingTasks : Suitable(pendingTasks[i]) = {}
    /\ W!PollRefused
    /\ UNCHANGED <<vars, reply, stream, sent, theirs, history, setting>>

\* The call fails before or after the scheduler has answered.
PollFails ==
    /\ setting.lossy
    /\ W!PollRefused
    /\ reply' = "none"
    /\ UNCHANGED <<vars, stream, sent, theirs, history, setting>>

\* The answer is there and the worker executes the task.
Deliver ==
    /\ reply # "none"
    /\ W!ExecuteTask(reply)
    /\ reply' = "none"
    /\ UNCHANGED <<vars, stream, sent, theirs, history, setting>>

\* The scheduler answers another worker with the task at index i.
OtherRequests(v, i) ==
    /\ mu = "free"
    /\ AssignOnRequest(v, i)
    /\ theirs' = [theirs EXCEPT ![v] = @ \cup {pendingTasks[i]}]
    /\ UNCHANGED <<wvars, reply, stream, sent, history, setting>>

-----------------------------------------------------------------------------
(* ReportTaskStatus.                                                       *)

\* The scheduler handles a report of Me, and the call returns.
Handle(r) ==
    /\ ReportProgress(Me, r.task, r.status) \/ ReportEnd(Me, r.task, r.status)
    /\ W!Returned(r)
    /\ UNCHANGED <<reply, stream, sent, theirs, history, setting>>

\* The call fails before the scheduler has handled it.
ReportFails(r) ==
    /\ setting.lossy
    /\ W!Returned(r)
    /\ lost' = lost \cup (IF r.status \in Terminal THEN {r.task} ELSE {})
    /\ UNCHANGED <<vars, reply, stream, sent, theirs, canceled, setting>>

\* Another worker reports on a task it was answered with.
OtherReports(v, t) ==
    /\ t \in theirs[v]
    /\ \E s \in Reported : ReportProgress(v, t, s) \/ ReportEnd(v, t, s)
    /\ UNCHANGED <<wvars, reply, stream, sent, theirs, history, setting>>

-----------------------------------------------------------------------------
(* MonitorWorker.                                                          *)

\* What the scheduler sends of the worker.
View ==
    [gpus   |-> [id \in {g.id : g \in Range(workers[Me].gpus)} |->
                    \E i \in DOMAIN workers[Me].gpus :
                        workers[Me].gpus[i].id = id /\ workers[Me].gpus[i].available],
     status |-> workers[Me].status,
     tasks  |-> [t \in workers[Me].tasks |-> tasks[t].status]]

\* One round of the stream handler's loop.
MonitorWorker ==
    /\ mu = "free"
    /\ sent < setting.updates
    /\ stream' = Append(stream, View)
    /\ sent' = sent + 1
    /\ UNCHANGED <<vars, wvars, reply, theirs, history, setting>>

\* Active tasks that Me takes for canceled: update s leaves them out, or says
\* that they are over.
Canceled(s) == W!Unlisted(s) \cup {t \in W!Differing(s) : s.tasks[t] \in W!Ended}

\* Active tasks whose executor is about to report that they are complete, and
\* of which update s says otherwise.
Overwritten(s) ==
    {t \in W!Differing(s) :
        /\ taskRec[t].status = "COMPLETED"
        /\ \E r \in reports : r.task = t /\ r.by = "executor" /\ r.status = "unread"}

\* The worker receives the oldest update.
Receive ==
    /\ stream # <<>>
    /\ W!StatusUpdate(Head(stream))
    /\ stream' = Tail(stream)
    /\ canceled' = canceled \cup Canceled(Head(stream))
    /\ lost' = lost \cup Overwritten(Head(stream))
    /\ UNCHANGED <<vars, reply, sent, theirs, setting>>

-----------------------------------------------------------------------------
(* What the worker does without the scheduler.                             *)

Alone == UNCHANGED <<vars, reply, stream, sent, theirs, history, setting>>

PollAlone == W!Poll /\ Alone
ExecutorAlone(t) == W!Executor(t) /\ Alone
SendAlone(r) == r \in reports /\ W!SendReport(r) /\ Alone
CleanAlone(c) == W!Clean(c) /\ Alone

\* The pass that follows the end of a task.
SchedulerPass == Pass /\ UNCHANGED <<wvars, reply, stream, sent, theirs, history, setting>>

SNext ==
    \/ PollAlone
    \/ \E i \in DOMAIN pendingTasks : Grant(i)
    \/ Refuse
    \/ PollFails
    \/ Deliver
    \/ \E t \in TaskIds : ExecutorAlone(t)
    \/ \E r \in reports : SendAlone(r) \/ Handle(r) \/ ReportFails(r)
    \/ MonitorWorker
    \/ Receive
    \/ \E c \in cleaners : CleanAlone(c)
    \/ SchedulerPass
    \/ \E v \in Others :
          \/ \E i \in DOMAIN pendingTasks : OtherRequests(v, i)
          \/ \E t \in TaskIds : OtherReports(v, t)

\* A step of the goroutine that polls, or of the one that executes t.
Poller == PollAlone \/ Refuse \/ Deliver \/ \E i \in DOMAIN pendingTasks : Grant(i)
ExecutorGoesOn(t) == ExecutorAlone(t) \/ \E r \in reports : r.by = "executor" /\ r.task = t /\ SendAlone(r)

\* Goroutines that can run are run, and a call that waits for the scheduler's
\* lock gets it in the end: Go's mutexes do not let a waiter starve.
SFairness ==
    /\ SF_svars(Poller)
    /\ WF_svars(SchedulerPass)
    /\ \A t \in TaskIds \ DOMAIN Held :
          /\ WF_svars(ExecutorGoesOn(t))
          /\ SF_svars(\E r \in reports : r.task = t /\ Handle(r))

SSpec == SInit /\ [][SNext]_svars /\ SFairness

-----------------------------------------------------------------------------
(* Properties that hold although calls fail and updates are late.          *)

\* Both sides keep their types.
STypeOK ==
    /\ TypeOK
    /\ W!WTypeOK
    /\ reply \in TaskIds \cup {"none"}
    /\ sent \in Len(stream)..setting.updates
    /\ theirs \in [Others -> SUBSET TaskIds]
    /\ canceled \subseteq TaskIds /\ lost \subseteq TaskIds

\* No task is executed twice or by two workers, although RequestTask answers one
\* worker with a task it records for another: what Me executes, or has executed,
\* counts as assigned, waits in no queue, and neither was any other worker
\* answered with it nor is it booked on one.
ExecutedOnce ==
    \A t \in TaskIds : pc[t] # "none" =>
        /\ tasks[t].workerID # NoWorker
        /\ \A i \in DOMAIN pendingTasks : pendingTasks[i] # t
        /\ \A v \in Others : t \notin theirs[v] \cup workers[v].tasks

\* The scheduler keeps the GPUs of a task booked as long as the loop of its
\* executor runs, also if a late update has the worker cancel the task and
\* report that, since the executor is not stopped by it.
BookedWhileExecuted ==
    \A t \in TaskIds : pc[t] \in {"starting", "loop", "step", "working"} => t \in workers[Me].tasks

\* When a task is over at the worker, the scheduler does not hold it any more,
\* unless its report failed, or an update came in between that has canceled the
\* task or has overwritten its status before that was read.
EndReachesScheduler ==
    \A t \in TaskIds \ (canceled \cup lost) :
        pc[t] \in {"cleanup", "done"} => t \notin workers[Me].tasks

\* The worker reports on tasks that the scheduler holds for it, and not after
\* their end, except on those that an update has canceled.
ReportsOnHeld == \A r \in reports : r.task \notin canceled => r.task \in workers[Me].tasks

\* Two tasks that are executed at one time use different GPUs.
NoSharedGPU ==
    \A t, u \in TaskIds :
        t # u /\ pc[t] \in W!Executing /\ pc[u] \in W!Executing
            => taskRec[t].gpuIDs \cap taskRec[u].gpuIDs = {}

\* So they do as long as no update has canceled a task: the worker keeps their
\* GPUs apart although every update brings the scheduler's view of them, which
\* is late and in which other GPUs are taken than the worker took.
NoSharedGPUUntilCanceled == canceled = {} => NoSharedGPU

\* The scheduler gets back the GPUs of every task that the worker starts to
\* execute, unless an update or a failed call has come in between.
ExecutedIsReleased ==
    \A t \in TaskIds \ DOMAIN Held :
        (pc[t] = "starting") ~> (t \in canceled \cup lost \/ t \notin workers[Me].tasks)

-----------------------------------------------------------------------------
(* Properties of the documentation that do not hold.                       *)

\* The end of every task reaches the scheduler.
EndReleasesBooking ==
    \A t \in TaskIds : pc[t] \in {"cleanup", "done"} => t \notin workers[Me].tasks

\* A task is executed on as many GPUs as it asked for.
EnoughGPUs ==
    \A t \in TaskIds : pc[t] \in W!Executing =>
        Cardinality(taskRec[t].gpuIDs) = Demand[t].requiredGPUs

\* A task is executed on GPUs of the memory it asked for.
EnoughMemory ==
    \A t \in TaskIds : pc[t] \in W!Executing =>
        \A i \in DOMAIN gpus :
            gpus[i].id \in taskRec[t].gpuIDs => gpus[i].memoryMB >= Demand[t].minGPUMemory

\* A task that was assigned to the worker is executed in the end.
AssignedIsExecuted ==
    \A t \in TaskIds : (t \in DOMAIN tasks /\ tasks[t].workerID = Me) ~> (pc[t] # "none")
=============================================================================
