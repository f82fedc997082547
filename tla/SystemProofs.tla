----------------------------- MODULE SystemProofs -----------------------------
(***************************************************************************)
(* Proofs about System: the scheduler and its workers, with calls that     *)
(* fail and status updates that are late.                                  *)
(*                                                                         *)
(* Part 1: the worker within System is the worker of Worker, and what      *)
(*         WorkerProofs shows of it holds here.                            *)
(* Part 2: SInv is inductive, whatever calls fail and updates are late.    *)
(* Part 3: QInv, on the tasks that no update has canceled, is too.         *)
(***************************************************************************)
EXTENDS System, HandlerProofs

-----------------------------------------------------------------------------
(* Part 1.                                                                 *)

\* Any update that the scheduler may send of a worker, by its type.
AnyUpdate ==
    [gpus   : UNION {[S -> BOOLEAN] : S \in SUBSET STRING},
     status : WorkerStatus,
     tasks  : UNION {[S -> TaskStatus] : S \in SUBSET TaskIds}]

\* Worker with any updates and without commands, and what is proved of it.
WP == INSTANCE WorkerProofs WITH Updates <- AnyUpdate, Strategies <- {}

\* The assumptions of Worker hold here.
LEMMA WorkerAssumed == WP!WorkerAssumptions
<1>1. ASSUME NEW s \in AnyUpdate
      PROVE  /\ \A id \in DOMAIN s.gpus : s.gpus[id] \in BOOLEAN
             /\ s.status \in WorkerStatus
             /\ \A t \in DOMAIN s.tasks : s.tasks[t] \in TaskStatus
  <2> DEFINE G == UNION {[S -> BOOLEAN] : S \in SUBSET STRING}
             U == UNION {[S -> TaskStatus] : S \in SUBSET TaskIds}
  <2>1. \A f \in G : \A id \in DOMAIN f : f[id] \in BOOLEAN
    OBVIOUS
  <2>2. \A f \in U : \A t \in DOMAIN f : f[t] \in TaskStatus
    OBVIOUS
  <2>3. s \in [gpus : G, status : WorkerStatus, tasks : U]
    BY DEF AnyUpdate
  <2> HIDE DEF G, U
  <2>4. s.gpus \in G /\ s.status \in WorkerStatus /\ s.tasks \in U
    BY <2>3
  <2> QED  BY <2>1, <2>2, <2>4
<1> HIDE DEF AnyUpdate
<1> QED
  BY <1>1, SystemAssumptions, SchedulerAssumptions
     DEF GPUList, WP!WorkerAssumptions, WP!TaskDemand, TaskDemand, WP!GPU, GPU, WP!DistinctIds, DistinctIds,
         WP!WorkerStatus, WorkerStatus, WP!TaskStatus, TaskStatus

\* What both instances are built from is the same.
LEMMA SameParts ==
    /\ \A S : W!Cardinality(S) = WP!Cardinality(S)
    /\ \A list, ids, on : W!MarkGPUs(list, ids, on) = WP!MarkGPUs(list, ids, on)
    /\ \A list, ids, on : W!MarkGPUs(list, ids, on) = MarkGPUs(list, ids, on)
    /\ W!Free = WP!Free
    /\ (W!CanRead <=> WP!CanRead) /\ (W!CanWrite <=> WP!CanWrite) /\ (W!Cancelled <=> WP!Cancelled)
    /\ W!Executing = WP!Executing
  BY DEF W!Cardinality, WP!Cardinality, W!MarkGPUs, WP!MarkGPUs, MarkGPUs, W!Free, WP!Free, W!CanRead, WP!CanRead,
     W!CanWrite, WP!CanWrite, W!Cancelled, WP!Cancelled, W!Executing, WP!Executing

LEMMA SameType == W!WTypeOK <=> WP!WTypeOK
  BY SameParts DEF W!WTypeOK, WP!WTypeOK, W!ReportRecord, WP!ReportRecord,
     W!GPU, WP!GPU, W!TaskStatus, WP!TaskStatus, W!WorkerStatus, WP!WorkerStatus

LEMMA SameInit == W!WInit <=> WP!WInit
  BY DEF W!WInit, WP!WInit

LEMMA SamePoller ==
    /\ W!Poll => WP!Poll
    /\ W!PollRefused => WP!PollRefused
    /\ \A t : W!ExecuteTask(t) => WP!ExecuteTask(t)
<1>1. \A n : W!Allocations(n) = WP!Allocations(n)
  BY SameParts DEF W!Allocations, WP!Allocations, W!TakenBefore, WP!TakenBefore
<1>2. W!Poll => WP!Poll
  BY SameParts DEF W!Poll, WP!Poll, W!config, WP!config
<1>3. W!PollRefused => WP!PollRefused
  BY DEF W!PollRefused, WP!PollRefused, W!config, WP!config
<1>4. ASSUME NEW t, W!ExecuteTask(t) PROVE WP!ExecuteTask(t)
  <2>1. \A ids : W!MarkGPUs(gpus, ids, FALSE) = WP!MarkGPUs(gpus, ids, FALSE)
    BY SameParts
  <2> QED  BY <1>1, <1>4, <2>1, SameParts DEF W!ExecuteTask, WP!ExecuteTask, W!config, WP!config
<1> QED  BY <1>2, <1>3, <1>4

LEMMA SameReports ==
    /\ \A r : W!SendReport(r) => WP!SendReport(r)
    /\ \A r : W!Returned(r) => WP!Returned(r)
  BY SameParts DEF W!SendReport, WP!SendReport, W!Returned, WP!Returned, W!config, WP!config

LEMMA SameExecutor == \A t : W!Executor(t) => WP!Executor(t)
<1> SUFFICES ASSUME NEW t, W!Executor(t) PROVE WP!Executor(t)
  OBVIOUS
<1>1. \A from, to, record : W!ExecutorReports(t, from, to, record) => WP!ExecutorReports(t, from, to, record)
  BY SameParts DEF W!ExecutorReports, WP!ExecutorReports, W!config, WP!config
<1>2. W!MoreSteps(t) <=> WP!MoreSteps(t)
  BY DEF W!MoreSteps, WP!MoreSteps
<1>3. CASE W!LoopPaused(t)
  BY <1>2, <1>3, SameParts DEF W!LoopPaused, WP!LoopPaused, WP!Executor, W!config, WP!config
<1>4. CASE W!LoopGo(t)
  BY <1>2, <1>4, SameParts DEF W!LoopGo, WP!LoopGo, WP!Executor, W!config, WP!config
<1>5. CASE W!Step(t)
  BY <1>1, <1>5 DEF W!Step, WP!Step, WP!Executor
<1>6. CASE W!Fail(t)
  BY <1>1, <1>6 DEF W!Fail, WP!Fail, WP!Executor
<1>7. CASE W!Complete(t)
  BY <1>1, <1>2, <1>7 DEF W!Complete, WP!Complete, WP!Executor
<1>8. CASE W!Cleanup(t)
  BY <1>8, SameParts DEF W!Cleanup, WP!Cleanup, WP!Executor, W!config, WP!config
<1> QED  BY <1>3, <1>4, <1>5, <1>6, <1>7, <1>8 DEF W!Executor

LEMMA SameUpdates ==
    /\ \A s : W!StatusUpdate(s) => WP!StatusUpdate(s)
    /\ \A c : W!Clean(c) => WP!Clean(c)
    /\ \A s : W!Unlisted(s) = WP!Unlisted(s) /\ W!Differing(s) = WP!Differing(s)
<1>1. \A s :
         /\ W!Synchronized(s) = WP!Synchronized(s)
         /\ W!Unlisted(s) = WP!Unlisted(s)
         /\ W!Differing(s) = WP!Differing(s)
         /\ W!StuckInMetrics(s) <=> WP!StuckInMetrics(s)
  BY DEF W!Synchronized, WP!Synchronized, W!InUse, WP!InUse, W!Unlisted, WP!Unlisted,
     W!Differing, WP!Differing, W!StuckInMetrics, WP!StuckInMetrics
<1>2. \A s : W!StatusUpdate(s) => WP!StatusUpdate(s)
  BY <1>1, SameParts DEF W!StatusUpdate, WP!StatusUpdate, W!config, WP!config, W!Ended, WP!Ended
<1>3. \A c : W!Clean(c) => WP!Clean(c)
  BY SameParts DEF W!Clean, WP!Clean, W!config, WP!config
<1> QED  BY <1>1, <1>2, <1>3

-----------------------------------------------------------------------------
(* Part 2.                                                                 *)

Over == {"ending", "cleanup", "done"}

\* No worker comes or goes, and Me is not told to stop.
Staying == DOMAIN workers = DOMAIN Registered /\ Me \in DOMAIN workers /\ main = "running"

\* A task that was assigned and is not queued.
GivenOut(t) ==
    /\ t \in DOMAIN tasks /\ tasks[t].workerID # NoWorker
    /\ \A i \in DOMAIN pendingTasks : pendingTasks[i] # t

\* Me executes it, or did, or is about to, or has it booked; others do.
Mine(t) == pc[t] # "none" \/ reply = t \/ t \in workers[Me].tasks
Elsewhere(t) == \E v \in Others : t \in theirs[v] \cup workers[v].tasks

\* Only what was given out is claimed, and not by two.
Claims ==
    \A t \in TaskIds :
        /\ Mine(t) \/ Elsewhere(t) => GivenOut(t)
        /\ ~(Mine(t) /\ Elsewhere(t))

\* An answer on its way is about a task that is booked and not yet executed.
ReplyBooked == reply # "none" => reply \in TaskIds /\ pc[reply] = "none" /\ reply \in workers[Me].tasks

\* The scheduler holds no task for Me that it knows to be over.
HeldGoesOn == \A t \in workers[Me].tasks : t \in DOMAIN tasks /\ tasks[t].status \notin Terminal

\* Hence no status update says of a task that it is over, however late it is.
StreamGoesOn ==
    /\ stream \in Seq(AnyUpdate)
    /\ sent \in Len(stream)..setting.updates
    /\ \A i \in DOMAIN stream : \A t \in DOMAIN stream[i].tasks : stream[i].tasks[t] \notin Terminal

\* Hence a task that is recorded or reported as over is one whose loop is over.
OverIsOver ==
    /\ \A t \in TaskIds : taskRec[t].status \in Terminal => pc[t] \in Over
    /\ \A r \in reports : r.status \in Terminal => pc[r.task] \in Over

HistoryTyped ==
    /\ theirs \in [Others -> SUBSET TaskIds]
    /\ canceled \subseteq TaskIds /\ lost \subseteq TaskIds

Joined == Claims /\ ReplyBooked /\ HeldGoesOn /\ StreamGoesOn /\ OverIsOver /\ HistoryTyped /\ BookedWhileExecuted

SInv ==
    /\ TInv
    /\ WP!WIInv
    /\ setting \in Settings
    /\ Staying
    /\ Joined

Looping == {"starting", "loop", "step", "working"}

\* How the executors move, whatever the worker does but executeTask: none
\* begins, none comes back from its end, and none gets into its loop again.
PcMoves ==
    \A t \in TaskIds :
        /\ pc'[t] = "none" <=> pc[t] = "none"
        /\ pc[t] \in Over => pc'[t] \in Over
        /\ pc'[t] \in Looping => pc[t] \in Looping

NewReport(t) == [by |-> "executor", task |-> t, status |-> "unread"]

\* What the steps of an executor have in common.  None fails, as the worker is
\* not told to stop, and only the last one changes the status of the task.
LEMMA ExecutorShape ==
    ASSUME WP!WIInv, main = "running", NEW t \in TaskIds, WP!Executor(t)
    PROVE  \E from, to, record :
              /\ pc[t] = from /\ pc' = [pc EXCEPT ![t] = to]
              /\ <<from, to>> \in {<<"loop", "loop">>, <<"loop", "step">>, <<"step", "working">>,
                                   <<"loop", "ending">>, <<"cleanup", "done">>}
              /\ taskRec' = [taskRec EXCEPT ![t] = record]
              /\ IF to = "ending" THEN record.status = "COMPLETED" ELSE record.status = taskRec[t].status
              /\ reports' \in {reports, reports \cup {NewReport(t)}}
              /\ UNCHANGED <<main, cleaners>>
<1> USE DEF NewReport
<1>1. /\ pc \in [TaskIds -> WP!Executing \cup {"none", "done", "failed"}]
      /\ taskRec \in [TaskIds -> [status : TaskStatus, gpuIDs : SUBSET STRING, metrics : Nat]]
      /\ \A u \in TaskIds : pc[u] \notin {"fail", "failing", "failed"}
  BY DEF WP!WIInv, WP!WTypeOK, WP!FailsWhenCancelled, WP!Cancelled, WP!TaskStatus, TaskStatus
<1>2. taskRec = [taskRec EXCEPT ![t] = taskRec[t]] /\ pc = [pc EXCEPT ![t] = pc[t]]
  BY <1>1
<1>3. CASE WP!LoopPaused(t)
  BY <1>2, <1>3 DEF WP!LoopPaused
<1>4. CASE WP!LoopGo(t)
  <2>1. pc[t] = "loop" /\ pc' = [pc EXCEPT ![t] = "step"] /\ taskRec' = taskRec /\ reports' = reports /\ UNCHANGED <<main, cleaners>>
    BY <1>4 DEF WP!LoopGo, WP!Cancelled
  <2> QED  BY <1>2, <2>1
<1>5. CASE WP!Step(t)
  <2>1. /\ pc[t] = "step" /\ pc' = [pc EXCEPT ![t] = "working"] /\ reports' = reports \cup {NewReport(t)}
        /\ UNCHANGED <<main, cleaners>>
        /\ taskRec' = [taskRec EXCEPT ![t] = [taskRec[t] EXCEPT !.metrics = @ + 1]]
    BY <1>5 DEF WP!Step, WP!ExecutorReports
  <2>2. [taskRec[t] EXCEPT !.metrics = @ + 1].status = taskRec[t].status
    BY <1>1
  <2> QED  BY <2>1, <2>2
<1>6. CASE WP!Fail(t)
  BY <1>6, <1>1 DEF WP!Fail, WP!ExecutorReports
<1>7. CASE WP!Complete(t)
  <2>1. /\ pc[t] = "loop" /\ pc' = [pc EXCEPT ![t] = "ending"] /\ reports' = reports \cup {NewReport(t)}
        /\ UNCHANGED <<main, cleaners>>
        /\ taskRec' = [taskRec EXCEPT ![t] = [taskRec[t] EXCEPT !.status = "COMPLETED"]]
    BY <1>7 DEF WP!Complete, WP!ExecutorReports
  <2>2. [taskRec[t] EXCEPT !.status = "COMPLETED"].status = "COMPLETED"
    BY <1>1
  <2> QED  BY <2>1, <2>2
<1>8. CASE WP!Cleanup(t)
  BY <1>2, <1>8 DEF WP!Cleanup
<1> QED  BY <1>3, <1>4, <1>5, <1>6, <1>7, <1>8 DEF WP!Executor

\* A step of an executor.
LEMMA ExecutorMoves ==
    ASSUME WP!WIInv, main = "running", OverIsOver, NEW t \in TaskIds, WP!Executor(t)
    PROVE  PcMoves /\ OverIsOver' /\ main' = main
<1>1. /\ pc \in [TaskIds -> WP!Executing \cup {"none", "done", "failed"}]
      /\ DOMAIN taskRec = TaskIds
      /\ reports \subseteq WP!ReportRecord
  BY DEF WP!WIInv, WP!WTypeOK
<1>2. \A r \in reports : r.task \in TaskIds
  BY <1>1 DEF WP!ReportRecord
<1>3. NewReport(t).status \notin Terminal
  BY DEF NewReport, Terminal
<1>4. PICK from, to, record :
         /\ pc[t] = from /\ pc' = [pc EXCEPT ![t] = to]
         /\ <<from, to>> \in {<<"loop", "loop">>, <<"loop", "step">>, <<"step", "working">>,
                              <<"loop", "ending">>, <<"cleanup", "done">>}
         /\ taskRec' = [taskRec EXCEPT ![t] = record]
         /\ record.status = taskRec[t].status \/ to = "ending"
         /\ reports' \in {reports, reports \cup {NewReport(t)}}
         /\ main' = main
  BY ExecutorShape
<1>5. pc'[t] = to /\ \A u \in TaskIds \ {t} : pc'[u] = pc[u]
  BY <1>1, <1>4
<1>6. PcMoves
  BY <1>4, <1>5 DEF PcMoves, Over, Looping
<1>7. OverIsOver'
  <2>1. \A u \in TaskIds : taskRec'[u].status \in Terminal => pc'[u] \in Over
    <3>1. taskRec'[t] = record /\ \A u \in TaskIds \ {t} : taskRec'[u] = taskRec[u]
      BY <1>1, <1>4
    <3>2. record.status \in Terminal => pc'[t] \in Over
      BY <1>4, <1>5, <1>6 DEF OverIsOver, PcMoves, Over
    <3> QED  BY <3>1, <3>2, <1>5 DEF OverIsOver
  <2>2. \A r \in reports' : r.status \in Terminal => r \in reports
    BY <1>3, <1>4
  <2> QED  BY <2>1, <2>2, <1>2, <1>6 DEF OverIsOver, PcMoves
<1> QED  BY <1>4, <1>6, <1>7

\* A report of an executor has returned, and the executor goes on.
LEMMA ReturnedShape ==
    ASSUME WP!WIInv, NEW r \in reports, WP!Returned(r), r.by = "executor"
    PROVE  \E to :
              /\ pc' = [pc EXCEPT ![r.task] = to]
              /\ <<pc[r.task], to>> \in {<<"starting", "loop">>, <<"working", "loop">>,
                                         <<"ending", "cleanup">>, <<"failing", "failed">>}
<1> DEFINE to == CASE pc[r.task] = "starting" -> "loop"
                   [] pc[r.task] = "working"  -> "loop"
                   [] pc[r.task] = "ending"   -> "cleanup"
                   [] pc[r.task] = "failing"  -> "failed"
<1>1. pc[r.task] \in {"starting", "working", "ending", "failing"}
  BY DEF WP!WIInv, WP!ExecutorWaits, WP!Calling
<1>2. pc' = [pc EXCEPT ![r.task] = to]
  BY DEF WP!Returned
<1>3. <<pc[r.task], to>> \in {<<"starting", "loop">>, <<"working", "loop">>,
                              <<"ending", "cleanup">>, <<"failing", "failed">>}
  BY <1>1
<1> HIDE DEF to
<1> QED  BY <1>2, <1>3

\* A report has returned.
LEMMA ReturnedMoves ==
    ASSUME WP!WIInv, OverIsOver, NEW r \in reports, WP!Returned(r)
    PROVE  PcMoves /\ OverIsOver' /\ main' = main /\ taskRec' = taskRec /\ reports' = reports \ {r}
<1>1. /\ pc \in [TaskIds -> WP!Executing \cup {"none", "done", "failed"}]
      /\ reports \subseteq WP!ReportRecord
  BY DEF WP!WIInv, WP!WTypeOK
<1>2. \A q \in reports : q.task \in TaskIds
  BY <1>1 DEF WP!ReportRecord
<1>3. main' = main /\ taskRec' = taskRec /\ reports' = reports \ {r}
  BY DEF WP!Returned
<1>4. PcMoves
  <2>1. CASE r.by # "executor"
    BY <2>1 DEF WP!Returned, PcMoves
  <2>2. CASE r.by = "executor"
    BY <2>2, <1>1, <1>2, ReturnedShape DEF PcMoves, Over, Looping
  <2> QED  BY <2>1, <2>2
<1> QED  BY <1>2, <1>3, <1>4 DEF OverIsOver, PcMoves

\* Steps of the worker alone leave what the scheduler has booked.
LEMMA WorkerOnly ==
    ASSUME SInv, PcMoves, UNCHANGED <<workers, tasks, pendingTasks, theirs>>, reply' \in {reply, "none"}
    PROVE  Claims' /\ ReplyBooked' /\ HeldGoesOn' /\ BookedWhileExecuted'
<1>1. \A t : (GivenOut(t)' <=> GivenOut(t)) /\ (Elsewhere(t)' <=> Elsewhere(t))
  BY DEF GivenOut, Elsewhere
<1>2. \A t \in TaskIds : Mine(t)' => Mine(t)
  BY SystemAssumptions DEF Mine, PcMoves
<1>3. Claims'
  BY <1>1, <1>2 DEF SInv, Joined, Claims
<1>4. ReplyBooked'
  BY DEF SInv, Joined, ReplyBooked, PcMoves
<1>5. HeldGoesOn'
  BY DEF SInv, Joined, HeldGoesOn
<1>6. BookedWhileExecuted'
  BY DEF SInv, Joined, BookedWhileExecuted, PcMoves, Looping
<1> QED  BY <1>3, <1>4, <1>5, <1>6

\* What the scheduler sends of the worker is a status update, and says of no
\* task that it is over.
LEMMA ViewGoesOn ==
    ASSUME TInv, Staying, HeldGoesOn
    PROVE  View \in AnyUpdate /\ \A t \in DOMAIN View.tasks : View.tasks[t] \notin Terminal
<1> DEFINE list == workers[Me].gpus
           held == workers[Me].tasks
           free == [id \in {g.id : g \in Range(list)} |->
                       \E i \in DOMAIN list : list[i].id = id /\ list[i].available]
           told == [t \in held |-> tasks[t].status]
<1>1. workers[Me] \in WorkerRecord /\ \A t \in DOMAIN tasks : tasks[t] \in TaskRecord
  BY DEF TInv, TypeOK, Staying
<1>2. list \in Seq(GPU) /\ workers[Me].status \in WorkerStatus /\ held \subseteq TaskIds
  BY <1>1 DEF WorkerRecord
<1>3. free \in UNION {[S -> BOOLEAN] : S \in SUBSET STRING}
  <2>1. {g.id : g \in Range(list)} \in SUBSET STRING
    <3> HIDE DEF list
    <3>1. \A i \in DOMAIN list : list[i] \in GPU
      BY <1>2
    <3>2. \A g \in Range(list) : g \in GPU
      BY <3>1 DEF Range
    <3>3. \A g \in GPU : g.id \in STRING
      BY DEF GPU
    <3> QED  BY <3>2, <3>3
  <2>2. free \in [{g.id : g \in Range(list)} -> BOOLEAN]
    OBVIOUS
  <2> QED  BY <2>1, <2>2
<1>4. told \in [held -> TaskStatus] /\ \A t \in held : told[t] \notin Terminal
  BY <1>1 DEF HeldGoesOn, TaskRecord
<1>5. told \in UNION {[S -> TaskStatus] : S \in SUBSET TaskIds}
  BY <1>2, <1>4
<1>6. View = [gpus |-> free, status |-> workers[Me].status, tasks |-> told]
  BY DEF View
<1> HIDE DEF free, told
<1>7. View \in AnyUpdate
  BY <1>2, <1>3, <1>5, <1>6 DEF AnyUpdate
<1>8. View.tasks = told
  BY <1>6
<1> QED  BY <1>4, <1>7, <1>8 DEF told

\* The worker's part of a step: nothing, a step of its own goroutines, or the
\* update it receives.
WorkerStep ==
    \/ UNCHANGED WP!wvars
    \/ WP!Inner
    \/ Receive /\ \E s \in AnyUpdate : WP!StatusUpdate(s)

\* What the other workers do.
OthersStep ==
    \E v \in Others :
        \/ \E i \in DOMAIN pendingTasks : OtherRequests(v, i)
        \/ \E t \in TaskIds : OtherReports(v, t)

LEMMA WorkerSteps ==
    ASSUME SInv, [SNext]_svars
    PROVE  WorkerStep /\ main' = main
<1>1. CASE UNCHANGED wvars
  BY <1>1 DEF WorkerStep, wvars, WP!wvars
<1>2. CASE PollAlone
  <2>1. WP!Poll
    BY <1>2, SamePoller DEF PollAlone
  <2> QED  BY <2>1 DEF WorkerStep, WP!Inner, WP!Poll
<1>3. CASE Refuse \/ PollFails
  <2>1. WP!PollRefused
    BY <1>3, SamePoller DEF Refuse, PollFails
  <2> QED  BY <2>1 DEF WorkerStep, WP!Inner, WP!PollRefused
<1>4. CASE Deliver
  <2>1. WP!ExecuteTask(reply) /\ reply \in TaskIds
    BY <1>4, SamePoller DEF Deliver, SInv, Joined, ReplyBooked
  <2> QED  BY <2>1 DEF WorkerStep, WP!Inner, WP!ExecuteTask
<1>5. ASSUME NEW t \in TaskIds, ExecutorAlone(t) PROVE WorkerStep /\ main' = main
  <2>1. WP!Executor(t)
    BY <1>5, SameExecutor DEF ExecutorAlone
  <2>2. main' = main
    BY <2>1, ExecutorMoves DEF SInv, Joined, Staying
  <2> QED  BY <2>1, <2>2 DEF WorkerStep, WP!Inner
<1>6. ASSUME NEW r \in reports, SendAlone(r) PROVE WorkerStep /\ main' = main
  <2>1. WP!SendReport(r)
    BY <1>6, SameReports DEF SendAlone
  <2> QED  BY <2>1 DEF WorkerStep, WP!Inner, WP!SendReport
<1>7. ASSUME NEW r \in reports, Handle(r) \/ ReportFails(r) PROVE WorkerStep /\ main' = main
  <2>1. WP!Returned(r)
    BY <1>7, SameReports DEF Handle, ReportFails
  <2> QED  BY <2>1 DEF WorkerStep, WP!Inner, WP!Returned
<1>8. CASE Receive
  <2>1. WP!StatusUpdate(Head(stream))
    BY <1>8, SameUpdates DEF Receive
  <2>2. Head(stream) \in AnyUpdate
    BY <1>8 DEF Receive, SInv, Joined, StreamGoesOn
  <2> HIDE DEF AnyUpdate
  <2> QED  BY <1>8, <2>1, <2>2 DEF WorkerStep, WP!StatusUpdate
<1>9. ASSUME NEW c \in cleaners, CleanAlone(c) PROVE WorkerStep /\ main' = main
  <2>1. WP!Clean(c)
    BY <1>9, SameUpdates DEF CleanAlone
  <2> QED  BY <2>1 DEF WorkerStep, WP!Inner, WP!Clean
<1>10. UNCHANGED svars \/ MonitorWorker \/ SchedulerPass \/ (\E i \in DOMAIN pendingTasks : Grant(i)) \/ OthersStep => UNCHANGED wvars
  BY DEF svars, MonitorWorker, SchedulerPass, Grant, OthersStep, OtherRequests, OtherReports
<1> QED  BY <1>1, <1>2, <1>3, <1>4, <1>5, <1>6, <1>7, <1>8, <1>9, <1>10 DEF SNext, OthersStep

\* Hence the invariant of the worker is preserved.
LEMMA WorkerKept ==
    ASSUME SInv, [SNext]_svars
    PROVE  WP!WIInv' /\ main' = "running"
<1>1. [WP!WNext]_(WP!wvars) /\ main' = main
  BY WorkerSteps DEF WorkerStep, WP!WNext
<1> QED  BY <1>1, WorkerAssumed, WP!NextWIInv DEF SInv, Staying

\* The scheduler's part of every step is a handler that a worker calls, or its
\* pass; these preserve TInv.
LEMMA SchedulerKept ==
    ASSUME SInv, [SNext]_svars
    PROVE  TInv' /\ DOMAIN workers' = DOMAIN workers /\ setting' = setting
<1> DEFINE Goal == TInv' /\ DOMAIN workers' = DOMAIN workers /\ setting' = setting
<1>1. TInv /\ Me \in WorkerIds /\ Others \subseteq WorkerIds /\ DOMAIN workers = Others \cup {Me}
  BY SystemAssumptions DEF SInv, Staying, Others
<1>2. CASE UNCHANGED <<vars, setting>>
  BY <1>1, <1>2, TInvUnchanged DEF vars, tables
<1>3. ASSUME NEW v \in DOMAIN workers, NEW i \in DOMAIN pendingTasks, mu = "free", AssignOnRequest(v, i), setting' = setting
      PROVE  Goal
  <2>1. v \in WorkerIds /\ RequestTask(v)
    BY <1>1, <1>3 DEF RequestTask
  <2>2. DOMAIN workers' = DOMAIN workers
    BY <1>3 DEF AssignOnRequest
  <2> QED  BY <1>1, <1>3, <2>1, <2>2, RequestTaskTInv
<1>4. ASSUME NEW v \in DOMAIN workers, NEW t \in TaskIds, NEW s \in TaskStatus,
             ReportProgress(v, t, s) \/ ReportEnd(v, t, s), setting' = setting
      PROVE  Goal
  <2>1. DOMAIN workers' = DOMAIN workers
    BY <1>4 DEF ReportProgress, ReportEnd
  <2>2. v \in WorkerIds
    BY <1>1
  <2> QED  BY <1>1, <1>4, <2>1, <2>2, ReportTInv
<1>5. CASE SchedulerPass
  <2>1. DOMAIN workers' = DOMAIN workers
    BY <1>5 DEF SchedulerPass, Pass, AssignSkip, AssignDone, AssignTo, tables
  <2> QED  BY <1>1, <1>5, <2>1, PassTInv DEF SchedulerPass
<1>6. ASSUME NEW r \in reports, Handle(r) PROVE Goal
  <2>1. r.task \in TaskIds /\ r.status \in TaskStatus
    <3>1. r \in WP!ReportRecord
      BY DEF SInv, WP!WIInv, WP!WTypeOK
    <3>2. r.status # "unread"
      BY <1>6 DEF Handle, W!Returned
    <3> QED  BY <3>1, <3>2 DEF WP!ReportRecord, WP!TaskStatus, TaskStatus
  <2>2. ReportProgress(Me, r.task, r.status) \/ ReportEnd(Me, r.task, r.status)
    BY <1>6 DEF Handle
  <2> HIDE DEF Goal
  <2> QED  BY <1>1, <1>4, <1>6, <2>1, <2>2 DEF Handle
<1>7. ASSUME NEW i \in DOMAIN pendingTasks, Grant(i) PROVE Goal
  <2> HIDE DEF Goal
  <2> QED  BY <1>1, <1>3, <1>7 DEF Grant
<1>8. CASE OthersStep
  <2> HIDE DEF Goal
  <2>1. PICK v \in Others :
           \/ \E i \in DOMAIN pendingTasks : OtherRequests(v, i)
           \/ \E t \in TaskIds : OtherReports(v, t)
    BY <1>8 DEF OthersStep
  <2>2. Reported \subseteq TaskStatus /\ v \in DOMAIN workers
    BY <1>1, SchedulerAssumptions
  <2>3. ASSUME NEW i \in DOMAIN pendingTasks, OtherRequests(v, i) PROVE Goal
    BY <1>3, <2>2, <2>3 DEF OtherRequests
  <2>4. ASSUME NEW t \in TaskIds, OtherReports(v, t) PROVE Goal
    <3>1. PICK s \in Reported : ReportProgress(v, t, s) \/ ReportEnd(v, t, s)
      BY <2>4 DEF OtherReports
    <3>2. s \in TaskStatus /\ setting' = setting
      BY <2>2, <2>4 DEF OtherReports
    <3> QED  BY <1>4, <2>2, <3>1, <3>2
  <2> QED  BY <2>1, <2>3, <2>4 DEF Goal
<1> QED
  BY <1>2, <1>5, <1>6, <1>7, <1>8 DEF SNext, OthersStep, svars, PollAlone, Refuse, PollFails, Deliver,
     ExecutorAlone, SendAlone, ReportFails, MonitorWorker, Receive, CleanAlone, Alone

\* The bookings of tasks that are executed, or were, stay as they are.
BookingsStay == \A t \in TaskIds : pc[t] # "none" => (t \in workers'[Me].tasks <=> t \in workers[Me].tasks)

\* Who is told: nobody, or the worker v on which task t is booked.
Told(v, t) ==
    \/ UNCHANGED <<reply, theirs>>
    \/ v = Me /\ reply' = t /\ UNCHANGED theirs
    \/ v \in Others /\ theirs' = [theirs EXCEPT ![v] = @ \cup {t}] /\ UNCHANGED reply

\* Task t, the one at i in the queue, is assigned to w and booked on v, by
\* RequestTask or by the pass; the worker is not involved.
LEMMA BookingKept ==
    ASSUME SInv, UNCHANGED <<pc, taskRec, reports>>, QueuedNotAssigned,
           NEW v \in DOMAIN workers, NEW w \in DOMAIN workers,
           NEW i \in DOMAIN pendingTasks, NEW ids, NEW t, t = pendingTasks[i],
           tasks' = [tasks EXCEPT ![t] = Assigned(@, w, ids)],
           workers' = [workers EXCEPT ![v] = TakeTask(@, t, ids)],
           pendingTasks' = Dequeue(pendingTasks, i), Told(v, t)
    PROVE  /\ Claims' /\ ReplyBooked' /\ HeldGoesOn' /\ BookedWhileExecuted' /\ OverIsOver'
           /\ BookingsStay
<1> DEFINE n == Len(pendingTasks)
<1>1. /\ pendingTasks \in Seq(DOMAIN tasks) /\ n \in Nat /\ DOMAIN pendingTasks = 1..n
      /\ i \in 1..n /\ t \in DOMAIN tasks /\ t \in TaskIds
      /\ tasks[t] \in TaskRecord /\ Me \in DOMAIN workers /\ workers[v] \in WorkerRecord
      /\ w # NoWorker /\ DOMAIN workers = Others \cup {Me} /\ Me \notin Others
      /\ theirs \in [Others -> SUBSET TaskIds]
  <2>1. /\ pendingTasks \in Seq(DOMAIN tasks) /\ DOMAIN tasks \subseteq TaskIds
        /\ \A u \in DOMAIN tasks : tasks[u] \in TaskRecord
        /\ \A x \in DOMAIN workers : workers[x] \in WorkerRecord
        /\ DOMAIN workers \subseteq WorkerIds
    BY DEF SInv, TInv, TypeOK
  <2>2. Me \in DOMAIN workers /\ DOMAIN workers = Others \cup {Me} /\ Me \notin Others
    BY DEF SInv, Staying, Others
  <2>3. theirs \in [Others -> SUBSET TaskIds]
    BY DEF SInv, Joined, HistoryTyped
  <2>4. n \in Nat /\ DOMAIN pendingTasks = 1..n /\ i \in 1..n /\ t \in DOMAIN tasks
    BY <2>1
  <2> QED  BY <2>1, <2>2, <2>3, <2>4, SchedulerAssumptions
<1>2. /\ DOMAIN tasks' = DOMAIN tasks
      /\ tasks'[t].workerID = w /\ tasks'[t].status = "RUNNING"
      /\ \A u \in DOMAIN tasks \ {t} : tasks'[u] = tasks[u]
  <2>1. Assigned(tasks[t], w, ids).workerID = w /\ Assigned(tasks[t], w, ids).status = "RUNNING"
    BY <1>1 DEF Assigned, TaskRecord
  <2>2. tasks'[t] = Assigned(tasks[t], w, ids)
    BY <1>1
  <2> QED  BY <1>1, <2>1, <2>2
<1>3. /\ workers'[v].tasks = workers[v].tasks \cup {t}
      /\ \A x \in DOMAIN workers \ {v} : workers'[x] = workers[x]
  BY <1>1 DEF TakeTask, WorkerRecord
<1>4. \A j \in DOMAIN pendingTasks' : pendingTasks'[j] # t /\ \E k \in DOMAIN pendingTasks : pendingTasks'[j] = pendingTasks[k]
  <2>1. /\ pendingTasks' \in Seq(DOMAIN tasks)
        /\ Len(pendingTasks') = n - 1
        /\ \A j \in 1..(n - 1) : pendingTasks'[j] = IF j < i THEN pendingTasks[j] ELSE pendingTasks[j + 1]
    BY <1>1, RemoveAtProps DEF Dequeue
  <2>2. DOMAIN pendingTasks' = 1..(n - 1)
    BY <2>1, <1>1
  <2> HIDE DEF n
  <2>3. ASSUME NEW j \in 1..(n - 1) PROVE \E k \in 1..n : k # i /\ pendingTasks'[j] = pendingTasks[k]
    <3> DEFINE old == IF j < i THEN j ELSE j + 1
    <3>1. old \in 1..n /\ old # i
      BY <1>1
    <3>2. pendingTasks'[j] = pendingTasks[old]
      BY <2>1
    <3> QED  BY <3>1, <3>2
  <2> QED  BY <2>2, <2>3, <1>1 DEF QueuedNotAssigned
<1>5. GivenOut(t)'
  BY <1>1, <1>2, <1>4 DEF GivenOut
<1>6. \A u : GivenOut(u) => u # t /\ GivenOut(u)'
  <2> SUFFICES ASSUME NEW u, GivenOut(u) PROVE u # t /\ GivenOut(u)'
    OBVIOUS
  <2>1. u # t
    BY DEF GivenOut
  <2>2. \A j \in DOMAIN pendingTasks' : pendingTasks'[j] # u
    BY <1>4 DEF GivenOut
  <2> QED  BY <2>1, <2>2, <1>2 DEF GivenOut
<1>7. ~Mine(t) /\ ~Elsewhere(t)
  BY <1>1, <1>6 DEF SInv, Joined, Claims
<1>8. \A u \in TaskIds \ {t} : (Mine(u)' => Mine(u)) /\ (Elsewhere(u)' => Elsewhere(u))
  <2> SUFFICES ASSUME NEW u \in TaskIds \ {t} PROVE (Mine(u)' => Mine(u)) /\ (Elsewhere(u)' => Elsewhere(u))
    OBVIOUS
  <2>1. \A x \in DOMAIN workers : u \in workers'[x].tasks => u \in workers[x].tasks
    BY <1>3
  <2>2. \A x \in Others : u \in theirs'[x] => u \in theirs[x]
    BY <1>1 DEF Told
  <2>3. reply' = u => reply = u
    BY DEF Told
  <2> QED  BY <1>1, <2>1, <2>2, <2>3 DEF Mine, Elsewhere
<1>9. ~(Mine(t)' /\ Elsewhere(t)')
  <2>1. CASE v = Me
    <3>1. \A x \in Others : workers'[x] = workers[x] /\ theirs'[x] = theirs[x]
      BY <1>1, <1>3, <2>1 DEF Told
    <3> QED  BY <1>7, <3>1 DEF Elsewhere
  <2>2. CASE v # Me
    <3>1. workers'[Me] = workers[Me] /\ reply' = reply
      BY <1>1, <1>3, <2>2 DEF Told
    <3> QED  BY <1>7, <3>1 DEF Mine
  <2> QED  BY <2>1, <2>2
<1>10. Claims'
  <2>1. ASSUME NEW u \in TaskIds
        PROVE  (Mine(u)' \/ Elsewhere(u)' => GivenOut(u)') /\ ~(Mine(u)' /\ Elsewhere(u)')
    <3>1. CASE u = t
      BY <1>5, <1>9, <3>1
    <3>2. CASE u # t
      BY <1>6, <1>8, <3>2 DEF SInv, Joined, Claims
    <3> QED  BY <3>1, <3>2
  <2> QED  BY <2>1 DEF Claims
<1>11. HeldGoesOn'
  BY <1>1, <1>2, <1>3 DEF SInv, Joined, HeldGoesOn, Terminal
<1>12. BookedWhileExecuted' /\ OverIsOver'
  BY <1>1, <1>3 DEF SInv, Joined, BookedWhileExecuted, OverIsOver
<1>13. ReplyBooked'
  <2>1. CASE reply' = reply
    BY <1>1, <1>3, <2>1 DEF SInv, Joined, ReplyBooked
  <2>2. CASE v = Me /\ reply' = t
    BY <1>1, <1>3, <1>7, <2>2 DEF ReplyBooked, Mine
  <2> QED  BY <2>1, <2>2 DEF Told
<1>14. BookingsStay
  BY <1>1, <1>3, <1>7 DEF BookingsStay, Mine
<1> QED  BY <1>10, <1>11, <1>12, <1>13, <1>14

\* RequestTask gives worker v a task, where the nested RLock is granted.
LEMMA AssignOnRequestSInv ==
    ASSUME NestedRLockGranted, SInv, NEW v \in DOMAIN workers, NEW i \in DOMAIN pendingTasks,
           mu = "free", AssignOnRequest(v, i), UNCHANGED <<pc, taskRec, reports>>, Told(v, pendingTasks[i])
    PROVE  /\ Claims' /\ ReplyBooked' /\ HeldGoesOn' /\ BookedWhileExecuted' /\ OverIsOver'
           /\ BookingsStay
<1>1. PICK w \in FirstChoices(workloadPolicy, workers, Demand[pendingTasks[i]]) :
         LET ids == ChosenGPUs(workers[w], Demand[pendingTasks[i]]) IN
         /\ tasks' = [tasks EXCEPT ![pendingTasks[i]] = Assigned(@, w, ids)]
         /\ workers' = [workers EXCEPT ![v] = TakeTask(@, pendingTasks[i], ids)]
         /\ pendingTasks' = Dequeue(pendingTasks, i)
  BY DEF AssignOnRequest
<1>2. w \in DOMAIN workers
  BY DEF FirstChoices, Candidates
<1>3. QueuedNotAssigned
  BY DEF SInv, TInv
<1> QED  BY <1>1, <1>2, <1>3, BookingKept

\* RequestTask answers Me.
LEMMA GrantSInv ==
    ASSUME NestedRLockGranted, SInv, NEW i \in DOMAIN pendingTasks, Grant(i)
    PROVE  Joined' /\ BookingsStay
<1>1. /\ mu = "free" /\ AssignOnRequest(Me, i) /\ Told(Me, pendingTasks[i])
      /\ UNCHANGED <<pc, taskRec, reports, stream, sent, theirs, history, setting>>
  BY DEF Grant, wvars, Told
<1>2. StreamGoesOn' /\ HistoryTyped'
  BY <1>1 DEF SInv, Joined, StreamGoesOn, HistoryTyped, history
<1>3. Me \in DOMAIN workers
  BY DEF SInv, Staying
<1> QED  BY <1>1, <1>2, <1>3, AssignOnRequestSInv DEF Joined

\* It answers another worker.
LEMMA OtherRequestsSInv ==
    ASSUME NestedRLockGranted, SInv, NEW v \in Others, NEW i \in DOMAIN pendingTasks, OtherRequests(v, i)
    PROVE  Joined' /\ BookingsStay
<1>1. /\ mu = "free" /\ AssignOnRequest(v, i) /\ Told(v, pendingTasks[i])
      /\ theirs' = [theirs EXCEPT ![v] = @ \cup {pendingTasks[i]}]
      /\ UNCHANGED <<pc, taskRec, reports, stream, sent, history, setting>>
  BY DEF OtherRequests, wvars, Told
<1>2. StreamGoesOn'
  BY <1>1 DEF SInv, Joined, StreamGoesOn
<1>3. pendingTasks[i] \in TaskIds /\ v \in DOMAIN workers
  BY DEF SInv, TInv, TypeOK, Staying, Others
<1>4. HistoryTyped'
  BY <1>1, <1>3 DEF SInv, Joined, HistoryTyped, history
<1> QED  BY <1>1, <1>2, <1>3, <1>4, AssignOnRequestSInv DEF Joined

\* Another worker reports on a task that is its own, and so none of Me.
LEMMA OtherReportsSInv ==
    ASSUME NestedRLockGranted, SInv, NEW v \in Others, NEW t \in TaskIds, OtherReports(v, t)
    PROVE  Joined' /\ BookingsStay
<1>1. PICK s \in Reported : ReportProgress(v, t, s) \/ ReportEnd(v, t, s)
  BY DEF OtherReports
<1>2. /\ t \in theirs[v]
      /\ UNCHANGED <<pc, taskRec, reports, reply, stream, sent, theirs, history, setting>>
  BY DEF OtherReports, wvars
<1>3. StreamGoesOn' /\ HistoryTyped' /\ OverIsOver'
  BY <1>2 DEF SInv, Joined, StreamGoesOn, HistoryTyped, history, OverIsOver
<1>4. /\ DOMAIN tasks' = DOMAIN tasks
      /\ \A u \in DOMAIN tasks : tasks'[u].workerID = tasks[u].workerID
      /\ \A u \in DOMAIN tasks \ {t} : tasks'[u] = tasks[u]
      /\ UNCHANGED pendingTasks
  <2>1. \A u \in DOMAIN tasks : tasks[u] \in TaskRecord
    BY DEF SInv, TInv, TypeOK
  <2>2. tasks' = [tasks EXCEPT ![t].status = s] /\ UNCHANGED pendingTasks
    BY <1>1 DEF ReportProgress, ReportEnd
  <2> QED  BY <2>1, <2>2 DEF TaskRecord
<1>5. /\ \A x \in DOMAIN workers \ {v} : workers'[x] = workers[x]
      /\ workers'[v].tasks \subseteq workers[v].tasks
  <2>1. CASE ReportProgress(v, t, s)
    BY <2>1 DEF ReportProgress
  <2>2. CASE ReportEnd(v, t, s)
    BY <2>2 DEF ReportEnd, DropTask
  <2> QED  BY <1>1, <2>1, <2>2
<1>6. /\ DOMAIN workers = Others \cup {Me} /\ Me \notin Others
      /\ ~Mine(t) /\ workers'[Me] = workers[Me]
  BY <1>2, <1>5 DEF SInv, Staying, Others, Joined, Claims, Elsewhere
<1>7. \A u \in TaskIds : /\ Mine(u)' <=> Mine(u)
                         /\ Elsewhere(u)' => Elsewhere(u)
                         /\ GivenOut(u) => GivenOut(u)'
  BY <1>2, <1>4, <1>5, <1>6 DEF Mine, Elsewhere, GivenOut
<1>8. Claims'
  BY <1>7 DEF SInv, Joined, Claims
<1>9. HeldGoesOn'
  BY <1>4, <1>6 DEF SInv, Joined, HeldGoesOn, Mine
<1>10. ReplyBooked' /\ BookedWhileExecuted' /\ BookingsStay
  BY <1>2, <1>6 DEF SInv, Joined, ReplyBooked, BookedWhileExecuted, BookingsStay
<1> QED  BY <1>3, <1>8, <1>9, <1>10 DEF Joined

\* The pass that follows the end of a task.
LEMMA PassSInv ==
    ASSUME SInv, SchedulerPass
    PROVE  Joined' /\ BookingsStay
<1>1. Pass /\ UNCHANGED <<pc, taskRec, reports, stream, sent, theirs, history, setting, reply>>
  BY DEF SchedulerPass, wvars
<1>2. StreamGoesOn' /\ OverIsOver' /\ HistoryTyped'
  BY <1>1 DEF SInv, Joined, StreamGoesOn, OverIsOver, HistoryTyped, history
<1>3. CASE AssignSkip \/ AssignDone
  <2>1. UNCHANGED <<workers, tasks, pendingTasks>>
    BY <1>3 DEF AssignSkip, AssignDone, tables
  <2>2. PcMoves
    BY <1>1 DEF PcMoves
  <2> QED  BY <1>1, <1>2, <2>1, <2>2, WorkerOnly DEF BookingsStay, Joined
<1>4. ASSUME NEW w \in WorkerIds, AssignTo(w) PROVE Joined' /\ BookingsStay
  <2> DEFINE ids == ChosenGPUs(workers[w], Demand[pendingTasks[scan]])
  <2>1. /\ mu = "assign" /\ w \in DOMAIN workers
        /\ tasks' = [tasks EXCEPT ![pendingTasks[scan]] = Assigned(@, w, ids)]
        /\ workers' = [workers EXCEPT ![w] = TakeTask(@, pendingTasks[scan], ids)]
        /\ pendingTasks' = Dequeue(pendingTasks, scan)
    BY <1>4 DEF AssignTo, FirstChoices, Candidates
  <2>2. scan \in DOMAIN pendingTasks
    BY <1>4 DEF AssignTo, SInv, TInv, TypeOK
  <2>3. QueuedNotAssigned
    BY <2>1 DEF SInv, TInv
  <2>4. Told(w, pendingTasks[scan])
    BY <1>1 DEF Told
  <2> HIDE DEF ids
  <2> QED  BY <1>1, <1>2, <2>1, <2>2, <2>3, <2>4, BookingKept DEF Joined
<1> QED  BY <1>1, <1>3, <1>4 DEF Pass

\* The worker takes the answer and executes the task.
LEMMA DeliverSInv ==
    ASSUME SInv, Deliver
    PROVE  Joined'
<1>1. /\ reply # "none" /\ reply' = "none" /\ WP!ExecuteTask(reply)
      /\ UNCHANGED <<workers, tasks, pendingTasks, stream, sent, theirs, history, setting>>
  BY SamePoller DEF Deliver, vars, tables
<1>2. reply \in TaskIds /\ pc[reply] = "none" /\ reply \in workers[Me].tasks
  BY <1>1 DEF SInv, Joined, ReplyBooked
<1>3. /\ pc \in [TaskIds -> WP!Executing \cup {"none", "done", "failed"}]
      /\ DOMAIN taskRec = TaskIds
      /\ \A r \in reports : r.task \in TaskIds
  BY DEF SInv, WP!WIInv, WP!WTypeOK, WP!ReportRecord
<1>4. /\ pc' = [pc EXCEPT ![reply] = "starting"]
      /\ reports' = reports \cup {[by |-> "executor", task |-> reply, status |-> "unread"]}
      /\ \E ids : taskRec' = [taskRec EXCEPT ![reply] = [status |-> "RUNNING", gpuIDs |-> ids, metrics |-> 0]]
  BY <1>1 DEF WP!ExecuteTask
<1>5. /\ pc'[reply] = "starting" /\ \A t \in TaskIds \ {reply} : pc'[t] = pc[t] /\ taskRec'[t] = taskRec[t]
      /\ taskRec'[reply].status = "RUNNING"
  BY <1>2, <1>3, <1>4
<1>6. \A t : (GivenOut(t)' <=> GivenOut(t)) /\ (Elsewhere(t)' <=> Elsewhere(t))
  BY <1>1 DEF GivenOut, Elsewhere
<1>7. \A t \in TaskIds : Mine(t)' => Mine(t)
  BY <1>1, <1>5, SystemAssumptions DEF Mine
<1>8. Claims'
  BY <1>6, <1>7 DEF SInv, Joined, Claims
<1>9. HeldGoesOn' /\ StreamGoesOn' /\ ReplyBooked' /\ HistoryTyped'
  BY <1>1 DEF SInv, Joined, HeldGoesOn, StreamGoesOn, ReplyBooked, HistoryTyped, history
<1>10. BookedWhileExecuted'
  BY <1>1, <1>2, <1>5 DEF SInv, Joined, BookedWhileExecuted
<1>11. OverIsOver'
  <2>1. \A r \in reports' : r.status \in Terminal => r \in reports
    BY <1>4 DEF Terminal
  <2>2. \A r \in reports : r.status \in Terminal => r.task # reply
    BY <1>2 DEF SInv, Joined, OverIsOver, Over
  <2> QED  BY <2>1, <2>2, <1>3, <1>5 DEF SInv, Joined, OverIsOver, Over, Terminal
<1> QED  BY <1>8, <1>9, <1>10, <1>11 DEF Joined

\* A report is handled.  Only one that says that the task is over takes the
\* booking back, and then the loop of the task's executor is over.
LEMMA HandleSInv ==
    ASSUME NestedRLockGranted, SInv, NEW r \in reports, Handle(r)
    PROVE  Joined'
<1>1. /\ ReportProgress(Me, r.task, r.status) \/ ReportEnd(Me, r.task, r.status)
      /\ UNCHANGED <<reply, stream, sent, theirs, history, setting>>
      /\ WP!Returned(r)
  BY SameReports DEF Handle
<1>2. PcMoves /\ OverIsOver'
  BY <1>1, ReturnedMoves DEF SInv, Joined
<1>3. StreamGoesOn' /\ HistoryTyped'
  BY <1>1 DEF SInv, Joined, StreamGoesOn, HistoryTyped, history
<1>4. r.task \in TaskIds
  BY DEF SInv, WP!WIInv, WP!WTypeOK, WP!ReportRecord
<1>5. /\ r.task \in DOMAIN tasks
      /\ tasks' = [tasks EXCEPT ![r.task].status = r.status]
      /\ UNCHANGED pendingTasks
  BY <1>1 DEF ReportProgress, ReportEnd
<1>6. /\ DOMAIN tasks' = DOMAIN tasks
      /\ \A t \in DOMAIN tasks : tasks'[t].workerID = tasks[t].workerID
      /\ \A t \in DOMAIN tasks \ {r.task} : tasks'[t] = tasks[t]
      /\ tasks'[r.task].status = r.status
  BY <1>5 DEF SInv, TInv, TypeOK, TaskRecord
<1>7. /\ \/ r.status \notin Terminal /\ workers'[Me].tasks = workers[Me].tasks
         \/ r.status \in Terminal /\ workers'[Me].tasks = workers[Me].tasks \ {r.task}
      /\ \A v \in DOMAIN workers \ {Me} : workers'[v] = workers[v]
  <2>1. CASE ReportProgress(Me, r.task, r.status)
    BY <2>1 DEF ReportProgress
  <2>2. CASE ReportEnd(Me, r.task, r.status)
    BY <2>2 DEF ReportEnd, DropTask
  <2> QED  BY <1>1, <2>1, <2>2
<1>8. DOMAIN workers = Others \cup {Me} /\ Me \notin Others
  BY DEF SInv, Staying, Others
<1>9. \A t \in TaskIds : /\ Mine(t)' => Mine(t)
                         /\ Elsewhere(t)' => Elsewhere(t)
                         /\ GivenOut(t) => GivenOut(t)'
  BY <1>1, <1>2, <1>5, <1>6, <1>7, <1>8 DEF Mine, Elsewhere, GivenOut, PcMoves
<1>10. Claims'
  BY <1>9 DEF SInv, Joined, Claims
<1>11. r.status \in Terminal => pc[r.task] \in Over
  BY DEF SInv, Joined, OverIsOver
<1>12. ReplyBooked'
  BY <1>1, <1>2, <1>7, <1>11 DEF SInv, Joined, ReplyBooked, PcMoves, Over
<1>13. HeldGoesOn'
  BY <1>6, <1>7 DEF SInv, Joined, HeldGoesOn
<1>14. BookedWhileExecuted'
  BY <1>2, <1>4, <1>7, <1>11 DEF SInv, Joined, BookedWhileExecuted, PcMoves, Over, Looping
<1> QED  BY <1>2, <1>3, <1>10, <1>12, <1>13, <1>14 DEF Joined

\* The poller and the requests that are refused or fail.
LEMMA PollerSInv ==
    ASSUME SInv, PollAlone \/ Refuse \/ PollFails
    PROVE  Joined'
<1>1. /\ UNCHANGED <<workers, tasks, pendingTasks, pc, taskRec, reports, stream, sent, theirs, history, setting>>
      /\ reply' \in {reply, "none"}
  BY DEF PollAlone, Refuse, PollFails, Alone, vars, tables, W!Poll, W!PollRefused
<1>2. OverIsOver' /\ StreamGoesOn' /\ HistoryTyped' /\ PcMoves
  BY <1>1 DEF SInv, Joined, OverIsOver, StreamGoesOn, HistoryTyped, history, PcMoves
<1> QED  BY <1>1, <1>2, WorkerOnly DEF Joined

\* An executor's step.
LEMMA ExecutorSInv ==
    ASSUME SInv, NEW t \in TaskIds, ExecutorAlone(t)
    PROVE  Joined'
<1>1. WP!Executor(t) /\ UNCHANGED <<workers, tasks, pendingTasks, reply, stream, sent, theirs, history, setting>>
  BY SameExecutor DEF ExecutorAlone, Alone, vars, tables
<1>2. PcMoves /\ OverIsOver'
  BY <1>1, ExecutorMoves DEF SInv, Staying, Joined
<1>3. StreamGoesOn' /\ HistoryTyped'
  BY <1>1 DEF SInv, Joined, StreamGoesOn, HistoryTyped, history
<1> QED  BY <1>1, <1>2, <1>3, WorkerOnly DEF Joined

\* A report reads the status of the task and is sent: what it says is what the
\* record says.
LEMMA SendSInv ==
    ASSUME SInv, NEW r \in reports, SendAlone(r)
    PROVE  Joined'
<1> DEFINE new == [r EXCEPT !.status = taskRec[r.task].status]
<1>1. WP!SendReport(r) /\ UNCHANGED <<workers, tasks, pendingTasks, reply, stream, sent, theirs, history, setting>>
  BY SameReports DEF SendAlone, Alone, vars, tables
<1>2. reports' = (reports \ {r}) \cup {new} /\ UNCHANGED <<pc, taskRec>>
  BY <1>1 DEF WP!SendReport
<1>3. r \in WP!ReportRecord
  BY DEF SInv, WP!WIInv, WP!WTypeOK
<1>4. new.task = r.task /\ r.task \in TaskIds /\ new.status = taskRec[r.task].status
  BY <1>3 DEF WP!ReportRecord
<1> HIDE DEF new
<1>5. OverIsOver'
  BY <1>2, <1>4 DEF SInv, Joined, OverIsOver
<1>6. StreamGoesOn' /\ HistoryTyped' /\ PcMoves
  BY <1>1, <1>2 DEF SInv, Joined, StreamGoesOn, HistoryTyped, history, PcMoves
<1> QED  BY <1>1, <1>5, <1>6, WorkerOnly DEF Joined

\* A report fails before the scheduler has handled it.
LEMMA ReportFailsSInv ==
    ASSUME SInv, NEW r \in reports, ReportFails(r)
    PROVE  Joined'
<1>1. WP!Returned(r) /\ UNCHANGED <<workers, tasks, pendingTasks, reply, stream, sent, theirs, canceled, setting>>
  BY SameReports DEF ReportFails, vars, tables
<1>2. PcMoves /\ OverIsOver'
  BY <1>1, ReturnedMoves DEF SInv, Joined
<1>3. StreamGoesOn'
  BY <1>1 DEF SInv, Joined, StreamGoesOn
<1>4. r.task \in TaskIds
  BY DEF SInv, WP!WIInv, WP!WTypeOK, WP!ReportRecord
<1>5. HistoryTyped'
  BY <1>1, <1>4 DEF ReportFails, SInv, Joined, HistoryTyped
<1> QED  BY <1>1, <1>2, <1>3, <1>5, WorkerOnly DEF Joined

\* The scheduler sends a status update, which is true when it is sent.
LEMMA MonitorSInv ==
    ASSUME SInv, MonitorWorker
    PROVE  Joined'
<1>1. /\ UNCHANGED <<workers, tasks, pendingTasks, reply, theirs, history, setting, pc, taskRec, reports>>
      /\ sent < setting.updates /\ stream' = Append(stream, View) /\ sent' = sent + 1
  BY DEF MonitorWorker, vars, tables, wvars
<1>2. View \in AnyUpdate /\ \A t \in DOMAIN View.tasks : View.tasks[t] \notin Terminal
  BY ViewGoesOn DEF SInv, Joined
<1>3. stream \in Seq(AnyUpdate) /\ setting.updates \in Nat /\ sent \in Len(stream)..setting.updates
  BY SystemAssumptions DEF SInv, Joined, StreamGoesOn
<1> HIDE DEF AnyUpdate
<1>4. StreamGoesOn'
  <2>1. /\ stream' \in Seq(AnyUpdate) /\ Len(stream') = Len(stream) + 1
        /\ \A i \in 1..Len(stream) : stream'[i] = stream[i]
        /\ stream'[Len(stream) + 1] = View
    BY <1>1, <1>2, <1>3
  <2>2. Len(stream) \in Nat /\ DOMAIN stream = 1..Len(stream) /\ DOMAIN stream' = 1..(Len(stream) + 1)
    BY <1>3, <2>1
  <2>3. \A i \in DOMAIN stream' : i \in DOMAIN stream \/ i = Len(stream) + 1
    BY <2>2
  <2>4. \A i \in DOMAIN stream' : \A t \in DOMAIN stream'[i].tasks : stream'[i].tasks[t] \notin Terminal
    BY <1>2, <2>1, <2>2, <2>3 DEF SInv, Joined, StreamGoesOn
  <2>5. sent' \in Len(stream')..setting'.updates
    BY <1>1, <1>3, <2>1, <2>2
  <2> QED  BY <2>1, <2>4, <2>5 DEF StreamGoesOn
<1>5. OverIsOver' /\ HistoryTyped' /\ PcMoves
  BY <1>1 DEF SInv, Joined, OverIsOver, HistoryTyped, history, PcMoves
<1> QED  BY <1>1, <1>4, <1>5, WorkerOnly DEF Joined

\* The worker receives an update, a late one perhaps: it cancels tasks that the
\* update does not list, but records no task as completed or failed.
LEMMA ReceiveSInv ==
    ASSUME SInv, Receive
    PROVE  Joined'
<1> DEFINE s == Head(stream)
<1>1. /\ UNCHANGED <<workers, tasks, pendingTasks, reply, sent, theirs, setting>>
      /\ stream # <<>> /\ stream' = Tail(stream) /\ WP!StatusUpdate(s)
      /\ canceled' = canceled \cup Canceled(s) /\ lost' = lost \cup Overwritten(s)
  BY SameUpdates DEF Receive, vars, tables
<1>2. stream \in Seq(AnyUpdate) /\ setting.updates \in Nat /\ sent \in Len(stream)..setting.updates
  BY SystemAssumptions DEF SInv, Joined, StreamGoesOn
<1> HIDE DEF AnyUpdate
<1>3. /\ Len(stream) \in Nat \ {0} /\ DOMAIN stream = 1..Len(stream) /\ s = stream[1]
      /\ stream' \in Seq(AnyUpdate) /\ Len(stream') = Len(stream) - 1
      /\ DOMAIN stream' = 1..(Len(stream) - 1)
      /\ \A i \in 1..(Len(stream) - 1) : stream'[i] = stream[i + 1]
  BY <1>1, <1>2
<1> HIDE DEF s
<1>4. \A t \in DOMAIN s.tasks : s.tasks[t] \notin Terminal
  BY <1>3 DEF SInv, Joined, StreamGoesOn
<1>5. StreamGoesOn'
  <2>1. \A i \in DOMAIN stream' : i + 1 \in DOMAIN stream /\ stream'[i] = stream[i + 1]
    BY <1>3
  <2>2. \A i \in DOMAIN stream' : \A t \in DOMAIN stream'[i].tasks : stream'[i].tasks[t] \notin Terminal
    BY <2>1 DEF SInv, Joined, StreamGoesOn
  <2>3. sent' \in Len(stream')..setting'.updates
    BY <1>1, <1>2, <1>3
  <2> QED  BY <1>3, <2>2, <2>3 DEF StreamGoesOn
<1>6. UNCHANGED <<pc, reports>>
  BY <1>1 DEF WP!StatusUpdate
<1>7. \A t \in TaskIds : taskRec'[t].status \in Terminal => taskRec[t].status \in Terminal
  <2>1. taskRec \in [TaskIds -> [status : TaskStatus, gpuIDs : SUBSET STRING, metrics : Nat]]
    BY DEF SInv, WP!WIInv, WP!WTypeOK, WP!TaskStatus, TaskStatus
  <2>2. CASE taskRec' = taskRec
    BY <2>2
  <2>3. CASE taskRec' = [t \in TaskIds |->
                           IF t \in WP!Unlisted(s) THEN [taskRec[t] EXCEPT !.status = "CANCELED"]
                           ELSE IF t \in WP!Differing(s) THEN [taskRec[t] EXCEPT !.status = s.tasks[t]]
                           ELSE taskRec[t]]
    <3>1. \A t \in WP!Differing(s) : s.tasks[t] \notin Terminal
      BY <1>4 DEF WP!Differing
    <3>2. "CANCELED" \notin Terminal
      BY DEF Terminal
    <3> QED  BY <2>1, <2>3, <3>1, <3>2
  <2> QED  BY <1>1, <2>2, <2>3 DEF WP!StatusUpdate
<1>8. OverIsOver' /\ PcMoves
  BY <1>6, <1>7 DEF SInv, Joined, OverIsOver, PcMoves
<1>9. HistoryTyped'
  <2>1. W!Unlisted(s) \subseteq TaskIds /\ W!Differing(s) \subseteq TaskIds
    BY SameUpdates DEF SInv, WP!WIInv, WP!WTypeOK, WP!Unlisted, WP!Differing
  <2> QED  BY <1>1, <2>1 DEF SInv, Joined, HistoryTyped, Canceled, Overwritten
<1> QED  BY <1>1, <1>5, <1>8, <1>9, WorkerOnly DEF Joined

\* A goroutine that an update has started removes a task, and reports it as it
\* will then be recorded.
LEMMA CleanSInv ==
    ASSUME SInv, NEW c \in cleaners, CleanAlone(c)
    PROVE  Joined'
<1> DEFINE new == [by |-> "cleaner", task |-> c.task, status |-> "unread"]
<1>1. WP!Clean(c) /\ UNCHANGED <<workers, tasks, pendingTasks, reply, stream, sent, theirs, history, setting>>
  BY SameUpdates DEF CleanAlone, Alone, vars, tables
<1>2. UNCHANGED <<pc, taskRec>> /\ reports' \subseteq reports \cup {new}
  BY <1>1 DEF WP!Clean
<1>3. \A r \in reports' : r.status \in Terminal => r \in reports
  BY <1>2 DEF Terminal
<1>4. OverIsOver' /\ StreamGoesOn' /\ HistoryTyped' /\ PcMoves
  BY <1>1, <1>2, <1>3 DEF SInv, Joined, OverIsOver, StreamGoesOn, HistoryTyped, history, PcMoves
<1> QED  BY <1>1, <1>4, WorkerOnly DEF Joined

\* Every step preserves the invariant.
LEMMA NextSInv ==
    ASSUME NestedRLockGranted, SInv, [SNext]_svars
    PROVE  SInv'
<1>1. TInv' /\ WP!WIInv' /\ setting' \in Settings /\ Staying'
  BY WorkerKept, SchedulerKept DEF SInv, Staying
<1>2. Joined'
  <2>1. CASE UNCHANGED svars
    <3>1. /\ UNCHANGED <<workers, tasks, pendingTasks, reply, stream, sent, theirs, history, setting>>
          /\ UNCHANGED <<pc, taskRec, reports>>
      BY <2>1 DEF svars, vars, tables, wvars
    <3>2. OverIsOver' /\ StreamGoesOn' /\ HistoryTyped' /\ PcMoves
      BY <3>1 DEF SInv, Joined, OverIsOver, StreamGoesOn, HistoryTyped, history, PcMoves
    <3> QED  BY <3>1, <3>2, WorkerOnly DEF Joined
  <2>2. CASE SNext
    BY <2>2, PollerSInv, GrantSInv, DeliverSInv, ExecutorSInv, SendSInv, HandleSInv, ReportFailsSInv,
       MonitorSInv, ReceiveSInv, CleanSInv, PassSInv, OtherRequestsSInv, OtherReportsSInv DEF SNext
  <2> QED  BY <2>1, <2>2
<1> QED  BY <1>1, <1>2 DEF SInv

\* The initial states satisfy the invariant.
LEMMA InitSInv == SInit => SInv
<1> SUFFICES ASSUME SInit PROVE SInv
  OBVIOUS
<1> DEFINE held == DOMAIN Held
           queue == setting.queue
           known == DOMAIN Registered
           list(w) == MarkGPUs(Registered[w], UNION {Held[t].gpus : t \in HeldBy(w)}, FALSE)
<1>1. /\ setting \in Settings /\ pendingTasks = queue /\ mu = "free" /\ scan = 1
      /\ workers = [w \in known |-> [gpus   |-> list(w),
                                     status |-> IF HeldBy(w) = {} THEN "IDLE" ELSE "BUSY",
                                     tasks  |-> HeldBy(w)]]
      /\ tasks = [t \in held \cup Range(queue) |->
                    IF t \in held
                    THEN [status |-> "RUNNING", workerID |-> Held[t].worker, assignedGPUs |-> Held[t].gpus]
                    ELSE [status |-> "PENDING", workerID |-> NoWorker, assignedGPUs |-> {}]]
      /\ workloadPolicy = "balanced" /\ persistenceManager = FALSE /\ saveTrigger = FALSE
      /\ reply = "none" /\ stream = <<>> /\ sent = 0
      /\ theirs = [v \in Others |-> {}] /\ canceled = {} /\ lost = {}
  BY DEF SInit
<1>2. WP!WInit /\ WP!WIInv
  BY SameInit, WorkerAssumed, WP!WInitWIInv DEF SInit
<1>3. /\ main = "running" /\ reports = {}
      /\ \A t \in TaskIds : pc[t] = "none" /\ taskRec[t].status = "PENDING"
  BY <1>2 DEF WP!WInit
<1>4. /\ queue \in Seq(TaskIds \ held) /\ \A i, j \in DOMAIN queue : queue[i] = queue[j] => i = j
      /\ setting.updates \in Nat /\ held \subseteq TaskIds
      /\ Me \in known /\ known \subseteq WorkerIds /\ IsFiniteSet(known)
      /\ \A t \in held : Held[t].worker \in known
  BY <1>1, SystemAssumptions
<1>5. ASSUME NEW w \in known
      PROVE  list(w) \in Seq(GPU) /\ DistinctIds(list(w)) /\ HeldBy(w) \subseteq held
  <2> DEFINE given == UNION {Held[t].gpus : t \in HeldBy(w)}
  <2>1. Registered[w] \in Seq(GPU) /\ DistinctIds(Registered[w])
    BY SystemAssumptions
  <2>2. \A ids : /\ MarkGPUs(Registered[w], ids, FALSE) \in Seq(GPU)
                 /\ DOMAIN MarkGPUs(Registered[w], ids, FALSE) = DOMAIN Registered[w]
                 /\ \A i \in DOMAIN Registered[w] : MarkGPUs(Registered[w], ids, FALSE)[i].id = Registered[w][i].id
    <3> DEFINE its == Registered[w]
    <3>1. its \in Seq(GPU)
      BY <2>1
    <3> HIDE DEF its
    <3>2. \A ids : /\ MarkGPUs(its, ids, FALSE) \in Seq(GPU)
                   /\ DOMAIN MarkGPUs(its, ids, FALSE) = DOMAIN its
                   /\ \A i \in DOMAIN its : MarkGPUs(its, ids, FALSE)[i].id = its[i].id
      BY <3>1, MarkGPUsProps
    <3> QED  BY <3>2 DEF its
  <2>3. MarkGPUs(Registered[w], given, FALSE) = list(w)
    OBVIOUS
  <2> HIDE DEF list, given
  <2>4. list(w) \in Seq(GPU)
    BY <2>2, <2>3
  <2>5. /\ DOMAIN list(w) = DOMAIN Registered[w]
        /\ \A i \in DOMAIN Registered[w] : list(w)[i].id = Registered[w][i].id
    BY <2>2, <2>3
  <2>6. DistinctIds(list(w))
    BY <2>1, <2>5 DEF DistinctIds
  <2> QED  BY <2>4, <2>6 DEF HeldBy
<1> HIDE DEF queue, held, known, list
<1>6. DOMAIN tasks = held \cup Range(queue) /\ Range(queue) \subseteq TaskIds \ held
  BY <1>1, <1>4 DEF Range
<1>7. \A i \in DOMAIN queue : queue[i] \in Range(queue)
  BY DEF Range
<1>8. TypeOK
  <2>1. DOMAIN workers = known /\ IsFiniteSet(known) /\ known \subseteq WorkerIds
    BY <1>1, <1>4
  <2>2. workers \in [known -> WorkerRecord]
    BY <1>1, <1>4, <1>5 DEF WorkerRecord, WorkerStatus
  <2>3. \A t \in held : Held[t].gpus \subseteq STRING
    <3> SUFFICES ASSUME NEW t \in held PROVE Held[t].gpus \subseteq STRING
      OBVIOUS
    <3> DEFINE its == Registered[Held[t].worker]
    <3>1. its \in Seq(GPU) /\ Held[t].gpus \subseteq {its[i].id : i \in DOMAIN its}
      BY SystemAssumptions DEF held
    <3> HIDE DEF its
    <3>2. \A i \in DOMAIN its : its[i] \in GPU
      BY <3>1
    <3>3. \A g \in GPU : g.id \in STRING
      BY DEF GPU
    <3> QED  BY <3>1, <3>2, <3>3
  <2>4. tasks \in [DOMAIN tasks -> TaskRecord]
    BY <1>1, <1>4, <1>6, <2>3 DEF TaskRecord, TaskStatus
  <2>5. pendingTasks \in Seq(DOMAIN tasks)
    BY <1>1, <1>4, <1>6, <1>7
  <2>6. scan \in 1..(Len(pendingTasks) + 1)
    BY <1>1, <2>5
  <2> QED  BY <1>1, <1>4, <1>6, <2>1, <2>2, <2>4, <2>5, <2>6 DEF TypeOK, Policies
<1>9. TInv
  <2>1. IdsDistinct /\ ScanReset
    BY <1>1, <1>5 DEF IdsDistinct, ScanReset
  <2>2. KnownWorkers
    BY <1>1, <1>4 DEF KnownWorkers
  <2>3. QueuedNotAssigned
    BY <1>1, <1>4, <1>6, <1>7 DEF QueuedNotAssigned
  <2> QED  BY <1>1, <1>8, <2>1, <2>2, <2>3 DEF TInv
<1>10. Staying
  BY <1>1, <1>3, <1>4 DEF Staying, known
<1>11. Claims
  <2>1. Others = known \ {Me}
    BY DEF Others, known
  <2>2. \A t \in TaskIds : (Mine(t) => t \in held /\ Held[t].worker = Me)
                           /\ (Elsewhere(t) => t \in held /\ Held[t].worker # Me)
    BY <1>1, <1>3, <1>4, <2>1, SystemAssumptions DEF Mine, Elsewhere, HeldBy, held
  <2>3. \A t \in held : GivenOut(t)
    <3>1. \A t \in held : Held[t].worker # NoWorker
      BY <1>4, SchedulerAssumptions
    <3> QED  BY <1>1, <1>4, <1>6, <1>7, <3>1 DEF GivenOut
  <2> QED  BY <2>2, <2>3 DEF Claims
<1>12. ReplyBooked /\ BookedWhileExecuted /\ OverIsOver
  BY <1>1, <1>3 DEF ReplyBooked, BookedWhileExecuted, OverIsOver, Terminal
<1>13. HeldGoesOn
  BY <1>1, <1>4, <1>5, <1>6 DEF HeldGoesOn, Terminal
<1>14. StreamGoesOn /\ HistoryTyped
  BY <1>1, <1>4 DEF StreamGoesOn, HistoryTyped
<1> QED  BY <1>1, <1>2, <1>9, <1>10, <1>11, <1>12, <1>13, <1>14 DEF SInv, Joined

LEMMA SystemInvariance ==
    ASSUME NestedRLockGranted
    PROVE  SSpec => []SInv
<1>1. SInv /\ [SNext]_svars => SInv'
  BY NextSInv
<1> QED  BY <1>1, InitSInv, PTL DEF SSpec

\* The scheduler and the worker keep their types together, whatever calls fail
\* and however late status updates are, for any number of workers, tasks, GPUs
\* and updates.  Where the nested RLock is not granted the first handler that
\* saves does not return, and there is no system to speak of.
THEOREM SystemTypeCorrect ==
    ASSUME NestedRLockGranted
    PROVE  SSpec => []STypeOK
<1>1. SInv => STypeOK
  <2>1. SInv => W!WTypeOK
    BY SameType DEF SInv, WP!WIInv
  <2> QED  BY <2>1 DEF SInv, Joined, TInv, ReplyBooked, StreamGoesOn, HistoryTyped, STypeOK
<1> QED  BY <1>1, SystemInvariance, PTL

\* What the worker executes was given out by RequestTask, is queued no more, and
\* no other worker was answered with it or has it booked, whichever of them the
\* scheduler has recorded, and also if the answer or a report was lost or a late
\* update has the worker cancel the task: nothing is executed twice or by two.
THEOREM NothingExecutedTwice ==
    ASSUME NestedRLockGranted
    PROVE  SSpec => []ExecutedOnce
<1>1. SInv => ExecutedOnce
  BY DEF SInv, Joined, Claims, Mine, Elsewhere, GivenOut, ExecutedOnce
<1> QED  BY <1>1, SystemInvariance, PTL

\* The scheduler keeps a task booked while the loop of its executor runs: only
\* the report of its end takes the booking back, and no status update brings
\* about a report that says COMPLETED or FAILED before the loop is over.
THEOREM ExecutedStaysBooked ==
    ASSUME NestedRLockGranted
    PROVE  SSpec => []BookedWhileExecuted
<1>1. SInv => BookedWhileExecuted
  BY DEF SInv, Joined
<1> QED  BY <1>1, SystemInvariance, PTL

\* Within System the worker is the worker of Worker: each step is one of Worker's
\* steps, with updates of the type the scheduler sends, or leaves the worker as
\* it is.  So what WorkerProofs shows of every such worker is true of it.
THEOREM SystemRunsTheWorker ==
    ASSUME NestedRLockGranted
    PROVE  SSpec => WP!WInit /\ [][WP!WNext]_(WP!wvars)
<1>1. SInit => WP!WInit
  BY SameInit DEF SInit
<1>2. SInv /\ [SNext]_svars => [WP!WNext]_(WP!wvars)
  BY WorkerSteps DEF WorkerStep, WP!WNext
<1> QED  BY <1>1, <1>2, SystemInvariance, PTL DEF SSpec

-----------------------------------------------------------------------------
(* Part 3.                                                                 *)

\* What cancels a task at Me is recorded: a goroutine that cleans up after it,
\* a report that does not come from its executor, and its own status.
CancelRecorded ==
    /\ \A c \in cleaners : c.task \in canceled
    /\ \A r \in reports : r.by # "executor" => r.task \in canceled
    /\ \A t \in TaskIds : taskRec[t].status = "CANCELED" => t \in canceled

\* The last report of a task says that it is completed, or will say so.
EndingTold ==
    \A t \in TaskIds \ (canceled \cup lost) : \A r \in reports :
        r.task = t /\ pc[t] = "ending"
            => r.status = "COMPLETED" \/ (r.status = "unread" /\ taskRec[t].status = "COMPLETED")

\* Until it is handled the scheduler has the task booked.
EndingHeld == \A t \in TaskIds \ canceled : pc[t] = "ending" => t \in workers[Me].tasks

EndsFollowed == CancelRecorded /\ EndingTold /\ EndingHeld /\ EndReachesScheduler

\* As long as no task is canceled the worker's own invariant for that case holds.
FreshSoFar == canceled = {} => WP!FInv

QInv == EndsFollowed /\ FreshSoFar

\* A step that leaves the executors, their records and their bookings.
LEMMA ExecutorsLeft ==
    ASSUME SInv, EndsFollowed, UNCHANGED <<pc, taskRec, reports, cleaners, history>>, BookingsStay
    PROVE  EndsFollowed'
<1>1. canceled' = canceled /\ lost' = lost
  BY DEF history
<1>2. CancelRecorded' /\ EndingTold'
  BY <1>1 DEF EndsFollowed, CancelRecorded, EndingTold
<1>3. EndingHeld' /\ EndReachesScheduler'
  BY <1>1 DEF EndsFollowed, EndingHeld, EndReachesScheduler, BookingsStay
<1> QED  BY <1>2, <1>3 DEF EndsFollowed

\* A task whose executor does not wait for a report is reported on only after an
\* update has canceled it.
LEMMA NoneWaits ==
    ASSUME SInv, EndsFollowed, NEW r \in reports
    PROVE  /\ r.task \in TaskIds
           /\ r.task \notin canceled => r.by = "executor" /\ pc[r.task] \in {"starting", "working", "ending"}
<1>1. r \in WP!ReportRecord /\ \A t \in TaskIds : pc[t] \notin {"fail", "failing", "failed"}
  BY DEF SInv, Staying, WP!WIInv, WP!WTypeOK, WP!FailsWhenCancelled, WP!Cancelled
<1>2. r.task \in TaskIds
  BY <1>1 DEF WP!ReportRecord
<1>3. r.by = "executor" => pc[r.task] \in {"starting", "working", "ending"}
  BY <1>1, <1>2 DEF SInv, WP!WIInv, WP!ExecutorWaits, WP!Calling
<1>4. r.task \notin canceled => r.by = "executor"
  BY DEF EndsFollowed, CancelRecorded
<1> QED  BY <1>2, <1>3, <1>4

\* executeTask: the task was not executed before.
LEMMA DeliverFollowed ==
    ASSUME SInv, EndsFollowed, Deliver
    PROVE  EndsFollowed'
<1>1. /\ reply # "none" /\ WP!ExecuteTask(reply) /\ UNCHANGED <<workers, canceled, lost>>
  BY SamePoller DEF Deliver, vars, tables, history
<1>2. reply \in TaskIds /\ pc[reply] = "none"
  BY <1>1 DEF SInv, Joined, ReplyBooked
<1>3. DOMAIN pc = TaskIds /\ DOMAIN taskRec = TaskIds
  BY DEF SInv, WP!WIInv, WP!WTypeOK
<1>4. /\ pc' = [pc EXCEPT ![reply] = "starting"]
      /\ reports' = reports \cup {NewReport(reply)}
      /\ \E ids : taskRec' = [taskRec EXCEPT ![reply] = [status |-> "RUNNING", gpuIDs |-> ids, metrics |-> 0]]
      /\ UNCHANGED cleaners
  BY <1>1 DEF WP!ExecuteTask, NewReport
<1>5. /\ pc'[reply] = "starting" /\ taskRec'[reply].status = "RUNNING"
      /\ \A t \in TaskIds \ {reply} : pc'[t] = pc[t] /\ taskRec'[t] = taskRec[t]
  BY <1>2, <1>3, <1>4
<1>6. CancelRecorded'
  BY <1>1, <1>4, <1>5 DEF EndsFollowed, CancelRecorded, NewReport
<1>7. EndingTold'
  BY <1>1, <1>4, <1>5 DEF EndsFollowed, EndingTold, NewReport
<1>8. EndingHeld' /\ EndReachesScheduler'
  BY <1>1, <1>5 DEF EndsFollowed, EndingHeld, EndReachesScheduler
<1> QED  BY <1>6, <1>7, <1>8 DEF EndsFollowed

\* An executor's step: it is not reporting, and if it ends it is still booked.
LEMMA ExecutorFollowed ==
    ASSUME SInv, EndsFollowed, NEW t \in TaskIds, ExecutorAlone(t)
    PROVE  EndsFollowed'
<1>1. WP!Executor(t) /\ UNCHANGED <<workers, canceled, lost>>
  BY SameExecutor DEF ExecutorAlone, Alone, vars, tables, history
<1>2. DOMAIN pc = TaskIds /\ DOMAIN taskRec = TaskIds
  BY DEF SInv, WP!WIInv, WP!WTypeOK
<1>3. PICK from, to, record :
         /\ pc[t] = from /\ pc' = [pc EXCEPT ![t] = to]
         /\ <<from, to>> \in {<<"loop", "loop">>, <<"loop", "step">>, <<"step", "working">>,
                              <<"loop", "ending">>, <<"cleanup", "done">>}
         /\ taskRec' = [taskRec EXCEPT ![t] = record]
         /\ IF to = "ending" THEN record.status = "COMPLETED" ELSE record.status = taskRec[t].status
         /\ reports' \in {reports, reports \cup {NewReport(t)}}
         /\ UNCHANGED <<main, cleaners>>
  BY <1>1, ExecutorShape DEF SInv, Staying
<1>4. /\ pc'[t] = to /\ taskRec'[t] = record
      /\ \A u \in TaskIds \ {t} : pc'[u] = pc[u] /\ taskRec'[u] = taskRec[u]
  BY <1>2, <1>3
<1>5. \A r \in reports : r.task = t => t \in canceled
  BY <1>3, NoneWaits
<1>6. CancelRecorded'
  BY <1>1, <1>3, <1>4 DEF EndsFollowed, CancelRecorded, NewReport
<1>7. EndingTold'
  <2> SUFFICES ASSUME NEW u \in TaskIds \ (canceled \cup lost), NEW r \in reports', r.task = u, pc'[u] = "ending"
               PROVE  r.status = "COMPLETED" \/ (r.status = "unread" /\ taskRec'[u].status = "COMPLETED")
    BY <1>1 DEF EndingTold
  <2>1. CASE u = t
    <3>1. r = NewReport(t)
      BY <1>3, <1>5, <2>1
    <3> QED  BY <1>3, <1>4, <2>1, <3>1 DEF NewReport
  <2>2. CASE u # t
    <3>1. r \in reports
      BY <1>3, <2>2 DEF NewReport
    <3> QED  BY <1>4, <2>2, <3>1 DEF EndsFollowed, EndingTold
  <2> QED  BY <2>1, <2>2
<1>8. EndingHeld'
  <2>1. from = "loop" => t \in workers[Me].tasks
    BY <1>3 DEF SInv, Joined, BookedWhileExecuted
  <2> QED  BY <1>1, <1>3, <1>4, <2>1 DEF EndsFollowed, EndingHeld
<1>9. EndReachesScheduler'
  BY <1>1, <1>3, <1>4 DEF EndsFollowed, EndReachesScheduler
<1> QED  BY <1>6, <1>7, <1>8, <1>9 DEF EndsFollowed

\* A report is sent, and says what the record of its task says.
LEMMA SendFollowed ==
    ASSUME SInv, EndsFollowed, NEW r \in reports, SendAlone(r)
    PROVE  EndsFollowed'
<1> DEFINE new == [r EXCEPT !.status = taskRec[r.task].status]
<1>1. WP!SendReport(r) /\ UNCHANGED <<workers, canceled, lost>>
  BY SameReports DEF SendAlone, Alone, vars, tables, history
<1>2. reports' = (reports \ {r}) \cup {new} /\ UNCHANGED <<pc, taskRec, cleaners>> /\ r.status = "unread"
  BY <1>1 DEF WP!SendReport
<1>3. r \in WP!ReportRecord
  BY DEF SInv, WP!WIInv, WP!WTypeOK
<1>4. new.task = r.task /\ new.by = r.by /\ new.status = taskRec[r.task].status
  BY <1>3 DEF WP!ReportRecord
<1> HIDE DEF new
<1>5. CancelRecorded'
  BY <1>1, <1>2, <1>4 DEF EndsFollowed, CancelRecorded
<1>6. EndingTold'
  BY <1>1, <1>2, <1>4 DEF EndsFollowed, EndingTold
<1>7. EndingHeld' /\ EndReachesScheduler'
  BY <1>1, <1>2 DEF EndsFollowed, EndingHeld, EndReachesScheduler
<1> QED  BY <1>5, <1>6, <1>7 DEF EndsFollowed

\* A report has returned: for the executor that waited for the last one the loop
\* is over, and for others nothing changes.
LEMMA ReturnedFollowed ==
    ASSUME SInv, EndsFollowed, NEW r \in reports, WP!Returned(r), canceled' = canceled, lost \subseteq lost'
    PROVE  /\ CancelRecorded' /\ EndingTold'
           /\ \A t \in TaskIds \ canceled' : pc'[t] = "ending" => pc[t] = "ending" /\ t # r.task
           /\ \A t \in TaskIds \ (canceled' \cup lost') : pc'[t] \in {"cleanup", "done"} =>
                 \/ pc[t] \in {"cleanup", "done"}
                 \/ t = r.task /\ r.status = "COMPLETED"
<1>1. /\ reports' = reports \ {r} /\ UNCHANGED <<taskRec, cleaners>> /\ r.status # "unread"
      /\ DOMAIN pc = TaskIds
  BY DEF WP!Returned, SInv, WP!WIInv, WP!WTypeOK
<1>2. CancelRecorded'
  BY <1>1 DEF EndsFollowed, CancelRecorded
<1>3. CASE r.by # "executor"
  <2>1. pc' = pc /\ r.task \in canceled
    BY <1>3 DEF WP!Returned, EndsFollowed, CancelRecorded
  <2>2. EndingTold'
    BY <1>1, <2>1 DEF EndsFollowed, EndingTold
  <2> QED  BY <1>2, <2>1, <2>2
<1>4. CASE r.by = "executor"
  <2>1. PICK to :
           /\ pc' = [pc EXCEPT ![r.task] = to]
           /\ <<pc[r.task], to>> \in {<<"starting", "loop">>, <<"working", "loop">>,
                                      <<"ending", "cleanup">>, <<"failing", "failed">>}
    BY <1>4, ReturnedShape DEF SInv
  <2>2. r.task \in TaskIds
    BY NoneWaits
  <2>3. pc'[r.task] = to /\ \A t \in TaskIds \ {r.task} : pc'[t] = pc[t]
    BY <1>1, <2>1, <2>2
  <2>4. EndingTold'
    BY <1>1, <2>1, <2>3 DEF EndsFollowed, EndingTold
  <2>5. r.task \notin canceled \cup lost /\ pc[r.task] = "ending" => r.status = "COMPLETED"
    BY <1>1, <2>2 DEF EndsFollowed, EndingTold
  <2> QED  BY <1>2, <2>1, <2>3, <2>4, <2>5
<1> QED  BY <1>3, <1>4

\* A report is handled: if it is the last one, it says COMPLETED, and takes the
\* booking back when the executor goes on.
LEMMA HandleFollowed ==
    ASSUME NestedRLockGranted, SInv, EndsFollowed, NEW r \in reports, Handle(r)
    PROVE  EndsFollowed'
<1>1. /\ WP!Returned(r) /\ (ReportProgress(Me, r.task, r.status) \/ ReportEnd(Me, r.task, r.status))
      /\ UNCHANGED <<canceled, lost>>
  BY SameReports DEF Handle, history
<1>2. /\ CancelRecorded' /\ EndingTold'
      /\ \A t \in TaskIds \ canceled' : pc'[t] = "ending" => pc[t] = "ending" /\ t # r.task
      /\ \A t \in TaskIds \ (canceled' \cup lost') : pc'[t] \in {"cleanup", "done"} =>
            \/ pc[t] \in {"cleanup", "done"}
            \/ t = r.task /\ r.status = "COMPLETED"
  BY <1>1, ReturnedFollowed
<1>3. \/ r.status \notin Terminal /\ workers'[Me].tasks = workers[Me].tasks
      \/ r.status \in Terminal /\ workers'[Me].tasks = workers[Me].tasks \ {r.task}
  <2>1. CASE ReportProgress(Me, r.task, r.status)
    BY <2>1 DEF ReportProgress
  <2>2. CASE ReportEnd(Me, r.task, r.status)
    BY <2>2 DEF ReportEnd, DropTask, SInv, Staying
  <2> QED  BY <1>1, <2>1, <2>2
<1>4. EndingHeld'
  BY <1>1, <1>2, <1>3 DEF EndsFollowed, EndingHeld
<1>5. EndReachesScheduler'
  BY <1>1, <1>2, <1>3 DEF EndsFollowed, EndReachesScheduler, Terminal
<1> QED  BY <1>2, <1>4, <1>5 DEF EndsFollowed

\* A report fails: if it is the last one, the end of its task is lost.
LEMMA ReportFailsFollowed ==
    ASSUME SInv, EndsFollowed, NEW r \in reports, ReportFails(r)
    PROVE  EndsFollowed'
<1>1. /\ WP!Returned(r) /\ UNCHANGED <<workers, canceled>>
      /\ lost \subseteq lost' /\ (r.status \in Terminal => r.task \in lost')
  BY SameReports DEF ReportFails, vars, tables
<1>2. /\ CancelRecorded' /\ EndingTold'
      /\ \A t \in TaskIds \ canceled' : pc'[t] = "ending" => pc[t] = "ending" /\ t # r.task
      /\ \A t \in TaskIds \ (canceled' \cup lost') : pc'[t] \in {"cleanup", "done"} =>
            \/ pc[t] \in {"cleanup", "done"}
            \/ t = r.task /\ r.status = "COMPLETED"
  BY <1>1, ReturnedFollowed
<1>3. EndingHeld'
  BY <1>1, <1>2 DEF EndsFollowed, EndingHeld
<1>4. EndReachesScheduler'
  BY <1>1, <1>2 DEF EndsFollowed, EndReachesScheduler, Terminal
<1> QED  BY <1>2, <1>3, <1>4 DEF EndsFollowed

\* The worker receives an update: what it cancels and what it overwrites is
\* remembered.
LEMMA ReceiveFollowed ==
    ASSUME SInv, EndsFollowed, Receive
    PROVE  EndsFollowed'
<1> DEFINE s == Head(stream)
<1>1. /\ UNCHANGED workers /\ WP!StatusUpdate(s)
      /\ canceled' = canceled \cup Canceled(s) /\ lost' = lost \cup Overwritten(s)
  BY SameUpdates DEF Receive, vars, tables
<1> HIDE DEF s
<1>2. /\ UNCHANGED <<pc, reports>>
      /\ \/ UNCHANGED <<taskRec, cleaners>>
         \/ /\ taskRec' = [t \in TaskIds |->
                             IF t \in WP!Unlisted(s) THEN [taskRec[t] EXCEPT !.status = "CANCELED"]
                             ELSE IF t \in WP!Differing(s) THEN [taskRec[t] EXCEPT !.status = s.tasks[t]]
                             ELSE taskRec[t]]
            /\ cleaners' = cleaners
                 \cup {[task |-> t, reports |-> TRUE] : t \in WP!Unlisted(s)}
                 \cup {[task |-> t, reports |-> FALSE] : t \in {u \in WP!Differing(s) : s.tasks[u] \in WP!Ended}}
  BY <1>1 DEF WP!StatusUpdate
<1>3. /\ Canceled(s) = WP!Unlisted(s) \cup {t \in WP!Differing(s) : s.tasks[t] \in WP!Ended}
      /\ WP!Differing(s) = W!Differing(s)
  BY SameUpdates DEF Canceled, W!Ended, WP!Ended
<1>4. \A t \in TaskIds \ Canceled(s) :
         /\ taskRec'[t].status = "CANCELED" => taskRec[t].status = "CANCELED"
         /\ taskRec'[t] = taskRec[t] \/ t \in WP!Differing(s)
  <2>1. taskRec \in [TaskIds -> [status : TaskStatus, gpuIDs : SUBSET STRING, metrics : Nat]]
    BY DEF SInv, WP!WIInv, WP!WTypeOK, WP!TaskStatus, TaskStatus
  <2> QED  BY <1>2, <1>3, <2>1 DEF WP!Ended
<1>5. CancelRecorded'
  <2>1. \A c \in cleaners' : c.task \in canceled'
    BY <1>1, <1>2, <1>3 DEF EndsFollowed, CancelRecorded
  <2>2. \A r \in reports' : r.by # "executor" => r.task \in canceled'
    BY <1>1, <1>2 DEF EndsFollowed, CancelRecorded
  <2>3. \A t \in TaskIds : taskRec'[t].status = "CANCELED" => t \in canceled'
    BY <1>1, <1>4 DEF EndsFollowed, CancelRecorded
  <2> QED  BY <2>1, <2>2, <2>3 DEF CancelRecorded
<1>6. EndingTold'
  <2> SUFFICES ASSUME NEW t \in TaskIds \ (canceled' \cup lost'), NEW r \in reports, r.task = t, pc[t] = "ending"
               PROVE  r.status = "COMPLETED" \/ (r.status = "unread" /\ taskRec'[t].status = "COMPLETED")
    BY <1>2 DEF EndingTold
  <2>1. t \notin canceled \cup lost \cup Canceled(s) \cup Overwritten(s)
    BY <1>1
  <2>2. r.status = "COMPLETED" \/ (r.status = "unread" /\ taskRec[t].status = "COMPLETED")
    BY <2>1 DEF EndsFollowed, EndingTold
  <2>3. r.by = "executor"
    BY <2>1, NoneWaits
  <2>4. r.status = "unread" /\ taskRec[t].status = "COMPLETED" => t \notin WP!Differing(s)
    BY <1>3, <2>1, <2>3 DEF Overwritten
  <2> QED  BY <1>4, <2>1, <2>2, <2>4
<1>7. EndingHeld' /\ EndReachesScheduler'
  BY <1>1, <1>2 DEF EndsFollowed, EndingHeld, EndReachesScheduler
<1> QED  BY <1>5, <1>6, <1>7 DEF EndsFollowed

\* A goroutine that cleans up reports on a task that was canceled.
LEMMA CleanFollowed ==
    ASSUME SInv, EndsFollowed, NEW c \in cleaners, CleanAlone(c)
    PROVE  EndsFollowed'
<1> DEFINE new == [by |-> "cleaner", task |-> c.task, status |-> "unread"]
<1>1. WP!Clean(c) /\ UNCHANGED <<workers, canceled, lost>>
  BY SameUpdates DEF CleanAlone, Alone, vars, tables, history
<1>2. UNCHANGED <<pc, taskRec>> /\ reports' \subseteq reports \cup {new} /\ cleaners' \subseteq cleaners
  BY <1>1 DEF WP!Clean
<1>3. c.task \in canceled
  BY DEF EndsFollowed, CancelRecorded
<1>4. CancelRecorded'
  BY <1>1, <1>2, <1>3 DEF EndsFollowed, CancelRecorded
<1>5. EndingTold'
  BY <1>1, <1>2, <1>3 DEF EndsFollowed, EndingTold
<1>6. EndingHeld' /\ EndReachesScheduler'
  BY <1>1, <1>2 DEF EndsFollowed, EndingHeld, EndReachesScheduler
<1> QED  BY <1>4, <1>5, <1>6 DEF EndsFollowed

\* The other steps of the worker do not touch what its executors do.
LEMMA OthersFollowed ==
    ASSUME NestedRLockGranted, SInv, EndsFollowed,
           \/ UNCHANGED svars
           \/ PollAlone \/ Refuse \/ PollFails \/ MonitorWorker \/ SchedulerPass
           \/ \E i \in DOMAIN pendingTasks : Grant(i)
           \/ OthersStep
    PROVE  EndsFollowed'
<1>1. UNCHANGED <<pc, taskRec, reports, cleaners, history>>
  BY DEF svars, wvars, PollAlone, Refuse, PollFails, MonitorWorker, SchedulerPass, Grant, OthersStep,
     OtherRequests, OtherReports, Alone, W!Poll, W!PollRefused
<1>2. BookingsStay
  <2>1. CASE UNCHANGED workers
    BY <2>1 DEF BookingsStay
  <2>2. CASE UNCHANGED svars \/ PollAlone \/ Refuse \/ PollFails \/ MonitorWorker
    BY <2>1, <2>2 DEF svars, vars, tables, PollAlone, Refuse, PollFails, MonitorWorker, Alone
  <2>3. CASE SchedulerPass \/ (\E i \in DOMAIN pendingTasks : Grant(i)) \/ OthersStep
    BY <2>3, PassSInv, GrantSInv, OtherRequestsSInv, OtherReportsSInv DEF OthersStep
  <2> QED  BY <2>2, <2>3
<1> QED  BY <1>1, <1>2, ExecutorsLeft

\* As long as no task is canceled every update is one that cancels none: it
\* lists the active tasks, and none as over.
LEMMA FreshStep ==
    ASSUME SInv, QInv, [SNext]_svars
    PROVE  FreshSoFar'
<1> SUFFICES ASSUME canceled' = {} PROVE WP!FInv'
  BY DEF FreshSoFar
<1>1. canceled = {}
  <2>1. canceled \subseteq canceled'
    BY DEF SNext, svars, history, PollAlone, Grant, Refuse, PollFails, Deliver, ExecutorAlone, SendAlone, Handle,
       ReportFails, MonitorWorker, Receive, CleanAlone, SchedulerPass, OtherRequests, OtherReports, Alone
  <2> QED  BY <2>1
<1>2. WP!FInv
  BY <1>1 DEF QInv, FreshSoFar
<1>3. CASE UNCHANGED WP!wvars \/ WP!Inner
  BY <1>2, <1>3, WorkerAssumed, WP!NextFInv DEF WP!FreshNext
<1>4. CASE Receive
  <2> DEFINE s == Head(stream)
  <2>1. WP!StatusUpdate(s) /\ Canceled(s) = {} /\ stream # <<>>
    BY <1>4, SameUpdates DEF Receive
  <2>2. s \in AnyUpdate /\ \A t \in DOMAIN s.tasks : s.tasks[t] \notin Terminal
    <3>1. stream \in Seq(AnyUpdate)
      BY DEF SInv, Joined, StreamGoesOn
    <3> HIDE DEF AnyUpdate
    <3>2. 1 \in DOMAIN stream /\ s = stream[1]
      BY <2>1, <3>1
    <3>3. stream[1] \in AnyUpdate
      BY <3>1, <3>2
    <3> QED  BY <3>2, <3>3 DEF SInv, Joined, StreamGoesOn
  <2> HIDE DEF s
  <2>3. WP!Unlisted(s) = {} /\ \A t \in WP!Differing(s) : s.tasks[t] \notin WP!Ended
    BY <2>1, SameUpdates DEF Canceled, W!Ended, WP!Ended
  <2>4. \A t \in TaskIds : taskRec[t].status # "CANCELED"
    BY <1>1 DEF QInv, EndsFollowed, CancelRecorded
  <2>5. activeTasks \subseteq TaskIds
    BY DEF SInv, WP!WIInv, WP!WTypeOK
  <2>6. WP!Fresh(s)
    <3> SUFFICES ASSUME DOMAIN s.tasks # {}, NEW t \in activeTasks
                 PROVE  t \in DOMAIN s.tasks /\ s.tasks[t] \notin WP!Ended
      BY DEF WP!Fresh
    <3>1. t \in DOMAIN s.tasks
      BY <2>3 DEF WP!Unlisted
    <3>2. CASE s.tasks[t] # taskRec[t].status
      BY <2>3, <3>1, <3>2 DEF WP!Differing
    <3>3. CASE s.tasks[t] = taskRec[t].status
      BY <2>2, <2>4, <2>5, <3>1, <3>3 DEF WP!Ended, Terminal
    <3> QED  BY <3>1, <3>2, <3>3
  <2>7. [WP!FreshNext]_(WP!wvars)
    BY <2>1, <2>2, <2>6 DEF WP!FreshNext
  <2> QED  BY <1>2, <2>7, WorkerAssumed, WP!NextFInv
<1> QED  BY <1>3, <1>4, WorkerSteps DEF WorkerStep

LEMMA NextQInv ==
    ASSUME NestedRLockGranted, SInv, QInv, [SNext]_svars
    PROVE  QInv'
<1>1. EndsFollowed
  BY DEF QInv
<1>2. EndsFollowed'
  BY <1>1, OthersFollowed, DeliverFollowed, ExecutorFollowed, SendFollowed, HandleFollowed, ReportFailsFollowed,
     ReceiveFollowed, CleanFollowed DEF SNext, OthersStep
<1> QED  BY <1>2, FreshStep DEF QInv

LEMMA InitQInv == SInit => QInv
<1> SUFFICES ASSUME SInit PROVE QInv
  OBVIOUS
<1>1. WP!WInit /\ WP!FInv
  BY SameInit, WorkerAssumed, WP!WInitFInv DEF SInit
<1>2. cleaners = {} /\ reports = {} /\ \A t \in TaskIds : pc[t] = "none" /\ taskRec[t].status = "PENDING"
  BY <1>1 DEF WP!WInit
<1> QED  BY <1>1, <1>2
     DEF QInv, EndsFollowed, CancelRecorded, EndingTold, EndingHeld, EndReachesScheduler, FreshSoFar

LEMMA QInvariance ==
    ASSUME NestedRLockGranted
    PROVE  SSpec => [](SInv /\ QInv)
<1>1. SInv /\ QInv /\ [SNext]_svars => SInv' /\ QInv'
  BY NextSInv, NextQInv
<1>2. SInit => SInv /\ QInv
  BY InitSInv, InitQInv
<1> QED  BY <1>1, <1>2, PTL DEF SSpec

\* The end of a task reaches the scheduler before the executor cleans up, with
\* the stream and with calls that fail, if the call that reports it does not and
\* no update has canceled the task or put its own status over COMPLETED between
\* executeTask's writing it and reportTaskStatus's reading it.
THEOREM EndsGetThrough ==
    ASSUME NestedRLockGranted
    PROVE  SSpec => []EndReachesScheduler
<1>1. QInv => EndReachesScheduler
  BY DEF QInv, EndsFollowed
<1> QED  BY <1>1, QInvariance, PTL

\* Whatever updates the scheduler has sent, and however late they are, tasks that
\* are executed use different GPUs until the first of them cancels a task.
THEOREM ExecutedOnOwnGPUs ==
    ASSUME NestedRLockGranted
    PROVE  SSpec => []NoSharedGPUUntilCanceled
<1>1. QInv => NoSharedGPUUntilCanceled
  BY SameParts DEF QInv, FreshSoFar, WP!FInv, WP!GPUsHeldExclusively, NoSharedGPUUntilCanceled, NoSharedGPU
<1> QED  BY <1>1, QInvariance, PTL

\* The reports of the worker are about tasks that the scheduler holds for it, and
\* none follows the one that has ended the task, until an update cancels it.
THEOREM ReportsAreOwn ==
    ASSUME NestedRLockGranted
    PROVE  SSpec => []ReportsOnHeld
<1>1. SInv /\ QInv => ReportsOnHeld
  <2> SUFFICES ASSUME SInv, QInv, NEW r \in reports, r.task \notin canceled
               PROVE  r.task \in workers[Me].tasks
    BY DEF ReportsOnHeld
  <2>1. r.task \in TaskIds /\ pc[r.task] \in {"starting", "working", "ending"}
    BY NoneWaits DEF QInv
  <2> QED  BY <2>1 DEF SInv, Joined, BookedWhileExecuted, QInv, EndsFollowed, EndingHeld
<1> QED  BY <1>1, QInvariance, PTL

=============================================================================
