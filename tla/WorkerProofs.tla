---------------------------- MODULE WorkerProofs ----------------------------
(***************************************************************************)
(* Proofs about Worker, for every list of GPUs, every set of tasks and of  *)
(* updates, any number of steps and either reading of the mutex.           *)
(*                                                                         *)
(* Part 1: WIInv is inductive, whatever updates and commands arrive.       *)
(* Part 2: FInv is inductive, while no task is canceled (FreshSpec).       *)
(***************************************************************************)
EXTENDS Worker, ProtocolProofs, TLAPS

-----------------------------------------------------------------------------
(* Part 1.                                                                 *)

\* Where the executor waits for reportTaskStatus to return.
Calling == {"starting", "working", "ending", "failing"}

\* An executor has one report under way at most, and only where it waits for it.
ExecutorWaits ==
    /\ \A r \in reports : r.by = "executor" => pc[r.task] \in Calling
    /\ \A r, q \in reports : r.by = "executor" /\ q.by = "executor" /\ r.task = q.task => r = q

\* An iteration that is under way is one of the Steps.
IterationCounts == \A t \in TaskIds : pc[t] \in {"step", "working"} => progress[t] < Steps

\* A task fails only when the context is done.
FailsWhenCancelled == \A t \in TaskIds : pc[t] \in {"fail", "failing", "failed"} => Cancelled

WIInv == WTypeOK /\ ExecutorWaits /\ IterationCounts /\ FailsWhenCancelled /\ ActiveIsExecuted

\* NewWorker and Start establish the invariant.
LEMMA WInitWIInv == WInit => WIInv
<1> SUFFICES ASSUME WInit PROVE WIInv
  OBVIOUS
<1>1. WTypeOK
  <2>1. progress \in [TaskIds -> 0..Steps]
    BY WorkerAssumptions DEF WInit
  <2>2. taskRec \in [TaskIds -> [status : TaskStatus, gpuIDs : SUBSET STRING, metrics : Nat]]
    BY DEF WInit, TaskStatus
  <2>3. gpus \in Seq(GPU)
    BY WorkerAssumptions DEF WInit
  <2> QED  BY <2>1, <2>2, <2>3 DEF WInit, WTypeOK, WorkerStatus
<1>2. ExecutorWaits /\ IterationCounts /\ FailsWhenCancelled /\ ActiveIsExecuted
  BY DEF WInit, ExecutorWaits, IterationCounts, FailsWhenCancelled, ActiveIsExecuted
<1> QED  BY <1>1, <1>2 DEF WIInv

\* Taking over the scheduler's view of the GPUs keeps the list of GPUs.
LEMMA SynchronizedProps ==
    ASSUME gpus \in Seq(GPU), NEW s \in Updates
    PROVE  /\ Synchronized(s) \in Seq(GPU)
           /\ DOMAIN Synchronized(s) = DOMAIN gpus
           /\ \A i \in DOMAIN gpus :
                 /\ Synchronized(s)[i].id = gpus[i].id
                 /\ InUse(gpus[i].id) => Synchronized(s)[i] = gpus[i]
<1>1. DOMAIN gpus = 1..Len(gpus) /\ Len(gpus) \in Nat /\ \A i \in 1..Len(gpus) : gpus[i] \in GPU
  OBVIOUS
<1>2. \A id \in DOMAIN s.gpus : s.gpus[id] \in BOOLEAN
  BY WorkerAssumptions
<1>3. \A i \in 1..Len(gpus) : Synchronized(s)[i] \in GPU
  BY <1>1, <1>2 DEF Synchronized, GPU
<1>4. Synchronized(s) \in Seq(GPU)
  <2>1. Synchronized(s) = [i \in 1..Len(gpus) |-> Synchronized(s)[i]]
    BY <1>1 DEF Synchronized
  <2>2. Synchronized(s) \in [1..Len(gpus) -> GPU]
    BY <2>1, <1>3
  <2> QED  BY <2>2, <1>1, SeqDef
<1> QED  BY <1>1, <1>4 DEF Synchronized, GPU

\* The GPUs that allocateGPUs takes are free ones of the worker.
LEMMA AllocationsAreFree ==
    ASSUME NEW n, NEW S \in Allocations(n)
    PROVE  S \subseteq Free
  BY DEF Allocations

\* The poller's steps other than executeTask touch nothing but the poller.
LEMMA PollerWIInv ==
    ASSUME WIInv, Poll \/ PollRefused \/ PollerGone
    PROVE  WIInv'
  BY DEF WIInv, Poll, PollRefused, PollerGone, config, WTypeOK, ExecutorWaits, IterationCounts,
     FailsWhenCancelled, ActiveIsExecuted, Cancelled

\* executeTask enters a task with an executor that waits for its first report.
LEMMA ExecuteTaskWIInv ==
    ASSUME WIInv, NEW t \in TaskIds, ExecuteTask(t)
    PROVE  WIInv'
<1> USE DEF WIInv
<1>1. PICK S \in Allocations(Demand[t].requiredGPUs) :
         LET ids == {gpus[i].id : i \in S} IN
         /\ gpus' = MarkGPUs(gpus, ids, FALSE)
         /\ taskRec' = [taskRec EXCEPT ![t] = [status |-> "RUNNING", gpuIDs |-> ids, metrics |-> 0]]
  BY DEF ExecuteTask
<1> DEFINE ids == {gpus[i].id : i \in S}
<1>2. ids \in SUBSET STRING
  <2>1. \A i \in DOMAIN gpus : gpus[i] \in GPU
    BY DEF WTypeOK
  <2> QED  BY <2>1, AllocationsAreFree DEF Free, GPU
<1>3. WTypeOK'
  <2>1. gpus' \in Seq(GPU)
    BY <1>1, MarkGPUsProps DEF WTypeOK
  <2>2. taskRec' \in [TaskIds -> [status : TaskStatus, gpuIDs : SUBSET STRING, metrics : Nat]]
    BY <1>1, <1>2 DEF WTypeOK, TaskStatus
  <2>3. reports' \subseteq ReportRecord
    BY DEF ExecuteTask, WTypeOK, ReportRecord
  <2> QED  BY <2>1, <2>2, <2>3 DEF ExecuteTask, config, WTypeOK, WorkerStatus, Executing
<1>4. ExecutorWaits'
  <2> DEFINE new == [by |-> "executor", task |-> t, status |-> "unread"]
  <2>1. \A r \in reports : r.by = "executor" => r.task \in TaskIds \ {t}
    BY DEF ExecuteTask, WTypeOK, ReportRecord, ExecutorWaits, Calling
  <2>2. reports' = reports \cup {new} /\ new.task = t
    BY DEF ExecuteTask
  <2>3. pc'[t] \in Calling /\ \A u \in TaskIds \ {t} : pc'[u] = pc[u]
    BY DEF ExecuteTask, WTypeOK, Calling
  <2> HIDE DEF new
  <2> QED  BY <2>1, <2>2, <2>3 DEF ExecutorWaits
<1>5. IterationCounts' /\ FailsWhenCancelled' /\ ActiveIsExecuted'
  BY DEF ExecuteTask, config, WTypeOK, IterationCounts, FailsWhenCancelled, ActiveIsExecuted,
     Cancelled, Executing
<1> QED  BY <1>3, <1>4, <1>5

\* Reading the status for a report leaves the report in its place.
LEMMA SendReportWIInv ==
    ASSUME WIInv, NEW r \in reports, SendReport(r)
    PROVE  WIInv'
<1> USE DEF WIInv
<1>1. taskRec[r.task].status \in TaskStatus
  BY DEF WTypeOK, ReportRecord
<1>2. [r EXCEPT !.status = taskRec[r.task].status] \in ReportRecord
  BY <1>1 DEF WTypeOK, ReportRecord
<1>3. WTypeOK'
  BY <1>2 DEF SendReport, config, WTypeOK
<1>4. ExecutorWaits'
  <2> DEFINE sent == [r EXCEPT !.status = taskRec[r.task].status]
  <2>1. sent.by = r.by /\ sent.task = r.task
    BY DEF WTypeOK, ReportRecord
  <2>2. reports' = (reports \ {r}) \cup {sent} /\ pc' = pc
    BY DEF SendReport
  <2> HIDE DEF sent
  <2> QED  BY <2>1, <2>2 DEF ExecutorWaits
<1>5. IterationCounts' /\ FailsWhenCancelled' /\ ActiveIsExecuted'
  BY DEF SendReport, config, IterationCounts, FailsWhenCancelled, ActiveIsExecuted, Cancelled
<1> QED  BY <1>3, <1>4, <1>5

\* When a report returns its caller goes on: an executor from where it waited.
LEMMA ReturnedWIInv ==
    ASSUME WIInv, NEW r \in reports, Returned(r)
    PROVE  WIInv'
<1> USE DEF WIInv
<1>1. r \in ReportRecord /\ r.task \in TaskIds
  BY DEF WTypeOK, ReportRecord
<1>2. CASE r.by # "executor"
  BY <1>2 DEF Returned, config, WTypeOK, ExecutorWaits, IterationCounts, FailsWhenCancelled,
     ActiveIsExecuted, Cancelled
<1>3. CASE r.by = "executor"
  <2>1. pc[r.task] \in Calling
    BY <1>3 DEF ExecutorWaits
  <2> DEFINE to == CASE pc[r.task] = "starting" -> "loop"
                     [] pc[r.task] = "working"  -> "loop"
                     [] pc[r.task] = "ending"   -> "cleanup"
                     [] pc[r.task] = "failing"  -> "failed"
  <2>2. pc' = [pc EXCEPT ![r.task] = to]
    BY <1>3 DEF Returned
  <2>3. /\ to \in {"loop", "cleanup", "failed"}
        /\ to = "failed" => pc[r.task] = "failing"
    BY <2>1 DEF Calling
  <2> HIDE DEF to
  <2>4. progress' \in [TaskIds -> 0..Steps]
    <3>1. CASE pc[r.task] = "working"
      <4>1. progress[r.task] < Steps /\ progress[r.task] \in 0..Steps
        BY <1>1, <3>1 DEF IterationCounts, WTypeOK
      <4>2. progress[r.task] + 1 \in 0..Steps
        BY <4>1, WorkerAssumptions
      <4>3. progress' = [progress EXCEPT ![r.task] = progress[r.task] + 1]
        BY <1>3, <3>1 DEF Returned
      <4> QED  BY <4>2, <4>3, <1>1 DEF WTypeOK
    <3>2. CASE pc[r.task] # "working"
      BY <1>3, <3>2 DEF Returned, WTypeOK
    <3> QED  BY <3>1, <3>2
  <2>5. WTypeOK'
    <3>1. pc' \in [TaskIds -> Executing \cup {"none", "done", "failed"}]
      BY <2>2, <2>3, <1>1 DEF WTypeOK, Executing
    <3>2. poller' \in {"idle", "requesting", "executing", "gone"}
      BY <1>3 DEF Returned, WTypeOK
    <3> QED  BY <2>4, <3>1, <3>2 DEF Returned, config, WTypeOK
  <2>6. ExecutorWaits'
    <3>1. \A q \in reports' : q \in reports /\ (q.by = "executor" => q.task # r.task)
      BY <1>3 DEF Returned, ExecutorWaits
    <3> QED  BY <2>2, <3>1 DEF ExecutorWaits, WTypeOK, ReportRecord
  <2>7. IterationCounts'
    <3>1. \A t \in TaskIds \ {r.task} : progress'[t] = progress[t] /\ pc'[t] = pc[t]
      BY <1>3, <2>2, <1>1 DEF Returned, WTypeOK
    <3>2. pc'[r.task] \notin {"step", "working"}
      BY <2>2, <2>3, <1>1 DEF WTypeOK
    <3> QED  BY <3>1, <3>2 DEF IterationCounts
  <2>8. FailsWhenCancelled' /\ ActiveIsExecuted'
    <3>1. \A t \in TaskIds \ {r.task} : pc'[t] = pc[t]
      BY <2>2, <1>1 DEF WTypeOK
    <3>2. pc'[r.task] = to
      BY <2>2, <1>1 DEF WTypeOK
    <3>3. (Cancelled' <=> Cancelled) /\ activeTasks' = activeTasks
      BY DEF Returned, Cancelled
    <3>4. pc'[r.task] = "failed" => Cancelled
      BY <2>3, <3>2, <1>1 DEF FailsWhenCancelled
    <3>5. FailsWhenCancelled'
      BY <3>1, <3>2, <3>3, <3>4, <2>3 DEF FailsWhenCancelled
    <3>6. ActiveIsExecuted'
      BY <3>1, <3>2, <3>3, <3>4, <2>3 DEF ActiveIsExecuted, WTypeOK, Executing
    <3> QED  BY <3>5, <3>6
  <2> QED  BY <2>5, <2>6, <2>7, <2>8
<1> QED  BY <1>2, <1>3

\* A step of the executor within its loop moves pc and progress only.
LEMMA LoopWIInv ==
    ASSUME WIInv, NEW t \in TaskIds, LoopPaused(t) \/ LoopGo(t)
    PROVE  WIInv'
<1> USE DEF WIInv
<1>1. pc[t] = "loop" /\ progress[t] < Steps /\ progress[t] \in 0..Steps
  BY DEF LoopPaused, LoopGo, MoreSteps, WTypeOK
<1>2. ExecutorWaits'
  <2>1. \A r \in reports : r.by = "executor" => r.task \in TaskIds \ {t}
    BY <1>1 DEF WTypeOK, ReportRecord, ExecutorWaits, Calling
  <2>2. reports' = reports /\ \A u \in TaskIds \ {t} : pc'[u] = pc[u]
    BY DEF LoopPaused, LoopGo, WTypeOK
  <2> QED  BY <2>1, <2>2 DEF ExecutorWaits
<1>3. CASE LoopPaused(t)
  <2>1. progress[t] + 1 \in 0..Steps
    BY <1>1, WorkerAssumptions
  <2>2. WTypeOK'
    BY <1>3, <2>1 DEF LoopPaused, config, WTypeOK
  <2>3. IterationCounts'
    BY <1>1, <1>3 DEF LoopPaused, IterationCounts, WTypeOK
  <2>4. FailsWhenCancelled' /\ ActiveIsExecuted'
    BY <1>3 DEF LoopPaused, FailsWhenCancelled, ActiveIsExecuted, Cancelled
  <2> QED  BY <1>2, <2>2, <2>3, <2>4
<1>4. CASE LoopGo(t)
  <2>1. PICK to \in {"fail", "step"} :
           /\ pc' = [pc EXCEPT ![t] = to]
           /\ to = "fail" => Cancelled
    BY <1>4 DEF LoopGo
  <2>2. WTypeOK'
    BY <1>4, <2>1 DEF LoopGo, config, WTypeOK, Executing
  <2>3. IterationCounts'
    BY <1>1, <1>4, <2>1 DEF LoopGo, IterationCounts, WTypeOK
  <2>4. FailsWhenCancelled' /\ ActiveIsExecuted'
    BY <1>4, <2>1 DEF LoopGo, FailsWhenCancelled, ActiveIsExecuted, Cancelled, WTypeOK, Executing
  <2> QED  BY <1>2, <2>2, <2>3, <2>4
<1> QED  BY <1>3, <1>4

\* The executor's changes of its task record, each followed by a report.
LEMMA ExecutorReportsWIInv ==
    ASSUME WIInv, NEW t \in TaskIds, Step(t) \/ Fail(t) \/ Complete(t)
    PROVE  WIInv'
<1> USE DEF WIInv
<1>1. taskRec[t] \in [status : TaskStatus, gpuIDs : SUBSET STRING, metrics : Nat]
  BY DEF WTypeOK
<1>2. PICK from \in {"step", "fail", "loop"}, to \in Calling,
           record \in [status : TaskStatus, gpuIDs : SUBSET STRING, metrics : Nat] :
         /\ ExecutorReports(t, from, to, record)
         /\ to = "working" => from = "step"
         /\ to = "failing" => from = "fail"
         /\ to # "starting"
  <2>1. CASE Step(t)
    <3>1. [taskRec[t] EXCEPT !.metrics = @ + 1]
              \in [status : TaskStatus, gpuIDs : SUBSET STRING, metrics : Nat]
      BY <1>1
    <3> QED  BY <2>1, <3>1 DEF Step, Calling
  <2>2. CASE Fail(t)
    <3>1. [taskRec[t] EXCEPT !.status = "FAILED"]
              \in [status : TaskStatus, gpuIDs : SUBSET STRING, metrics : Nat]
      BY <1>1 DEF TaskStatus
    <3> QED  BY <2>2, <3>1 DEF Fail, Calling
  <2>3. CASE Complete(t)
    <3>1. [taskRec[t] EXCEPT !.status = "COMPLETED"]
              \in [status : TaskStatus, gpuIDs : SUBSET STRING, metrics : Nat]
      BY <1>1 DEF TaskStatus
    <3> QED  BY <2>3, <3>1 DEF Complete, Calling
  <2> QED  BY <2>1, <2>2, <2>3
<1>3. pc[t] = from /\ pc' = [pc EXCEPT ![t] = to]
  BY <1>2 DEF ExecutorReports
<1>4. WTypeOK'
  <2>1. taskRec' \in [TaskIds -> [status : TaskStatus, gpuIDs : SUBSET STRING, metrics : Nat]]
    BY <1>2 DEF ExecutorReports, WTypeOK
  <2>2. reports' \subseteq ReportRecord
    BY <1>2 DEF ExecutorReports, WTypeOK, ReportRecord
  <2>3. pc' \in [TaskIds -> Executing \cup {"none", "done", "failed"}]
    BY <1>3 DEF WTypeOK, Executing, Calling
  <2> QED  BY <1>2, <2>1, <2>2, <2>3 DEF ExecutorReports, config, WTypeOK
<1>5. ExecutorWaits'
  <2> DEFINE new == [by |-> "executor", task |-> t, status |-> "unread"]
  <2>1. \A r \in reports : r.by = "executor" => r.task \in TaskIds \ {t}
    BY <1>3 DEF WTypeOK, ReportRecord, ExecutorWaits, Calling
  <2>2. reports' = reports \cup {new} /\ new.task = t
    BY <1>2 DEF ExecutorReports
  <2>3. pc'[t] \in Calling /\ \A u \in TaskIds \ {t} : pc'[u] = pc[u]
    BY <1>3 DEF WTypeOK
  <2> HIDE DEF new
  <2> QED  BY <2>1, <2>2, <2>3 DEF ExecutorWaits
<1>6. IterationCounts'
  BY <1>2, <1>3 DEF ExecutorReports, IterationCounts, WTypeOK, Calling
<1>7. FailsWhenCancelled' /\ ActiveIsExecuted'
  <2>1. (Cancelled' <=> Cancelled) /\ activeTasks' = activeTasks
    BY <1>2 DEF ExecutorReports, Cancelled
  <2> QED  BY <1>2, <1>3, <2>1 DEF FailsWhenCancelled, ActiveIsExecuted, WTypeOK, Calling, Executing
<1> QED  BY <1>4, <1>5, <1>6, <1>7

\* The executor's last step deletes its task.
LEMMA CleanupWIInv ==
    ASSUME WIInv, NEW t \in TaskIds, Cleanup(t)
    PROVE  WIInv'
<1> USE DEF WIInv
<1>1. gpus' \in Seq(GPU)
  BY MarkGPUsProps DEF Cleanup, WTypeOK
<1>2. WTypeOK'
  BY <1>1 DEF Cleanup, config, WTypeOK, WorkerStatus
<1>3. ExecutorWaits'
  <2>1. \A r \in reports : r.by = "executor" => r.task \in TaskIds \ {t}
    BY DEF Cleanup, WTypeOK, ReportRecord, ExecutorWaits, Calling
  <2> QED  BY <2>1 DEF Cleanup, ExecutorWaits, WTypeOK
<1>4. IterationCounts' /\ FailsWhenCancelled' /\ ActiveIsExecuted'
  BY DEF Cleanup, config, IterationCounts, FailsWhenCancelled, ActiveIsExecuted, Cancelled, WTypeOK
<1> QED  BY <1>2, <1>3, <1>4

\* processStatusUpdate changes GPUs, statuses and cleaners, and no executor.
LEMMA StatusUpdateWIInv ==
    ASSUME WIInv, NEW s \in Updates, StatusUpdate(s)
    PROVE  WIInv'
<1> USE DEF WIInv
<1>1. gpus' \in Seq(GPU)
  BY SynchronizedProps DEF StatusUpdate, WTypeOK
<1>2. status' \in WorkerStatus /\ \A t \in DOMAIN s.tasks : s.tasks[t] \in TaskStatus
  BY WorkerAssumptions DEF StatusUpdate
<1>3. wmu' \in {"free", "stuck"}
  BY DEF StatusUpdate, WTypeOK
<1>4. taskRec' \in [TaskIds -> [status : TaskStatus, gpuIDs : SUBSET STRING, metrics : Nat]]
  <2>1. CASE taskRec' = taskRec
    BY <2>1 DEF WTypeOK
  <2>2. CASE taskRec' = [t \in TaskIds |->
                             IF t \in Unlisted(s) THEN [taskRec[t] EXCEPT !.status = "CANCELED"]
                             ELSE IF t \in Differing(s) THEN [taskRec[t] EXCEPT !.status = s.tasks[t]]
                             ELSE taskRec[t]]
    <3>1. \A t \in Differing(s) : s.tasks[t] \in TaskStatus
      BY <1>2 DEF Differing
    <3>2. "CANCELED" \in TaskStatus
      BY DEF TaskStatus
    <3> QED  BY <2>2, <3>1, <3>2 DEF WTypeOK
  <2> QED  BY <2>1, <2>2 DEF StatusUpdate
<1>5. cleaners' \subseteq [task : TaskIds, reports : BOOLEAN]
  <2>1. Unlisted(s) \subseteq TaskIds /\ Differing(s) \subseteq TaskIds
    BY DEF Unlisted, Differing, WTypeOK
  <2> DEFINE gone == {[task |-> t, reports |-> TRUE] : t \in Unlisted(s)}
             over == {[task |-> t, reports |-> FALSE] : t \in {u \in Differing(s) : s.tasks[u] \in Ended}}
  <2>2. cleaners' = cleaners \/ cleaners' = cleaners \cup gone \cup over
    BY DEF StatusUpdate
  <2> DEFINE Cleaner == [task : TaskIds, reports : BOOLEAN]
  <2>a. \A t \in TaskIds, b \in BOOLEAN : [task |-> t, reports |-> b] \in Cleaner
    OBVIOUS
  <2>b. TRUE \in BOOLEAN /\ FALSE \in BOOLEAN
    OBVIOUS
  <2> HIDE DEF Cleaner
  <2>3. gone \subseteq Cleaner
    BY <2>1, <2>a, <2>b, Zenon
  <2>4. over \subseteq Cleaner
    BY <2>1, <2>a, <2>b, Zenon
  <2> USE DEF Cleaner
  <2> HIDE DEF gone, over
  <2> QED  BY <2>2, <2>3, <2>4 DEF WTypeOK
<1>6. WTypeOK'
  BY <1>1, <1>2, <1>3, <1>4, <1>5 DEF StatusUpdate, config, WTypeOK
<1>7. ExecutorWaits' /\ IterationCounts' /\ FailsWhenCancelled' /\ ActiveIsExecuted'
  BY DEF StatusUpdate, config, ExecutorWaits, IterationCounts, FailsWhenCancelled,
     ActiveIsExecuted, Cancelled
<1> QED  BY <1>6, <1>7

\* A report of the receiver or of a cleaner is none of an executor.
LEMMA OtherReportWaits ==
    ASSUME WIInv, NEW t \in TaskIds, NEW by \in {"cleaner", "receiver"}, pc' = pc,
           reports' \subseteq reports \cup {[by |-> by, task |-> t, status |-> "unread"]}
    PROVE  ExecutorWaits' /\ reports' \subseteq ReportRecord
<1> DEFINE new == [by |-> by, task |-> t, status |-> "unread"]
<1>1. new \in ReportRecord /\ new.by # "executor"
  BY DEF ReportRecord
<1> HIDE DEF new
<1>2. reports' \subseteq reports \cup {new}
  BY DEF new
<1> QED  BY <1>1, <1>2 DEF WIInv, WTypeOK, ExecutorWaits

\* A cleaner deletes a task; its executor goes on.
LEMMA CleanWIInv ==
    ASSUME WIInv, NEW c \in cleaners, Clean(c)
    PROVE  WIInv'
<1> USE DEF WIInv
<1>1. c.task \in TaskIds
  BY DEF WTypeOK
<1>2. gpus' \in Seq(GPU)
  BY MarkGPUsProps DEF Clean, WTypeOK
<1>3. ExecutorWaits' /\ reports' \subseteq ReportRecord
  <2>1. reports' \subseteq reports \cup {[by |-> "cleaner", task |-> c.task, status |-> "unread"]}
    BY DEF Clean
  <2>2. pc' = pc
    BY DEF Clean
  <2> QED  BY <1>1, <2>1, <2>2, OtherReportWaits
<1>4. WTypeOK'
  BY <1>2, <1>3 DEF Clean, config, WTypeOK
<1>5. IterationCounts' /\ FailsWhenCancelled' /\ ActiveIsExecuted'
  BY DEF Clean, config, IterationCounts, FailsWhenCancelled, ActiveIsExecuted, Cancelled
<1> QED  BY <1>3, <1>4, <1>5

\* STOP_TASK marks a task; its executor goes on.
LEMMA StopTaskWIInv ==
    ASSUME WIInv, NEW t \in TaskIds, StopTask(t)
    PROVE  WIInv'
<1> USE DEF WIInv
<1>1. ExecutorWaits' /\ reports' \subseteq ReportRecord
  <2>1. reports' \subseteq reports \cup {[by |-> "receiver", task |-> t, status |-> "unread"]}
    BY DEF StopTask
  <2>2. pc' = pc
    BY DEF StopTask
  <2> QED  BY <2>1, <2>2, OtherReportWaits
<1>2. WTypeOK'
  BY <1>1 DEF StopTask, config, WTypeOK, TaskStatus
<1>3. IterationCounts' /\ FailsWhenCancelled' /\ ActiveIsExecuted'
  BY DEF StopTask, config, IterationCounts, FailsWhenCancelled, ActiveIsExecuted, Cancelled
<1> QED  BY <1>1, <1>2, <1>3

\* PAUSE, RESUME and UPDATE_CONFIG change what their names say.
LEMMA ConfigureWIInv ==
    ASSUME WIInv, Configure
    PROVE  WIInv'
<1>1. CASE \E on \in BOOLEAN : SetPaused(on)
  BY <1>1 DEF WIInv, SetPaused, WTypeOK, ExecutorWaits, IterationCounts, FailsWhenCancelled,
     ActiveIsExecuted, Cancelled
<1>2. CASE \E s \in Strategies : SetStrategy(s)
  BY <1>2 DEF WIInv, SetStrategy, WTypeOK, ExecutorWaits, IterationCounts, FailsWhenCancelled,
     ActiveIsExecuted, Cancelled
<1> QED  BY <1>1, <1>2 DEF Configure

\* main() only ever goes from running to stopped.
LEMMA StoppingWIInv ==
    ASSUME WIInv, Stopping
    PROVE  WIInv'
  BY DEF WIInv, Stopping, Signal, StopBegin, StopEnd, config, WTypeOK, ExecutorWaits,
     IterationCounts, FailsWhenCancelled, ActiveIsExecuted, Cancelled

\* Steps of the worker's own goroutines keep the invariant.
LEMMA InnerWIInv ==
    ASSUME WIInv, Inner
    PROVE  WIInv'
  BY PollerWIInv, ExecuteTaskWIInv, LoopWIInv, ExecutorReportsWIInv, CleanupWIInv,
     SendReportWIInv, ReturnedWIInv, CleanWIInv DEF Inner, Executor

\* Every step keeps the invariant.
LEMMA NextWIInv == WIInv /\ [WNext]_wvars => WIInv'
<1>1. ASSUME WIInv, UNCHANGED wvars
      PROVE  WIInv'
  BY <1>1 DEF wvars, WIInv, WTypeOK, ExecutorWaits, IterationCounts, FailsWhenCancelled,
     ActiveIsExecuted, Cancelled
<1> QED
  BY <1>1, InnerWIInv, ConfigureWIInv, StoppingWIInv, StopTaskWIInv, StatusUpdateWIInv DEF WNext

\* The invariant holds in every state of the worker.
LEMMA WorkerInvariance == WSpec => []WIInv
  BY WInitWIInv, NextWIInv, PTL DEF WSpec

\* The worker's fields keep their types and its goroutines their places: a
\* report that returns always finds its executor waiting for it, and the loop of
\* executeTask stays within its steps.
THEOREM WorkerTypeCorrect == WSpec => []WTypeOK
<1>1. WIInv => WTypeOK
  BY DEF WIInv
<1> QED  BY <1>1, WorkerInvariance, PTL

\* Whatever status updates and STOP_TASK commands arrive, in whatever order
\* cleaners and executors delete tasks, an active task has an executor that
\* will still delete it, unless the context was cancelled.
THEOREM NoOrphanedTask == WSpec => []ActiveIsExecuted
<1>1. WIInv => ActiveIsExecuted
  BY DEF WIInv
<1> QED  BY <1>1, WorkerInvariance, PTL

-----------------------------------------------------------------------------
(* Part 2.                                                                 *)

\* Only executors report, and only they end tasks: a task that is executed is
\* in ActiveTasks, which is what protects its GPUs in processStatusUpdate.
OnlyExecutors ==
    /\ cleaners = {}
    /\ \A r \in reports : r.by = "executor"
    /\ \A t \in TaskIds : pc[t] \in Executing => t \in activeTasks

FInv == WIInv /\ OnlyExecutors /\ GPUsHeldExclusively

\* A worker that no task is canceled on is a worker.
LEMMA FreshNextIsWNext == FreshNext => WNext
  BY DEF FreshNext, WNext

\* At first nothing is executed and nothing is under way.
LEMMA WInitFInv == WInit => FInv
  BY WInitWIInv DEF WInit, FInv, OnlyExecutors, GPUsHeldExclusively, Executing

\* A step that leaves GPUs and task records alone, and starts no execution,
\* keeps the GPUs to their tasks.
LEMMA GPUsUntouched ==
    ASSUME GPUsHeldExclusively, gpus' = gpus,
           \A t \in TaskIds : taskRec'[t].gpuIDs = taskRec[t].gpuIDs,
           \A t \in TaskIds : pc'[t] \in Executing => pc[t] \in Executing
    PROVE  GPUsHeldExclusively'
  BY DEF GPUsHeldExclusively

\* executeTask takes GPUs that are free, which those of executed tasks are not.
LEMMA ExecuteTaskFInv ==
    ASSUME FInv, NEW t \in TaskIds, ExecuteTask(t)
    PROVE  OnlyExecutors' /\ GPUsHeldExclusively'
<1> USE DEF FInv, WIInv
<1>1. PICK S \in Allocations(Demand[t].requiredGPUs) :
         LET ids == {gpus[i].id : i \in S} IN
         /\ gpus' = MarkGPUs(gpus, ids, FALSE)
         /\ taskRec' = [taskRec EXCEPT ![t] = [status |-> "RUNNING", gpuIDs |-> ids, metrics |-> 0]]
  BY DEF ExecuteTask
<1> DEFINE ids == {gpus[i].id : i \in S}
<1>2. \A i \in S : i \in DOMAIN gpus /\ gpus[i].available
  BY AllocationsAreFree DEF Free
<1>3. OnlyExecutors'
  BY DEF ExecuteTask, OnlyExecutors, WTypeOK, Executing
<1>4. /\ gpus' = MarkGPUs(gpus, ids, FALSE)
      /\ taskRec'[t].gpuIDs = ids
      /\ \A u \in TaskIds \ {t} : taskRec'[u] = taskRec[u] /\ pc'[u] = pc[u]
      /\ pc[t] \notin Executing
  BY <1>1 DEF ExecuteTask, WTypeOK, Executing
<1>5. \A u \in TaskIds \ {t} : pc[u] \in Executing => taskRec[u].gpuIDs \cap ids = {}
  BY <1>2 DEF GPUsHeldExclusively
<1>6. /\ DOMAIN gpus' = DOMAIN gpus
      /\ \A i \in DOMAIN gpus :
            /\ gpus'[i].id = gpus[i].id
            /\ gpus[i].id \in ids => gpus'[i].available = FALSE
            /\ gpus[i].id \notin ids => gpus'[i].available = gpus[i].available
  <2>1. gpus \in Seq(GPU)
    BY DEF WTypeOK
  <2>2. \A i \in DOMAIN gpus : gpus[i] \in GPU
    BY <2>1
  <2> HIDE DEF ids
  <2> QED  BY <1>4, <2>2 DEF MarkGPUs, GPU
<1> HIDE DEF ids
<1>7. GPUsHeldExclusively'
  BY <1>4, <1>5, <1>6 DEF GPUsHeldExclusively
<1> QED  BY <1>3, <1>7

\* The executor's last step frees GPUs that no other executed task has.
LEMMA CleanupFInv ==
    ASSUME FInv, NEW t \in TaskIds, Cleanup(t)
    PROVE  OnlyExecutors' /\ GPUsHeldExclusively'
<1> USE DEF FInv, WIInv
<1>1. /\ pc'[t] = "done" /\ pc[t] \in Executing
      /\ \A u \in TaskIds \ {t} : pc'[u] = pc[u]
      /\ taskRec' = taskRec
  BY DEF Cleanup, WTypeOK, Executing
<1>2. OnlyExecutors'
  BY <1>1 DEF Cleanup, OnlyExecutors, Executing
<1>3. /\ DOMAIN gpus' = DOMAIN gpus
      /\ \A i \in DOMAIN gpus :
            /\ gpus'[i].id = gpus[i].id
            /\ gpus[i].id \notin taskRec[t].gpuIDs => gpus'[i].available = gpus[i].available
  <2>1. gpus \in Seq(GPU) /\ gpus' = MarkGPUs(gpus, taskRec[t].gpuIDs, TRUE)
    BY DEF Cleanup, WTypeOK
  <2>2. \A i \in DOMAIN gpus : gpus[i] \in GPU
    BY <2>1
  <2> QED  BY <2>1, <2>2 DEF MarkGPUs, GPU
<1>4. "done" \notin Executing
  BY DEF Executing
<1>5. GPUsHeldExclusively'
  BY <1>1, <1>3, <1>4 DEF GPUsHeldExclusively
<1> QED  BY <1>2, <1>5

\* The scheduler's view of a GPU is taken over only where no active task, so no
\* executed one, has the GPU; and an update that lists all tasks as not ended
\* starts no cleaner.
LEMMA StatusUpdateFInv ==
    ASSUME FInv, NEW s \in Updates, Fresh(s), StatusUpdate(s)
    PROVE  OnlyExecutors' /\ GPUsHeldExclusively'
<1> USE DEF FInv, WIInv
<1>1. Unlisted(s) = {} /\ \A t \in Differing(s) : s.tasks[t] \notin Ended
  BY DEF Fresh, Unlisted, Differing
<1>2. cleaners' = {}
  BY <1>1 DEF StatusUpdate, OnlyExecutors
<1>3. reports' = reports /\ pc' = pc /\ activeTasks' = activeTasks
  BY DEF StatusUpdate
<1>4. OnlyExecutors'
  BY <1>2, <1>3 DEF OnlyExecutors
<1>5. \A t \in TaskIds : taskRec'[t].gpuIDs = taskRec[t].gpuIDs
  BY DEF StatusUpdate, WTypeOK
<1>6. /\ DOMAIN gpus' = DOMAIN gpus
      /\ \A i \in DOMAIN gpus :
            /\ gpus'[i].id = gpus[i].id
            /\ InUse(gpus[i].id) => gpus'[i] = gpus[i]
  BY SynchronizedProps DEF StatusUpdate, WTypeOK
<1>7. \A t \in TaskIds, i \in DOMAIN gpus :
         pc[t] \in Executing /\ gpus[i].id \in taskRec[t].gpuIDs => InUse(gpus[i].id)
  BY DEF OnlyExecutors, InUse
<1>8. GPUsHeldExclusively'
  BY <1>3, <1>5, <1>6, <1>7 DEF GPUsHeldExclusively
<1> QED  BY <1>4, <1>8

\* Every other step leaves the GPUs to whom they belong.
LEMMA OtherStepFInv ==
    ASSUME FInv,
           \/ Poll \/ PollRefused \/ PollerGone
           \/ \E r \in reports : SendReport(r) \/ Returned(r)
           \/ \E t \in TaskIds : LoopPaused(t) \/ LoopGo(t) \/ Step(t) \/ Fail(t) \/ Complete(t)
           \/ Configure \/ Stopping \/ UNCHANGED wvars
    PROVE  OnlyExecutors' /\ GPUsHeldExclusively'
<1> USE DEF FInv, WIInv
<1>1. CASE Poll \/ PollRefused \/ PollerGone \/ Configure \/ Stopping \/ UNCHANGED wvars
  <2>1. /\ gpus' = gpus /\ taskRec' = taskRec /\ pc' = pc
        /\ cleaners' = cleaners /\ reports' = reports /\ activeTasks' = activeTasks
    BY <1>1 DEF Poll, PollRefused, PollerGone, Configure, SetPaused, SetStrategy, Stopping,
       Signal, StopBegin, StopEnd, wvars
  <2> QED  BY <2>1, GPUsUntouched DEF OnlyExecutors
<1>2. ASSUME NEW r \in reports, SendReport(r)
      PROVE  OnlyExecutors' /\ GPUsHeldExclusively'
  <2>1. r.by = "executor" /\ [r EXCEPT !.status = taskRec[r.task].status].by = "executor"
    BY DEF OnlyExecutors, WTypeOK, ReportRecord
  <2>2. /\ gpus' = gpus /\ taskRec' = taskRec /\ pc' = pc
        /\ cleaners' = cleaners /\ activeTasks' = activeTasks
        /\ reports' = (reports \ {r}) \cup {[r EXCEPT !.status = taskRec[r.task].status]}
    BY <1>2 DEF SendReport
  <2>3. \A q \in reports' : q.by = "executor"
    BY <2>1, <2>2 DEF OnlyExecutors
  <2> QED  BY <2>2, <2>3, GPUsUntouched DEF OnlyExecutors
<1>3. ASSUME NEW r \in reports, Returned(r)
      PROVE  OnlyExecutors' /\ GPUsHeldExclusively'
  <2>1. r.by = "executor" /\ r.task \in TaskIds /\ pc[r.task] \in Calling
    BY DEF OnlyExecutors, WTypeOK, ReportRecord, ExecutorWaits
  <2>2. /\ gpus' = gpus /\ taskRec' = taskRec /\ activeTasks' = activeTasks
        /\ cleaners' = cleaners /\ reports' \subseteq reports
        /\ \A t \in TaskIds \ {r.task} : pc'[t] = pc[t]
    BY <1>3, <2>1 DEF Returned, WTypeOK
  <2>3. pc[r.task] \in Executing
    BY <2>1 DEF Calling, Executing
  <2> QED  BY <2>1, <2>2, <2>3, GPUsUntouched DEF OnlyExecutors
<1>4. ASSUME NEW t \in TaskIds, LoopPaused(t) \/ LoopGo(t)
      PROVE  OnlyExecutors' /\ GPUsHeldExclusively'
  <2>1. /\ gpus' = gpus /\ taskRec' = taskRec /\ activeTasks' = activeTasks
        /\ cleaners' = cleaners /\ reports' = reports
        /\ \A u \in TaskIds \ {t} : pc'[u] = pc[u]
        /\ pc[t] \in Executing
    BY <1>4 DEF LoopPaused, LoopGo, WTypeOK, Executing
  <2> QED  BY <2>1, GPUsUntouched DEF OnlyExecutors
<1>5. ASSUME NEW t \in TaskIds, Step(t) \/ Fail(t) \/ Complete(t)
      PROVE  OnlyExecutors' /\ GPUsHeldExclusively'
  <2> DEFINE Same(record) == ExecutorReports(t, "step", "working", record)
                             \/ ExecutorReports(t, "fail", "failing", record)
                             \/ ExecutorReports(t, "loop", "ending", record)
  <2>1. PICK record \in [status : TaskStatus, gpuIDs : {taskRec[t].gpuIDs}, metrics : Nat] :
           Same(record)
    <3> DEFINE stepped == [taskRec[t] EXCEPT !.metrics = @ + 1]
               failed == [taskRec[t] EXCEPT !.status = "FAILED"]
               completed == [taskRec[t] EXCEPT !.status = "COMPLETED"]
    <3>1. Same(stepped) \/ Same(failed) \/ Same(completed)
      BY <1>5, Zenon DEF Step, Fail, Complete
    <3>2. \A record \in {stepped, failed, completed} :
             record \in [status : TaskStatus, gpuIDs : {taskRec[t].gpuIDs}, metrics : Nat]
      BY DEF WTypeOK, TaskStatus
    <3> HIDE DEF Same, stepped, failed, completed
    <3> QED  BY <3>1, <3>2
  <2>2. /\ gpus' = gpus /\ activeTasks' = activeTasks /\ cleaners' = cleaners
        /\ taskRec' = [taskRec EXCEPT ![t] = record]
        /\ reports' = reports \cup {[by |-> "executor", task |-> t, status |-> "unread"]}
        /\ \E to \in Calling : pc' = [pc EXCEPT ![t] = to]
        /\ pc[t] \in Executing
    BY <2>1 DEF ExecutorReports, Calling, Executing
  <2>3. \A u \in TaskIds \ {t} : pc'[u] = pc[u]
    BY <2>2 DEF WTypeOK
  <2>4. \A u \in TaskIds : taskRec'[u].gpuIDs = taskRec[u].gpuIDs
    BY <2>2, record.gpuIDs = taskRec[t].gpuIDs DEF WTypeOK
  <2>5. \A r \in reports' : r.by = "executor"
    BY <2>2 DEF OnlyExecutors
  <2> QED  BY <2>2, <2>3, <2>4, <2>5, GPUsUntouched DEF OnlyExecutors
<1> QED  BY <1>1, <1>2, <1>3, <1>4, <1>5

\* Every step keeps the invariant.
LEMMA NextFInv == FInv /\ [FreshNext]_wvars => FInv'
<1>1. FInv /\ [FreshNext]_wvars => WIInv'
  BY FreshNextIsWNext, NextWIInv DEF FInv
<1>2. FInv /\ [FreshNext]_wvars => OnlyExecutors' /\ GPUsHeldExclusively'
  <2>1. FInv => ~\E c \in cleaners : Clean(c)
    BY DEF FInv, OnlyExecutors
  <2> QED
    BY <2>1, ExecuteTaskFInv, CleanupFInv, StatusUpdateFInv, OtherStepFInv
       DEF FreshNext, Inner, Executor
<1> QED  BY <1>1, <1>2 DEF FInv

\* The invariant holds while no task is canceled.
LEMMA FreshInvariance == FreshSpec => []FInv
  BY WInitFInv, NextFInv, PTL DEF FreshSpec

\* As long as no update or command cancels a task, allocateGPUs, the cleanup of
\* executeTask and the synchronisation of GPUs with the scheduler's view never
\* take a GPU from a task that is executed, nor give it to a second one.
THEOREM ExecutedTasksKeepGPUs == FreshSpec => []GPUsHeldExclusively
<1>1. FInv => GPUsHeldExclusively
  BY DEF FInv
<1> QED  BY <1>1, FreshInvariance, PTL

\* Under the same condition reports on a task are sent one after the other,
\* each before its executor goes on, the last one included.
THEOREM OneReportAtATime == FreshSpec => []ReportsInOrder
<1>1. FInv => ReportsInOrder
  BY DEF FInv, WIInv, OnlyExecutors, ExecutorWaits, ReportsInOrder, Calling
<1> QED  BY <1>1, FreshInvariance, PTL
=============================================================================
