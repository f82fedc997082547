-------------------------- MODULE SchedulerMetrics --------------------------
(***************************************************************************)
(* What the server tells Prometheus over its lives: the gauges and         *)
(* counters of pkg/metrics that the hooks of pkg/scheduler/metrics.go set  *)
(* inside the handlers, each with the values of the moment at which it is  *)
(* called, and that main() sets to zero while the server already answers   *)
(* calls.  LoadState replaces the tables without any hook.                 *)
(*                                                                         *)
(* updateMetrics asks for a read lock that its caller holds for writing;   *)
(* where that is not granted, the call ends there.  Durations are left     *)
(* out.                                                                    *)
(***************************************************************************)
EXTENDS SchedulerPersistence

CONSTANT
    MaxEnds     \* bound: ends reported to one process of the server

ASSUME MetricsAssumption == MaxEnds \in Nat

VARIABLES
    gauges,     \* scheduler_tasks_active, _tasks_pending, _workers_active
    counters,   \* scheduler_tasks_total, _tasks_completed, _tasks_failed
    zeroed,     \* main() has set the gauges to zero
    measured,   \* history: a hook has measured the tables since the gauges
                \* were set to zero or the tables were loaded
    owned,      \* history: since then, ends were reported of held tasks only
    carried     \* history: what the tables say more than the counters, since
                \* they were loaded

mvars == <<pvars, gauges, counters, zeroed, measured, owned, carried>>
since == <<owned, carried>>

\* updateMetrics over the given tables.
Measured(ts, queue, ws) ==
    [active  |-> Cardinality({t \in DOMAIN ts : ts[t].status = "RUNNING"}),
     pending |-> Len(queue),
     workers |-> Cardinality(DOMAIN ws)]

\* A hook calls updateMetrics while the tables are as given.
Measure(ts, queue, ws) ==
    /\ gauges' = IF NestedRLockGranted THEN Measured(ts, queue, ws) ELSE gauges
    /\ measured' = (measured \/ NestedRLockGranted)

NoGauges == [active |-> 0, pending |-> 0, workers |-> 0]
NoCounts == [total |-> 0, completed |-> 0, failed |-> 0]

\* The tasks in the table ts that ended with the status and that none of the
\* workers ws holds any more.
OverIn(ts, ws, status) ==
    {t \in DOMAIN ts : ts[t].status = status /\ \A w \in DOMAIN ws : t \notin ws[w].tasks}

\* What the counters should be, going by the tables alone.
Tally(ts, ws) ==
    [total     |-> Cardinality(DOMAIN ts),
     completed |-> Cardinality(OverIn(ts, ws, "COMPLETED")),
     failed    |-> Cardinality(OverIn(ts, ws, "FAILED"))]

\* A process begins with metrics that are all zero, as its tables are empty.
MInit ==
    /\ PInit
    /\ gauges = NoGauges
    /\ counters = NoCounts
    /\ zeroed = FALSE
    /\ measured = TRUE
    /\ owned = TRUE
    /\ carried = NoCounts

-----------------------------------------------------------------------------
(* main().                                                                 *)

\* main() sets the gauges after it has started to serve.
ZeroGauges ==
    /\ phase = "serving"
    /\ ~zeroed
    /\ zeroed' = TRUE
    /\ gauges' = NoGauges
    /\ measured' = FALSE
    /\ UNCHANGED <<pvars, counters, since>>

\* Then it enables persistence, and LoadState replaces the tables.
MEnablePersistence ==
    /\ zeroed
    /\ EnablePersistence
    /\ UNCHANGED <<gauges, counters, zeroed, measured, since>>

MLoadState ==
    /\ LoadState
    /\ measured' = FALSE
    /\ owned' = TRUE
    /\ carried' = LET tally == Tally(tasks', workers') IN
                  [k \in DOMAIN counters |-> tally[k] - counters[k]]
    /\ UNCHANGED <<gauges, counters, zeroed>>

\* The process is gone, and the next one has metrics of its own.
MDown ==
    /\ Exit \/ Crash
    /\ gauges' = NoGauges
    /\ counters' = NoCounts
    /\ zeroed' = FALSE
    /\ measured' = TRUE
    /\ owned' = TRUE
    /\ carried' = NoCounts

\* Nothing else that main() and the manager do has to do with metrics.
MOther ==
    /\ \/ \E policy \in BootPolicies : Boot(policy)
       \/ LoadFails \/ AutoSaveTick \/ Signal \/ SaveBegin
       \/ \E w \in WorkerIds : SaveWorker(w)
       \/ \E t \in TaskIds : SaveTask(t)
       \/ SavePendingTask \/ SaveDone \/ SaveFails \/ StopManager
    /\ UNCHANGED <<gauges, counters, zeroed, measured, since>>

-----------------------------------------------------------------------------
(* The handlers, with their hooks.                                         *)

\* recordWorkerRegistration follows the entry in the table.
MRegister ==
    /\ Register
    /\ Measure(tasks, pendingTasks, workers')
    /\ UNCHANGED <<counters, since>>

\* Mutant: recordTaskSubmission is called first.
MAddTaskRecordedFirst(t) ==
    /\ AddTask(t)
    /\ counters' = [counters EXCEPT !.total = @ + 1]
    /\ Measure(tasks, pendingTasks, workers)
    /\ UNCHANGED since

\* recordTaskSubmission follows the append.
MAddTask(t) ==
    /\ AddTask(t)
    /\ counters' = [counters EXCEPT !.total = @ + 1]
    /\ Measure(tasks', pendingTasks', workers)
    /\ UNCHANGED since

\* recordWorkerStatusChange comes after the task's record was changed and
\* before it leaves the queue; a refused poll records nothing.
MRequestTask(w) ==
    /\ RequestTask(w)
    /\ IF UNCHANGED vars THEN UNCHANGED <<gauges, measured>>
                         ELSE Measure(tasks', pendingTasks, workers)
    /\ UNCHANGED <<counters, since>>

\* Mutant: if instead of else if, without a test for COMPLETED.
CountedTwice(status) ==
    [counters EXCEPT !.completed = @ + 1,
                     !.failed = IF status = "FAILED" THEN @ + 1 ELSE @]

\* The counter of recordTaskCompletion.
Counted(status) ==
    [counters EXCEPT !.completed = IF status = "COMPLETED" THEN @ + 1 ELSE @,
                     !.failed = IF status = "FAILED" THEN @ + 1 ELSE @]

\* recordTaskCompletion follows the change of the task's status.  Reports on
\* progress record nothing.
MReport(w, t, status) ==
    /\ \/ ReportProgress(w, t, status) /\ UNCHANGED <<gauges, counters, measured>>
       \/ /\ counters.completed + counters.failed < MaxEnds
          /\ ReportEnd(w, t, status)
          /\ counters' = Counted(status)
          /\ Measure(tasks', pendingTasks, workers)
    /\ owned' = (owned /\ t \in workers[w].tasks)
    /\ UNCHANGED carried

\* The pass records nothing.
MPass == Pass /\ UNCHANGED <<gauges, counters, measured, since>>

MServe ==
    /\ phase # "down"
    /\ \/ MRegister
       \/ \E t \in TaskIds \ (DOMAIN db.tasks \cup DOMAIN lastSave.tasks) : MAddTask(t)
       \/ \E w \in WorkerIds : MRequestTask(w)
       \/ \E w \in WorkerIds, t \in TaskIds, status \in Reported : MReport(w, t, status)
       \/ MPass
    /\ UNCHANGED <<db, phase, boots, history, zeroed>>

MNext == MServe \/ ZeroGauges \/ MEnablePersistence \/ MLoadState \/ MDown \/ MOther

MSpec == MInit /\ [][MNext]_mvars

-----------------------------------------------------------------------------
(* Properties.                                                             *)

\* The gauge of pending tasks may be behind, since the pass follows its hook,
\* but once a hook has measured it hides no waiting task, until main() sets it
\* to zero or LoadState replaces the queue.
MeasuredHidesNoTask == measured => gauges.pending >= Len(pendingTasks)

\* The counters agree with the tables, from one load to the next: every task
\* that is added is counted once, and once again when it has ended, as what it
\* ended as, if clients report on tasks that their workers hold.
EndsCounted == owned => \A k \in DOMAIN counters : counters[k] + carried[k] = Tally(tasks, workers)[k]

(* Properties that do not hold.                                            *)

\* The gauge of pending tasks never hides a waiting task.
BacklogNeverUnderstated == gauges.pending >= Len(pendingTasks)

\* Between two calls the gauges of active and pending tasks show the tables as
\* they are.
TaskGaugesCurrent ==
    mu = "free" /\ measured =>
        LET now == Measured(tasks, pendingTasks, workers)
        IN  gauges.active = now.active /\ gauges.pending = now.pending

\* Every worker that has registered is in the gauge of workers.
WorkersCounted == gauges.workers = Cardinality(DOMAIN workers)
=============================================================================
