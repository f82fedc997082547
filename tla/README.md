# A TLA+ development of the training scheduler

The repository is a scheduler for GPU training jobs: a gRPC server keeps a table
of workers with their GPUs and a queue of tasks, a policy decides which worker
gets which task, workers run tasks and report on them, and a database keeps the
server's state from one life of the process to the next. This directory holds
TLA+ modules of the server, of the worker process and of the two together, TLC
configurations that check them on small instances, and proofs that TLAPS checks.

## 1. Inventory

| Part | Source | State | Operations | Status |
|---|---|---|---|---|
| Scheduler service | `pkg/scheduler/scheduler.go` | `workers`, `tasks`, `pendingTasks`, one `sync.RWMutex` | `RegisterWorker`, `AddTask`, `RequestTask`, `ReportTaskStatus`, `ListWorkers`, `MonitorWorker` | modelled; `ListWorkers` only reads |
| Assignment pass | `assignPendingTasks` | the loop's index | one pass over the queue at the end of a handler | modelled, per iteration |
| Policies | `pkg/scheduler/policy.go` | none | two `AssignTask` methods | modelled |
| Metrics hooks | `pkg/scheduler/metrics.go`, `pkg/metrics` | gauges and counters | `record*`, `updateMetrics`; zeroed by `main` | modelled, without durations |
| Scheduler persistence | `pkg/scheduler/scheduler_persistence.go` | `persistenceManager` | `EnablePersistence`, `DisablePersistence`, `SaveState`, `LoadState` | modelled |
| Persistence manager | `pkg/persistence/manager.go` | `saveTrigger` channel | `saveToDatabase`, `loadFromDatabase`, `autoSaveLoop`, `TriggerSave` | modelled |
| Database | `pkg/persistence/database.go` | five tables | one transaction per row with its dependent rows | modelled |
| Server process | `cmd/server/main.go` | how far `main` is | start, serve, load, signal, save, stop; crash | modelled |
| Worker | `pkg/worker/worker.go`, `cmd/worker` | GPUs, status, active tasks, `Paused`, strategy, one `sync.RWMutex` | register, poll, execute, report, handle updates and commands, stop | modelled |
| Worker metrics | `pkg/worker/metrics.go` | gauges | `updateMetrics` | its lock is modelled, the gauges not |
| Clients | `cmd/submit`, `cmd/monitor` | an open stream | one refused `RequestTask`; `MonitorWorker` | modelled, without display |
| HTTP endpoint, logging, generated code, monitoring stack | `pkg/metrics`, `pkg/logging`, `proto/*.pb.go`, `monitoring/` | none that matters | output | not modelled |

How they interact. Every RPC handler locks `Scheduler.mu` for its whole
duration. Handlers that change something end with `assignPendingTasks`
(`RegisterWorker`, `AddTask`, a terminal `ReportTaskStatus`), call the metrics
hooks, and fill the manager's trigger channel through `UpdatePersistentState`.
The policy reads the worker table. `main` starts to answer calls first and loads
the saved state afterwards, in `EnablePersistence`, which unlocks in the middle;
on a signal `DisablePersistence` saves, and `GracefulStop` follows. A worker polls
`RequestTask`, runs each task it is given in a goroutine that reports after every
iteration, and receives snapshots of the scheduler's view of itself from
`MonitorWorker`, by which it corrects its own: GPUs, status, and which tasks
exist. Nothing on the scheduler's side is told of what the worker chose.

What is hard about it, and where: the mutex is asked for by its own holder; a
loop deletes from the slice it runs over; a shadowed variable makes a task's
record and its booking differ; reports are believed whoever sends them; a save
is many transactions and a crash may fall between any two; calls are answered
before, during and after loading and saving; liveness of tasks rests on GPUs and
statuses being given back. On the worker's side five kinds of goroutine share
records under one lock that they release between deciding and reporting;
snapshots are older than what they correct; a stop waits for goroutines with the
lock in hand; and both sides keep books on the same GPUs without agreeing on
them. `PROJECT.json` lists each of these hazards at its
line, with the properties that look for it.

What makes the parts correct:

* service and pass: the queue is exactly the unassigned tasks; bookings and
  records agree; GPUs are marked busy exactly while a held task has them; no
  handler leaves an assignable task behind; the lock is released;
* policies: the answer is a worker that accepts the task and that many fitting
  GPUs of it;
* persistence: at every moment the database can be loaded; what a finished save
  wrote is what the next life starts with;
* worker: an executed task has its GPUs for itself; reports on a task keep their
  order; no task is left behind; started tasks end; `Stop` returns;
* both together: a task is executed by one worker and once, what is executed is
  booked, what ended is released, and a task runs on the GPUs it asked for;
* clients: one id per worker process, a submitted task is known, the server stops;
* metrics: gauges and counters agree with the tables they are about.

## 2. Modules

    Protocol -- WorkloadPolicy -- Scheduler -+- SchedulerPersistence -+- Clients
       |                                     |                        +- SchedulerMetrics
       |                                     +- SchedulerLedger (implements GPULedger)
       +------------- Worker ----------------+- System (both, joined by calls)

`Protocol` -- the enumerations and messages both sides use.

`WorkloadPolicy` -- the policies as operators on a worker table and a task's
demand. `Candidates` is who is suitable (`{}` is the error answer), `ChosenGPUs`
which GPUs are answered with, and `FirstChoices` every worker that may be first
after the sort: Go's map order is arbitrary and `sort.Slice` is not stable, so
that each of the best may come first, and a NaN score (a worker without GPUs
under the balanced policy) leaves the order open. Scores are compared as exact
integers; `uint64` sums and products are taken modulo `Word`. The simple score
is multiplied by ten and the balanced comparison by the GPU counts.

`Scheduler` -- the service. A handler is one action since it holds the lock
throughout; `assignPendingTasks`, however, is one action per iteration
(`AssignSkip`, `AssignTo`, `AssignDone`), during which `mu = "assign"` keeps
other handlers out. A handler that ends with a pass takes the lock into it with
`StartPass`. Refused calls and reading calls change nothing and are stuttering
steps; a poll that finds nothing is an explicit outcome of `RequestTask`. Names,
addresses, progress values and time stamps are left out: no property tells them
apart. `Spec` has clients that call anything with any
arguments; `OwnerSpec` has clients that report as `pkg/worker` does, on tasks
they hold. Task ids are new when they arrive (submitters make them from the
clock); `AddTask` itself does not check that, and nothing in the repository
calls it yet.

`SchedulerPersistence` -- extends `Scheduler` by the database (`db`), the
progress of `main` (`phase`) and two history variables (`lastSave`, `intact`)
that only properties read. Every transaction of a save is an action; `Crash` may
come between any two, and `SaveFails`, `LoadFails` and a failing
`EnablePersistence` are the error paths. Queries have no `ORDER BY`, so that
tables are sets of rows and loading picks any order, of the queue
and of each worker's GPUs (`LoadedWorkers`).

`GPULedger` -- what the scheduler promises about GPUs, without queue order,
policies, flags, statuses or locks: workers join with GPUs, tasks are submitted,
a waiting task is granted GPUs that are large enough and that no running task
has, and ends. `SchedulerLedger` reads the scheduler's tables as a ledger
(`Pool`, `Queued`, `Grants`, `Over`) and states the refinement, `KeepsLedger`.

`Worker` -- one worker process. An action is a stretch of code between two lock
operations or calls. `pc[t]` is where the goroutine of task `t` is: `starting`
(the first report, for which the poller waits), `loop`, `step` (found not
paused), `working`, `ending`, `failing` (waiting for a report), `cleanup`,
`done`, or `failed` (returned on a cancelled context). `reports` holds the
`reportTaskStatus` calls under way; a call reads the status (`SendReport`) in
another critical section than the one that set it, which is what several
properties are about. Task records outlive their entry in `ActiveTasks`, since
goroutines keep pointers to them. `StatusUpdate` is `processStatusUpdate` with
`updateTaskPriority`; the goroutines these start are `cleaners`. `Stop` holds the
read lock while `main = "waiting"`, which is why `CanWrite` excludes it; the
context is cancelled from `Signal` on. In `Worker` the scheduler is the
environment: `WSpec` has any updates and commands, `FreshSpec` only updates that
cancel no active task.

`System` -- `Scheduler` and an instance of `Worker`, joined by `RequestTask`
(`Grant`, `Refuse`, `Deliver`, `PollFails`), `ReportTaskStatus` (`Handle`,
`ReportFails`) and the stream (`MonitorWorker`, `Receive`), a queue of snapshots.
One of the registered workers, `Me`, is the process of `Worker`; of the others
there are the calls: `OtherRequests` is a poll that was answered, `OtherReports` a
report on a task the worker was answered with, of any status and as often as it
likes. They matter because `RequestTask` declares a second `workerID` (line 151):
it judges suitability over all workers, records the one that the policy chose in
the task, and books and answers the one that asked. `RequestTask` hands out a
task only after a restart with another policy (`AssignedOnceByPass`), so that
`SInit` is the state of a server that was restarted so. With `lossy` a call may
fail before or after it was handled; a behaviour has one of the `Settings`: the
queue, how many updates the stream brings, and `lossy`. Two history variables
say which tasks an update has canceled at `Me` (`canceled`) and of which the end was
hidden from the scheduler by a failed call or an overwriting update (`lost`); what
the runs show is stated with them, since the stream is always open
(`worker.go:108`). The scheduler sends no commands, so that none are received here.

`Clients` -- `SchedulerPersistence` with who calls: worker processes and the id
each has kept, open streams, and submissions. Nothing is polled or reported.

`SchedulerMetrics` -- extends `SchedulerPersistence` by the gauges and counters, set
with the tables as they are where the hook is called, over several lives of the
process: `main` sets the gauges to zero while calls are answered (`ZeroGauges`),
`LoadState` replaces the tables and calls no hook (`MLoadState`), and a new process
has metrics of its own (`MDown`). Reports are anybody's, as in `Spec`. Three history
variables serve the properties: `measured`, that a hook has been called since the
gauges were zeroed or the tables loaded; `owned`, that ends were reported of held
tasks only; `carried`, what the tables said more than the counters when they were
loaded.

`ProtocolProofs`, `SchedulerProofs`, `HandlerProofs`, `LedgerProofs`,
`MetricsProofs`, `WorkerProofs`, `PersistenceProofs` (with `Clients`) and
`SystemProofs` -- the theorems of section 6. `MCScheduler`, `MCPersistence`, `MCWorker`, `MCSystem`,
`MCClients`, `MCMetrics` -- values of the constants for TLC (`MCScheduler` with the
refinement).

### The mutex

Handlers call `UpdatePersistentState` and `updateMetrics`, both of which take
`s.mu.RLock()`, while they hold `s.mu.Lock()`. Go's `RWMutex` is not reentrant:
the goroutine waits for itself. The constant `NestedRLockGranted` says which
mutex is meant. With `FALSE`, Go's, the first handler that gets there leaves
`mu = "stuck"` (run `scheduler_lock`). With `TRUE` the nested read lock is
granted, which is the behaviour the handlers are written for, and the one in
which the rest of the code can be examined. All other runs use `TRUE`, and what
they show, findings included, is about the program once that deadlock is
removed. Which theorems hold for both values, and which need `TRUE`, is said in
section 6. The worker has the same mistake with a
lock of its own (`processStatusUpdate` calls `recordStatusChange`), and its module
the same constant: `Worker_lock.cfg` uses `FALSE`.

## 3. Runs

Passing runs:

* `scheduler_any` (`Spec`; 2 workers, 3 tasks, 2 GPU lists, one worker that may
  choose its own id, both policies, all five statuses): `TypeOK`,
  `WorkConserving`, `PendingExactlyUnassigned`, `HeldByAssignee`,
  `IdleIffNothingHeld`, `AssignedOnceByPass`, `MutexReleased`. The wide task
  needs both GPUs of one worker, the large one a GPU that only some have, so that
  tasks wait, are skipped, and overtake each other. Deadlock is checked.
* `scheduler_owner` (`OwnerSpec`; 2 workers, 4 tasks, one without GPUs, generated
  ids): `GPUsAccounted`, `NoDoubleBooking`, `AssignmentMeetsDemand`,
  `AnonymousAccepted`, `IdleWorkerLeavesNothing` and the refinement `KeepsLedger`.
  `IdleWorkerLeavesNothing` is what can be said of progress without assuming that
  ends are reported: once a worker is empty, all its GPUs and the worker itself
  are eligible again, and nothing that fits it waits.
* `persistence_same` (2 lives, one policy, 2 workers with two GPUs or one, a narrow
  and a wide task): `PTypeOK`, `WorkConserving`, `HeldByAssignee`,
  `ReferentialIntegrity`, `UniqueGPUsRestored`, with calls in every window and
  crashes everywhere. Workers may number their GPUs alike or not.
* `persistence_policy` (`MSpec`; 2 lives, the policy may change, one worker of two
  GPUs, two tasks, two ends per life):
  `QueuedNotAssigned`, `RestoredAsSaved`, `MeasuredHidesNoTask`, `EndsCounted`. Here
  loaded tasks can be assignable without a pass having run, and `RequestTask` takes
  its assigning branch. The properties of the metrics are about the time between
  a hook and the next load: that the gauge of pending tasks does hide restored
  tasks, since `main` zeroes it and `LoadState` calls no hook, is
  `Metrics_backlog.cfg` below.
* `worker_fresh` (`FreshSpec`; 2 tasks, 2 GPUs, all strategies, every view of the
  GPUs): `WTypeOK`, `GPUsHeldExclusively`, `ReportsInOrder`.
* `worker_any` (`WSpec`; 1 task of two iterations, updates that list it in any
  state or omit it, pauses, STOP_TASK): `ActiveIsExecuted`, `StartedTaskEnds`.
  Cleaners, executor and `Stop` meet in every order. `StartedTaskEnds` asks nothing
  of a worker that is paused again and again, or for good: that its loop ends
  all the same is a deviation (`Worker_pause.cfg`) and not what it promises.
* `system_worker` (2 workers of three GPUs, each with a task held from before), in two
  settings: one waiting task, failing calls and three updates; two waiting
  tasks, one update and no failing call. `STypeOK`; `ExecutedOnce`: no task is
  executed twice or by two workers, whomever `RequestTask` records;
  `BookedWhileExecuted`; `EndReachesScheduler`, except for tasks that are `canceled`
  or `lost`; `ReportsOnHeld`, which is the assumption behind `OwnerSpec` as far as
  it is true: the worker reports on what it holds and not after the end, unless an
  update has canceled the task; `NoSharedGPUUntilCanceled`, with updates that
  replace the worker's marks by the scheduler's, which books other GPUs than the
  worker took; `ExecutedIsReleased`. What an update that cancels does is below.
* `clients_stop` (2 workers, a monitor, 2 lives; clients leave or stay as they like):
  `CTypeOK`, `StopsUnlessWatched`: a server that was told to stop stops, or is kept
  by an open stream of a worker that it knows, for ever, and by nothing else. That
  it may be kept so is `Clients_stay.cfg` below.

Runs that end in a violation, each against a sentence of the repository
(`PROJECT.json`, `findings`):

* `scheduler_lock` (`MutexReleased`): the first registration never returns.
* `persistence_crash` (`SavedTasksSurvive`): a save deletes first and writes later,
  in different transactions.
* `worker_stop` (`StopReturns`): `Stop` waits for tasks that need the lock it holds,
  or that return without closing `DoneCh`.
* `system_shared` (`NoSharedGPU`): with a single snapshot that is older than a grant
  a live task is canceled and its GPU given to the next task, while the first is
  still executed.

Bounds. `MaxWorkers` bounds registrations, `TaskIds` the tasks, `MaxBoots` the
lives of the process; `Word` stands for 2^64 and is larger than every sum here.
Two workers are the least for a task to be on the wrong one, three tasks the
least for one to be skipped, one assigned behind it and one left; two lives the
least for a load after a save, and three for a second save to fail. `Steps`
stands for the 20 iterations of `executeTask`; one is enough for a task to be met
in every place, two for an iteration to follow another. `updates` bounds the
snapshots that are sent: one makes a snapshot stale, two let a stale one follow a
fresh one, three let both follow an old one. `MaxEnds` bounds the ends that are
reported to one process; two let the second go to a task that was counted
already. A task is granted once, and cleaners of one task and kind that wait at
the same time are taken as one. `System` has one worker whose process is looked
at and one other, which is the least for `RequestTask` to record a worker that it
does not answer. The invariants of section 6 are proved without bounds, for any
number of other workers.

`CHECK_DEADLOCK FALSE`: `scheduler_owner` ends when all its tasks have ended
(only refused calls remain); a server that is down may stay down; in
`scheduler_lock` that nothing more happens is the subject; a worker may have
stopped, or wait where `Stop` does; in `System` an update may have told the worker
that it is BUSY, since the scheduler books tasks on it that it never got, and then
it does not poll until the next update, of which the bound may allow none.

## 4. Deviations

What the code does against its own text beyond the four runs above. Each line is
a configuration of this directory that TLC ends with a trace
(`tlc -config Worker_lock.cfg MCWorker`); the properties it violates are stated, with
what they are about, where the modules say so. All but
`Worker_lock` are shown with the nested read lock granted.

| Configuration, module | Property | Source | What happens, and the text it contradicts |
|---|---|---|---|
| `Worker_lock`, MCWorker | `WorkerLockReleased` | worker.go:504 | The first update with another status has its receiver wait for its own lock, for ever. "Stream for real-time monitoring of worker status" (scheduler.proto:18). |
| `Worker_pause`, MCWorker | `CompletedDidItsWork` | worker.go:220 | The loop advances while it is paused, and the iterations of the pause are skipped. "Task paused" (:215). |
| `Worker_cancel`, MCWorker | `CanceledNeverCompletes` | worker.go:600 | The executor of a stopped task goes on and completes it. "Task stopped" (:601). |
| `System_memory`, MCSystem | `EnoughMemory` | worker.go:702 | The worker chooses GPUs without regard to memory or to the GPUs that were booked. "Minimum GPU memory required in MB" (USAGE.md:79). |
| `System_assigned`, MCSystem | `AssignedIsExecuted` | scheduler.go:336 | What the pass assigns is never sent to the worker. "executing assigned training tasks" (README.md:18). |
| `System_other`, MCSystem | `EnoughGPUs` | scheduler.go:151 | The policy finds another worker for the task than the one that asked; that one is answered, has too few GPUs and executes the task without. The same sentence as the next. |
| `System_count`, MCSystem | `EnoughGPUs` | worker.go:485 | A snapshot marks the GPU booked for a granted task as taken, and the task is executed on none. "Number of GPUs required for the task" (USAGE.md:78). |
| `System_end`, MCSystem | `EndReleasesBooking` | worker.go:527 | A snapshot overwrites COMPLETED before it is sent; the scheduler keeps the task. "Tracks available GPU resources" (README.md:20). |
| `System_twice`, MCSystem | `GPUsAccounted` | worker.go:539 | A cleaner reports the end a second time, and another task's GPU is marked free. The same sentence. |
| `Scheduler_explicit`, MCScheduler | `AnonymousAccepted` | scheduler.go:89 | A worker has chosen the id that is generated next; every worker without an id is refused from then on. "Register a worker with the scheduler" (scheduler.proto:9). |
| `Clients_stay`, MCClients | `ServerStops` | server/main.go:138 | `GracefulStop` waits for a stream whose client stays. "Server stopped" (:139). |
| `Clients_identity`, MCClients | `UniqueIdentity` | scheduler.go:89 | After a restart a new worker gets an id that an older worker still uses. "Worker ID already registered" (:95). |
| `Clients_submit`, MCClients | `SubmittedIsKnown` | submit/main.go:85 | The call that submits is refused, since it names no worker; nothing calls `AddTask`. "Submit training tasks to the scheduler" (USAGE.md:65). |
| `Metrics_backlog`, MCMetrics | `BacklogNeverUnderstated` | scheduler_persistence.go:224 | `LoadState` fills the queue after `main` has zeroed the gauge, and calls no hook: the gauge hides every restored task. The same sentence as the next. |
| `Metrics_gauges`, MCMetrics | `TaskGaugesCurrent` | scheduler.go:319 | The gauges are set before the pass. "The number of pending tasks waiting for assignment" (metrics.go:28). |
| `Metrics_workers`, MCMetrics | `WorkersCounted` | server/main.go:94 | `main` zeroes the gauges while workers register. "The number of active workers" (metrics.go:52). |
| `Persistence_request`, MCPersistence | `HeldByAssignee` | scheduler.go:151 | `RequestTask` declares a second `workerID`: after a restart with the other policy record and booking name different workers. "Request a task to be assigned to a worker" (scheduler.proto:12). |
| `Persistence_gpus`, MCPersistence | `GPUsRestored` | database.go:54 | GPU rows are keyed by GPU id alone, and the documented workers all use `--gpus=0,1` (USAGE.md:53). |
| `Persistence_holdings`, MCPersistence | `HoldingsRestored` | manager.go:309 | Ended tasks are loaded as held, and the balanced policy counts them as "active tasks" (USAGE.md:125). |
| `Persistence_autosave`, MCPersistence | `SaveTriggerTaken` | manager.go:119 | Nothing receives from the trigger channel. "Enable automatic state saving" (server/main.go:31). |

## 5. Fairness

* `WF(Pass)`: a goroutine that holds the lock and waits for nothing is scheduled
  again. Handlers themselves are not fair: nothing makes clients call.
* Clients are never fair: nothing makes them call, report or leave. In particular
  no task's end is assumed to be reported: tasks are assigned by the pass and
  workers learn of tasks only from `RequestTask`, which hands none out
  (`AssignedOnceByPass`), so that the end of a task the pass assigned is not
  reported by the present worker at all (`System_assigned.cfg`).
* `WF(EnablePersistence \/ LoadState)`, `WF(AutoSaveTick)`: `main` runs on and
  the ticker ticks. They serve `SaveTriggerTaken`; its violation does not come
  from a missing fairness condition, since no action empties the channel while
  the process lives and persistence is on.
* `WFairness`: each executor, with the calls it waits for, and `Stop` are scheduled
  while they can run; calls return, as gRPC calls on a cancelled or broken
  connection do. Updates and commands are not fair.
* `SFairness`: the same for the composed system, for the poller (`Poller`) and for
  tasks that the worker starts to execute (`ExecutorGoesOn`, and `Handle` of its
  reports). The poller and `Handle` are strongly fair since they wait for the
  scheduler's lock, which others take and release in between: Go's mutexes hand
  the lock to a goroutine that has waited for a millisecond. Updates, cleaners and
  other workers' calls are not fair, and calls may fail.
* `CFairness`: `main` goes on once it was told to stop, passes end, `GracefulStop`
  returns when it can, and `MonitorWorker`, which looks for its worker every few
  seconds, returns when that is gone. No client is assumed to leave.

## 6. Proofs

Every invariant but `CTypeOK`, and every action property of a passing run, is the
statement of a theorem, for all values of the constants that the assumptions named below
admit: `SchedulerAssumptions` and `GPUListsAssumption` (ids within their sets; a
registering worker's GPUs are free and differ by id), `WordAssumption` (`Word` is
positive), `PersistenceAssumptions` (the server is started with policies there are),
`WorkerAssumptions` (the worker's GPUs are free at first and differ by id, updates
are well-typed), `ClientsAssumption` (a process is a worker or a monitor) and
`SystemAssumptions` (the same of every worker's GPUs in `System`, and a first state as
a restart leaves it), `MetricsAssumption` (`MaxEnds` is a number). A theorem that needs more says so in its statement.

Where `NestedRLockGranted` matters. `SchedulerProofs`, `HandlerProofs`,
`LedgerProofs`, `WorkerProofs` and, but for one theorem, `PersistenceProofs` cover
both values. `MetricsProofs`, `QueueHoldsNoAssignedTask` and `SystemProofs` assume
`TRUE` and say so in each theorem: with Go's mutex the first handler never gets
beyond its hooks, and the two sides never get to work together.

| Module | Theorems | Specification |
|---|---|---|
| `SchedulerProofs` | `TypeCorrect`, `PassLeavesNothingUndone`, `QueueIsExact`, `OneHolder`, `IdleIsFree`, `PollingAssignsNothing` | `Spec` |
| | `EveryGPUAccounted`, `NoGPUSharedByTasks`, `IdleWorkerTakesAll` | `OwnerSpec` |
| `HandlerProofs` | `HeldTasksGetTheirGPUs`, `AnonymousNeverRefused` | `Spec` |
| `LedgerProofs` | `SchedulerKeepsLedger` (refinement of `GPULedger`) | `OwnerSpec` |
| `MetricsProofs` | `MeasuredGaugeHidesNoTask`, `EveryEndCountedOnce` | `MSpec` |
| `PersistenceProofs` | `PersistenceTypeCorrect`, `DatabaseMakesSense`, `QueueHoldsNoAssignedTask`, `SavedStateReturns`, `SavedGPUsReturn`, `RestartLeavesNothingUndone`, `RestartKeepsOneHolder` | `PSpec` |
| | `ClientsCallTheServer` | `CSpec` |
| `WorkerProofs` | `WorkerTypeCorrect`, `NoOrphanedTask` | `WSpec` |
| | `ExecutedTasksKeepGPUs`, `OneReportAtATime` | `FreshSpec` |
| `SystemProofs` | `SystemTypeCorrect`, `NothingExecutedTwice`, `ExecutedStaysBooked`, `SystemRunsTheWorker`, `EndsGetThrough`, `ExecutedOnOwnGPUs`, `ReportsAreOwn` | `SSpec` |

**The service.** `IInv` joins `TypeOK`, `PendingExactlyUnassigned`,
`HeldByAssignee`, `IdleIffNothingHeld` and `WorkConserving`. The parts need each
other: `RequestTask` as written would break `HeldByAssignee`, and does so after a
restart, but within one life it never reaches its assigning branch
(`AssignOnRequest`) because `WorkConserving` leaves it no assignable task;
`WorkConserving` survives an iteration of the pass because booking a task makes
no worker suitable that was not (`CandidatesShrink`: the fitting GPUs shrink, and
the policies accept no BUSY worker that they refused as IDLE; `PassConserves` is
the whole step); deleting at the index moves unseen tasks to the index and seen
ones nowhere (`RemoveAtProps`). `PollingAssignsNothing` follows from `IInv` and
the step.

`OInv` adds `GPUsAccounted` and `NoDoubleBooking`. Neither is inductive alone:
`ReportEnd` may free a task's GPUs because no other held task has them, and
`AssignTo` may hand out GPUs marked free because those are in nobody's hands
(`ChosenWereFree`). `IdleWorkerTakesAll` follows from it: a worker that holds
nothing has all its GPUs free and is IDLE (`IdleIffNothingHeld`), so that it is
suitable for a task that fits it, and then `WorkConserving` has none waiting.

`DInv`, of `HandlerProofs`, adds `AssignmentMeetsDemand` to `IInv`, and that ids are
distinct (`IdsDistinct`): a task is given ids, and marking them takes as many GPUs
as it asked for only because an id names one GPU (`ChosenMeets`). This one holds
whatever clients report. `AnonymousNeverRefused` has a hypothesis of its own: that
every worker leaves its id to the scheduler, and that the numbers print apart
(`AutoId` is injective). Then the ids in use are the first ones
(`FirstAutoIds`) and the next one is new. With a worker that chose `worker-2` itself
the theorem would be false; and it is about one life of the server, since the
next one counts from what it has loaded (`Clients_identity.cfg`).

`TInv`, also there, is what remains true of the tables when they were loaded
rather than built by handlers: types, distinct ids, tasks that refer to known
workers, a pass that starts at the first task, and no assigned task in the
queue. It is preserved by every handler in every such state (`RegisterTInv` to
`PassTInv`);
`PersistenceProofs` and `SystemProofs` build on it, since the states they are about
do not satisfy `IInv`.

**The ledger.** `OInv` is what makes each step a step of the ledger: `AssignTo` is a
grant because GPUs marked free are in nobody's hands (`GPUsAccounted`) and the
task comes from a queue that holds it once (`PendingExactlyUnassigned`);
`ReportEnd` is an end because the task has one holder (`HeldByAssignee`);
`RequestTask` is a stutter because of `WorkConserving`.

**The metrics.** Every step of `MSpec` is one of `PSpec` (`MNextIsPNext`), so that
`PInv` holds below. `BInv` says that a measured gauge is at least the queue: a hook
sets it before anything leaves the queue, and nothing joins the queue without a
hook but in `LoadState` (`AssigningShortens`). `CInv` says, as long as clients report
ends of held tasks, that counters and what was `carried` into this life make up
the ended tasks that nobody holds: an end is counted once because only a held
task is released, a task has one holder (`HoldersApart`, which a load with any
policy leaves true, unlike `HeldByAssignee`), and a task that is queued has not
ended (`WaitingIsPending`), so that no assignment takes an end back.

**Persistence.** `PInv` joins `TInv` with statements on the database:
its type, `ReferentialIntegrity`, that a queued task is stored without a worker
(`PendingUnassigned`), that a save in progress has written rows that say what the
tables say (`Saving`), and that after a finished one all rows are there
(`Complete`). `Saving` is what makes the transactions provable one at a time: a
task's row refers to a worker's row because workers are written first, and a
queue row to a task's row for the same reason; the tables stay as they are
meanwhile because `SaveState` keeps the lock over all its transactions. GPU rows are
keyed by GPU id alone, so that `Saving` promises rows for all GPUs only if no two
workers share an id (`IdsApart`), which is the hypothesis that
`UniqueGPUsRestored` has too. `SavedStateReturns` and `SavedGPUsReturn` are then
about one step, `LoadState`, whatever order the rows come in.

`RestartLeavesNothingUndone` and `RestartKeepsOneHolder` carry two promises of one
life over all of them, under the hypothesis that the policy stays (`SamePolicy`;
without it `Persistence_request.cfg` is the counterexample). `LoadState` runs no
pass, so what it loads must be such that none is needed. `RInv` says so of the
rows (`StoredConserving`). It follows while the save goes on (`SavingConserves`):
each row describes a GPU that its worker has (`RowsTrue`), also where it was
written over another worker's, so that a stored worker has at most the fitting
GPUs it had in the table, where nothing was left to assign. Afterwards it is
about the database alone, and survives crashes at any transaction.
`IdleIffNothingHeld` is not part of it: ended tasks are loaded as held.

`ClientsCallTheServer`: what worker processes, submitters and monitors do is within
`PSpec`, for which it is shown that a process that is down holds no lock
(`DownIsFree`). The invariants of `PSpec`, whose proofs use no fairness, are then
invariants of `CSpec`.

**The worker.** For `WSpec`, `WIInv` adds to `WTypeOK` and `ActiveIsExecuted` that a
goroutine that waits for a report has one under way (`ExecutorWaits`), that the
counter stays within its bound where it is incremented after the call
(`IterationCounts`), and that executors fail on a cancelled context only
(`FailsWhenCancelled`). For `FreshSpec`, `FInv` adds that only executors report and
that an executed task is active (`OnlyExecutors`): that is what keeps a status
update from marking its GPUs free.

**Both together.** `SystemProofs` instantiates `WorkerProofs` with every update the
scheduler could ever send (`AnyUpdate`); `SystemRunsTheWorker` is the theorem that
the composed system is a behaviour of that worker, so that its invariant `WIInv`
may be used. `SInv` joins it with `TInv` and with what links the two sides. An
executed task is still booked because the scheduler releases a task only when
told that it is over, and `Me` tells so only when the executor's loop is over:
the scheduler holds no task of `Me` that it knows to be over (`HeldGoesOn`), hence
no snapshot says of a task that it is over, however late it comes
(`StreamGoesOn`), hence the worker's record says so only after the executor wrote
it (`OverIsOver`). Other workers report what they like, but only on tasks they were
answered with, and these are not those of `Me`: `Claims` says that a task that has
been given out is recorded as assigned and queued no more (`GivenOut`), and that
what `Me` was given (`Mine`) is `Elsewhere` neither answered nor booked, although
the record may name another worker. `ReplyBooked` is about the time before the
answer arrives.

`QInv` follows the tasks that no update has canceled, with the stream, failing
calls and the other workers there. `CancelRecorded`: what cleans up after a task,
reports on it other than its executor, or has marked it CANCELED comes from an
update, and `canceled` says so.
`EndingTold`: while an executor waits for its last report, that report says that
the task is over, or the task is `lost`. `EndingHeld`: the scheduler holds the task
until then, since a report of the executor is the only one that could release
it. With these `EndReachesScheduler` is inductive, and `ReportsOnHeld` follows.
`FreshSoFar` says that the invariant `FInv` of `WorkerProofs` holds as long as
`canceled` is empty: until then every update that was received was one of
`FreshSpec` (`FreshStep`), and so `GPUsHeldExclusively` carries over as
`NoSharedGPUUntilCanceled`. That tasks find enough GPUs is not true
(`System_other.cfg`, `System_count.cfg`) and not claimed.

**Lemmas on data.** `ProtocolProofs` has what the others need on marking
(`MarkGPUsProps`), on a selection of the first matching elements of a sequence
(`FirstOfSet`), and on sizes of images (`ImageCount`).
The library's induction theorems cannot be instantiated; where induction over
numbers was needed it is done on a set (`NatSetInduction`, from `LeastNat`).

**Only model-checked.** What is temporal with fairness: `MutexReleased`,
`StartedTaskEnds`, `ExecutedIsReleased`, `StopsUnlessWatched`; and `CTypeOK`. The
violations of sections 3 and 4 are TLC's traces. That `WorkloadPolicy` compares
scores as the Go code does is a reading of the code; the proofs use of it only
that the chosen worker is a candidate and the chosen GPUs are its first fitting
ones.

## 7. Not modelled

* Logging, the HTTP endpoint, the display of `cmd/monitor`, the generated Go files
  and the monitoring stack: output, or no logic of this program.
* Of the worker: the metric frequency (how long an executor sleeps), the
  priorities (sent in a field that the scheduler does not read), progress values
  (reported, and synchronized with the scheduler's, but decided upon nowhere),
  the values of its gauges, and their label, which is taken before registration
  has set the id. SYNC_STATE starts another receiver: any number of receivers is
  in `Worker` already, since updates come in any order.
* Of the stream: reordering between an old and a new connection. Snapshots are
  delivered in order in `System`, and in any order in `Worker`.
* Durations.
* `ReferentialIntegrity` is about the references that loading follows, to workers
  and tasks. The GPU id in a row of a task's GPUs is copied and looked up nowhere.
* NaN scores are covered by `FirstChoices` and by the proofs, but by no run:
  `cmd/worker` refuses to start without a GPU.

## 8. Plan

Done: all modules of section 2, the runs, and the proofs of section 6. What is
left:

* an abstract specification of what a restart promises (the tables of the last
  finished save, or fewer of them), which `SchedulerPersistence` implements;
  `PInv` has the facts its steps need;
* the accounts of GPUs (`GPUsAccounted`, the ledger) after a restart with the same
  policy, for workers that report as owners do: `RInv` has half of what it takes,
  and the ended tasks that a load makes held again have to be dealt with;
* the policies against the sort that the code performs, over small tables.
