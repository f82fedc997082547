------------------------------ MODULE Clients ------------------------------
(***************************************************************************)
(* The server process together with who its clients are: worker processes  *)
(* that register under a generated id and keep it, watchers (workers and   *)
(* cmd/monitor) that hold a MonitorWorker stream open, and cmd/submit.     *)
(*                                                                         *)
(* Nothing is polled or reported here: Worker and System are about that.   *)
(***************************************************************************)
EXTENDS SchedulerPersistence

CONSTANTS
    Procs,      \* worker processes
    Monitors    \* processes of cmd/monitor

ASSUME ClientsAssumption == Procs \cap Monitors = {}

Watchers == Procs \cup Monitors

VARIABLES
    ident,      \* the ID of each worker process, NoWorker before it registers
    watching,   \* the worker id in the stream of each watcher, or NoWorker
    submitted   \* the tasks that cmd/submit has been run for

cvars == <<pvars, ident, watching, submitted>>
clients == <<ident, watching, submitted>>

\* The records of the clients hold ids and tasks.
CTypeOK ==
    /\ ident \in [Procs -> WorkerIds \cup {NoWorker}]
    /\ watching \in [Watchers -> WorkerIds \cup {NoWorker}]
    /\ submitted \subseteq TaskIds

CInit ==
    /\ PInit
    /\ ident = [p \in Procs |-> NoWorker]
    /\ watching = [c \in Watchers |-> NoWorker]
    /\ submitted = {}

\* Until GracefulStop the server takes new calls.
Listening == phase \notin {"down", "draining"}

-----------------------------------------------------------------------------
(* Workers.                                                                *)

\* Mutant: the worker takes its own address for its id.
JoinByAddress(p) ==
    /\ Listening
    /\ ident[p] = NoWorker
    /\ \E gpus \in GPULists : RegisterWorker(NoWorker, gpus)
    /\ ident' = [ident EXCEPT ![p] = p]
    /\ UNCHANGED <<db, phase, boots, history, watching, submitted>>

\* Register of pkg/worker: the id field is empty at first, and the answer's
\* AssignedId goes there.
Join(p) ==
    /\ Listening
    /\ ident[p] = NoWorker
    /\ \E gpus \in GPULists : RegisterWorker(NoWorker, gpus)
    /\ ident' = [ident EXCEPT ![p] = GeneratedId]
    /\ UNCHANGED <<db, phase, boots, history, watching, submitted>>

-----------------------------------------------------------------------------
(* Streams.                                                                *)

\* Mutant: the server takes new streams while it stops.
WatchWhileStopping(c, w) ==
    /\ phase # "down"
    /\ mu = "free"
    /\ watching[c] = NoWorker
    /\ w \in DOMAIN workers
    /\ c \in Procs => ident[c] = w
    /\ watching' = [watching EXCEPT ![c] = w]
    /\ UNCHANGED <<pvars, ident, submitted>>

\* Watcher c opens a stream: a worker for itself (establishStream, again every
\* two minutes), cmd/monitor for any worker the scheduler knows.
Watch(c, w) ==
    /\ Listening
    /\ mu = "free"
    /\ watching[c] = NoWorker
    /\ w \in DOMAIN workers
    /\ c \in Procs => ident[c] = w
    /\ watching' = [watching EXCEPT ![c] = w]
    /\ UNCHANGED <<pvars, ident, submitted>>

\* MonitorWorker returns because the worker is not in the table any more.
StreamEnds(c) ==
    /\ watching[c] # NoWorker
    /\ mu = "free"
    /\ watching[c] \notin DOMAIN workers
    /\ watching' = [watching EXCEPT ![c] = NoWorker]
    /\ UNCHANGED <<pvars, ident, submitted>>

\* A client process ends; the scheduler keeps the worker's record.
Leave(c) ==
    /\ watching[c] # NoWorker \/ (c \in Procs /\ ident[c] # NoWorker)
    /\ watching' = [watching EXCEPT ![c] = NoWorker]
    /\ ident' = [p \in Procs |-> IF p = c THEN NoWorker ELSE ident[p]]
    /\ UNCHANGED <<pvars, submitted>>

-----------------------------------------------------------------------------
(* cmd/submit.                                                             *)

\* It calls RequestTask with the task and without a worker id; no worker has
\* the empty id, and the call is refused.
Submit(t) ==
    /\ Listening
    /\ mu = "free"
    /\ t \notin submitted
    /\ NoWorker \notin DOMAIN workers
    /\ submitted' = submitted \cup {t}
    /\ UNCHANGED <<pvars, ident, watching>>

-----------------------------------------------------------------------------
(* The server.                                                             *)

\* What main() does from Serve to the end of DisablePersistence.
Server ==
    /\ \/ \E policy \in BootPolicies : Boot(policy)
       \/ EnablePersistence
       \/ LoadState \/ LoadFails
       \/ Signal
       \/ SaveBegin
       \/ \E w \in WorkerIds : SaveWorker(w)
       \/ SaveDone \/ SaveFails
       \/ StopManager
       \/ Pass /\ UNCHANGED <<db, phase, boots, history>>
    /\ UNCHANGED clients

\* GracefulStop returns when every handler has: streams included.
GracefulStop ==
    /\ \A c \in Watchers : watching[c] = NoWorker
    /\ Exit
    /\ UNCHANGED clients

\* A crash breaks the streams; workers live on and keep their id.
ServerCrash ==
    /\ Crash
    /\ watching' = [c \in Watchers |-> NoWorker]
    /\ UNCHANGED <<ident, submitted>>

CNext ==
    \/ Server
    \/ GracefulStop
    \/ ServerCrash
    \/ \E p \in Procs : Join(p)
    \/ \E c \in Watchers : StreamEnds(c) \/ Leave(c) \/ \E w \in WorkerIds : Watch(c, w)
    \/ \E t \in TaskIds : Submit(t)

\* Once it was told to stop, main() goes on; passes go on, and MonitorWorker
\* looks for its worker again and again.  Nothing makes clients leave.
CFairness ==
    /\ WF_cvars(Server /\ mu = "assign")
    /\ WF_cvars(Server /\ phase \in {"stopping", "saved"})
    /\ WF_cvars(GracefulStop)
    /\ \A c \in Watchers : WF_cvars(StreamEnds(c))

CSpec == CInit /\ [][CNext]_cvars /\ CFairness

-----------------------------------------------------------------------------
(* Properties.                                                             *)

\* GracefulStop waits for the stream of a worker that the scheduler knows.
HeldByStream == phase = "draining" /\ \E c \in Watchers : watching[c] \in DOMAIN workers

\* After a signal the server stops, or one thing alone keeps it for ever: a
\* stream about a known worker.  The save and the two locks of
\* DisablePersistence are got past, whatever calls are answered meanwhile and
\* whether the database works, no stream is opened any more, and GracefulStop
\* has an end as soon as the last one has closed.
StopsUnlessWatched ==
    phase \in {"stopping", "saved", "draining"} ~> (phase = "down" \/ []HeldByStream)

(* Properties that do not hold.                                            *)

\* After a signal the server stops.
ServerStops == (phase \in {"stopping", "draining"}) ~> (phase = "down")

\* No two worker processes use one id.
UniqueIdentity ==
    \A p, q \in Procs : ident[p] = ident[q] /\ p # q => ident[p] = NoWorker

\* A task that was submitted is known to the scheduler.
SubmittedIsKnown == submitted \subseteq DOMAIN tasks
=============================================================================
