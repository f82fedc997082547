----------------------------- MODULE GPULedger -----------------------------
(***************************************************************************)
(* What the scheduler promises about GPUs, without queue order, policies,  *)
(* flags on GPUs, worker statuses or locks: a ledger of who has which GPU. *)
(* A GPU is granted to one task at a time, to tasks that wait only, and    *)
(* only if it has the memory the task asks for; a grant is fixed until the *)
(* task ends, and a task that has ended is never granted anything again.   *)
(***************************************************************************)
EXTENDS Protocol

CONSTANTS
    WorkerIds, TaskIds, Demand,
    DeviceSets  \* the sets of GPUs that a worker may join with

VARIABLES
    pool,       \* of each worker that has joined, the set of its GPUs
    waiting,    \* tasks that have been submitted and not been granted GPUs
    grants,     \* of each running task, its worker and the ids of its GPUs
    over        \* tasks that have ended

ledger == <<pool, waiting, grants, over>>

Init ==
    /\ pool = <<>>
    /\ waiting = {}
    /\ grants = <<>>
    /\ over = {}

\* A worker joins with GPUs of its own.
Join(w, devices) ==
    /\ w \notin DOMAIN pool
    /\ pool' = [v \in DOMAIN pool \cup {w} |-> IF v = w THEN devices ELSE pool[v]]
    /\ UNCHANGED <<waiting, grants, over>>

Submit(t) ==
    /\ t \notin waiting \cup DOMAIN grants \cup over
    /\ waiting' = waiting \cup {t}
    /\ UNCHANGED <<pool, grants, over>>

\* GPUs of w that are large enough, and that no running task has, go to t.
Grant(t, w, ids) ==
    /\ t \in waiting
    /\ \A id \in ids : \E d \in pool[w] : d.id = id /\ d.memoryMB >= Demand[t].minGPUMemory
    /\ \A u \in DOMAIN grants : grants[u].worker = w => grants[u].gpus \cap ids = {}
    /\ waiting' = waiting \ {t}
    /\ grants' = [u \in DOMAIN grants \cup {t} |->
                    IF u = t THEN [worker |-> w, gpus |-> ids] ELSE grants[u]]
    /\ UNCHANGED <<pool, over>>

\* A running task ends, and its GPUs are free.
End(t) ==
    /\ t \in DOMAIN grants
    /\ grants' = [u \in DOMAIN grants \ {t} |-> grants[u]]
    /\ over' = over \cup {t}
    /\ UNCHANGED <<pool, waiting>>

Next ==
    \/ \E w \in WorkerIds, devices \in DeviceSets : Join(w, devices)
    \/ \E t \in TaskIds : Submit(t)
    \/ \E t \in TaskIds, w \in DOMAIN pool :
          \E ids \in SUBSET {d.id : d \in pool[w]} : Grant(t, w, ids)
    \/ \E t \in TaskIds : End(t)

Spec == Init /\ [][Next]_ledger
=============================================================================
