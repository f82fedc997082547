--------------------------- MODULE WorkloadPolicy ---------------------------
(***************************************************************************)
(* The two workload policies of pkg/scheduler/policy.go.  A policy looks   *)
(* at the table of workers and at one task and answers with a worker and   *)
(* with the GPUs of that worker the task shall use, or with an error when  *)
(* no worker is suitable.                                                  *)
(*                                                                         *)
(* A worker table is a function from worker ids to records                 *)
(*     [gpus : Seq([id, memoryMB, available]), status, tasks : set of ids] *)
(* and a task is the record [requiredGPUs, minGPUMemory] of its demand.    *)
(***************************************************************************)
EXTENDS Protocol, FiniteSetsExt

CONSTANT Word   \* 2^64 in the code: the modulus of its uint64 arithmetic

ASSUME WordAssumption == Word \in Nat \ {0}

Policies == {"simple", "balanced"}

-----------------------------------------------------------------------------
(* Which workers are suitable.                                             *)

\* The positions of the GPUs that are free and large enough for a task.
FittingGPUs(gpus, task) ==
    {i \in DOMAIN gpus : gpus[i].available /\ gpus[i].memoryMB >= task.minGPUMemory}

\* The simple policy skips every worker that is not IDLE, the balanced one
\* only those that are OFFLINE or in ERROR.
Accepts(policy, status) ==
    IF policy = "simple" THEN status = "IDLE" ELSE status \notin {"OFFLINE", "ERROR"}

\* The error answer of AssignTask is Candidates(...) = {}.
Candidates(policy, workers, task) ==
    {w \in DOMAIN workers :
        /\ Accepts(policy, workers[w].status)
        /\ Cardinality(FittingGPUs(workers[w].gpus, task)) >= task.requiredGPUs}

\* Mutant: one GPU too many, availableGPUs[:task.RequiredGPUs+1].
FirstFittingOneMore(gpus, task) ==
    {i \in FittingGPUs(gpus, task) :
        Cardinality({j \in FittingGPUs(gpus, task) : j < i}) <= task.requiredGPUs}

\* availableGPUs[:task.RequiredGPUs]: the first fitting GPUs in list order.
FirstFitting(gpus, task) ==
    {i \in FittingGPUs(gpus, task) :
        Cardinality({j \in FittingGPUs(gpus, task) : j < i}) < task.requiredGPUs}

\* The ids of the GPUs that AssignTask answers with for worker record w.
ChosenGPUs(w, task) == {w.gpus[i].id : i \in FirstFitting(w.gpus, task)}

-----------------------------------------------------------------------------
(* Which suitable worker is preferred: the one with the smallest score.    *)
(* Scores are compared exactly; where the code's floating-point scores     *)
(* round, the difference is far below that of two unequal exact scores.    *)

FreeMemory(gpus) ==
    LET memory(i) == gpus[i].memoryMB
    IN  MapThenSumSet(memory, {i \in DOMAIN gpus : gpus[i].available}) % Word

\* Ten times excessGPUs*0.7 + excessMemory*0.3.
SimpleScore(w, task) ==
    7 * (Cardinality(FittingGPUs(w.gpus, task)) - task.requiredGPUs)
      + 3 * (FreeMemory(w.gpus) - ((task.minGPUMemory * task.requiredGPUs) % Word))

\* loadFactor - availabilityFactor is Backlog / Len(w.gpus).
Backlog(w, task) == Cardinality(w.tasks) - Cardinality(FittingGPUs(w.gpus, task))

\* candidates[i].score < candidates[j].score.
Better(policy, v, w, task) ==
    IF policy = "simple"
    THEN SimpleScore(v, task) < SimpleScore(w, task)
    ELSE Backlog(v, task) * Len(w.gpus) < Backlog(w, task) * Len(v.gpus)

\* 0/0: the balanced score of a worker without GPUs is not a number.
NotANumber(policy, w) == policy = "balanced" /\ w.gpus = <<>>

\* candidates[0] after sort.Slice.  Workers come from a Go map, whose order
\* is arbitrary, and the sort is not stable: any of the best may come first.
\* A NaN score compares false both ways, and then nothing orders the rest.
FirstChoices(policy, workers, task) ==
    LET cs == Candidates(policy, workers, task)
    IN  {w \in cs : \/ \E v \in cs : NotANumber(policy, workers[v])
                    \/ \A v \in cs : ~Better(policy, workers[v], workers[w], task)}
=============================================================================
