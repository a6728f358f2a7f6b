---------------------------- MODULE DagExecution ----------------------------
(***************************************************************************)
(* DagExecutor.run() from the DAG run's row to its completion: the loop    *)
(* over the tasks in dependency order, the retries of a task, on_failure,  *)
(* and what is left in the store when the process dies in the middle       *)
(* (dag/executor.py over state/store.py).  Every store call is a step.     *)
(*                                                                         *)
(* Module DagScheduling has this as the one step from "tasks" to "react".  *)
(***************************************************************************)
EXTENDS Naturals, Sequences

CONSTANTS
    Task,       \* the tasks of the DAG
    Position,   \* [Task -> Nat], their order in the file
    Retries     \* [Task -> Nat]

ASSUME ExecutionAssumption ==
    /\ Position \in [Task -> Nat] /\ \A t, u \in Task : Position[t] = Position[u] => t = u
    /\ Retries \in [Task -> Nat]

VARIABLES
    (* the DAG that load_dag() accepted *)
    dependsOn, policy,
    (* the store *)
    taskRuns,   \* taskRuns[t]: task_runs.status
    attempts,   \* attempts[t]: task_attempts.status by attempt_number
    result,     \* dag_runs.status
    (* the process *)
    pc,         \* where run() is, or "escaped" or "dead"
    task,       \* the task of this round of the loop; any, before the first
    visited,    \* the tasks the loop is done with
    failed,     \* failed_tasks
    blocked     \* blocked

dag   == <<dependsOn, policy>>
vars  == <<dag, taskRuns, attempts, result, pc, task, visited, failed, blocked>>

\* load_dag() refuses a cycle (module TaskGraph).
Acyclic(g) == \A S \in SUBSET Task : S # {} => \E t \in S : g[t] \cap S = {}

Init ==
    /\ dependsOn \in {g \in [Task -> SUBSET Task] : Acyclic(g)}
    /\ policy \in {"skip", "block"}
    /\ taskRuns = [t \in Task |-> "pending"]
    /\ attempts = [t \in Task |-> << >>]
    /\ result = "running"
    /\ pc = "loop" /\ task \in Task
    /\ visited = {} /\ failed = {} /\ blocked = FALSE

-----------------------------------------------------------------------------
(* The loop over the tasks *)

\* Mutant: a task is ready when its dependencies have succeeded.
IsNext_NeedsSuccess(t) ==
    /\ t \notin visited /\ \A d \in dependsOn[t] : taskRuns[d] = "succeeded"

\* _topological_order(): the first by position of those whose dependencies are
\* all ordered before.  The tasks ordered before are the ones visited.
IsNext(t) ==
    LET ready == {u \in Task \ visited : dependsOn[u] \subseteq visited}
    IN  t \in ready /\ \A u \in ready : Position[t] <= Position[u]

Closed(C) == \A t \in Task : dependsOn[t] \cap C # {} => t \in C

\* Mutant: only the tasks right behind a failed one.
TransitiveDependents_Direct(S) == {t \in Task \ S : dependsOn[t] \cap S # {}}

\* _transitive_dependents(): all that depends on S, through however many tasks.
TransitiveDependents(S) ==
    {t \in Task \ S : \A C \in SUBSET Task : S \subseteq C /\ Closed(C) => t \in C}

\* The task is left out: skip_task_run(), block_task_run().
Withhold(t, status) ==
    /\ taskRuns' = [taskRuns EXCEPT ![t] = status]
    /\ visited' = visited \cup {t}
    /\ task' = t
    /\ UNCHANGED <<dag, attempts, result, pc, failed, blocked>>

Block(t) == pc = "loop" /\ IsNext(t) /\ blocked /\ Withhold(t, "blocked")

Skip(t) ==
    /\ pc = "loop" /\ IsNext(t)
    /\ ~blocked /\ t \in TransitiveDependents(failed)
    /\ Withhold(t, "skipped")

\* start_task_run()
StartTask(t) ==
    /\ pc = "loop" /\ IsNext(t)
    /\ ~blocked /\ t \notin TransitiveDependents(failed)
    /\ taskRuns' = [taskRuns EXCEPT ![t] = "running"]
    /\ task' = t
    /\ pc' = "attempt"
    /\ UNCHANGED <<dag, attempts, result, visited, failed, blocked>>

-----------------------------------------------------------------------------
(* _run_with_retries() *)

\* Mutant: the row of an attempt is created before its start.
StartAttempt_Pending ==
    /\ pc = "attempt"
    /\ attempts' = [attempts EXCEPT ![task] = Append(@, "pending")]
    /\ pc' = "work"
    /\ UNCHANGED <<dag, taskRuns, result, task, visited, failed, blocked>>

\* start_task_attempt(); a retry has waited for its delay.
StartAttempt ==
    /\ pc = "attempt"
    /\ attempts' = [attempts EXCEPT ![task] = Append(@, "running")]
    /\ pc' = "work"
    /\ UNCHANGED <<dag, taskRuns, result, task, visited, failed, blocked>>

Last(t) == attempts[t][Len(attempts[t])]

\* complete_task_attempt() of the attempt in progress.
Recorded(status) == attempts' = [attempts EXCEPT ![task][Len(attempts[task])] = status]

\* The pipeline or script returned.
AttemptSucceeds ==
    /\ pc = "work"
    /\ Recorded("succeeded")
    /\ pc' = "settle"
    /\ UNCHANGED <<dag, taskRuns, result, task, visited, failed, blocked>>

\* Mutant: `retries` attempts where it is 1 + retries.
AttemptFails_OneShort ==
    /\ pc = "work"
    /\ Recorded("failed")
    /\ pc' = IF Len(attempts[task]) < Retries[task] THEN "attempt" ELSE "settle"
    /\ UNCHANGED <<dag, taskRuns, result, task, visited, failed, blocked>>

\* It raised an Exception: 1 + retries attempts in all.
AttemptFails ==
    /\ pc = "work"
    /\ Recorded("failed")
    /\ pc' = IF Len(attempts[task]) < 1 + Retries[task] THEN "attempt" ELSE "settle"
    /\ UNCHANGED <<dag, taskRuns, result, task, visited, failed, blocked>>

\* Mutant: any failure stops the run, whatever on_failure says.
Settle_AlwaysBlocks ==
    /\ pc = "settle"
    /\ LET success == Last(task) = "succeeded" IN
         /\ taskRuns' = [taskRuns EXCEPT ![task] = IF success THEN "succeeded" ELSE "failed"]
         /\ failed' = IF success THEN failed ELSE failed \cup {task}
         /\ blocked' = (blocked \/ ~success)
    /\ visited' = visited \cup {task}
    /\ pc' = "loop"
    /\ UNCHANGED <<dag, attempts, result, task>>

\* complete_task_run()
Settle ==
    /\ pc = "settle"
    /\ LET success == Last(task) = "succeeded" IN
         /\ taskRuns' = [taskRuns EXCEPT ![task] = IF success THEN "succeeded" ELSE "failed"]
         /\ failed' = IF success THEN failed ELSE failed \cup {task}
         /\ blocked' = (blocked \/ (~success /\ policy = "block"))
    /\ visited' = visited \cup {task}
    /\ pc' = "loop"
    /\ UNCHANGED <<dag, attempts, result, task>>

\* Mutant: the status of the last task is taken for that of the run.
Finish_LastTask ==
    /\ pc = "loop" /\ visited = Task
    /\ result' = IF task \notin failed THEN "succeeded" ELSE "failed"
    /\ pc' = "done"
    /\ UNCHANGED <<dag, taskRuns, attempts, task, visited, failed, blocked>>

\* complete_dag_run()
Finish ==
    /\ pc = "loop" /\ visited = Task
    /\ result' = IF failed = {} THEN "succeeded" ELSE "failed"
    /\ pc' = "done"
    /\ UNCHANGED <<dag, taskRuns, attempts, task, visited, failed, blocked>>

-----------------------------------------------------------------------------
(* What interrupts it *)

\* A BaseException out of the work, or an error of the store itself, leaves
\* run(); the process may live on.
Escape ==
    /\ pc \in {"loop", "attempt", "work", "settle"}
    /\ pc' = "escaped"
    /\ UNCHANGED <<dag, taskRuns, attempts, result, task, visited, failed, blocked>>

Die ==
    /\ pc # "dead"
    /\ pc' = "dead"
    /\ UNCHANGED <<dag, taskRuns, attempts, result, task, visited, failed, blocked>>

\* interrupt_abandoned_dag_runs() of a scheduler started after the death.
Reconcile ==
    /\ pc = "dead" /\ result = "running"
    /\ result' = "interrupted"
    /\ UNCHANGED <<dag, taskRuns, attempts, pc, task, visited, failed, blocked>>

-----------------------------------------------------------------------------
Run ==
    \/ \E t \in Task : Block(t) \/ Skip(t) \/ StartTask(t)
    \/ StartAttempt \/ AttemptSucceeds \/ AttemptFails \/ Settle \/ Finish

Next == Run \/ Escape \/ Die \/ Reconcile

Spec == Init /\ [][Next]_vars

\* The executor runs by itself: a task ends, as an assumption on its work.
FairSpec == Spec /\ WF_vars(Run)

-----------------------------------------------------------------------------
(* Properties *)

Ended == {"succeeded", "failed"}

\* Every variable stays in its range.
TypeOK ==
    /\ dependsOn \in [Task -> SUBSET Task] /\ policy \in {"skip", "block"}
    /\ taskRuns \in [Task -> {"pending", "running", "succeeded", "failed", "skipped", "blocked"}]
    /\ attempts \in [Task -> Seq({"running", "succeeded", "failed"})]
    /\ result \in {"running", "succeeded", "failed", "interrupted"}
    /\ pc \in {"loop", "attempt", "work", "settle", "done", "escaped", "dead"}
    /\ task \in Task
    /\ visited \subseteq Task /\ failed \subseteq Task /\ blocked \in BOOLEAN

\* No task ever starts before everything it depends on has succeeded, however
\* failures and skips reached it.
DependenciesSucceeded ==
    \A t \in Task : taskRuns[t] \in {"running"} \cup Ended =>
        \A d \in dependsOn[t] : taskRuns[d] = "succeeded"

\* The attempts explain the task run: a success ends them, a failure has used
\* up every retry, and an attempt is open only while its task runs.
AttemptsExplain ==
    \A t \in Task :
        LET n == Len(attempts[t]) IN
        /\ n <= 1 + Retries[t]
        /\ \A k \in 1..n : k < n => attempts[t][k] = "failed"
        /\ taskRuns[t] = "succeeded" => n > 0 /\ Last(t) = "succeeded"
        /\ taskRuns[t] = "failed" => n = 1 + Retries[t] /\ Last(t) = "failed"
        /\ taskRuns[t] \in {"pending", "skipped", "blocked"} => n = 0

\* The status of a completed run sums up tasks that have all settled; no task
\* is lost, even one the failure of another withheld.
ResultTruthful ==
    result \in Ended =>
        /\ \A t \in Task : taskRuns[t] \in Ended \cup {"skipped", "blocked"}
        /\ result = "succeeded" <=> \A t \in Task : taskRuns[t] = "succeeded"

\* A task is withheld for a reason a reader of the store can find: a failed or
\* skipped dependency, or the policy and an earlier failure.
WithheldExplained ==
    \A t \in Task :
        /\ taskRuns[t] = "skipped" =>
             /\ policy = "skip"
             /\ \E d \in dependsOn[t] : taskRuns[d] \in {"failed", "skipped"}
        /\ taskRuns[t] = "blocked" => policy = "block" /\ \E u \in Task : taskRuns[u] = "failed"

\* The execution keeps the promise of DagRun.
Promise == INSTANCE DagRun WITH outcome <- taskRuns
KeepsPromise == Promise!Spec

\* The row of the run keeps the promise of RunTable: the execution is one of the
\* writers of dag_runs.
Row == INSTANCE RunTable WITH
    Id <- {1}, status <- [i \in {1} |-> result], alive <- [i \in {1} |-> pc # "dead"]
RowKeepsPromise == Row!Spec

\* A run comes to its end, unless an exception or the death of its process
\* takes it from the executor.
Terminates == <>(result # "running" \/ pc \in {"escaped", "dead"})

=============================================================================
