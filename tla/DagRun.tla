------------------------------- MODULE DagRun -------------------------------
(***************************************************************************)
(* What one recorded run of a DAG promises to whoever reads the state      *)
(* store: a task runs only on top of successes, one at a time, is withheld *)
(* only for a reason, and the final status of the run sums its tasks up.   *)
(* How tasks are ordered, retried and recorded is not said here.           *)
(***************************************************************************)
CONSTANT Task

VARIABLES
    dependsOn,  \* dependsOn[t]: the tasks t depends on
    policy,     \* on_failure, "skip" or "block"
    outcome,    \* outcome[t]: what the task run of t says
    result      \* what the DAG run says

vars == <<dependsOn, policy, outcome, result>>

Final     == {"succeeded", "failed", "interrupted"}
Settled   == {"succeeded", "failed", "skipped", "blocked"}

\* No set of tasks waits for itself.
Acyclic(g) == \A S \in SUBSET Task : S # {} => \E t \in S : g[t] \cap S = {}

Init ==
    /\ dependsOn \in {g \in [Task -> SUBSET Task] : Acyclic(g)}
    /\ policy \in {"skip", "block"}
    /\ outcome = [t \in Task |-> "pending"]
    /\ result = "running"

Begin(t) ==
    /\ outcome[t] = "pending"
    /\ \A u \in Task : outcome[u] # "running"
    /\ \A d \in dependsOn[t] : outcome[d] = "succeeded"
    /\ outcome' = [outcome EXCEPT ![t] = "running"]
    /\ UNCHANGED result

End(t) ==
    /\ outcome[t] = "running"
    /\ outcome' \in {[outcome EXCEPT ![t] = s] : s \in {"succeeded", "failed"}}
    /\ UNCHANGED result

\* A task is left out for want of a dependency ...
Skip(t) ==
    /\ outcome[t] = "pending" /\ policy = "skip"
    /\ \E d \in dependsOn[t] : outcome[d] \in {"failed", "skipped"}
    /\ outcome' = [outcome EXCEPT ![t] = "skipped"]
    /\ UNCHANGED result

\* ... or because the run is to stop at its first failure.
Block(t) ==
    /\ outcome[t] = "pending" /\ policy = "block"
    /\ \E u \in Task : outcome[u] = "failed"
    /\ outcome' = [outcome EXCEPT ![t] = "blocked"]
    /\ UNCHANGED result

Conclude ==
    /\ \A t \in Task : outcome[t] \in Settled
    /\ result' = IF \A t \in Task : outcome[t] = "succeeded" THEN "succeeded" ELSE "failed"
    /\ UNCHANGED outcome

Interrupt == result' = "interrupted" /\ UNCHANGED outcome

Next ==
    /\ result = "running"
    /\ \/ \E t \in Task : Begin(t) \/ End(t) \/ Skip(t) \/ Block(t)
       \/ Conclude \/ Interrupt
    /\ UNCHANGED <<dependsOn, policy>>

Spec == Init /\ [][Next]_vars
=============================================================================
