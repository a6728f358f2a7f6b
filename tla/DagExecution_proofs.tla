------------------------- MODULE DagExecution_proofs -------------------------
(***************************************************************************)
(* For any DAG, any order of its file and any number of retries: tasks run *)
(* only on successes, what the store says of a run is true, and the run    *)
(* keeps the promise of DagRun.                                            *)
(***************************************************************************)
EXTENDS DagExecution, TLAPS, SequenceTheorems, FiniteSetTheorems, WellFoundedInduction

\* The failed tasks and all that depends on them, the least closed set that
\* holds failed.
Doomed == {t \in Task : \A C \in SUBSET Task : failed \subseteq C /\ Closed(C) => t \in C}

Executing == {"attempt", "work", "settle"}

\* The loop and the rows agree.
LoopOK ==
    /\ \A t \in Task : t \in visited <=> taskRuns[t] \in Ended \cup {"skipped", "blocked"}
    /\ \A t \in Task : taskRuns[t] = "running" => t = task
    /\ pc \in Executing => taskRuns[task] = "running"
    /\ pc \in {"loop", "done"} => taskRuns[task] # "running"
    /\ \A t \in Task : t \in failed <=> taskRuns[t] = "failed"
    /\ blocked <=> policy = "block" /\ failed # {}
    /\ \A t \in visited : dependsOn[t] \subseteq visited

\* What depends on a failure is withheld, and what is skipped depends on one.
DoomedOK ==
    /\ \A t \in visited \cap Doomed : taskRuns[t] \in {"failed", "skipped", "blocked"}
    /\ \A t \in Task : taskRuns[t] = "skipped" => t \in Doomed

\* The status of the run and where the executor is.
ResultOK ==
    /\ pc \in Executing \cup {"loop", "escaped"} => result = "running"
    /\ pc = "done" => result \in Ended
    /\ result \in Ended => visited = Task /\ (result = "succeeded" <=> failed = {})

\* The attempts so far of the task in progress.
AttemptOK ==
    /\ pc \in Executing => \A k \in 1..Len(attempts[task]) : k < Len(attempts[task]) =>
                              attempts[task][k] = "failed"
    /\ pc = "attempt" => /\ Len(attempts[task]) < 1 + Retries[task]
                         /\ Len(attempts[task]) > 0 => Last(task) = "failed"
    /\ pc = "work" => Len(attempts[task]) > 0
    /\ pc = "settle" => /\ Len(attempts[task]) > 0
                        /\ \/ Last(task) = "succeeded"
                           \/ Last(task) = "failed" /\ Len(attempts[task]) = 1 + Retries[task]

IInv ==
    /\ TypeOK /\ LoopOK /\ DoomedOK /\ ResultOK /\ AttemptOK
    /\ DependenciesSucceeded /\ AttemptsExplain /\ WithheldExplained

-----------------------------------------------------------------------------
(* The tasks that depend on a failure *)

LEMMA DoomedClosed ==
  ASSUME TypeOK
  PROVE  failed \subseteq Doomed /\ Doomed \subseteq Task /\ Closed(Doomed)
<1>1. failed \subseteq Doomed /\ Doomed \subseteq Task
  BY DEF TypeOK, Doomed
<1>2. ASSUME NEW t \in Task, NEW d \in dependsOn[t], d \in Doomed PROVE t \in Doomed
  BY <1>2 DEF Doomed, Closed
<1> QED
  BY <1>1, <1>2 DEF Closed

LEMMA DoomedLeast ==
  ASSUME NEW C \in SUBSET Task, failed \subseteq C, Closed(C)
  PROVE  Doomed \subseteq C
  BY DEF Doomed

\* _transitive_dependents() of the failed tasks, as the code has it.
LEMMA DependentsAreDoomed ==
  ASSUME TypeOK
  PROVE  TransitiveDependents(failed) = Doomed \ failed
  BY DEF TypeOK, TransitiveDependents, Doomed

\* A task is doomed only by its own failure or through one of its dependencies.
LEMMA DoomedThroughDependency ==
  ASSUME TypeOK, NEW t \in Doomed, t \notin failed
  PROVE  dependsOn[t] \cap Doomed # {}
<1> SUFFICES ASSUME dependsOn[t] \cap Doomed = {} PROVE FALSE
  OBVIOUS
<1> DEFINE C == Doomed \ {t}
<1>1. C \in SUBSET Task /\ failed \subseteq C
  BY DoomedClosed
<1>2. Closed(C)
  BY DoomedClosed DEF Closed
<1>3. Doomed \subseteq C
  BY <1>1, <1>2, DoomedLeast
<1> QED
  BY <1>3

LEMMA DoomedSame ==
  ASSUME UNCHANGED <<failed, dependsOn>>
  PROVE  Doomed' = Doomed
  BY DEF Doomed, Closed

\* One more failure dooms nothing the loop is done with.
LEMMA DoomedGrows ==
  ASSUME IInv, NEW t \in Task, t \notin visited, failed' = failed \cup {t}, UNCHANGED dependsOn
  PROVE  Doomed \subseteq Doomed' /\ Doomed' \cap visited \subseteq Doomed
<1>0. TypeOK /\ LoopOK
  BY DEF IInv
<1>1. Doomed \subseteq Doomed'
  BY <1>0 DEF Doomed, Closed
<1> DEFINE C == Doomed \cup (Task \ visited)
<1>2. C \in SUBSET Task /\ failed' \subseteq C
  BY <1>0, DoomedClosed
<1>3. \A u \in Task : dependsOn[u] \cap C # {} => u \in C
  BY <1>0, DoomedClosed DEF Closed, LoopOK
<1>4. Doomed' \subseteq C
  BY <1>2, <1>3 DEF Doomed, Closed
<1> QED
  BY <1>1, <1>4

-----------------------------------------------------------------------------
(* The steps of the loop *)

LEMMA ReadyTask ==
  ASSUME IInv, pc = "loop", NEW t \in Task, IsNext(t)
  PROVE  /\ t \notin visited /\ t \notin failed /\ dependsOn[t] \subseteq visited
         /\ taskRuns[t] = "pending" /\ Len(attempts[t]) = 0 /\ attempts[t] = << >>
<1>1. t \notin visited /\ dependsOn[t] \subseteq visited
  BY DEF IsNext
<1>2. taskRuns[t] = "pending" /\ t \notin failed
  BY <1>1 DEF IInv, LoopOK, TypeOK, Ended
<1>3. Len(attempts[t]) = 0
  BY <1>2 DEF IInv, AttemptsExplain
<1>4. attempts[t] = << >>
  BY <1>3, EmptySeq DEF IInv, TypeOK
<1> QED
  BY <1>1, <1>2, <1>3, <1>4

LEMMA SkipStep ==
  ASSUME IInv, NEW t \in Task, Skip(t)
  PROVE  IInv'
<1>0. /\ TypeOK /\ LoopOK /\ DoomedOK /\ pc = "loop" /\ IsNext(t) /\ ~blocked
      /\ taskRuns' = [taskRuns EXCEPT ![t] = "skipped"] /\ visited' = visited \cup {t} /\ task' = t
      /\ UNCHANGED <<dag, attempts, result, pc, failed, blocked>>
  BY DEF IInv, Skip, Withhold
<1>1. /\ t \notin visited /\ t \notin failed /\ dependsOn[t] \subseteq visited
      /\ taskRuns[t] = "pending" /\ Len(attempts[t]) = 0
  BY <1>0, ReadyTask
<1>2. t \in Doomed /\ Doomed' = Doomed
  BY <1>0, DependentsAreDoomed, DoomedSame DEF Skip, dag
<1>3. policy = "skip"
  <2>1. failed # {}
    BY <1>2, DoomedLeast DEF Closed
  <2> QED
    BY <1>0, <2>1 DEF LoopOK, TypeOK
<1>4. PICK d \in dependsOn[t] : d \in Doomed
  BY <1>0, <1>1, <1>2, DoomedThroughDependency
<1>5. taskRuns[d] \in {"failed", "skipped"}
  BY <1>0, <1>1, <1>3, <1>4 DEF DoomedOK, IInv, WithheldExplained, TypeOK
<1>6. TypeOK'
  BY <1>0 DEF TypeOK, dag
<1>7. LoopOK'
  BY <1>0, <1>1 DEF TypeOK, LoopOK, dag, Executing, Ended
<1>8. DoomedOK'
  BY <1>0, <1>1, <1>2 DEF TypeOK, DoomedOK
<1>9. ResultOK' /\ AttemptOK'
  BY <1>0 DEF IInv, ResultOK, AttemptOK, Executing, Last, Ended
<1>10. DependenciesSucceeded'
  BY <1>0, <1>1 DEF IInv, TypeOK, DependenciesSucceeded, dag, Ended
<1>11. AttemptsExplain'
  BY <1>0, <1>1 DEF IInv, TypeOK, AttemptsExplain, Last
<1>12. WithheldExplained'
  BY <1>0, <1>1, <1>3, <1>4, <1>5 DEF IInv, TypeOK, WithheldExplained, dag
<1> QED
  BY <1>6, <1>7, <1>8, <1>9, <1>10, <1>11, <1>12 DEF IInv

LEMMA BlockStep ==
  ASSUME IInv, NEW t \in Task, Block(t)
  PROVE  IInv'
<1>0. /\ TypeOK /\ LoopOK /\ DoomedOK /\ pc = "loop" /\ IsNext(t) /\ blocked
      /\ taskRuns' = [taskRuns EXCEPT ![t] = "blocked"] /\ visited' = visited \cup {t} /\ task' = t
      /\ UNCHANGED <<dag, attempts, result, pc, failed, blocked>>
  BY DEF IInv, Block, Withhold
<1>1. /\ t \notin visited /\ t \notin failed /\ dependsOn[t] \subseteq visited
      /\ taskRuns[t] = "pending" /\ Len(attempts[t]) = 0
  BY <1>0, ReadyTask
<1>2. Doomed' = Doomed
  BY <1>0, DoomedSame DEF dag
<1>3. PICK u \in Task : taskRuns[u] = "failed"
  BY <1>0 DEF LoopOK, TypeOK
<1>6. TypeOK'
  BY <1>0 DEF TypeOK, dag
<1>7. LoopOK'
  BY <1>0, <1>1 DEF TypeOK, LoopOK, dag, Executing, Ended
<1>8. DoomedOK'
  BY <1>0, <1>1, <1>2 DEF TypeOK, DoomedOK
<1>9. ResultOK' /\ AttemptOK'
  BY <1>0 DEF IInv, ResultOK, AttemptOK, Executing, Last, Ended
<1>10. DependenciesSucceeded'
  BY <1>0, <1>1 DEF IInv, TypeOK, DependenciesSucceeded, dag, Ended
<1>11. AttemptsExplain'
  BY <1>0, <1>1 DEF IInv, TypeOK, AttemptsExplain, Last
<1>12. WithheldExplained'
  BY <1>0, <1>1, <1>3 DEF IInv, TypeOK, WithheldExplained, LoopOK, dag
<1> QED
  BY <1>6, <1>7, <1>8, <1>9, <1>10, <1>11, <1>12 DEF IInv

\* A task that starts has every dependency behind it, and none of them withheld.
LEMMA StartedOnSuccess ==
  ASSUME IInv, NEW t \in Task, StartTask(t)
  PROVE  \A d \in dependsOn[t] : taskRuns[d] = "succeeded"
<1>0. /\ TypeOK /\ LoopOK /\ DoomedOK /\ t \notin visited /\ t \notin failed
      /\ dependsOn[t] \subseteq visited /\ ~blocked
  BY ReadyTask DEF IInv, StartTask
<1>1. t \notin Doomed
  BY <1>0, DependentsAreDoomed DEF StartTask
<1>2. dependsOn[t] \cap Doomed = {}
  BY <1>0, <1>1, DoomedClosed DEF Closed
<1> SUFFICES ASSUME NEW d \in dependsOn[t] PROVE taskRuns[d] = "succeeded"
  OBVIOUS
<1>3. d \in Task /\ d \in visited /\ d \notin Doomed
  BY <1>0, <1>2 DEF TypeOK
<1>4. taskRuns[d] \in Ended \cup {"skipped", "blocked"}
  BY <1>0, <1>3 DEF LoopOK
<1>5. taskRuns[d] # "failed" /\ taskRuns[d] # "skipped"
  BY <1>0, <1>3, DoomedClosed DEF LoopOK, DoomedOK
<1>6. taskRuns[d] # "blocked"
  BY <1>0, <1>3 DEF IInv, WithheldExplained, LoopOK
<1> QED
  BY <1>4, <1>5, <1>6 DEF Ended

LEMMA StartTaskStep ==
  ASSUME IInv, NEW t \in Task, StartTask(t)
  PROVE  IInv'
<1>0. /\ TypeOK /\ LoopOK /\ DoomedOK /\ pc = "loop" /\ IsNext(t)
      /\ taskRuns' = [taskRuns EXCEPT ![t] = "running"] /\ task' = t /\ pc' = "attempt"
      /\ UNCHANGED <<dag, attempts, result, visited, failed, blocked>>
  BY DEF IInv, StartTask
<1>1. /\ t \notin visited /\ t \notin failed /\ dependsOn[t] \subseteq visited
      /\ taskRuns[t] = "pending" /\ Len(attempts[t]) = 0
  BY <1>0, ReadyTask
<1>2. Doomed' = Doomed
  BY <1>0, DoomedSame DEF dag
<1>6. TypeOK'
  BY <1>0 DEF TypeOK, dag
<1>7. LoopOK'
  BY <1>0, <1>1 DEF TypeOK, LoopOK, dag, Executing, Ended
<1>8. DoomedOK'
  BY <1>0, <1>1, <1>2 DEF TypeOK, DoomedOK
<1>9. ResultOK'
  BY <1>0 DEF IInv, ResultOK, Executing, Ended
<1>10. AttemptOK'
  BY <1>0, <1>1, ExecutionAssumption DEF AttemptOK, Executing
<1>11. DependenciesSucceeded'
  BY <1>0, <1>1, StartedOnSuccess DEF IInv, TypeOK, DependenciesSucceeded, dag, Ended
<1>12. AttemptsExplain'
  BY <1>0, <1>1 DEF IInv, TypeOK, AttemptsExplain, Last
<1>13. WithheldExplained'
  BY <1>0, <1>1 DEF IInv, TypeOK, WithheldExplained, dag
<1> QED
  BY <1>6, <1>7, <1>8, <1>9, <1>10, <1>11, <1>12, <1>13 DEF IInv

-----------------------------------------------------------------------------
(* The steps of an attempt *)

AttemptStatus == {"running", "succeeded", "failed"}

LEMMA AppendToSeq ==
  ASSUME NEW S, NEW q \in Seq(S), NEW e \in S
  PROVE  /\ Append(q, e) \in Seq(S) /\ Len(Append(q, e)) = Len(q) + 1
         /\ Append(q, e)[Len(q) + 1] = e
         /\ \A k \in 1..Len(q) : Append(q, e)[k] = q[k]
  OBVIOUS

LEMMA ReplaceLast ==
  ASSUME NEW S, NEW q \in Seq(S), NEW e \in S, Len(q) > 0,
         NEW r, r = [q EXCEPT ![Len(q)] = e]
  PROVE  /\ r \in Seq(S) /\ Len(r) = Len(q) /\ r[Len(q)] = e
         /\ \A k \in 1..Len(q) : k < Len(q) => r[k] = q[k]
  OBVIOUS

LEMMA StartAttemptStep ==
  ASSUME IInv, StartAttempt
  PROVE  IInv'
<1> DEFINE q == attempts[task]
<1>0. /\ TypeOK /\ LoopOK /\ DoomedOK /\ pc = "attempt" /\ pc' = "work" /\ task \in Task
      /\ attempts' = [attempts EXCEPT ![task] = Append(@, "running")]
      /\ UNCHANGED <<dag, taskRuns, result, task, visited, failed, blocked>>
  BY DEF IInv, StartAttempt, TypeOK
<1>1. /\ q \in Seq(AttemptStatus) /\ Len(q) \in Nat /\ Len(q) < 1 + Retries[task]
      /\ Len(q) > 0 => q[Len(q)] = "failed"
      /\ \A k \in 1..Len(q) : k < Len(q) => q[k] = "failed"
      /\ Retries[task] \in Nat /\ taskRuns[task] = "running"
  <2>1. q \in Seq(AttemptStatus) /\ Len(q) \in Nat
    BY <1>0 DEF TypeOK, AttemptStatus
  <2>2. /\ Len(q) < 1 + Retries[task] /\ (Len(q) > 0 => q[Len(q)] = "failed")
        /\ \A k \in 1..Len(q) : k < Len(q) => q[k] = "failed"
    BY <1>0 DEF IInv, AttemptOK, Last, Executing
  <2>3. Retries[task] \in Nat /\ taskRuns[task] = "running"
    BY <1>0, ExecutionAssumption DEF LoopOK, Executing
  <2> QED
    BY <2>1, <2>2, <2>3
<1>2. /\ attempts'[task] \in Seq(AttemptStatus) /\ Len(attempts'[task]) = Len(q) + 1
      /\ \A k \in 1..Len(q) : attempts'[task][k] = q[k]
  BY <1>0, <1>1, AppendToSeq DEF TypeOK, AttemptStatus
<1>3. \A k \in 1..Len(q) : q[k] = "failed"
  BY <1>1
<1>4. TypeOK'
  BY <1>0, <1>2 DEF TypeOK, AttemptStatus, dag
<1>5. LoopOK'
  BY <1>0 DEF LoopOK, dag, Executing
<1>6. DoomedOK'
  BY <1>0, DoomedSame DEF DoomedOK, dag
<1>7. ResultOK'
  BY <1>0 DEF IInv, ResultOK, Executing
<1>8. AttemptOK'
  BY <1>0, <1>1, <1>2, <1>3 DEF AttemptOK, Executing
<1>9. AttemptsExplain'
  BY <1>0, <1>1, <1>2, <1>3 DEF IInv, TypeOK, AttemptsExplain, Last
<1>10. DependenciesSucceeded' /\ WithheldExplained'
  BY <1>0 DEF IInv, DependenciesSucceeded, WithheldExplained, dag
<1> QED
  BY <1>4, <1>5, <1>6, <1>7, <1>8, <1>9, <1>10 DEF IInv

LEMMA EndAttemptStep ==
  ASSUME IInv, AttemptSucceeds \/ AttemptFails
  PROVE  IInv'
<1> DEFINE q == attempts[task]
<1>0. /\ TypeOK /\ LoopOK /\ DoomedOK /\ pc = "work" /\ task \in Task
      /\ UNCHANGED <<dag, taskRuns, result, task, visited, failed, blocked>>
  BY DEF IInv, AttemptSucceeds, AttemptFails, TypeOK
<1>1. PICK status \in {"succeeded", "failed"} :
        /\ attempts' = [attempts EXCEPT ![task] = [@ EXCEPT ![Len(q)] = status]]
        /\ \/ status = "succeeded" /\ pc' = "settle"
           \/ status = "failed" /\ Len(q) < 1 + Retries[task] /\ pc' = "attempt"
           \/ status = "failed" /\ ~(Len(q) < 1 + Retries[task]) /\ pc' = "settle"
  BY DEF AttemptSucceeds, AttemptFails, Recorded
<1>2. /\ q \in Seq(AttemptStatus) /\ Len(q) \in Nat /\ Len(q) > 0 /\ Len(q) <= 1 + Retries[task]
      /\ \A k \in 1..Len(q) : k < Len(q) => q[k] = "failed"
      /\ Retries[task] \in Nat /\ taskRuns[task] = "running"
  BY <1>0, ExecutionAssumption
     DEF IInv, TypeOK, AttemptOK, AttemptStatus, AttemptsExplain, Executing, LoopOK
<1>3. /\ attempts'[task] \in Seq(AttemptStatus) /\ Len(attempts'[task]) = Len(q)
      /\ attempts'[task][Len(q)] = status
      /\ \A k \in 1..Len(q) : k < Len(q) => attempts'[task][k] = q[k]
  <2>1. attempts'[task] = [q EXCEPT ![Len(q)] = status] /\ status \in AttemptStatus
    BY <1>0, <1>1 DEF TypeOK, AttemptStatus
  <2> HIDE DEF q
  <2> QED
    BY <1>2, <2>1, ReplaceLast
<1>4. TypeOK'
  BY <1>0, <1>1, <1>3 DEF TypeOK, AttemptStatus, dag
<1>5. LoopOK'
  BY <1>0, <1>1 DEF LoopOK, dag, Executing
<1>6. DoomedOK'
  BY <1>0, DoomedSame DEF DoomedOK, dag
<1>7. ResultOK'
  BY <1>0, <1>1 DEF IInv, ResultOK, Executing
<1>8. AttemptOK'
  BY <1>0, <1>1, <1>2, <1>3 DEF AttemptOK, Executing, Last
<1>9. AttemptsExplain'
  BY <1>0, <1>1, <1>2, <1>3 DEF IInv, TypeOK, AttemptsExplain, Last
<1>10. DependenciesSucceeded' /\ WithheldExplained'
  BY <1>0 DEF IInv, DependenciesSucceeded, WithheldExplained, dag
<1> QED
  BY <1>4, <1>5, <1>6, <1>7, <1>8, <1>9, <1>10 DEF IInv

LEMMA SettleStep ==
  ASSUME IInv, Settle
  PROVE  IInv'
<1>0. /\ TypeOK /\ LoopOK /\ DoomedOK /\ pc = "settle" /\ pc' = "loop" /\ task \in Task
      /\ visited' = visited \cup {task}
      /\ UNCHANGED <<dag, attempts, result, task>>
  BY DEF IInv, Settle, TypeOK
<1>1. /\ taskRuns[task] = "running" /\ task \notin visited /\ task \notin failed
      /\ \A d \in dependsOn[task] : taskRuns[d] = "succeeded"
      /\ dependsOn[task] \subseteq visited
  <2>1. taskRuns[task] = "running"
    BY <1>0 DEF LoopOK, Executing
  <2>2. \A d \in dependsOn[task] : taskRuns[d] = "succeeded"
    BY <1>0, <2>1 DEF IInv, DependenciesSucceeded
  <2> QED
    BY <1>0, <2>1, <2>2 DEF LoopOK, TypeOK, Ended
<1>2. task \notin Doomed
  <2>1. dependsOn[task] \cap Doomed = {}
    BY <1>0, <1>1 DEF DoomedOK
  <2> QED
    BY <1>0, <1>1, <2>1, DoomedThroughDependency
<1>3. /\ Len(attempts[task]) > 0
      /\ \/ Last(task) = "succeeded"
         \/ Last(task) = "failed" /\ Len(attempts[task]) = 1 + Retries[task]
  BY <1>0 DEF IInv, AttemptOK
<1>4. ResultOK' /\ AttemptOK'
  BY <1>0 DEF IInv, ResultOK, AttemptOK, Executing, Ended
<1>5. CASE Last(task) = "succeeded"
  <2>0. /\ taskRuns' = [taskRuns EXCEPT ![task] = "succeeded"]
        /\ UNCHANGED <<failed, blocked>> /\ Doomed' = Doomed
    BY <1>0, <1>5, DoomedSame DEF Settle, TypeOK, dag
  <2>1. TypeOK'
    BY <1>0, <2>0 DEF TypeOK, dag
  <2>2. LoopOK'
    BY <1>0, <1>1, <2>0 DEF TypeOK, LoopOK, dag, Executing, Ended
  <2>3. DoomedOK'
    BY <1>0, <1>1, <1>2, <2>0 DEF TypeOK, DoomedOK
  <2>4. DependenciesSucceeded'
    BY <1>0, <1>1, <2>0 DEF IInv, TypeOK, DependenciesSucceeded, dag, Ended
  <2>5. AttemptsExplain'
    BY <1>0, <1>1, <1>3, <1>5, <2>0 DEF IInv, TypeOK, AttemptsExplain, Last
  <2>6. WithheldExplained'
    BY <1>0, <1>1, <2>0 DEF IInv, TypeOK, WithheldExplained, dag
  <2> QED
    BY <1>4, <2>1, <2>2, <2>3, <2>4, <2>5, <2>6 DEF IInv
<1>6. CASE Last(task) # "succeeded"
  <2>0. /\ taskRuns' = [taskRuns EXCEPT ![task] = "failed"]
        /\ failed' = failed \cup {task} /\ blocked' = (blocked \/ policy = "block")
    BY <1>0, <1>6 DEF Settle, TypeOK
  <2>1. TypeOK'
    BY <1>0, <2>0 DEF TypeOK, dag
  <2>2. LoopOK'
    BY <1>0, <1>1, <2>0 DEF TypeOK, LoopOK, dag, Executing, Ended
  <2>3. Doomed \subseteq Doomed' /\ Doomed' \cap visited \subseteq Doomed
    BY <1>0, <1>1, <2>0, DoomedGrows DEF dag
  <2>4. DoomedOK'
    BY <1>0, <1>1, <2>0, <2>3 DEF TypeOK, DoomedOK
  <2>5. DependenciesSucceeded'
    BY <1>0, <1>1, <2>0 DEF IInv, TypeOK, DependenciesSucceeded, dag, Ended
  <2>6. AttemptsExplain'
    BY <1>0, <1>1, <1>3, <1>6, <2>0 DEF IInv, TypeOK, AttemptsExplain, Last
  <2>7. WithheldExplained'
    BY <1>0, <1>1, <2>0 DEF IInv, TypeOK, WithheldExplained, dag
  <2> QED
    BY <1>4, <2>1, <2>2, <2>4, <2>5, <2>6, <2>7 DEF IInv
<1> QED
  BY <1>5, <1>6

\* The end of the run, and what leaves every task as it is.
LEMMA OtherStep ==
  ASSUME IInv, Finish \/ Escape \/ Die \/ Reconcile \/ UNCHANGED vars
  PROVE  IInv'
<1>0. /\ TypeOK /\ LoopOK /\ DoomedOK /\ ResultOK /\ AttemptOK
      /\ UNCHANGED <<dag, taskRuns, attempts, task, visited, failed, blocked>>
  BY DEF IInv, Finish, Escape, Die, Reconcile, vars
<1>1. TypeOK'
  BY <1>0 DEF Finish, Escape, Die, Reconcile, TypeOK, dag, vars
<1>2. LoopOK'
  BY <1>0 DEF Finish, Escape, Die, Reconcile, LoopOK, dag, vars, Executing
<1>3. DoomedOK'
  BY <1>0, DoomedSame DEF DoomedOK, dag
<1>4. ResultOK'
  BY <1>0 DEF Finish, Escape, Die, Reconcile, ResultOK, vars, Executing, Ended
<1>5. AttemptOK'
  BY <1>0 DEF Finish, Escape, Die, Reconcile, AttemptOK, vars, Executing, Last
<1>6. DependenciesSucceeded' /\ AttemptsExplain' /\ WithheldExplained'
  BY <1>0 DEF IInv, DependenciesSucceeded, AttemptsExplain, WithheldExplained, Last, dag
<1> QED
  BY <1>1, <1>2, <1>3, <1>4, <1>5, <1>6 DEF IInv

-----------------------------------------------------------------------------
(* The theorems *)

LEMMA Initially == Init => IInv
<1> SUFFICES ASSUME Init PROVE IInv
  OBVIOUS
<1>1. TypeOK
  BY EmptySeq DEF Init, TypeOK
<1>2. Len(<< >>) = 0
  BY EmptySeq
<1>3. LoopOK /\ DoomedOK /\ ResultOK /\ AttemptOK
  BY <1>1 DEF Init, LoopOK, DoomedOK, ResultOK, AttemptOK, Ended, Executing
<1>4. DependenciesSucceeded /\ AttemptsExplain /\ WithheldExplained
  BY <1>1, <1>2, ExecutionAssumption
     DEF Init, DependenciesSucceeded, AttemptsExplain, WithheldExplained, Ended
<1> QED
  BY <1>1, <1>3, <1>4 DEF IInv

LEMMA Step == IInv /\ [Next]_vars => IInv'
  BY SkipStep, BlockStep, StartTaskStep, StartAttemptStep, EndAttemptStep, SettleStep, OtherStep
     DEF Next, Run

\* The inductive invariant holds in every reachable state.
THEOREM Invariance == Spec => []IInv
  BY Initially, Step, PTL DEF Spec

\* Every variable of the execution keeps its type.
THEOREM TypeCorrect == Spec => []TypeOK
<1>1. IInv => TypeOK
  BY DEF IInv
<1> QED
  BY <1>1, Invariance, PTL

\* In any acyclic graph and under either policy, a task that has started had
\* every dependency succeed.
THEOREM RunsOnSuccess == Spec => []DependenciesSucceeded
<1>1. IInv => DependenciesSucceeded
  BY DEF IInv
<1> QED
  BY <1>1, Invariance, PTL

\* The attempts recorded for a task account for its status.
THEOREM NoSilentRetries == Spec => []AttemptsExplain
<1>1. IInv => AttemptsExplain
  BY DEF IInv
<1> QED
  BY <1>1, Invariance, PTL

\* A completed run has settled every task, and its status sums them up.
THEOREM Truthful == Spec => []ResultTruthful
<1>1. IInv => ResultTruthful
  <2> SUFFICES ASSUME IInv, result \in Ended
               PROVE  /\ \A t \in Task : taskRuns[t] \in Ended \cup {"skipped", "blocked"}
                      /\ result = "succeeded" <=> \A t \in Task : taskRuns[t] = "succeeded"
    BY DEF ResultTruthful
  <2>1. visited = Task /\ (result = "succeeded" <=> failed = {})
    BY DEF IInv, ResultOK
  <2>2. \A t \in Task : taskRuns[t] \in Ended \cup {"skipped", "blocked"}
    BY <2>1 DEF IInv, LoopOK
  <2>3. ASSUME failed = {} PROVE \A t \in Task : taskRuns[t] = "succeeded"
    <3>1. Doomed = {}
      BY <2>3, DoomedLeast DEF Closed
    <3> QED
      BY <2>2, <2>3, <3>1 DEF IInv, LoopOK, DoomedOK, WithheldExplained, Ended
  <2>4. ASSUME \A t \in Task : taskRuns[t] = "succeeded" PROVE failed = {}
    BY <2>4 DEF IInv, LoopOK, TypeOK
  <2> QED
    BY <2>1, <2>2, <2>3, <2>4
<1> QED
  BY <1>1, Invariance, PTL

\* Every withheld task has its reason in the store.
THEOREM Explained == Spec => []WithheldExplained
<1>1. IInv => WithheldExplained
  BY DEF IInv
<1> QED
  BY <1>1, Invariance, PTL

\* An execution is an execution of DagRun: its steps on the rows of the tasks
\* and of the run are steps DagRun allows, the others change nothing there.
THEOREM Implements == Spec => KeepsPromise
<1> USE DEF Promise!vars, dag, Ended
<1>1. Init => Promise!Init
  BY DEF Init, Promise!Init, Acyclic, Promise!Acyclic
<1>2. ASSUME IInv, [Next]_vars PROVE [Promise!Next]_(Promise!vars)
  <2>0. /\ TypeOK /\ LoopOK /\ DoomedOK /\ ResultOK /\ Step
        /\ \A t \in Task : t \in visited => taskRuns[t] \in Promise!Settled
    BY <1>2, Step DEF IInv, LoopOK, Promise!Settled
  <2>1. ASSUME NEW t \in Task, Skip(t) PROVE Promise!Next
    <3>1. /\ taskRuns[t] = "pending" /\ pc = "loop" /\ IInv' /\ task' = t
          /\ taskRuns' = [taskRuns EXCEPT ![t] = "skipped"] /\ UNCHANGED <<dag, result>>
      BY <1>2, <2>1, ReadyTask, SkipStep DEF Skip, Withhold
    <3>2. taskRuns'[t] = "skipped"
      BY <2>0, <3>1 DEF TypeOK
    <3>3. policy = "skip" /\ \E d \in dependsOn[t] : taskRuns'[d] \in {"failed", "skipped"}
      BY <3>1, <3>2 DEF IInv, WithheldExplained
    <3>4. PICK d \in dependsOn[t] : taskRuns'[d] \in {"failed", "skipped"}
      BY <3>3
    <3>5. d # t
      BY <1>2, <2>1, <2>0, ReadyTask DEF Skip
    <3>6. taskRuns[d] \in {"failed", "skipped"}
      BY <2>0, <3>1, <3>4, <3>5 DEF TypeOK
    <3> QED
      BY <2>0, <3>1, <3>3, <3>6 DEF Promise!Next, Promise!Skip, ResultOK
  <2>2. ASSUME NEW t \in Task, Block(t) PROVE Promise!Next
    <3>1. /\ taskRuns[t] = "pending" /\ pc = "loop" /\ blocked
          /\ taskRuns' = [taskRuns EXCEPT ![t] = "blocked"] /\ UNCHANGED <<dag, result>>
      BY <1>2, <2>2, ReadyTask DEF Block, Withhold
    <3>2. policy = "block" /\ \E u \in Task : taskRuns[u] = "failed"
      BY <2>0, <3>1 DEF LoopOK, TypeOK
    <3> QED
      BY <2>0, <3>1, <3>2 DEF Promise!Next, Promise!Block, ResultOK
  <2>3. ASSUME NEW t \in Task, StartTask(t) PROVE Promise!Next
    <3>1. /\ taskRuns[t] = "pending" /\ pc = "loop"
          /\ taskRuns' = [taskRuns EXCEPT ![t] = "running"] /\ UNCHANGED <<dag, result>>
          /\ \A d \in dependsOn[t] : taskRuns[d] = "succeeded"
      BY <1>2, <2>3, ReadyTask, StartedOnSuccess DEF StartTask
    <3>2. \A u \in Task : taskRuns[u] # "running"
      BY <2>0, <3>1 DEF LoopOK
    <3> QED
      BY <2>0, <3>1, <3>2 DEF Promise!Next, Promise!Begin, ResultOK
  <2>4. ASSUME Settle PROVE Promise!Next
    <3>1. /\ task \in Task /\ taskRuns[task] = "running" /\ result = "running"
          /\ taskRuns' \in {[taskRuns EXCEPT ![task] = s] : s \in {"succeeded", "failed"}}
          /\ UNCHANGED <<dag, result>>
      BY <2>0, <2>4 DEF Settle, LoopOK, ResultOK, Executing, TypeOK
    <3> QED
      BY <3>1 DEF Promise!Next, Promise!End
  <2>5. ASSUME Finish PROVE Promise!Next
    <3>1. IInv' /\ result = "running" /\ result' \in Ended /\ UNCHANGED <<dag, taskRuns>>
      BY <1>2, <2>0, <2>5, OtherStep DEF Finish, ResultOK
    <3>2. \A t \in Task : taskRuns[t] \in Promise!Settled
      BY <2>0, <2>5 DEF Finish
    <3>3. result' = "succeeded" <=> \A t \in Task : taskRuns[t] = "succeeded"
      <4>1. failed = {} <=> \A t \in Task : taskRuns[t] = "succeeded"
        <5>1. ASSUME failed = {} PROVE \A t \in Task : taskRuns[t] = "succeeded"
          <6>1. Doomed = {}
            BY <5>1, DoomedLeast DEF Closed
          <6> QED
            BY <1>2, <3>2, <5>1, <6>1 DEF IInv, LoopOK, DoomedOK, WithheldExplained, Promise!Settled
        <5>2. ASSUME \A t \in Task : taskRuns[t] = "succeeded" PROVE failed = {}
          BY <2>0, <5>2 DEF LoopOK, TypeOK
        <5> QED
          BY <5>1, <5>2
      <4> QED
        BY <2>5, <4>1 DEF Finish
    <3> QED
      BY <3>1, <3>2, <3>3 DEF Promise!Next, Promise!Conclude
  <2>6. ASSUME Reconcile PROVE Promise!Next
    BY <2>6 DEF Reconcile, Promise!Next, Promise!Interrupt
  <2>7. ASSUME StartAttempt \/ AttemptSucceeds \/ AttemptFails \/ Escape \/ Die \/ UNCHANGED vars
        PROVE  UNCHANGED Promise!vars
    BY <2>7 DEF StartAttempt, AttemptSucceeds, AttemptFails, Escape, Die, vars
  <2> QED
    BY <1>2, <2>1, <2>2, <2>3, <2>4, <2>5, <2>6, <2>7 DEF Next, Run
<1> QED
  BY <1>1, <1>2, Invariance, PTL DEF Spec, KeepsPromise, Promise!Spec

\* The row of the run is a row of RunTable: only a process that lives completes
\* it, and only after its death is it interrupted.
THEOREM RowImplements == Spec => RowKeepsPromise
<1> DEFINE S == [i \in {1} |-> result]
           A == [i \in {1} |-> pc # "dead"]
<1>1. Init => Row!Init
  BY DEF Init, Row!Init
<1>2. ASSUME IInv, IInv', [Next]_vars PROVE Row!Next
  <2>1. result' \in {"none", "running", "succeeded", "failed", "interrupted"}
    BY <1>2 DEF IInv, TypeOK
  <2>2. \A i \in {1} : S[i] = result /\ S'[i] = result' /\ A[i] = (pc # "dead") /\ A'[i] = (pc' # "dead")
    OBVIOUS
  <2>3. CASE Finish
    <3>1. /\ pc = "loop" /\ pc' = "done"
          /\ result = "running" /\ result' \in {"succeeded", "failed"}
      BY <1>2, <2>3 DEF Finish, IInv, ResultOK
    <3> QED
      BY <2>1, <2>2, <3>1 DEF Row!Next, Row!Complete
  <2>4. CASE Reconcile
    BY <2>1, <2>2, <2>4 DEF Reconcile, Row!Next, Row!Interrupt
  <2>5. ASSUME ~Finish, ~Reconcile
        PROVE  result' = result /\ (pc' # "dead" => pc # "dead")
    BY <1>2, <2>5 DEF Next, Run, Block, Skip, StartTask, Withhold, StartAttempt,
       AttemptSucceeds, AttemptFails, Settle, Escape, Die, vars
  <2> QED
    BY <2>1, <2>2, <2>3, <2>4, <2>5 DEF Row!Next, Row!Keep
<1> QED
  BY <1>1, <1>2, Step, Invariance, PTL DEF Spec, RowKeepsPromise, Row!Spec
-----------------------------------------------------------------------------
(* The run comes to its end, as far as it can be said without fairness *)

\* The graph stays the acyclic one load_dag() accepted.
GraphOK == Acyclic(dependsOn)

LEMMA GraphStep == GraphOK /\ [Next]_vars => GraphOK'
  BY DEF GraphOK, Acyclic, Next, Run, Block, Skip, StartTask, Withhold, StartAttempt,
         AttemptSucceeds, AttemptFails, Settle, Finish, Escape, Die, Reconcile, vars, dag

\* Of a set of tasks, one comes first in the file.
LEMMA FirstByPosition ==
  ASSUME NEW S \in SUBSET Task, S # {}
  PROVE  \E t \in S : \A u \in S : Position[t] <= Position[u]
<1> DEFINE T == {Position[u] : u \in S}
           R == OpToRel(<, Nat)
<1>1. T \subseteq Nat /\ T # {}
  BY ExecutionAssumption
<1>2. PICK x \in T : \A y \in T : ~(<<y, x>> \in R)
  <2> HIDE DEF T, R
  <2> QED
    BY <1>1, NatLessThanWellFounded, WFMin DEF R
<1>3. \A y \in T : ~(y < x)
  BY <1>1, <1>2 DEF OpToRel
<1>4. PICK t \in S : x = Position[t]
  BY <1>2
<1>5. ASSUME NEW u \in S PROVE Position[t] <= Position[u]
  <2>1. Position[t] \in Nat /\ Position[u] \in Nat /\ ~(Position[u] < Position[t])
    BY <1>3, <1>4, ExecutionAssumption
  <2> QED
    BY <2>1
<1> QED
  BY <1>5

\* _topological_order() never runs dry: while a task is left the loop has a next
\* one, and only one.
AlwaysNext ==
    visited # Task => /\ \E t \in Task : IsNext(t)
                      /\ \A t, u \in Task : IsNext(t) /\ IsNext(u) => t = u

\* While a task is left, exactly one is the next that `ready` yields.
THEOREM NeverStuck == Spec => []AlwaysNext
<1>1. Init => IInv /\ GraphOK
  BY Initially DEF Init, GraphOK
<1>2. IInv /\ GraphOK /\ [Next]_vars => (IInv /\ GraphOK)'
  BY Step, GraphStep
<1>3. IInv /\ GraphOK => AlwaysNext
  <2> SUFFICES ASSUME IInv, GraphOK, visited # Task PROVE AlwaysNext
    BY DEF AlwaysNext
  <2> DEFINE ready == {u \in Task \ visited : dependsOn[u] \subseteq visited}
  <2>1. visited \subseteq Task /\ dependsOn \in [Task -> SUBSET Task]
    BY DEF IInv, TypeOK
  <2>2. PICK t \in Task \ visited : dependsOn[t] \cap (Task \ visited) = {}
    BY <2>1 DEF GraphOK, Acyclic
  <2>3. t \in ready
    BY <2>1, <2>2
  <2>4. PICK first \in ready : \A u \in ready : Position[first] <= Position[u]
    BY <2>3, FirstByPosition
  <2>5. IsNext(first)
    BY <2>4 DEF IsNext
  <2>6. ASSUME NEW v \in Task, NEW w \in Task, IsNext(v), IsNext(w) PROVE v = w
    <3>1. Position[v] <= Position[w] /\ Position[w] <= Position[v]
      BY <2>6 DEF IsNext
    <3> QED
      BY <3>1, ExecutionAssumption
  <2> QED
    BY <2>5, <2>6 DEF AlwaysNext
<1> QED
  BY <1>1, <1>2, <1>3, PTL DEF Spec

\* How far the run is from its end: the tasks not visited, then the loop itself,
\* then the attempts and completions the task in progress may still need.
Unvisited == Cardinality(Task \ visited)

Budget ==
    LET attemptsLeft == 1 + Retries[task] - Len(attempts[task])
    IN  IF pc = "attempt" THEN 2 * attemptsLeft + 1
        ELSE IF pc = "work" THEN 2 * attemptsLeft + 2 ELSE 0

Descends ==
    \/ Unvisited' < Unvisited
    \/ Unvisited' = Unvisited /\ pc = "loop" /\ pc' # "loop"
    \/ Unvisited' = Unvisited /\ pc # "loop" /\ pc' # "loop" /\ Budget' < Budget

LEMMA OneVisitedMore ==
  ASSUME IsFiniteSet(Task), NEW t \in Task, t \notin visited, visited' = visited \cup {t}
  PROVE  Unvisited' < Unvisited
<1>1. Task \ visited' = (Task \ visited) \ {t} /\ t \in Task \ visited
  OBVIOUS
<1>2. IsFiniteSet(Task \ visited) /\ Cardinality(Task \ visited) \in Nat
  BY FS_Difference, FS_CardinalityType
<1>3. Cardinality(Task \ visited') = Cardinality(Task \ visited) - 1
  BY <1>1, <1>2, FS_RemoveElement
<1> QED
  BY <1>2, <1>3 DEF Unvisited

\* Every step of the executor brings the run nearer to its end, and the measures
\* are natural numbers: whatever fails and however often it is retried, the steps
\* of one run are finitely many.
THEOREM EveryStepCounts ==
  ASSUME IsFiniteSet(Task)
  PROVE  Spec => [][/\ Unvisited \in Nat /\ Budget \in Nat
                    /\ Run => Descends]_vars
<1>1. ASSUME IInv, [Next]_vars PROVE Unvisited \in Nat /\ Budget \in Nat /\ (Run => Descends)
  <2>0. /\ TypeOK /\ LoopOK /\ AttemptOK /\ AttemptsExplain /\ task \in Task
        /\ Retries[task] \in Nat /\ Len(attempts[task]) \in Nat
        /\ Len(attempts[task]) <= 1 + Retries[task]
    BY <1>1, ExecutionAssumption DEF IInv, TypeOK, AttemptsExplain
  <2>1. Unvisited \in Nat
    BY FS_Difference, FS_CardinalityType DEF Unvisited
  <2>2. Budget \in Nat
    <3>1. 1 + Retries[task] - Len(attempts[task]) \in Nat
      BY <2>0
    <3>2. \A n \in Nat : 2 * n + 1 \in Nat /\ 2 * n + 2 \in Nat
      OBVIOUS
    <3> QED
      BY <3>1, <3>2 DEF Budget
  <2>3. ASSUME NEW t \in Task, Block(t) \/ Skip(t) PROVE Descends
    <3>1. t \notin visited /\ visited' = visited \cup {t}
      BY <2>3 DEF Block, Skip, Withhold, IsNext
    <3> QED
      BY <3>1, OneVisitedMore DEF Descends
  <2>4. ASSUME NEW t \in Task, StartTask(t) PROVE Descends
    BY <2>4 DEF StartTask, Descends, Unvisited
  <2>5. ASSUME StartAttempt PROVE Descends
    <3>1. pc = "attempt" /\ pc' = "work" /\ task' = task /\ visited' = visited
      BY <2>5 DEF StartAttempt
    <3>2. Len(attempts'[task]) = Len(attempts[task]) + 1
      BY <2>0, <2>5 DEF StartAttempt, TypeOK
    <3>3. Budget' < Budget
      BY <2>0, <3>1, <3>2 DEF Budget
    <3> QED
      BY <3>1, <3>3 DEF Descends, Unvisited
  <2>6. ASSUME AttemptSucceeds \/ AttemptFails PROVE Descends
    <3>1. pc = "work" /\ pc' \in {"attempt", "settle"} /\ task' = task /\ visited' = visited
      BY <2>6 DEF AttemptSucceeds, AttemptFails
    <3>2. Len(attempts'[task]) = Len(attempts[task])
      BY <2>0, <2>6 DEF AttemptSucceeds, AttemptFails, Recorded, TypeOK
    <3>3. Budget' < Budget
      BY <2>0, <3>1, <3>2 DEF Budget
    <3> QED
      BY <3>1, <3>3 DEF Descends, Unvisited
  <2>7. ASSUME Settle PROVE Descends
    <3>1. task \notin visited /\ visited' = visited \cup {task}
      BY <2>0, <2>7 DEF Settle, LoopOK, Executing, Ended
    <3> QED
      BY <2>0, <3>1, OneVisitedMore DEF Descends
  <2>8. ASSUME Finish PROVE Descends
    BY <2>8 DEF Finish, Descends, Unvisited
  <2> QED
    BY <2>1, <2>2, <2>3, <2>4, <2>5, <2>6, <2>7, <2>8 DEF Run
<1> QED
  BY <1>1, Invariance, PTL DEF Spec
==============================================================================
