-------------------------- MODULE RunMonitor_proofs --------------------------
(***************************************************************************)
(* Whatever the DAG and however the pages are used: what they show of a    *)
(* run is coherent, and never goes back.                                   *)
(***************************************************************************)
EXTENDS RunMonitor, DagExecution_proofs

Started == {"running"} \cup Ended

Results  == {"running", "succeeded", "failed", "interrupted"}
Statuses == {"pending", "running", "succeeded", "failed", "skipped", "blocked"}

Answers == [run : Results \cup {Unread},
            attempts : [Task -> Seq({"running", "succeeded", "failed"})] \cup {Unread},
            tasks : [Task -> Statuses] \cup {Unread}]

Loads == [step : Nat, aborted : BOOLEAN, answer : Answers]

\* One load at most, and none of a page that is not open.
PageOK ==
    /\ screen \in {"none", "graph", "run"} /\ hidden \in BOOLEAN /\ timer \in BOOLEAN
    /\ loads = << >> \/ \E load \in Loads : loads = <<load>>
    /\ screen = "none" => loads = << >> /\ shown = Unread
    /\ timer => screen = "graph"

\* What each query saw still holds, or was on the way to what holds.
RunSeen(a) == a.run # "running" => result = a.run

AttemptsSeen(a) ==
    /\ a.run \in Ended => a.attempts = attempts
    /\ \A t \in Task : a.attempts[t] # << >> => taskRuns[t] \in Started

TasksSeen(a) ==
    /\ a.run \in Ended => a.tasks = taskRuns
    /\ \A t \in Task : TaskFollows(taskRuns[t], a.tasks[t])

AttemptsUnder(a) == \A t \in Task : a.attempts[t] # << >> => a.tasks[t] \in Started

RunAfter(a)   == shown # Unread /\ shown.run # "running" => a.run = shown.run
TasksAfter(a) == shown # Unread => \A t \in Task : TaskFollows(a.tasks[t], shown.tasks[t])

\* An answer in the making, by the queries done.
LoadOK(load) ==
    /\ load.step <= Len(Queries)
    /\ load.step >= 1 => RunSeen(load.answer) /\ RunAfter(load.answer)
    /\ screen = "graph" => load.answer.attempts = Unread
    /\ screen = "run" /\ load.step >= 2 => AttemptsSeen(load.answer)
    /\ Answered(load) => /\ TasksSeen(load.answer) /\ TasksAfter(load.answer)
                         /\ screen = "run" => AttemptsUnder(load.answer)

\* What is shown.
ShownOK ==
    shown # Unread =>
        /\ RunSeen(shown) /\ TasksSeen(shown)
        /\ shown.attempts # Unread => AttemptsSeen(shown) /\ AttemptsUnder(shown)

MInv ==
    /\ IInv /\ PageOK /\ ShownOK
    /\ loads # << >> => LoadOK(loads[1])

-----------------------------------------------------------------------------
(* Sequences of one *)

LEMMA One ==
  ASSUME NEW x, NEW y
  PROVE  /\ DOMAIN <<x>> = {1} /\ <<x>>[1] = x /\ <<x>> # << >> /\ Len(<<x>>) = 1
         /\ [<<x>> EXCEPT ![1] = y] = <<y>>
         /\ SubSeq(<<x>>, 1, 0) \o SubSeq(<<x>>, 2, 1) = << >>
<1>1. DOMAIN <<x>> = {1} /\ <<x>>[1] = x /\ <<x>> # << >> /\ Len(<<x>>) = 1
  OBVIOUS
<1>2. [<<x>> EXCEPT ![1] = y] = <<y>>
  OBVIOUS
<1>3. SubSeq(<<x>>, 1, 0) = << >> /\ SubSeq(<<x>>, 2, 1) = << >>
  OBVIOUS
<1>4. << >> \o << >> = << >>
  OBVIOUS
<1> QED
  BY <1>1, <1>2, <1>3, <1>4

\* The load in flight is the first.
LEMMA TheLoad ==
  ASSUME PageOK, NEW i \in DOMAIN loads
  PROVE  i = 1 /\ loads[1] \in Loads /\ loads = <<loads[1]>> /\ loads # << >> /\ Without(1) = << >>
         /\ screen \in {"graph", "run"}
<1>1. loads # << >>
  OBVIOUS
<1>2. PICK load \in Loads : loads = <<load>>
  BY <1>1 DEF PageOK
<1>3. DOMAIN loads = {1} /\ loads[1] = load /\ Len(loads) = 1
  BY <1>2, One
<1>4. Without(1) = << >>
  <2>1. 1 - 1 = 0 /\ 1 + 1 = 2
    OBVIOUS
  <2> QED
    BY <1>2, <1>3, <2>1, One DEF Without
<1> QED
  BY <1>1, <1>2, <1>3, <1>4 DEF PageOK

LEMMA QueriesAre ==
  /\ screen = "graph" => Len(Queries) = 2 /\ Queries[1] = "run" /\ Queries[2] = "tasks"
  /\ screen # "graph" => Len(Queries) = 3 /\ Queries[1] = "run" /\ Queries[2] = "attempts"
                                          /\ Queries[3] = "tasks"
  BY DEF Queries

\* A query tells how many were made before it.
LEMMA QueryTells ==
  ASSUME NEW n \in Nat, n <= Len(Queries), n # Len(Queries), NEW q, Queries[n + 1] = q
  PROVE  /\ q = "run" => n = 0
         /\ q = "attempts" => screen # "graph" /\ n = 1
         /\ q = "tasks" => n + 1 = Len(Queries) /\ n >= 1 /\ (screen # "graph" => n = 2)
<1>1. CASE screen = "graph"
  <2>1. Len(Queries) = 2 /\ Queries[1] = "run" /\ Queries[2] = "tasks"
    BY <1>1, QueriesAre
  <2>2. n = 0 \/ n = 1
    BY <2>1
  <2> QED
    BY <1>1, <2>1, <2>2
<1>2. CASE screen # "graph"
  <2>1. /\ Len(Queries) = 3 /\ Queries[1] = "run" /\ Queries[2] = "attempts"
        /\ Queries[3] = "tasks"
    BY <1>2, QueriesAre
  <2>2. n = 0 \/ n = 1 \/ n = 2
    BY <2>1
  <2> QED
    BY <1>2, <2>1, <2>2
<1> QED
  BY <1>1, <1>2

LEMMA DueTells ==
  ASSUME NEW q, Due(1, q), loads[1].step \in Nat, loads[1].step <= Len(Queries)
  PROVE  /\ q = "run" => loads[1].step = 0
         /\ q = "attempts" => screen # "graph" /\ loads[1].step = 1
         /\ q = "tasks" => loads[1].step + 1 = Len(Queries) /\ loads[1].step >= 1
                           /\ (screen # "graph" => loads[1].step = 2)
<1>1. loads[1].step # Len(Queries) /\ Queries[loads[1].step + 1] = q
  BY DEF Due, Answered
<1> QED
  BY <1>1, QueryTells

-----------------------------------------------------------------------------
(* The execution goes on *)

LEMMA Onwards ==
  ASSUME IInv, [Next]_vars
  PROVE  /\ result # "running" => result' = result
         /\ result \in Ended => taskRuns' = taskRuns /\ attempts' = attempts
         /\ \A t \in Task : TaskFollows(taskRuns'[t], taskRuns[t])
         /\ \A t \in Task : taskRuns[t] \in Started => taskRuns'[t] \in Started
<1>0. TypeOK /\ LoopOK /\ ResultOK /\ task \in Task /\ taskRuns \in [Task -> {"pending", "running",
         "succeeded", "failed", "skipped", "blocked"}]
  BY DEF IInv, TypeOK
<1>1. ASSUME NEW t \in Task, Block(t) \/ Skip(t) \/ StartTask(t)
      PROVE  /\ pc = "loop" /\ taskRuns[t] = "pending" /\ result = "running" /\ result' = result
             /\ taskRuns' = [taskRuns EXCEPT ![t] = taskRuns'[t]]
             /\ taskRuns'[t] \in {"blocked", "skipped", "running"}
  <2>1. pc = "loop" /\ IsNext(t)
    BY <1>1 DEF Block, Skip, StartTask
  <2>2. taskRuns[t] = "pending"
    BY <2>1, ReadyTask
  <2> QED
    BY <1>0, <1>1, <2>1, <2>2 DEF Block, Skip, StartTask, Withhold, ResultOK
<1>2. ASSUME NEW t \in Task, Block(t) \/ Skip(t) \/ StartTask(t)
      PROVE  /\ \A u \in Task : TaskFollows(taskRuns'[u], taskRuns[u])
             /\ \A u \in Task : taskRuns[u] \in Started => taskRuns'[u] \in Started
             /\ result = "running"
  BY <1>0, <1>1, <1>2 DEF TaskFollows, Started, Ended
<1>3. CASE StartAttempt \/ AttemptSucceeds \/ AttemptFails
  <2>1. result = "running" /\ result' = result /\ taskRuns' = taskRuns
    BY <1>0, <1>3 DEF StartAttempt, AttemptSucceeds, AttemptFails, ResultOK, Executing
  <2> QED
    BY <1>0, <2>1 DEF TaskFollows, Ended
<1>4. CASE Settle
  <2>1. /\ result = "running" /\ result' = result /\ taskRuns[task] = "running"
        /\ \E s \in {"succeeded", "failed"} : taskRuns' = [taskRuns EXCEPT ![task] = s]
    BY <1>0, <1>4 DEF Settle, ResultOK, LoopOK, Executing
  <2> QED
    BY <1>0, <2>1 DEF TaskFollows, Started, Ended
<1>5. CASE Finish \/ Escape \/ Die \/ Reconcile \/ UNCHANGED vars
  <2>1. taskRuns' = taskRuns /\ attempts' = attempts
    BY <1>5 DEF Finish, Escape, Die, Reconcile, vars
  <2>2. result # "running" => result' = result
    BY <1>0, <1>5 DEF Finish, Escape, Die, Reconcile, vars, ResultOK
  <2> QED
    BY <1>0, <2>1, <2>2 DEF TaskFollows
<1>6. [Next]_vars => \/ \E t \in Task : Block(t) \/ Skip(t) \/ StartTask(t)
                     \/ StartAttempt \/ AttemptSucceeds \/ AttemptFails \/ Settle
                     \/ Finish \/ Escape \/ Die \/ Reconcile \/ UNCHANGED vars
  BY DEF Next, Run
<1>7. CASE \E t \in Task : Block(t) \/ Skip(t) \/ StartTask(t)
  BY <1>1, <1>2, <1>7 DEF Ended
<1> QED
  BY <1>3, <1>4, <1>5, <1>6, <1>7

LEMMA TaskFollowsOn ==
  ASSUME NEW x, NEW y, NEW z, TaskFollows(y, x), TaskFollows(z, y)
  PROVE  TaskFollows(z, x)
  BY DEF TaskFollows

\* What was seen before a step of the execution was seen before the state after.
LEMMA StillSeen ==
  ASSUME IInv, [Next]_vars, NEW a
  PROVE  /\ RunSeen(a) => RunSeen(a)'
         /\ RunSeen(a) /\ AttemptsSeen(a) => AttemptsSeen(a)'
         /\ RunSeen(a) /\ TasksSeen(a) => TasksSeen(a)'
<1>1. RunSeen(a) => RunSeen(a)'
  BY Onwards DEF RunSeen
<1>2. RunSeen(a) /\ a.run \in Ended => taskRuns' = taskRuns /\ attempts' = attempts
  BY Onwards DEF RunSeen, Ended
<1>3. RunSeen(a) /\ AttemptsSeen(a) => AttemptsSeen(a)'
  BY <1>2, Onwards DEF AttemptsSeen
<1>4. RunSeen(a) /\ TasksSeen(a) => TasksSeen(a)'
  BY <1>2, Onwards, TaskFollowsOn DEF TasksSeen
<1> QED
  BY <1>1, <1>3, <1>4

\* A step of the execution, or none, with the pages as they are.
LEMMA ExecutionStep ==
  ASSUME MInv, [Next]_vars, UNCHANGED page
  PROVE  MInv'
<1>0. /\ IInv /\ PageOK /\ ShownOK
      /\ UNCHANGED <<screen, hidden, timer, loads, shown>>
  BY DEF MInv, page
<1>1. IInv'
  BY <1>0, Step
<1>2. PageOK'
  BY <1>0 DEF PageOK
<1>3. ShownOK'
  <2> SUFFICES ASSUME shown # Unread
               PROVE  /\ RunSeen(shown)' /\ TasksSeen(shown)'
                      /\ shown.attempts # Unread => AttemptsSeen(shown)' /\ AttemptsUnder(shown)'
    BY <1>0 DEF ShownOK
  <2>1. RunSeen(shown)' /\ TasksSeen(shown)' /\ (AttemptsSeen(shown) => AttemptsSeen(shown)')
    BY <1>0, Onwards, TaskFollowsOn DEF ShownOK, RunSeen, TasksSeen, AttemptsSeen, Ended
  <2>2. AttemptsUnder(shown) => AttemptsUnder(shown)'
    BY <1>0 DEF AttemptsUnder
  <2> QED
    BY <1>0, <2>1, <2>2 DEF ShownOK
<1>4. ASSUME loads # << >> PROVE LoadOK(loads[1])'
  <2>0. LoadOK(loads[1]) /\ loads[1] \in Loads
    BY <1>0, <1>4, One DEF MInv, PageOK
  <2> DEFINE a == loads[1].answer
             n == loads[1].step
  <2>1. a' = a /\ n' = n /\ loads'[1] = loads[1] /\ Queries' = Queries /\ screen' = screen
    BY <1>0 DEF Queries
  <2>2. n \in Nat /\ Len(Queries) \in Nat /\ Len(Queries) >= 2
    BY <2>0, QueriesAre DEF Loads
  <2>3. n >= 1 => RunSeen(a)' /\ RunAfter(a)'
    BY <1>0, <2>0, <2>1, Onwards DEF LoadOK, RunSeen, RunAfter
  <2>4. screen = "run" /\ n >= 2 => AttemptsSeen(a)'
    BY <1>0, <2>0, <2>1, <2>2, Onwards DEF LoadOK, RunSeen, AttemptsSeen, Ended
  <2>5. n = Len(Queries) => TasksSeen(a)'
    BY <1>0, <2>0, <2>1, <2>2, Onwards, TaskFollowsOn
       DEF LoadOK, Answered, RunSeen, TasksSeen, Ended
  <2>6. n = Len(Queries) => TasksAfter(a)' /\ (screen = "run" => AttemptsUnder(a)')
    BY <1>0, <2>0, <2>1 DEF LoadOK, Answered, TasksAfter, AttemptsUnder
  <2>7. n <= Len(Queries) /\ (screen = "graph" => a.attempts = Unread)
    BY <2>0 DEF LoadOK
  <2> QED
    BY <2>1, <2>3, <2>4, <2>5, <2>6, <2>7 DEF LoadOK, Answered
<1>5. (loads # << >> => LoadOK(loads[1]))'
  BY <1>0, <1>4
<1> QED
  BY <1>1, <1>2, <1>3, <1>5 DEF MInv

-----------------------------------------------------------------------------
(* The queries *)

\* IInv and what is shown, when a step of the page leaves both.
LEMMA StoreUntouched ==
  ASSUME MInv, UNCHANGED vars, UNCHANGED shown
  PROVE  IInv' /\ ShownOK'
<1>1. IInv'
  BY Step DEF MInv
<1>2. ShownOK'
  BY DEF MInv, ShownOK, RunSeen, TasksSeen, AttemptsSeen, AttemptsUnder, vars
<1> QED
  BY <1>1, <1>2

\* One more query done.
LEMMA OneMore ==
  ASSUME NEW load \in Loads, NEW a \in Answers
  PROVE  LET l == Request(load.step + 1, FALSE, a)
         IN  l \in Loads /\ l.step = load.step + 1 /\ l.answer = a
<1>1. load.step \in Nat
  BY DEF Loads
<1>2. load.step + 1 \in Nat
  BY <1>1
<1> QED
  BY <1>2 DEF Request, Loads

\* The load in flight after a query, and that there is still one.
LEMMA AfterQuery ==
  ASSUME PageOK, NEW i \in DOMAIN loads, NEW q, NEW a \in Answers, Read(i, q, a)
  PROVE  /\ i = 1 /\ loads[1] \in Loads /\ Due(1, q) /\ screen \in {"graph", "run"}
         /\ loads' = <<Request(loads[1].step + 1, FALSE, a)>>
         /\ loads'[1].step = loads[1].step + 1 /\ loads'[1].answer = a
         /\ PageOK' /\ UNCHANGED <<screen, shown>> /\ Queries' = Queries
<1>1. i = 1 /\ loads[1] \in Loads /\ loads = <<loads[1]>> /\ screen \in {"graph", "run"}
  BY TheLoad
<1> DEFINE l == Request(loads[1].step + 1, FALSE, a)
<1>2. loads' = <<l>>
  <2>1. loads' = [loads EXCEPT ![1] = l]
    BY <1>1 DEF Read
  <2>2. [<<loads[1]>> EXCEPT ![1] = l] = <<l>>
    BY One
  <2> QED
    BY <1>1, <2>1, <2>2
<1>3. l \in Loads /\ l.step = loads[1].step + 1 /\ l.answer = a
  BY <1>1, OneMore
<1>4. PageOK'
  BY <1>1, <1>2, <1>3 DEF PageOK, Read
<1>5. Queries' = Queries
  BY DEF Queries, Read
<1>6. loads'[1] = l
  BY <1>2, One
<1> QED
  BY <1>1, <1>2, <1>3, <1>4, <1>5, <1>6 DEF Read

LEMMA ReadRunStep ==
  ASSUME MInv, NEW i \in DOMAIN loads, ReadRun(i), UNCHANGED vars
  PROVE  MInv'
<1>0. PageOK /\ IInv /\ i = 1 /\ loads[1] \in Loads /\ LoadOK(loads[1])
  BY TheLoad DEF MInv
<1> DEFINE a == [loads[1].answer EXCEPT !.run = result]
<1>1. /\ a \in Answers /\ a.run = result
      /\ a.attempts = loads[1].answer.attempts
  BY <1>0 DEF Loads, Answers, Results, Statuses, IInv, TypeOK
<1>2. /\ Due(1, "run") /\ loads'[1].step = loads[1].step + 1 /\ loads'[1].answer = a
      /\ PageOK' /\ UNCHANGED <<screen, shown>> /\ Queries' = Queries
      /\ screen \in {"graph", "run"} /\ Read(1, "run", a)
  BY <1>0, <1>1, AfterQuery DEF ReadRun
<1>3. loads[1].step = 0 /\ loads'[1].step = 1 /\ Len(Queries) >= 2
  BY <1>0, <1>2, DueTells, QueriesAre DEF Loads, LoadOK
<1>4. RunSeen(a) /\ RunAfter(a)
  BY <1>1 DEF RunSeen, RunAfter, MInv, ShownOK
<1>5. LoadOK(loads[1])'
  <2>1. ~Answered(loads[1])' /\ Len(Queries') >= 2 /\ Len(Queries') \in Nat
    BY <1>2, <1>3, QueriesAre DEF Answered
  <2>2. RunSeen(loads[1].answer)' /\ RunAfter(loads[1].answer)'
    BY <1>2, <1>4 DEF RunSeen, RunAfter, vars
  <2> QED
    BY <1>0, <1>1, <1>2, <1>3, <2>1, <2>2 DEF LoadOK
<1>6. IInv' /\ ShownOK'
  BY <1>2, StoreUntouched
<1> QED
  BY <1>2, <1>5, <1>6 DEF MInv

LEMMA ReadAttemptsStep ==
  ASSUME MInv, NEW i \in DOMAIN loads, ReadAttempts(i), UNCHANGED vars
  PROVE  MInv'
<1>0. PageOK /\ IInv /\ i = 1 /\ loads[1] \in Loads /\ LoadOK(loads[1])
  BY TheLoad DEF MInv
<1> DEFINE a == [loads[1].answer EXCEPT !.attempts = attempts]
<1>1. a \in Answers /\ a.attempts = attempts /\ a.run = loads[1].answer.run
  BY <1>0 DEF Loads, Answers, Results, Statuses, IInv, TypeOK
<1>2. /\ Due(1, "attempts") /\ loads'[1].step = loads[1].step + 1 /\ loads'[1].answer = a
      /\ PageOK' /\ UNCHANGED <<screen, shown>> /\ Queries' = Queries
      /\ screen \in {"graph", "run"}
  BY <1>0, <1>1, AfterQuery DEF ReadAttempts
<1>3. screen = "run" /\ loads[1].step = 1 /\ loads'[1].step = 2 /\ Len(Queries) = 3
  BY <1>0, <1>2, DueTells, QueriesAre DEF Loads, LoadOK
<1>4. RunSeen(a) /\ RunAfter(a)
  BY <1>0, <1>1, <1>3 DEF LoadOK, RunSeen, RunAfter
<1>5. ASSUME NEW t \in Task, attempts[t] # << >> PROVE taskRuns[t] \in Started
  <2>1. Len(attempts[t]) # 0
    BY <1>0, <1>5, EmptySeq DEF IInv, TypeOK
  <2> QED
    BY <1>0, <2>1 DEF IInv, TypeOK, AttemptsExplain, Started, Ended
<1>6. AttemptsSeen(a)
  BY <1>1, <1>5 DEF AttemptsSeen
<1>7. LoadOK(loads[1])'
  <2>1. ~Answered(loads[1])' /\ Len(Queries') = 3
    BY <1>2, <1>3 DEF Answered
  <2>2. RunSeen(loads[1].answer)' /\ RunAfter(loads[1].answer)' /\ AttemptsSeen(loads[1].answer)'
    BY <1>2, <1>4, <1>6 DEF RunSeen, RunAfter, AttemptsSeen, vars
  <2> QED
    BY <1>2, <1>3, <2>1, <2>2 DEF LoadOK
<1>8. IInv' /\ ShownOK'
  BY <1>2, StoreUntouched
<1> QED
  BY <1>2, <1>7, <1>8 DEF MInv

LEMMA ReadTasksStep ==
  ASSUME MInv, NEW i \in DOMAIN loads, ReadTasks(i), UNCHANGED vars
  PROVE  MInv'
<1>0. PageOK /\ IInv /\ i = 1 /\ loads[1] \in Loads /\ LoadOK(loads[1])
  BY TheLoad DEF MInv
<1> DEFINE a == [loads[1].answer EXCEPT !.tasks = taskRuns]
<1>1. /\ a \in Answers /\ a.tasks = taskRuns /\ a.run = loads[1].answer.run
      /\ a.attempts = loads[1].answer.attempts
  BY <1>0 DEF Loads, Answers, Results, Statuses, IInv, TypeOK
<1>2. /\ Due(1, "tasks") /\ loads'[1].step = loads[1].step + 1 /\ loads'[1].answer = a
      /\ PageOK' /\ UNCHANGED <<screen, shown>> /\ Queries' = Queries
      /\ screen \in {"graph", "run"}
  BY <1>0, <1>1, AfterQuery DEF ReadTasks
<1>3. /\ loads[1].step >= 1 /\ loads'[1].step = Len(Queries) /\ loads[1].step \in Nat
      /\ screen = "run" => loads[1].step = 2
  BY <1>0, <1>2, DueTells, QueriesAre DEF Loads, LoadOK
<1>4. RunSeen(a) /\ RunAfter(a)
  BY <1>0, <1>1, <1>3 DEF LoadOK, RunSeen, RunAfter
<1>5. TasksSeen(a) /\ TasksAfter(a)
  BY <1>1 DEF TasksSeen, TasksAfter, TaskFollows, MInv, ShownOK
<1>6. screen = "run" => AttemptsSeen(a) /\ AttemptsUnder(a)
  BY <1>0, <1>1, <1>3 DEF LoadOK, AttemptsSeen, AttemptsUnder
<1>7. LoadOK(loads[1])'
  <2>1. /\ RunSeen(loads[1].answer)' /\ RunAfter(loads[1].answer)'
        /\ TasksSeen(loads[1].answer)' /\ TasksAfter(loads[1].answer)'
    BY <1>2, <1>4, <1>5 DEF RunSeen, RunAfter, TasksSeen, TasksAfter, vars
  <2>2. screen = "run" => AttemptsSeen(loads[1].answer)' /\ AttemptsUnder(loads[1].answer)'
    BY <1>2, <1>6 DEF AttemptsSeen, AttemptsUnder, vars
  <2>3. loads'[1].step = Len(Queries') /\ Len(Queries') \in Nat
    BY <1>2, <1>3, QueriesAre
  <2> QED
    BY <1>0, <1>1, <1>2, <2>1, <2>2, <2>3 DEF LoadOK
<1>8. IInv' /\ ShownOK'
  BY <1>2, StoreUntouched
<1> QED
  BY <1>2, <1>7, <1>8 DEF MInv

-----------------------------------------------------------------------------
(* The pages *)

\* A load that begins, or that was aborted: nothing is known of it.
Fresh == {Asked, Aborted}

LEMMA FreshOK ==
  ASSUME NEW load \in Fresh
  PROVE  load \in Loads /\ LoadOK(load)'
<1>1. NoAnswer \in Answers /\ NoAnswer.attempts = Unread
  BY DEF NoAnswer, Answers
<1>2. load.step = 0 /\ load.aborted \in BOOLEAN /\ load.answer = NoAnswer
  <2>1. CASE load = Asked
    BY <2>1 DEF Asked, Request
  <2>2. CASE load = Aborted
    BY <2>2 DEF Aborted, Request
  <2> QED
    BY <2>1, <2>2 DEF Fresh
<1>3. load \in Loads
  <2>1. CASE load = Asked
    BY <1>1, <2>1 DEF Asked, Request, Loads
  <2>2. CASE load = Aborted
    BY <1>1, <2>2 DEF Aborted, Request, Loads
  <2> QED
    BY <2>1, <2>2 DEF Fresh
<1>4. Len(Queries)' \in Nat /\ Len(Queries)' >= 2
  BY DEF Queries
<1>5. LoadOK(load)'
  BY <1>1, <1>2, <1>4 DEF LoadOK, Answered
<1> QED
  BY <1>3, <1>5

\* Steps that ask anew, abort, or drop what is in flight.
LEMMA NewLoads ==
  ASSUME MInv, UNCHANGED vars, shown' \in {shown, Unread},
         screen' \in {"none", "graph", "run"}, hidden' \in BOOLEAN, timer' \in BOOLEAN,
         \/ loads' = << >>
         \/ \E load \in Fresh : loads' = <<load>>
         \/ UNCHANGED <<loads, screen, shown>>,
         screen' = "none" => loads' = << >> /\ shown' = Unread,
         timer' => screen' = "graph"
  PROVE  MInv'
<1>1. IInv'
  BY Step DEF MInv
<1>2. ShownOK'
  <2>1. CASE shown' = shown
    BY <2>1, StoreUntouched
  <2>2. CASE shown' = Unread
    BY <2>2 DEF ShownOK
  <2> QED
    BY <2>1, <2>2
<1>3. PageOK'
  BY FreshOK DEF MInv, PageOK
<1>4. (loads # << >> => LoadOK(loads[1]))'
  <2>1. ASSUME NEW load \in Fresh, loads' = <<load>> PROVE LoadOK(loads[1])'
    <3>1. loads'[1] = load
      BY <2>1, One
    <3>2. LoadOK(load)'
      BY FreshOK
    <3> QED
      BY <3>1, <3>2 DEF LoadOK, Answered, RunSeen, RunAfter, AttemptsSeen, TasksSeen,
                        TasksAfter, AttemptsUnder
  <2>2. CASE UNCHANGED <<loads, screen, shown>>
    <3>1. Queries' = Queries
      BY <2>2 DEF Queries
    <3> QED
      BY <2>2, <3>1 DEF MInv, vars, LoadOK, Answered, RunSeen, RunAfter, AttemptsSeen, TasksSeen,
                        TasksAfter, AttemptsUnder
  <2>3. CASE loads' = << >>
    BY <2>3
  <2> QED
    BY <2>1, <2>2, <2>3
<1> QED
  BY <1>1, <1>2, <1>3, <1>4 DEF MInv

LEMMA OpenStep ==
  ASSUME MInv, UNCHANGED vars, NEW s \in {"graph", "run"}, Open(s)
  PROVE  MInv'
<1>1. PageOK /\ loads = << >>
  BY DEF MInv, PageOK, Open
<1>2. loads' = << >> \/ loads' = <<Asked>>
  BY <1>1 DEF Open, Begun
<1> QED
  BY <1>1, <1>2, NewLoads DEF Open, PageOK, Fresh

LEMMA LeaveStep ==
  ASSUME MInv, UNCHANGED vars, Close \/ Reload
  PROVE  MInv'
<1>1. PageOK
  BY DEF MInv
<1>2. CASE Close
  BY <1>1, <1>2, NewLoads DEF Close, PageOK
<1>3. CASE Reload
  BY <1>1, <1>3, NewLoads DEF Reload, PageOK, Fresh
<1> QED
  BY <1>2, <1>3

LEMMA AskStep ==
  ASSUME MInv, UNCHANGED vars, Refresh \/ Tick \/ Show
  PROVE  MInv'
<1>1. PageOK
  BY DEF MInv
<1>2. loads' = loads \/ loads' = <<Asked>>
  BY DEF Refresh, Tick, Show, Begun
<1>3. /\ UNCHANGED <<screen, shown>> /\ hidden' \in BOOLEAN /\ timer' \in BOOLEAN
  BY <1>1 DEF Refresh, Tick, Show, PageOK
<1>4. screen = "graph" /\ screen' # "none"
  BY <1>1 DEF Refresh, Tick, Show, PageOK
<1> QED
  BY <1>1, <1>2, <1>3, <1>4, NewLoads DEF PageOK, Fresh

LEMMA HideStep ==
  ASSUME MInv, UNCHANGED vars, Hide
  PROVE  MInv'
<1>1. PageOK /\ screen = "graph" /\ UNCHANGED <<screen, shown>>
  BY DEF MInv, Hide
<1>2. CASE loads = << >>
  <2>1. loads' = << >>
    BY <1>2 DEF Hide
  <2> QED
    BY <1>1, <2>1, NewLoads DEF Hide
<1>3. CASE loads # << >>
  <2>1. PICK load \in Loads : loads = <<load>>
    BY <1>1, <1>3 DEF PageOK
  <2>2. loads' = <<Abort(load)>>
    <3>1. DOMAIN loads = 1..1 /\ loads[1] = load
      BY <2>1, One
    <3>2. loads' = [i \in 1..1 |-> Abort(loads[i])]
      BY <3>1 DEF Hide
    <3>3. <<Abort(load)>> = [i \in 1..1 |-> Abort(load)]
      OBVIOUS
    <3> QED
      BY <3>1, <3>2, <3>3
  <2>3. Abort(load) = load \/ Abort(load) \in Fresh
    BY DEF Abort, Fresh
  <2> QED
    BY <1>1, <2>1, <2>2, <2>3, NewLoads DEF Hide
<1> QED
  BY <1>2, <1>3

LEMMA FailStep ==
  ASSUME MInv, UNCHANGED vars, NEW i \in DOMAIN loads, Fail(i)
  PROVE  MInv'
<1>1. PageOK /\ i = 1 /\ Without(1) = << >> /\ screen \in {"graph", "run"}
  BY TheLoad DEF MInv
<1>2. loads' = << >> /\ UNCHANGED <<screen, hidden, shown>>
  BY <1>1 DEF Fail, Settled
<1>3. timer' \in BOOLEAN /\ (timer' => screen' = "graph")
  BY <1>1, <1>2 DEF Fail, Settled, PageOK
<1> QED
  BY <1>1, <1>2, <1>3, NewLoads DEF PageOK

LEMMA DeliverStep ==
  ASSUME MInv, UNCHANGED vars, NEW i \in DOMAIN loads, Deliver(i)
  PROVE  MInv'
<1>1. /\ PageOK /\ i = 1 /\ Without(1) = << >> /\ screen \in {"graph", "run"}
      /\ LoadOK(loads[1]) /\ Answered(loads[1])
  BY TheLoad DEF MInv, Deliver
<1>2. loads' = << >> /\ UNCHANGED <<screen, hidden>> /\ shown' = loads[1].answer
  BY <1>1 DEF Deliver, Settled
<1>3. PageOK'
  BY <1>1, <1>2 DEF Deliver, Settled, PageOK
<1>4. loads[1].step >= 2 /\ loads[1].step >= 1
  BY <1>1, QueriesAre DEF Answered
<1> DEFINE a == loads[1].answer
<1>5. /\ RunSeen(a) /\ TasksSeen(a)
      /\ a.attempts # Unread => AttemptsSeen(a) /\ AttemptsUnder(a)
  BY <1>1, <1>4 DEF LoadOK
<1>6. ShownOK'
  BY <1>2, <1>5 DEF ShownOK, RunSeen, TasksSeen, AttemptsSeen, AttemptsUnder, vars
<1>7. IInv'
  BY Step DEF MInv
<1> QED
  BY <1>2, <1>3, <1>6, <1>7 DEF MInv

-----------------------------------------------------------------------------
(* The theorems *)

LEMMA MonitorInitially == MonitorInit => MInv
  BY Initially DEF MonitorInit, MInv, PageOK, ShownOK

LEMMA MonitorStep == MInv /\ [MonitorNext]_whole => MInv'
<1> SUFFICES ASSUME MInv, [MonitorNext]_whole PROVE MInv'
  OBVIOUS
<1>1. CASE Next /\ UNCHANGED page
  BY <1>1, ExecutionStep
<1>2. CASE UNCHANGED whole
  BY <1>2, ExecutionStep DEF whole
<1>3. CASE PageStep /\ UNCHANGED vars
  BY <1>3, OpenStep, LeaveStep, AskStep, HideStep, ReadRunStep, ReadAttemptsStep, ReadTasksStep,
     DeliverStep, FailStep DEF PageStep, Queried, Listed, Landed, Failed
<1> QED
  BY <1>1, <1>2, <1>3 DEF MonitorNext

\* The inductive invariant of the composition holds throughout.
THEOREM MonitorInvariance == MonitorSpec => []MInv
  BY MonitorInitially, MonitorStep, PTL DEF MonitorSpec

\* Watching a run does not change it: every theorem of DagExecution_proofs
\* holds of the run that is watched.
THEOREM MonitorWatches == MonitorSpec => Spec
<1>1. [MonitorNext]_whole => [Next]_vars
  BY DEF MonitorNext, whole
<1> QED
  BY <1>1, PTL DEF MonitorSpec, MonitorInit, Spec

\* No answer that a page shows contradicts itself, or the run once it is over.
THEOREM CoherentAnswers == MonitorSpec => []AnswersCohere
<1>1. MInv => AnswersCohere
  BY DEF MInv, ShownOK, TasksSeen, AttemptsSeen, AttemptsUnder, AnswersCohere, Started
<1> QED
  BY <1>1, MonitorInvariance, PTL

\* No page takes back what it has shown of the run or of a task.
THEOREM NoRegress == MonitorSpec => ShownNeverRegresses
<1>1. MInv /\ [MonitorNext]_whole =>
        [shown # Unread /\ shown' # Unread => Follows(shown', shown)]_shown
  <2> SUFFICES ASSUME MInv, [MonitorNext]_whole, shown' # shown, shown # Unread, shown' # Unread
               PROVE  Follows(shown', shown)
    OBVIOUS
  <2>1. PICK i \in DOMAIN loads : Deliver(i)
    BY DEF MonitorNext, whole, page, PageStep, Open, Close, Reload, Refresh, Tick, Hide, Show,
           Queried, Listed, Landed, Failed, ReadRun, ReadAttempts, ReadTasks, Read, Fail
  <2>2. /\ i = 1 /\ LoadOK(loads[1]) /\ Answered(loads[1]) /\ shown' = loads[1].answer
    BY <2>1, TheLoad DEF MInv, Deliver
  <2>3. loads[1].step >= 2 /\ loads[1].step >= 1
    BY <2>2, QueriesAre DEF Answered
  <2>4. RunAfter(loads[1].answer) /\ TasksAfter(loads[1].answer)
    BY <2>2, <2>3 DEF LoadOK
  <2> QED
    BY <2>2, <2>4 DEF RunAfter, TasksAfter, Follows
<1> QED
  BY <1>1, MonitorInvariance, PTL DEF MonitorSpec, ShownNeverRegresses
=============================================================================
