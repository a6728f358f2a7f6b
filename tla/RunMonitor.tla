------------------------------ MODULE RunMonitor ------------------------------
(***************************************************************************)
(* The web console watching a DAG run while DagExecution executes it: the  *)
(* graph of the DAG, polled by usePollingResource.ts, and the details of   *)
(* the run, loaded by useApiResource.ts, over the separate store queries   *)
(* of get_dag_graph() and get_run() (api/service.py).                      *)
(*                                                                         *)
(* A delay is a timer that may fire at any moment: how long the graph's    *)
(* interval is (1 or 10 seconds) is not modelled.                          *)
(***************************************************************************)
EXTENDS DagExecution

CONSTANTS
    Watched,    \* bound: the DAGs, as their dependsOn, whose page is ever opened
    Unread      \* what was not, or not yet, queried

VARIABLES
    screen,     \* which page is open: "none", "graph" or "run"
    hidden,     \* document.hidden
    timer,      \* the graph's timer is set
    loads,      \* the loads in flight whose answer the page still takes: one at
                \* most, unless a guard fails; inFlight is loads # << >>
    shown       \* the data the page shows, or Unread

page  == <<screen, hidden, timer, loads, shown>>
whole == <<vars, page>>

MonitorInit ==
    /\ Init
    /\ screen = "none" /\ hidden = FALSE /\ timer = FALSE
    /\ loads = << >> /\ shown = Unread

NoAnswer == [run |-> Unread, attempts |-> Unread, tasks |-> Unread]

\* A request of which `step` queries are done.
Request(step, aborted, answer) == [step |-> step, aborted |-> aborted, answer |-> answer]

Asked   == Request(0, FALSE, NoAnswer)
Aborted == Request(0, TRUE, NoAnswer)

-----------------------------------------------------------------------------
(* The handler in the API: each query is a transaction of its own *)

\* Mutant: the tasks are queried before their run.
Queries_TasksFirst ==
    IF screen = "graph" THEN <<"tasks", "run">> ELSE <<"tasks", "run", "attempts">>

Queries == IF screen = "graph" THEN <<"run", "tasks">> ELSE <<"run", "attempts", "tasks">>

Answered(load) == load.step = Len(Queries)

Due(i, query) ==
    /\ ~loads[i].aborted /\ ~Answered(loads[i])
    /\ Queries[loads[i].step + 1] = query

Read(i, query, answer) ==
    /\ Due(i, query)
    /\ loads' = [loads EXCEPT ![i] = Request(loads[i].step + 1, FALSE, answer)]
    /\ UNCHANGED <<screen, hidden, timer, shown>>

\* get_dag_run() or latest_dag_run()
ReadRun(i) == Read(i, "run", [loads[i].answer EXCEPT !.run = result])

\* list_run_attempts()
ReadAttempts(i) == Read(i, "attempts", [loads[i].answer EXCEPT !.attempts = attempts])

\* list_task_runs()
ReadTasks(i) == Read(i, "tasks", [loads[i].answer EXCEPT !.tasks = taskRuns])

-----------------------------------------------------------------------------
(* The hooks *)

\* Mutant: one load may begin while another is in flight.
Begun_Overlapping(away) == IF away THEN loads ELSE Append(loads, Asked)

\* run(), which returns at once when the page is hidden or a load is in flight.
Begun(away) == IF away \/ loads # << >> THEN loads ELSE <<Asked>>

Abort(load) == IF Answered(load) THEN load ELSE Aborted

\* The page is mounted.  useApiResource() asks even from a hidden tab.
Open(s) ==
    /\ screen = "none" /\ dependsOn \in Watched
    /\ screen' = s
    /\ loads' = IF s = "graph" THEN Begun(hidden) ELSE <<Asked>>
    /\ UNCHANGED <<hidden, timer, shown>>

\* The effect's cleanup: `disposed`, or `active` no more, so that a load in
\* flight ends without effect.
Close ==
    /\ screen # "none"
    /\ screen' = "none" /\ loads' = << >> /\ timer' = FALSE /\ shown' = Unread
    /\ UNCHANGED hidden

\* Mutant: the load that was in flight is not disowned.
Reload_KeepsOld ==
    /\ screen = "run"
    /\ loads' = Append(loads, Asked) /\ UNCHANGED shown
    /\ UNCHANGED <<screen, hidden, timer>>

\* reload() of the run page: the cleanup, then the effect again.
Reload ==
    /\ screen = "run"
    /\ loads' = <<Asked>> /\ shown' = Unread
    /\ UNCHANGED <<screen, hidden, timer>>

\* refresh() of the graph page.
Refresh ==
    /\ screen = "graph" /\ ~hidden
    /\ loads' = Begun(FALSE)
    /\ timer' = (timer /\ loads' = loads)
    /\ UNCHANGED <<screen, hidden, shown>>

\* The timer fires.
Tick ==
    /\ timer
    /\ timer' = FALSE /\ loads' = Begun(hidden)
    /\ UNCHANGED <<screen, hidden, shown>>

\* handleVisibility(): what is in flight is aborted, unless its answer is here.
Hide ==
    /\ screen = "graph" /\ ~hidden
    /\ hidden' = TRUE /\ timer' = FALSE
    /\ loads' = [i \in DOMAIN loads |-> Abort(loads[i])]
    /\ UNCHANGED <<screen, shown>>

\* A load whose abort has not come through yet still counts as in flight.
Show ==
    /\ screen = "graph" /\ hidden
    /\ hidden' = FALSE /\ timer' = FALSE
    /\ loads' = Begun(FALSE)
    /\ UNCHANGED <<screen, shown>>

Without(i) == SubSeq(loads, 1, i - 1) \o SubSeq(loads, i + 1, Len(loads))

\* Mutant: an aborted load returns before it schedules the next one.
Settled_NotAborted(i) ==
    /\ loads' = Without(i)
    /\ timer' = (screen = "graph" /\ ~hidden /\ ~loads[i].aborted)
    /\ UNCHANGED <<screen, hidden>>

\* The end of a load, whichever: finally() of the graph page schedules the next.
Settled(i) ==
    /\ loads' = Without(i)
    /\ timer' = (screen = "graph" /\ ~hidden)
    /\ UNCHANGED <<screen, hidden>>

Deliver(i) ==
    /\ Answered(loads[i])
    /\ shown' = loads[i].answer
    /\ Settled(i)

\* The request failed or was aborted: what the page shows, it keeps.
Fail(i) == UNCHANGED shown /\ Settled(i)

-----------------------------------------------------------------------------
Queried == \E i \in DOMAIN loads : ReadRun(i)
Listed  == \E i \in DOMAIN loads : ReadAttempts(i) \/ ReadTasks(i)
Landed  == \E i \in DOMAIN loads : Deliver(i)
Failed  == \E i \in DOMAIN loads : Fail(i)

PageStep ==
    \/ \E s \in {"graph", "run"} : Open(s)
    \/ Close \/ Reload \/ Refresh \/ Tick \/ Hide \/ Show
    \/ Queried \/ Listed \/ Landed \/ Failed

MonitorNext ==
    \/ Next /\ UNCHANGED page
    \/ PageStep /\ UNCHANGED vars

MonitorSpec == MonitorInit /\ [][MonitorNext]_whole

\* Every request comes to an end, an API that is asked again and again answers
\* at last, and a timer fires.
PageFairness ==
    /\ WF_loads(Failed) /\ SF_loads(Queried) /\ SF_loads(Listed) /\ SF_loads(Landed)
    /\ WF_timer(Tick)

MonitorFairSpec == MonitorSpec /\ WF_vars(Run) /\ PageFairness

-----------------------------------------------------------------------------
(* Properties *)

\* An answer is put together from queries between which the executor goes on,
\* and yet does not contradict itself: when it says that the run is over, every
\* task and attempt in it is as the run left it, and before that, attempts are
\* only under tasks that have started.
AnswersCohere ==
    shown # Unread =>
        /\ shown.run \in Ended => shown.tasks = taskRuns /\ shown.attempts \in {attempts, Unread}
        /\ shown.attempts # Unread => \A t \in Task :
             shown.attempts[t] # << >> => shown.tasks[t] \in {"running"} \cup Ended

\* What a reader has seen of a run and its tasks is never taken back, whichever
\* way answers, refreshes, aborts and returns to the page interleave.
TaskFollows(later, earlier) ==
    /\ earlier = "running" => later # "pending"
    /\ earlier \notin {"pending", "running"} => later = earlier

Follows(later, earlier) ==
    /\ earlier.run # "running" => later.run = earlier.run
    /\ \A t \in Task : TaskFollows(later.tasks[t], earlier.tasks[t])

ShownNeverRegresses ==
    [][shown # Unread /\ shown' # Unread => Follows(shown', shown)]_shown

\* A graph that stays in view learns that its run is over: no hide and return
\* that came before, and no failed request, leaves the page without a next load.
EndReachesPage ==
    result # "running" /\ [](screen = "graph" /\ ~hidden)
        ~> shown # Unread /\ shown.run = result

=============================================================================
