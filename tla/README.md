# Nexolith in TLA+

Nexolith reads rows from a source, transforms them, delivers them to a destination and invokes
actions on them. That is a *pipeline*. A *DAG* is a file of tasks, each a pipeline or a script,
with dependencies, retries and a failure policy. A *scheduler* runs registered DAGs when their
interval is over or a DAG they are triggered by has succeeded. Everything meets in one SQLite
state store, and nothing but that store and one pid file coordinates the processes.

This directory holds TLA+ models of that, TLC runs that check them on small instances, and
proofs, checked by TLAPS, of what holds on every instance. `PROJECT.json` lists the components,
the runs, the hazards, the theorems, and for every definition the lines of code it stands for.
Paths below are relative to `src/src/nexolith/` unless they begin with `web/` or `tests/`.

## The system

| Component | State | Operations | Module |
| --- | --- | --- | --- |
| Scheduler ownership: `scheduler/pidfile.py`, `process_identity.py` | a lock file (the lease), `scheduler.pid` (the marker), process identities | claim, recover a dead marker, release | `SchedulerOwnership` |
| Scheduler daemon: `scheduler/daemon.py` | the locals of a tick, the stop event | reconcile once, tick, run, stop | `DagScheduling` |
| State store: `state/store.py` | `dags`, `dag_runs`, `task_runs`, `task_attempts`, `dag_trigger_reactions`, `schema_version` | one transaction per call | in the module of each caller |
| DAG executor: `dag/executor.py` | the sets of its loop | run, retry, skip, block, complete, record reactions | `DagExecution`, abstractly `DagRun`; reactions in `DagScheduling` |
| Graph algorithms: `dag/validator.py`, `dag/executor.py` | the locals of three loops | cycle detection, topological order, transitive dependents | `TaskGraph` |
| DAG registration: `dag/registration.py`, `application/actions.py` | one `dags` row | register, force, pause, resume | `DagRegistry` |
| Pipeline execution: `execution/runner.py` | the phase of a run and its result | read, transform, prepare, write, act | `PipelineDelivery` |
| SQL destination: `connectors/sql.py` | a table of a database | append, replace, fail, truncate, upsert | `PipelineDelivery` |
| Nexo Actions: `nexoactions/execution.py` | outcomes by action | prepare for all rows, invoke in order | `PipelineDelivery` |
| Process control: `scheduler/control.py`, `scheduler/status.py` | none of its own | start, stop and query a scheduler | `SchedulerControl` |
| Schema migrations: `state/store.py` | `schema_version` | run every migration above it | `StateMigrations` |
| Development launcher: `cli/development.py` | two child processes | start, await, supervise, stop | not modelled, see the end |
| Web console: `web/src/hooks/usePollingResource.ts`, `useApiResource.ts`, over `get_dag_graph()` and `get_run()` of `api/service.py` | a timer, a load in flight, the page's visibility, the data shown | load, abort, refresh, reload, reschedule | `RunMonitor` |
| HTTP API, CLI, sessions: `api/`, `cli/` | requests | trigger, register, pause; otherwise they read | as actions of the modules above |
| Files, interval, configuration, transformations, script jobs, CSV | none | parse, validate, compute on rows | abstracted, see the end |

How the components interact:

- Two processes meet at the **lease and the marker**. The operating system drops a lease with its
  process; the marker is a file and stays behind.
- The daemon, manual runs, the API and sessions meet in the **store**. Each call is its own
  transaction, and no transaction spans a decision and what is done about it. Every read of a
  tick is therefore stale when it is used.
- An API server or a session **starts and stops** schedulers by what the marker and the process
  table tell it. The child it launches is one more competitor for the lease; until it reaps it, a
  dead child still holds its pid.
- A page of the **console** reads a run that is in progress, by several queries of which each is
  its own transaction.
- An executor and its **owner**: a `dag_runs` row names the process that runs it, by pid and
  creation time. A later scheduler decides by that whether the row is abandoned.
- A DAG and its **files**: they are read again at registration, at every decision and at every
  run, and can be edited in between.
- Two pipelines meet at the **destination table**. Nothing keeps them apart.

What is hard to test: the orders of steps of a daemon, manual runs and users; a death between any
two store calls; a reused pid; failures that arrive at a task through several others; retries of
something already committed; two writers of one table. `hazards` in `PROJECT.json` names each
with its line and the properties that cover it.

### What makes each component correct

- *Ownership*: one scheduler at a time; the marker names it and is withdrawn only by it; a marker
  that cannot be attributed is left alone; no start hangs; a stop request is honoured.
- *Process control*: an answer was true at some instant of its request; a signal reaches only the
  process that the marker named; "stopped" is said of the dead; every request is answered.
- *Migrations*: what the store had recorded survives every crash (it does not: see Findings).
- *Scheduling*: a run in progress stays its owner's; a final status is final; a reaction names a
  success; an abandoned run is interrupted; a success of an upstream is reacted to.
- *Execution*: a task runs on successes only; attempts explain statuses; the result sums up the
  tasks; what is withheld has its reason in the store; every run ends.
- *Graphs*: a refused graph has the reported cycle; an accepted one is acyclic; the order respects
  every dependency; the search finds exactly what depends on a failure.
- *Registration*: path and schedule of a row come from one reading of one file; only a user
  changes the enabled flag; a row that has been seen is not overwritten without force.
- *Delivery*: nothing happens unless all actions are prepared; only a replace or a truncate
  removes rows, and not by failing; a success means delivered and acted upon.
- *Console*: an answer does not contradict itself, what was shown is not taken back, and a page
  that stays in view learns of the end of the run.

## Modules and code

**SchedulerOwnership.** A member of `Proc` is a process instance, what the code calls an identity
(pid plus creation time); `PidOf` gives its pid, so a pid can be reused. `pc[p]` walks through
`acquire_pidfile()`, `Scheduler.run()` and `release_pidfile()`, one system call per step. `Verify`
draws the answer of the identity query from all the answers psutil could give in that state, access
denied included. `Crash` is possible everywhere. A stranger is a process on a pid that never was
a scheduler's.

**SchedulerControl** extends it with a requester, the process that serves start and stop requests:
`at` and `round` walk through `start_scheduler_process()`, one status query (`ReadStatus`,
`Identified`) being a read of the marker and a later look at the process it names; `stopAt` walks
through `stop_scheduler_process()`, whose handle (`OpenHandle`) is the process that has the pid at
that moment. `kids` are children not reaped, which keep their pid and still match their identity;
`reaper` are those a thread waits for. `RequesterDies` at any point. A step of the schedulers is
one of `Next`, so the module is a composition and not a second model of them. `quiet` is history:
the requests during which, at some instant, nobody was the owner.

**StateMigrations.** `_ensure_schema()` over a file of an earlier version. A migration is a
sequence of statements, each an effect on which tables exist, which rows they hold and which columns
and values they admit; one step executes and commits one, as `executescript()` does.
`RecordVersion` is the separate transaction after them. `Close` is a death or an error between
any two statements; the next `ReadVersion` opens the file again.

**DagScheduling.** The daemon's `phase` walks through reconciliation and `tick()`, store call by
store call; `pc[w]` walks through `execute_dag()` and `DagExecutor.run()` in the daemon and in the
manual workers, whose tasks are one step (`Complete`). A tick first decides about all DAGs
(`DecideInterval`, `ReadUpstream`, `Compare`, `DecideTrigger`), then runs the due ones by priority
and name (`Dispatch`), marking the reactions it captured after each (`Mark`). Time is a choice:
an interval is over or not, except that a DAG that never ran is due. Files are "ok", "invalid" (not
readable), or "unrunnable" (readable, but a pipeline they name is not). A row's `orphan` says that
its owner has died; a look-up of that owner (`OwnerLookup`) finds no process, or a later one that
has its pid. `saw` is history for the properties, as is `handled`.

**DagExecution and DagRun.** `DagExecution` is `run()` between `Open` and `Complete` of
`DagScheduling`: `IsNext` is the topological order, `StartAttempt`, `AttemptSucceeds` and
`AttemptFails` the retries, `Settle` the end of a task, `Skip` and `Block` the two policies,
`Escape` a `BaseException`, `Die` and `Reconcile` a crash and the scheduler that finds it.
`DagRun` is what all that promises to a reader of the store, and knows no retries, no loop and no
order. `KeepsPromise` is the refinement, with `outcome <- taskRuns`.

**RunTable** is what the rows of `dag_runs` promise, whoever writes them: an id is taken once and by
a live process, only a live process completes its run, only the run of a dead one is interrupted, and
a status other than `running` is the last. It says nothing of who writes, in which transaction, or how
many rows one UPDATE touches. `DagScheduling` (`RowsKeepPromise`, `alive <- ~orphan`) and
`DagExecution` (`RowKeepsPromise`, with the one row of its run) both implement it.

**RunMonitor** extends `DagExecution` with one browser page that watches the run. `ReadRun`,
`ReadAttempts` and `ReadTasks` are the store queries of one answer, in the order of the handler
(`Queries`). `Tick`, `Hide`, `Show`, `Refresh` and `Settled` are the polling hook of the graph page,
`Reload` the other hook; `Begun` is the guard against a second load. `Deliver` and `Fail` end a
load. A timer is set or not, without its length. The page's state is its own, so an executor's step
leaves it alone and a page's step leaves the run alone.

**TaskGraph.** Each of the three loops, with the recursion of `visit()` as the stack `path` and
`left`. `DagExecution` rests on it: it starts from acyclic graphs (`AcceptedIsAcyclic`), and its
`TransitiveDependents` is the definition that `SearchExact` compares the search with.

**DagRegistry.** One name, several files that declare it, callers of `register_dag()` and of a run
as processes with a read, a decision and a write, and users that edit and pause. `stale` is history:
the calls whose view of the row has been overtaken.

**PipelineDelivery.** Writers are processes in `DefaultPipelineRunner.run()`, restarted by the
retries of their task. Each call of the database is a step: `has_table()`, DROP, the second look
of `create_all()`, CREATE, reflection, the DELETE of a truncate, the INSERT with its COMMIT. The
dialect modelled is the one that excludes least, PostgreSQL: a DELETE does not see rows that another
transaction has not committed, and a DROP waits for open transactions. On SQLite fewer
interleavings are possible. A row is a key and the number of the commit that inserted it.

Definitions with a suffix (`Inspect_RecoversCorrupt` beside `Inspect`, say) are faulty
variants, kept beside the original with a comment that begins with "Mutant". No specification
uses them. `PROJECT.json` pairs each with the property that must notice it.

## The runs

All take their instance from an `MC` module and a `.cfg`. State counts are of distinct states.

| Run | Instance | What it shows |
| --- | --- | --- |
| `ownership` | three process instances, two on one pid, and a requester that starts and stops schedulers; 99,680 states | Exclusion, a marker that names its owner, fail-closed recovery; answers that were true, signals that reach only the owner; every start, stop and request comes to its end, and no child that a start has answered for stays a zombie, whenever it dies. |
| `dag_scheduling` | two DAGs, the second triggered by the first; daemon and one manual worker; three runs; 4.0 million | The safety properties of scheduling, with crashes and pauses everywhere, among them that the rows implement `RunTable`. |
| `dag_scheduling_live` | the same with a third DAG of higher priority that may always be due, and a downstream of the lowest whose file breaks and is mended; three runs; 0.41 million | Abandoned runs are interrupted, also when the pid of their owner is in use again; a success of an upstream is followed by a run of the downstream. |
| `dag_execution` | every acyclic graph over four tasks, both policies, up to two retries, and a page that watches the run of one of the graphs; 0.71 million | The store tells the truth about a run, and the run implements `DagRun`; the page shows only coherent answers, takes nothing back and learns of the end. |
| `task_graph` | each of the 4,096 graphs over four tasks; 0.28 million | The three algorithms compute what they should, and end. |
| `dag_registry` | two files of one name, two registrars, one run; 1.4 million | What may explain a change of the row. |
| `pipeline_delivery` | two writers, one with a retry; three rows, one malformed; two actions; five modes; 0.32 million | What a write may remove, what a success means, that every task ends. |
| `daemon_bad_file` | as `dag_scheduling`, without a manual worker | Refutes a docstring: see Findings. |
| `daemon_duplicates` | as `dag_scheduling` | Refutes a docstring. |
| `daemon_retriggers` | as `dag_scheduling`, without a manual worker | Refutes a test's comment. |
| `force_reenables` | two files, two registrars | Refutes a docstring. |
| `migration_retry` | one process that opens the store again and again, a file that is new or of version 1 (the others are met on the way), two recorded rows | Refutes a comment. |

### Bounds, and why they are enough

- *Three process instances*: one that left a marker, one that recovers it, and one that competes
  or reuses the dead one's pid. No step of the protocol involves more.
- *`Casts` and `Overlap`* bound the composition with a requester only: while requests are being
  served, the instances that exist are two on one pid or two on two pids (`Casts`), and a start and a
  stop do not overlap (`Overlap = FALSE`). Two on one pid make a reused pid, two on two pids a
  foreign scheduler that wins against the child. The safety properties are proved for both values
  of `Overlap` and every `Casts`.
- *One opener and a file that is new or of version 1* (`StateMigrations`): what a crash alone does.
  Two processes that open a store at once would only add interleavings to a refuted property.
- *One watched graph, and a tab that is in view at first* (`Watched`): the graph has two roots, so
  that tasks are at different stages, and a retry, so that attempts are added during an answer. All
  graphs are executed; of the others no page is opened. The theorems have any graph.
- *`MaxRuns`*: the only bound on `DagScheduling`. Three runs make the interesting history: an
  upstream success, a downstream run that reacts to it, and a further run of the upstream in its
  middle. `Open` waits at the bound, and the daemon with it. `AtBound` excludes that from
  `TriggerServed` only while the run it waits to open is at most the second of its DAG since the
  success: one may be in the batch already decided, one in that of the downstream. A third one
  ahead of the downstream is a violation, so starvation by a DAG that is always due shows within
  three runs, though an endless row of runs is out of reach.
- *`ByHand`, `Known`, `Editable`* keep `dag_scheduling_live` small: there a user runs the upstream only,
  the upstream alone is not registered at first, and the file of the downstream alone is edited.
  `dag_scheduling` starts from an empty store and has users run and pause everything. The
  theorems have any values.
- *Two or three DAGs, one manual worker*: decisions about DAGs interact only pairwise, by trigger and
  by order in the batch, which is what the third is for; manual workers do not see each other.
- *Four tasks*: the smallest number with a diamond, a chain of three behind a failure, and a cycle
  that does not pass through the root of the search.
- *Two files and two registrars*: one call to overtake another; a run is a third kind of caller.
- *Two writers and three rows*: each hazard of a table is one writer between two steps of another.
  A malformed row, a row that matches one action and a row that does not make the cases of
  `prepare_actions()`. One retry makes "after a commit, again" happen.

Runs without deadlock checking are those of systems that may really stop: all processes gone,
everything executed, or `MaxRuns` reached. `DagRegistry` never stops and is checked.

### Fairness

- `SchedulerOwnership`: each process is scheduled (`WF` of `Program(p)`). None of its calls block:
  the lock is `LOCK_NB`. Spawning, signals, crashes and exceptions are not fair. The loop itself
  is not either: a tick ends, that is, its due tasks do.
- `SchedulerControl`: the same for the schedulers, and `WF` of the steps of a request, which block
  on nothing, and of the reaping thread. `Deadline` is strongly fair: the polling loop passes it
  again and again, and the clock does not stop (`monotonic() < deadline` fails in the end).
  Requests, forks that succeed and the death of the requester are not fair.
- `DagScheduling`: only the daemon's own steps are fair (`Tick` and `Execute(Daemon)`). Users,
  starts, deaths and manual runs are not. The last may hang for ever, and a downstream with a
  `running` row is not `Waiting`: that is how `TriggerServed` says what that costs. It is what
  the promise is worth after an `Escape` too, until the process has ended.
- `DagExecution`: `WF` of the executor, an assumption about the work: a pipeline or a script
  ends. `jobs/script_runner.py` has no time limit, so the code cannot promise it.
- `RunMonitor`: a request comes to an end (`WF` of `Failed`, which every load in flight enables), a timer
  fires (`WF` of `Tick`), and an API that is asked again and again answers in the end (`SF` of the
  queries and of `Landed`): nobody could promise `EndReachesPage` with an API that always fails. The
  user's steps are not fair; `EndReachesPage` speaks of a page that stays in view.
- `TaskGraph`: the algorithms run.
- `PipelineDelivery`: each living process goes on, and its database answers. `Drop` waits for
  open transactions, which end under the same assumption.

## Findings

Each is a run whose property states what the repository says, and which TLC refutes.

1. `daemon_bad_file`. `tick()` promises that a bad declaration of one DAG never takes down the
   daemon. It runs a DAG whose interval is over even if its file could not be read, and nobody
   catches the `ConfigurationError` (`scheduler/daemon.py:151`): the process ends.
2. `daemon_duplicates`. The running-DAG check is said to prevent concurrent execution of a DAG.
   It is one read at the beginning of a tick (`scheduler/daemon.py:122`), and `execute_dag()` looks
   at nobody: a run that another process starts after that read runs beside the daemon's.
3. `daemon_retriggers`. The executor records the newest success of an upstream after a run;
   `tick()` then overwrites it with the older one it had captured (`scheduler/daemon.py:153`), and the
   downstream fires again for a completion already recorded.
4. `force_reenables`. A forced registration is said to keep the enabled flag. It reads it in one
   transaction and writes it in another (`dag/registration.py:43`, `:54`): a pause in between is lost.
5. `migration_retry`. The migration of version 2 rebuilds `task_runs` through a copy, and begins with a
   DROP of that copy which the comment at `state/store.py:85` says makes a retry safe from any crash
   point. Each statement commits by itself: a process that dies between the DROP of the table and the
   RENAME of the copy leaves the rows in the copy alone, and the retry drops it
   (`state/store.py:103`). After that every open fails, since `task_runs` is gone. Versions 3
   and 6 rebuild in the same way.

Behaviour met on the way that contradicts no statement of the repository, and so has no run:

- A pause during a batch comes too late for it: the flags are those of the tick's `list_dags()`.
- A downstream run consumes a success of its upstream that came while it ran
  (`dag/executor.py:271`). `MarkedWasSeen` shows that what `tick()` writes itself is not of that kind.
- An upstream success is not reacted to while the file of the downstream cannot be read: the trigger
  is skipped on every tick (`scheduler/daemon.py:197`).
- An upstream success is not reacted to while a `running` row of a living process holds the
  downstream back, even if that process has long left the run (`Escape`).
- A retry appends its rows again if an action failed after the commit.
- Two writers in mode `fail` can both find no table; the second then either fails on CREATE or
  writes into the table of the first. `ResetSeesOnlyConcurrent` bounds what it can meet.
- The same holds for overlapping replaces and truncates: rows of both can remain.
- A start answers STARTED with the pid of a foreign scheduler if its own child has not been refused
  by then (`scheduler/control.py:171`): that is how the wrapped interpreter of Windows is accepted,
  and the two cannot be told apart. `AnswersNameOwner` says what the pid is worth.
- A child that outlives the two seconds after a start that timed out is waited for by nobody. If it
  leaves a marker behind when it dies, a status query finds it running until the next `Popen` reaps it.
- Hiding the tab, aborting a load and showing the tab before the abort has come through skips the
  load of the return (`web/src/hooks/usePollingResource.ts:70`). The end of the aborted load sets the
  timer, so the page is late and not stuck; `EndReachesPage` rests on exactly that.
- `refresh()` during a load is dropped in the same way: after an action the page can show the state
  before it until the next poll.

## Proofs

A `_proofs` module extends the module it is about. All theorems hold for every value of the
constants that the named `ASSUME` of the module admits. Each model has one
inductive invariant (`IInv`; `CInv` and `MInv` for the compositions and the migrations), with the
lemmas that the initial states satisfy it and that every step keeps it, from which the theorems
follow. Properties of a history or of a graph add a conjunct of their own.

- **SchedulerControl_proofs**, first of `SchedulerOwnership` (`TypeCorrect`, `Exclusion`,
  `Advertisement`, `Withdrawal`, `FailClosed`). Exclusion follows from `LeaseHeld`: whoever is
  between lock and unlock holds the lease. The marker needs more: `MarkerKnown` says what each place
  in the program knows of it, and its last conjunct keeps the marker of a live process apart from
  one left behind. Recovery is safe because what has been verified is unlinked under the lease, and
  a dead instance stays dead.
- **SchedulerControl_proofs**, then of the composition (`ControlImplements`, `TruthfulStart`,
  `TruthfulNotRunning`, `ExactStop`), for every `Overlap` and `Casts`. `ControlImplements` says that
  the composition takes only steps of `SchedulerOwnership`, so the theorems above hold of it. The
  others need what each place of a request knows (`StartKnown`, `StopKnown`), that a pid is held by
  one process at a time (`PidsHeldOnce`, in which unreaped children count), and for "not running"
  that an observation of a dead owner dates back to an instant of the request without an owner
  (`QuietKnown`).
- **DagScheduling_proofs** (`TypeCorrect`, `RunInProgress`, `Reactions`, `Final`, `RowsImplement`,
  `MarksWhatItSaw`, `OneRowPerDaemon`, `NeverBesideAnOlderRun`).
  What reconciliation is about to interrupt belongs to the dead (`SuspectsOK`), so it is never a
  run in progress. And a run id on its way to a reaction row is one of a success (`SuccessesOK`)
  through three places that hold it. Both need the step lemma `RowsKept`: rows are only added, and
  keep their DAG, their owner, a final status and the death of their owner. `MarksWhatItSaw` adds a
  third: from `Open` on, the run of the daemon has seen every success that the decision about its DAG
  captured, and until the marks are done the first due DAG is the one that was run (`SeenOK`).
  `RowsImplement` has one lemma for each kind of step that writes a row, and needs `SuspectsOK` again: an
  `Interrupt` is one of `RunTable` because the row's process is dead. `OneRowPerDaemon` says that the
  daemon executes one run at a time and abandons none while it lives (`OwnRowOK`).
- **DagExecution_proofs** (`TypeCorrect`, `RunsOnSuccess`, `NoSilentRetries`, `Truthful`,
  `Explained`, `Implements`). `LoopOK` ties the sets of the loop to the rows. `DoomedOK` says that
  what depends on a failure, through however many tasks, is withheld; the lemmas about the least
  closed set (`DoomedClosed`, `DoomedLeast`, `DoomedGrows`) carry it. `Implements` maps every step to one
  of `DagRun` or to a stutter, and `RowImplements` does the same for `RunTable`. `NeverStuck` shows that
  the topological order has exactly one next task while one is left: the ready ones are not empty
  because the graph is acyclic, and the first of them by position is unique.
- **RunMonitor_proofs** (`MonitorWatches`, `CoherentAnswers`, `NoRegress`). What a query has read of a
  run either still holds or is one the run was on its way from (`RunSeen`, `AttemptsSeen`, `TasksSeen`):
  rows of a run only progress. The order of the queries does the rest, the run's row being read
  first. That a page never goes back needs that at most one load is in flight.
- **TaskGraph_proofs** (`TypeCorrect`, `Accepted`, `Reported`, `Refused`, `Orders`, `Searches`,
  `RecursionBounded`, `Progress`).
  For the cycle check: the tasks done are closed under dependencies and acyclic, and the tasks being
  visited are the path, each a dependency of the one before. For the search: a task that has been
  found and is not queued has had everything behind it found. `Refused` adds that no acyclic graph
  is ever refused. `RecursionBounded`: the tasks on the path are different ones, so `visit()` is never
  deeper in its recursion than the DAG has tasks.
- **DagRegistry_proofs** (`TypeCorrect`, `OneSource`, `FlagIsTheUsers`, `RowIsKept`). A view of
  the row that is not stale is the row (`SeenIsCurrent`).
- **PipelineDelivery_proofs** (`TypeCorrect`, `SuccessIsDelivery`, `OnlyResets`, `PreparedFirst`,
  `ResetsAlone`). `Sees`: what a writer that resets the table will not delete is newer than its look at
  the table. Commits of others keep that because a commit number is used once. `Effects` lists
  what each kind of step can do to the table.
- **StateMigrations_proofs** (`RetryConverges`, `MigrationsNeverFail`, `OpenedComplete`): what remains
  true of a refuted property, see below. `RebuildStep` is about one statement of any rebuild, and
  `EachFits` about every statement of every script: it does not fail, and it leaves what the next one
  needs. `MInv` ties the tables to the version and to the statement that is next.

### What remains true of what is refuted

Two findings have theorems that say how far the refuted statement holds.

- *Migrations.* `SafeSpec` is `Spec` without one kind of step: a process that ends between the DROP of a
  table and the RENAME of its copy. For one opener at a time (`Opener = {o}`) and any recorded rows,
  however often and wherever else an attempt ends, no row ever leaves the store, no statement
  fails on what an earlier attempt left, and whoever gets through finds everything in its final shape. So
  the comment that finding 5 quotes is wrong about that place and about no other.
- *Concurrent runs of a DAG.* `LookedSpec` is `Spec` with one more history variable, the number of rows
  at the tick's look. A run of the daemon stands beside a running row of its DAG only if
  that row was opened after the look (`NeverBesideAnOlderRun`), and never beside a row of its own
  (`OneRowPerDaemon`).

### What is proved of termination

Fairness is out of the provers' reach, but not the other half of a termination argument. The three
theorems `EveryStepCounts` give a measure in the natural numbers, or a lexicographic tuple of such, and
prove that every step lowers it. `DagExecution`: tasks not visited, then the attempts and completions
left to the task in progress. `TaskGraph`: for each algorithm what it has not yet visited, ordered or
found. `PipelineDelivery`: for each writer its attempts left, its place in the attempt, the actions
to invoke; and no step of another writer raises them. With the fairness of the runs, and a step being
possible (`NeverStuck`, `Progress`), `Terminates` and `TaskEnds` follow. The first two assume that the
set of tasks is finite, as a file is.

Every safety property of a run that passes is a theorem. The liveness properties are only
model-checked, since the provers do not reach fairness: `StartResolves`, `StopHonoured`,
`TimedOutChildEnds`, `RequestsReturn`, `NoLastingZombie`, `AbandonedIsInterrupted`, `TriggerServed`,
`Terminates` of `DagExecution` and of `TaskGraph`, `EndReachesPage`, `TaskEnds`. So are the
counterexamples to the refuted properties.

## Not modelled

- *Development launcher* (`cli/development.py`): a sequential supervisor of two child processes whose
  `finally` terminates whatever it has started. It shares no state with the rest; what could go wrong
  lies in process groups, job objects and ports of the operating system, and a model would have
  to invent them.
- *A file that declares another name than the registered one* (`scheduler/daemon.py:151`): the daemon
  runs it under the name it declares. The models identify a scheduled DAG with its file; only
  `DagRegistry` has files that declare a name, and nothing says what should become of the DAG
  registered under the old one.
- *CSV destination, and all sources*: a file is written by one `open()`; a source is a free choice
  of rows. A CSV write that fails half way leaves a short file, and no other part reads it.
- *YAML and Pydantic validation, `config/`, `dag/models.py`*: declarations without state. The
  modules have their outcomes.
- *`scheduler/interval.py`*: a regular expression. A schedule parses or not.
- *Transformations*: functions on rows. They reject a batch or pass one on.
- *Script jobs*: one subprocess per attempt. It succeeds, raises, or never ends.
- *Loading of local functions and handlers*: arbitrary user code at import.
- *The other API queries, redaction, rendering, completion, the other pages*: they read and format.
  `cli/_nexo_kitty_payload.py`, almost half of the Python lines, is an encoded picture. The
  `refreshing` and error indicators of a page are left out, and so is an edit of a DAG's file while
  its page is open, which changes the tasks the page lists.
- *Delays*: of polls, retries and timers. A delay is over at any moment; its length is nowhere used.
- *Failing system calls on the requester's own child*: `terminate()` and `wait()` of
  `scheduler/control.py` are taken to succeed. The fork itself can fail.
- *Windows*: `tasklist` and `msvcrt` differ in calls, not in what they answer. `write_pidfile()` is
  a helper of tests.
- *Release validation*: compares version strings.
- *The recursion limit* in `visit()`: the models have no stack limit. `RecursionBounded` says that the
  recursion is as deep as the longest chain can be, and a chain of about a thousand tasks reaches the
  interpreter's limit.

## Plan

The order of work, most important behaviour first: `SchedulerOwnership`, `DagScheduling`, `DagRun`
with `DagExecution`, `TaskGraph`, `DagRegistry`, `PipelineDelivery`, then `SchedulerControl` over
`SchedulerOwnership`, `StateMigrations`, and `RunMonitor` over `DagExecution`. All of it is built. What
composes what:

- `SchedulerControl` composes requests, processes and the marker; `ControlImplements` and the common
  run keep it one system with `SchedulerOwnership`.
- `DagScheduling` composes the daemon, manual runs, the executor and the store, with the tasks of a
  run as one step; `DagExecution` is that step in detail, and implements `DagRun`. Both implement
  `RunTable`, so what the two say of a row of `dag_runs` is the same.
- `RunMonitor` composes `DagExecution` with the API and a page; `MonitorWatches` does the same for it.
- `PipelineDelivery` composes runner, destination, actions and retries.

Left out of the plan that was first made: an abstract owner above `SchedulerOwnership`, because
`AtMostOneScheduler`, `MarkerNamesOwner` and `OnlyOwnerWithdraws` already say all that it would say;
a mapping from `DagExecution` to `Complete` of `DagScheduling`, because the two share one variable, the
status of the run, and the common abstraction `RunTable` says about it what the mapping would; the
launcher and the renamed file, for the reasons above.
