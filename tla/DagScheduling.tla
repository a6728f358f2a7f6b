---------------------------- MODULE DagScheduling ----------------------------
(***************************************************************************)
(* The scheduler daemon over the state store, together with everybody else *)
(* who runs a DAG: a manual `nexolith run`, an API request, a session.     *)
(*                                                                         *)
(* One daemon (see SchedulerOwnership) ticks: it reconciles abandoned runs *)
(* once in its life, takes a snapshot, decides for every registered DAG    *)
(* whether it is due, and only then executes the due ones, by priority and *)
(* name (scheduler/daemon.py).  A worker outside it asks nobody before it  *)
(* runs a DAG.  All of them go through DagExecutor.run(), whose tasks are  *)
(* one step here (module DagExecution refines it), and share dags,         *)
(* dag_runs and dag_trigger_reactions.  Every store call is a transaction  *)
(* of its own, so every store call is a step of its own.                   *)
(***************************************************************************)
EXTENDS Naturals, Sequences, FiniteSets

CONSTANTS
    Dag,            \* DAG names, each with one file
    NoDag,          \* not a DAG
    Upstreams,      \* [Dag -> SUBSET Dag], trigger.on_success_of of the file
    Rank,           \* [Dag -> Nat], _PRIORITY_RANK of the file's priority
    NamePos,        \* [Dag -> Nat], the position of the name in name order
    Scheduled,      \* the DAGs whose dags row has a schedule that parses
    Manual,         \* processes outside the daemon that run DAGs
    Daemon,         \* the scheduler process
    Unverifiable,   \* workers whose identity cannot be looked up
    Editable,       \* [Dag -> SUBSET FileState], what editing can make of a file
    ByHand,         \* bound: the DAGs that users run or pause
    Known,          \* bound: the DAGs registered at first
    MaxRuns         \* bound: rows of dag_runs

Worker == Manual \cup {Daemon}

\* A file is "invalid" to read_dag_config(), or "unrunnable" to load_dag() only.
FileState == {"ok", "invalid", "unrunnable"}

ASSUME SchedulingAssumption ==
    /\ Upstreams \in [Dag -> SUBSET Dag] /\ \A d \in Dag : d \notin Upstreams[d]
    /\ Rank \in [Dag -> 0..3]
    /\ NamePos \in [Dag -> Nat]
    /\ \A d, e \in Dag : NamePos[d] = NamePos[e] => d = e
    /\ Daemon \notin Manual /\ NoDag \notin Dag
    /\ Scheduled \subseteq Dag /\ Unverifiable \subseteq Worker
    /\ Editable \in [Dag -> SUBSET FileState]
    /\ ByHand \subseteq Dag /\ Known \subseteq Dag /\ MaxRuns \in Nat

VARIABLES
    (* the store *)
    registered,   \* names with a dags row
    enabled,      \* enabled[d]: dags.enabled
    runs,         \* dag_runs: the id is the index
    reacted,      \* reacted[d][u]: last_reacted_run_id, 0 for no row
    (* the files *)
    file,         \* file[d]: what the file of d, and the pipelines it names, are
    (* a call of execute_dag() in a worker *)
    pc,           \* pc[w]: where worker w is in it
    target,       \* target[w]: the DAG it runs
    run,          \* run[w]: its dag_runs id
    left,         \* left[w]: upstreams whose reaction it has still to record
    held,         \* held[w]: the (upstream, run id) it is about to record
    (* a tick of the daemon *)
    phase,        \* where the daemon is
    suspects,     \* the runs being reconciled
    listed,       \* the DAGs of todo that list_dags() returned as enabled
    todo,         \* DAGs of list_dags() not running, still to decide
    interval,     \* interval_due of the DAG being decided
    due,          \* the due list: <<DAG, the rank of its priority>>
    captured,     \* captured[d]: satisfied_upstreams
    (* history, never read by the code *)
    handled       \* every <<d, u, run id>> ever written to reacted

store    == <<registered, enabled, runs, reacted>>
call     == <<pc, target, run, left, held>>
tick     == <<suspects, listed, todo, interval, due, captured>>
vars     == <<store, file, call, phase, tick, handled>>

-----------------------------------------------------------------------------
(* The queries of the store *)

RunIds == DOMAIN runs

\* latest_dag_run(): i has the highest id of the runs of d, whatever its status.
Latest(i, d) ==
    /\ runs[i].dag = d
    /\ \A j \in RunIds : runs[j].dag = d => j <= i

NeverRun(d) == \A i \in RunIds : runs[i].dag # d

\* Mutant: the status of the latest run is not looked at.
Succeeded_AnyStatus(u, i) == Latest(i, u)

\* The latest run of u is i, and it succeeded.
Succeeded(u, i) == Latest(i, u) /\ runs[i].status = "succeeded"

\* A row in another status, and a row whose owner has died.
WithStatus(r, s) ==
    [dag |-> r.dag, status |-> s, owner |-> r.owner, orphan |-> r.orphan, saw |-> r.saw]

AsOrphan(r) ==
    [dag |-> r.dag, status |-> r.status, owner |-> r.owner, orphan |-> TRUE, saw |-> r.saw]

\* list_incomplete_dag_runs()
Incomplete == {i \in RunIds : runs[i].status = "running"}

\* FOUND with the stored identity or with another one, NOT_FOUND, or an error.
LookupAnswers == {"matching", "replaced", "not_found", "unavailable"}

\* What a look-up of the pid of run i's owner can find.  The pid of a process
\* that has ended may have been given to another.
OwnerLookup(i) ==
    IF runs[i].owner \in Unverifiable THEN {"unavailable"}
    ELSE IF runs[i].orphan THEN {"not_found", "replaced"} ELSE {"matching"}

\* record_trigger_reaction(): an upsert.
RecordReaction(d, u, i) ==
    /\ reacted' = [reacted EXCEPT ![d][u] = i]
    /\ handled' = handled \cup {<<d, u, i>>}

\* The next of a set of DAGs in the order of list_dags(), and of the due list.
FirstByName(d, S) ==
    d \in S /\ \A e \in S : NamePos[d] <= NamePos[e]

FirstDue(x) ==
    /\ x \in due
    /\ \A y \in due : \/ y[2] < x[2]
                     \/ (y[2] = x[2] /\ NamePos[x[1]] <= NamePos[y[1]])

-----------------------------------------------------------------------------
Init ==
    /\ registered = Known
    /\ enabled = [d \in Dag |-> TRUE]
    /\ runs = << >>
    /\ reacted = [d \in Dag |-> [u \in Dag |-> 0]]
    /\ file = [d \in Dag |-> "ok"]
    /\ pc = [w \in Worker |-> "idle"]
    /\ target = [w \in Worker |-> NoDag]
    /\ run = [w \in Worker |-> 0]
    /\ left = [w \in Worker |-> {}]
    /\ held = [w \in Worker |-> << >>]
    /\ phase = "down"
    /\ suspects = {} /\ listed = {} /\ todo = {} /\ interval = FALSE /\ due = {}
    /\ captured = [d \in Dag |-> {}]
    /\ handled = {}

\* The call is over and its locals are gone.
Reset(w) ==
    /\ pc' = [pc EXCEPT ![w] = "idle"]
    /\ target' = [target EXCEPT ![w] = NoDag]
    /\ run' = [run EXCEPT ![w] = 0]
    /\ left' = [left EXCEPT ![w] = {}]
    /\ held' = [held EXCEPT ![w] = << >>]

\* A tick is over, and its locals are gone.
NoTick ==
    /\ suspects' = {} /\ listed' = {} /\ todo' = {} /\ interval' = FALSE /\ due' = {}
    /\ captured' = [d \in Dag |-> {}]

\* A process that has ended leaves its rows behind, and their owner is dead.
Orphaned(w) ==
    [i \in RunIds |-> IF runs[i].owner = w THEN AsOrphan(runs[i]) ELSE runs[i]]

DaemonGone == phase' = "down" /\ NoTick /\ runs' = Orphaned(Daemon)

-----------------------------------------------------------------------------
(* execute_dag() in worker w, and DagExecutor.run() *)

\* A manual run or an API trigger: no look at who else runs the DAG.
Begin(w, d) ==
    /\ w \in Manual /\ pc[w] = "idle" /\ d \in ByHand
    /\ pc' = [pc EXCEPT ![w] = "load"]
    /\ target' = [target EXCEPT ![w] = d]
    /\ UNCHANGED <<store, file, run, left, held, phase, tick, handled>>

\* load_dag() accepts the file and every pipeline it names.
Load(w) ==
    /\ pc[w] = "load"
    /\ file[target[w]] = "ok"
    /\ pc' = [pc EXCEPT ![w] = "open"]
    /\ UNCHANGED <<store, file, target, run, left, held, phase, tick, handled>>

\* load_dag() raises ConfigurationError.  The caller of a manual run reports
\* it; tick() does not catch it, and run() leaves its loop: the daemon ends.
LoadFails(w) ==
    /\ pc[w] = "load"
    /\ file[target[w]] # "ok"
    /\ Reset(w)
    /\ IF w = Daemon THEN DaemonGone ELSE UNCHANGED <<runs, phase, tick>>
    /\ UNCHANGED <<registered, enabled, reacted, file, handled>>

\* A DAG without a dags row is registered first (DagRegistry has the details).
Ensure(w) ==
    /\ pc[w] = "open"
    /\ registered' = registered \cup {target[w]}
    /\ pc' = [pc EXCEPT ![w] = "start"]
    /\ UNCHANGED <<enabled, runs, reacted, file, target, run, left, held, phase, tick, handled>>

\* start_dag_run(), with w as the owner.  `saw` is history: the successes that a
\* run in the daemon has before it.
Open(w) ==
    /\ pc[w] = "start"
    /\ Len(runs) < MaxRuns
    /\ runs' = Append(runs, [dag |-> target[w], status |-> "running", owner |-> w,
                             orphan |-> FALSE,
                             saw |-> IF w = Daemon
                                     THEN {i \in RunIds : runs[i].status = "succeeded"}
                                     ELSE {}])
    /\ run' = [run EXCEPT ![w] = Len(runs) + 1]
    /\ pc' = [pc EXCEPT ![w] = "tasks"]
    /\ UNCHANGED <<registered, enabled, reacted, file, target, left, held, phase, tick, handled>>

\* Every task has its final status: complete_dag_run(), in whatever status
\* the row is by now.
Complete(w) ==
    /\ pc[w] = "tasks"
    /\ \E status \in {"succeeded", "failed"} :
         runs' = [runs EXCEPT ![run[w]] = WithStatus(@, status)]
    /\ left' = [left EXCEPT ![w] = Upstreams[target[w]]]
    /\ pc' = [pc EXCEPT ![w] = "react"]
    /\ UNCHANGED <<registered, enabled, reacted, file, target, run, held, phase, tick, handled>>

\* Mutant: the rows are counted from zero.
React_FromZero(w) ==
    /\ pc[w] = "react"
    /\ \E u \in left[w], i \in RunIds :
         /\ Succeeded(u, i)
         /\ held' = [held EXCEPT ![w] = <<u, i - 1>>]
    /\ pc' = [pc EXCEPT ![w] = "record"]
    /\ UNCHANGED <<store, file, target, run, left, phase, tick, handled>>

\* _record_cross_dag_reactions(): look at one upstream's latest run (they go in
\* the order the file gives, which is left open here) ...
React(w) ==
    /\ pc[w] = "react"
    /\ \E u \in left[w] :
         \/ \E i \in RunIds :
              /\ Succeeded(u, i)
              /\ held' = [held EXCEPT ![w] = <<u, i>>]
              /\ pc' = [pc EXCEPT ![w] = "record"]
              /\ UNCHANGED left
         \/ /\ ~\E i \in RunIds : Succeeded(u, i)
            /\ left' = [left EXCEPT ![w] = @ \ {u}]
            /\ UNCHANGED <<held, pc>>
    /\ UNCHANGED <<store, file, target, run, phase, tick, handled>>

\* ... and record it, in a transaction of its own.
Record(w) ==
    /\ pc[w] = "record"
    /\ RecordReaction(target[w], held[w][1], held[w][2])
    /\ left' = [left EXCEPT ![w] = @ \ {held[w][1]}]
    /\ held' = [held EXCEPT ![w] = << >>]
    /\ pc' = [pc EXCEPT ![w] = "react"]
    /\ UNCHANGED <<registered, enabled, runs, file, target, run, phase, tick>>

\* execute_dag() returns.
Return(w) ==
    /\ pc[w] = "react"
    /\ left[w] = {}
    /\ phase' = IF w = Daemon THEN "mark" ELSE phase
    /\ Reset(w)
    /\ UNCHANGED <<store, file, tick, handled>>

\* The process ends: after the call, or by dying anywhere in it.
EndManual(w) ==
    /\ w \in Manual
    /\ runs' = Orphaned(w)
    /\ Reset(w)
    /\ UNCHANGED <<registered, enabled, reacted, file, phase, tick, handled>>

\* An exception the executor does not catch (the store's own, an interrupt)
\* ends the call in a process that lives on: the row keeps a live owner.
Escape(w) ==
    /\ w \in Manual /\ pc[w] \notin {"idle", "load"}
    /\ Reset(w)
    /\ UNCHANGED <<store, file, phase, tick, handled>>

-----------------------------------------------------------------------------
(* The daemon *)

StartDaemon ==
    /\ phase = "down"
    /\ phase' = "reconcile"
    /\ UNCHANGED <<store, file, call, tick, handled>>

\* interrupt_abandoned_dag_runs(), once in the life of a Scheduler: the rows ...
ListIncomplete ==
    /\ phase = "reconcile"
    /\ suspects' = Incomplete
    /\ phase' = "lookup"
    /\ UNCHANGED <<store, file, call, listed, todo, interval, due, captured, handled>>

\* Mutant: a run whose owner lives is taken for an abandoned one.
LookUpOwners_TrustsNobody ==
    /\ phase = "lookup"
    /\ suspects' = suspects
    /\ phase' = "interrupt"
    /\ UNCHANGED <<store, file, call, listed, todo, interval, due, captured, handled>>

\* Mutant: the pid alone is compared, a pid in use again is its old owner.
LookUpOwners_PidAlone ==
    /\ phase = "lookup"
    /\ \E answer \in [suspects -> LookupAnswers] :
         /\ \A i \in suspects : answer[i] \in OwnerLookup(i)
         /\ suspects' = {i \in suspects : answer[i] = "not_found"}
    /\ phase' = "interrupt"
    /\ UNCHANGED <<store, file, call, listed, todo, interval, due, captured, handled>>

\* ... their owners, by pid and creation time ...
LookUpOwners ==
    /\ phase = "lookup"
    /\ \E answer \in [suspects -> LookupAnswers] :
         /\ \A i \in suspects : answer[i] \in OwnerLookup(i)
         /\ suspects' = {i \in suspects : answer[i] \in {"not_found", "replaced"}}
    /\ phase' = "interrupt"
    /\ UNCHANGED <<store, file, call, listed, todo, interval, due, captured, handled>>

\* Mutant: the update is not restricted to rows still running.
Interrupt_Unguarded ==
    /\ phase = "interrupt"
    /\ runs' = [i \in RunIds |-> IF i \in suspects
                                  THEN WithStatus(runs[i], "interrupted") ELSE runs[i]]
    /\ suspects' = {}
    /\ phase' = "running"
    /\ UNCHANGED <<registered, enabled, reacted, file, call, listed, todo, interval, due,
                   captured, handled>>

\* ... and the update, of the rows that are still running.
Interrupt ==
    /\ phase = "interrupt"
    /\ runs' = [i \in RunIds |-> IF i \in suspects \cap Incomplete
                                  THEN WithStatus(runs[i], "interrupted") ELSE runs[i]]
    /\ suspects' = {}
    /\ phase' = "running"
    /\ UNCHANGED <<registered, enabled, reacted, file, call, listed, todo, interval, due,
                   captured, handled>>

\* Every decision of a tick rests on two reads.  A DAG with a running row is
\* passed over, whatever happens to that run.
ReadRunning ==
    /\ phase = "running"
    /\ todo' = Dag \ {runs[i].dag : i \in Incomplete}
    /\ phase' = "list"
    /\ UNCHANGED <<store, file, call, suspects, listed, interval, due, captured, handled>>

ListDags ==
    /\ phase = "list"
    /\ todo' = todo \cap registered
    /\ listed' = {d \in todo' : enabled[d]}
    /\ phase' = "decide"
    /\ UNCHANGED <<store, file, call, suspects, interval, due, captured, handled>>

\* The rank of "normal", the priority of a file that cannot be read.
Normal == 1

\* Leave the first DAG of todo: it is due, or it is not.
Decided(d, isDue, rank) ==
    /\ todo' = todo \ {d}
    /\ listed' = listed \ {d}
    /\ due' = IF isDue THEN due \cup {<<d, rank>>} ELSE due

\* The interval condition, then one read of the file for priority and trigger.
\* The clock is abstract: the interval since the latest start is over or not.
DecideInterval ==
    /\ phase = "decide"
    /\ \E d \in todo, elapsed \in BOOLEAN :
         /\ FirstByName(d, todo)
         /\ NeverRun(d) => elapsed
         /\ LET isDue == d \in Scheduled /\ d \in listed /\ elapsed IN
              IF file[d] = "invalid"
              THEN /\ Decided(d, isDue, Normal)
                   /\ UNCHANGED <<phase, left, interval>>
              ELSE /\ interval' = isDue
                   /\ phase' = "upstream"
                   /\ left' = [left EXCEPT ![Daemon] = Upstreams[d]]
                   /\ UNCHANGED <<todo, listed, due>>
    /\ UNCHANGED <<store, file, pc, target, run, held, suspects, captured, handled>>

\* _read_priority_and_trigger_due(): the latest run of one upstream ...
ReadUpstream ==
    /\ phase = "upstream"
    /\ \E u \in left[Daemon] :
         \/ \E i \in RunIds :
              /\ Succeeded(u, i)
              /\ held' = [held EXCEPT ![Daemon] = <<u, i>>]
              /\ phase' = "compare"
              /\ UNCHANGED left
         \/ /\ ~\E i \in RunIds : Succeeded(u, i)
            /\ left' = [left EXCEPT ![Daemon] = @ \ {u}]
            /\ UNCHANGED <<held, phase>>
    /\ UNCHANGED <<store, file, pc, target, run, tick, handled>>

\* ... against the run last reacted to.
Compare ==
    /\ phase = "compare"
    /\ \E d \in todo : FirstByName(d, todo) /\
         captured' = IF reacted[d][held[Daemon][1]] # held[Daemon][2]
                     THEN [captured EXCEPT ![d] = @ \cup {held[Daemon]}]
                     ELSE captured
    /\ left' = [left EXCEPT ![Daemon] = @ \ {held[Daemon][1]}]
    /\ held' = [held EXCEPT ![Daemon] = << >>]
    /\ phase' = "upstream"
    /\ UNCHANGED <<store, file, pc, target, run, suspects, listed, todo, interval, due, handled>>

\* Either condition makes the DAG due.
DecideTrigger ==
    /\ phase = "upstream" /\ left[Daemon] = {}
    /\ \E d \in todo :
         FirstByName(d, todo) /\ Decided(d, interval \/ captured[d] # {}, Rank[d])
    /\ interval' = FALSE
    /\ phase' = "decide"
    /\ UNCHANGED <<store, file, call, suspects, captured, handled>>

\* Every decision is made before the first due DAG runs.
Dispatch ==
    /\ phase \in {"decide", "dispatch"} /\ todo = {}
    /\ \E x \in due : FirstDue(x) /\ target' = [target EXCEPT ![Daemon] = x[1]]
    /\ pc' = [pc EXCEPT ![Daemon] = "load"]
    /\ phase' = "execute"
    /\ UNCHANGED <<store, file, run, left, held, tick, handled>>

\* Mutant: the latest success is marked, not the run the decision saw.
Mark_LatestRun ==
    /\ phase = "mark"
    /\ \E x \in due : FirstDue(x) /\ \E c \in captured[x[1]] :
         /\ \E i \in RunIds : Succeeded(c[1], i) /\ RecordReaction(x[1], c[1], i)
         /\ captured' = [captured EXCEPT ![x[1]] = @ \ {c}]
    /\ UNCHANGED <<registered, enabled, runs, file, call, phase, suspects, listed, todo,
                   interval, due>>

\* After the run: each upstream run captured by the decision is marked reacted.
Mark ==
    /\ phase = "mark"
    /\ \E x \in due : FirstDue(x) /\ \E c \in captured[x[1]] :
         /\ RecordReaction(x[1], c[1], c[2])
         /\ captured' = [captured EXCEPT ![x[1]] = @ \ {c}]
    /\ UNCHANGED <<registered, enabled, runs, file, call, phase, suspects, listed, todo,
                   interval, due>>

\* Mutant: a tick runs the first of its due DAGs, and forgets the others.
MarkedAll_FirstOnly ==
    /\ phase = "mark"
    /\ \E x \in due : FirstDue(x) /\ captured[x[1]] = {} /\ due' = {}
    /\ phase' = "dispatch"
    /\ UNCHANGED <<store, file, call, suspects, listed, todo, interval, captured, handled>>

MarkedAll ==
    /\ phase = "mark"
    /\ \E x \in due : FirstDue(x) /\ captured[x[1]] = {} /\ due' = due \ {x}
    /\ phase' = "dispatch"
    /\ UNCHANGED <<store, file, call, suspects, listed, todo, interval, captured, handled>>

\* The tick is over; run() starts another one, unless it was told to stop.
EndTick ==
    /\ phase \in {"decide", "dispatch"} /\ todo = {} /\ due = {}
    /\ phase' = "running"
    /\ NoTick
    /\ UNCHANGED <<store, file, call, handled>>

StopDaemon ==
    /\ phase = "running"
    /\ DaemonGone
    /\ UNCHANGED <<registered, enabled, reacted, file, call, handled>>

\* A kill, or an exception that leaves tick(): the process is gone.
CrashDaemon ==
    /\ phase # "down"
    /\ DaemonGone
    /\ Reset(Daemon)
    /\ UNCHANGED <<registered, enabled, reacted, file, handled>>

-----------------------------------------------------------------------------
(* Users *)

\* register_dag() on a file it accepts (DagRegistry has the details).
Register(d) ==
    /\ d \notin registered /\ file[d] = "ok"
    /\ registered' = registered \cup {d}
    /\ UNCHANGED <<enabled, runs, reacted, file, call, phase, tick, handled>>

\* The pause and resume actions of the API.  They accept any registered DAG;
\* nobody reads the flag of one without a schedule, which is left out here.
SetEnabled(d) ==
    /\ d \in registered /\ d \in Scheduled \cap ByHand
    /\ enabled' = [enabled EXCEPT ![d] = ~@]
    /\ UNCHANGED <<registered, runs, reacted, file, call, phase, tick, handled>>

EditFile(d) ==
    /\ file' \in {[file EXCEPT ![d] = s] : s \in Editable[d] \ {file[d]}}
    /\ UNCHANGED <<store, call, phase, tick, handled>>

-----------------------------------------------------------------------------
Execute(w) ==
    \/ Load(w) \/ LoadFails(w) \/ Ensure(w) \/ Open(w) \/ Complete(w)
    \/ React(w) \/ Record(w) \/ Return(w)

Tick ==
    \/ ListIncomplete \/ LookUpOwners \/ Interrupt
    \/ ReadRunning \/ ListDags \/ DecideInterval \/ ReadUpstream \/ Compare \/ DecideTrigger
    \/ Dispatch \/ Mark \/ MarkedAll \/ EndTick

Undisturbed ==
    \/ \E w \in Worker : Execute(w)
    \/ \E w \in Manual : EndManual(w) \/ Escape(w) \/ \E d \in Dag : Begin(w, d)
    \/ Tick \/ StartDaemon
    \/ \E d \in Dag : Register(d) \/ SetEnabled(d) \/ EditFile(d)

Next == Undisturbed \/ StopDaemon \/ CrashDaemon

Spec == Init /\ [][Next]_vars

\* Only the daemon is fair: never a user, a start or a crash, and no run outside
\* the daemon, which may take for ever.
Fairness == WF_vars(Tick) /\ WF_vars(Execute(Daemon))

FairSpec == Spec /\ Fairness

\* A daemon nobody stops or kills.
UndisturbedSpec == Init /\ [][Undisturbed]_vars /\ Fairness

-----------------------------------------------------------------------------
(* Properties *)

Statuses == {"running", "succeeded", "failed", "interrupted"}
RunId    == 1..MaxRuns
Run      == [dag : Dag, status : Statuses, owner : Worker, orphan : BOOLEAN,
             saw : SUBSET RunId]
Reaction == Dag \X RunId

\* Every variable stays in its range.
TypeOK ==
    /\ registered \subseteq Dag
    /\ enabled \in [Dag -> BOOLEAN]
    /\ runs \in Seq(Run) /\ Len(runs) <= MaxRuns
    /\ reacted \in [Dag -> [Dag -> 0..MaxRuns]]
    /\ file \in [Dag -> FileState]
    /\ pc \in [Worker -> {"idle", "load", "open", "start", "tasks", "react", "record"}]
    /\ target \in [Worker -> Dag \cup {NoDag}]
    /\ run \in [Worker -> 0..MaxRuns]
    /\ left \in [Worker -> SUBSET Dag]
    /\ held \in [Worker -> Reaction \cup {<< >>}]
    /\ phase \in {"down", "reconcile", "lookup", "interrupt", "running", "list", "decide",
                  "upstream", "compare", "dispatch", "execute", "mark"}
    /\ suspects \subseteq RunId /\ listed \subseteq Dag /\ todo \subseteq Dag
    /\ due \subseteq Dag \X (0..3)
    /\ interval \in BOOLEAN
    /\ captured \in [Dag -> SUBSET Reaction]
    /\ handled \subseteq Dag \X Dag \X RunId

\* A reaction row always names a run of its upstream that succeeded: a failed,
\* interrupted or unfinished run is never taken for one that was reacted to.
ReactionNamesASuccess ==
    \A d, u \in Dag :
        reacted[d][u] # 0 => /\ reacted[d][u] \in RunIds
                             /\ runs[reacted[d][u]].dag = u
                             /\ runs[reacted[d][u]].status = "succeeded"

\* A run in progress in a live process is still `running` in the store, and is
\* that process's own: nobody interrupts it and no other call completes it.
ExecutingRunIsOpen ==
    \A w \in Worker : pc[w] = "tasks" =>
        /\ runs[run[w]].status = "running"
        /\ runs[run[w]].owner = w /\ ~runs[run[w]].orphan

\* A final status is final, also for reconciliation.
FinalStatusKept ==
    [][\A i \in RunIds : runs[i].status # "running" => runs'[i].status = runs[i].status]_vars

\* Whatever the workers, the reconciliation and the deaths of processes do to
\* each other, dag_runs keeps the promise of RunTable.
Rows == INSTANCE RunTable WITH
    Id     <- RunId,
    status <- [i \in RunId |-> IF i \in RunIds THEN runs[i].status ELSE "none"],
    alive  <- [i \in RunId |-> i \in RunIds /\ ~runs[i].orphan]
RowsKeepPromise == Rows!Spec

\* What tick() marks as reacted after a run was a success before some run of
\* the downstream began in the daemon: tick() itself never consumes an upstream
\* that succeeds while its downstream runs.
MarkedWasSeen ==
    [][phase = "mark" /\ captured' # captured =>
         \A d, u \in Dag : reacted'[d][u] # reacted[d][u] =>
            \E i \in RunIds : /\ runs[i].dag = d /\ runs[i].owner = Daemon
                              /\ reacted'[d][u] \in runs[i].saw]_vars

\* The owner of run i has died, and that can be verified.
Abandoned(i) == runs[i].orphan /\ runs[i].owner \notin Unverifiable

\* A fresh daemon frees every DAG whose run lost its process, also when the pid
\* of that process is in use again, unless it cannot verify that.
AbandonedIsInterrupted ==
    \A i \in RunId :
        (phase = "reconcile" /\ i \in Incomplete /\ Abandoned(i))
          ~> (i \notin Incomplete \/ phase = "down")

Running(d) == \E i \in Incomplete : runs[i].dag = d

\* DAG d is to react to the latest run of u: no run of d stands in the way, and
\* no call on d is still to record what it reacts to.
Waiting(d, u) ==
    /\ phase # "down" /\ d \in registered /\ file[d] # "invalid"
    /\ \E i \in RunIds : Succeeded(u, i) /\ reacted[d][u] # i
    /\ ~Running(d)
    /\ \A w \in Worker : target[w] = d => pc[w] \notin {"tasks", "react", "record"}

\* The bound on runs, and nothing in the code, keeps the daemon from going on,
\* and the run it is about to open is at most the second of its DAG since row n:
\* one was in the batch already decided, one is in that of the DAG that waits.
AtBound(n) ==
    /\ Len(runs) = MaxRuns /\ pc[Daemon] = "start"
    /\ \A i, j \in (n + 1)..MaxRuns :
         /\ runs[i].dag = target[Daemon] /\ runs[i].owner = Daemon
         /\ runs[j].dag = target[Daemon] /\ runs[j].owner = Daemon
         => i = j

\* A success of an upstream is followed by a run of the downstream, whatever
\* else is due, of whatever priority, as often as it likes, and however the
\* daemon came up.  The exceptions: the upstream runs again first, the file of
\* the downstream cannot be read, or the daemon goes down.  With a file that is
\* mended, or a daemon that is started again, the promise is made again.
TriggerServed ==
    \A d \in Dag : \A u \in Upstreams[d] : \A n \in 1..MaxRuns :
        (Waiting(d, u) /\ Len(runs) = n)
          ~> \/ \E i \in RunIds : i > n /\ runs[i].dag \in {d, u}
             \/ phase = "down" \/ file[d] = "invalid"
             \/ AtBound(n)

(* Statements of the code's own documentation; the runs refute them. *)

\* daemon.py, tick(): a declaration that cannot be read "on one DAG is logged
\* and skipped" and never takes down the whole daemon.
DaemonSurvivesBadFile ==
    [][phase # "down" => phase' # "down"]_vars

\* daemon.py, tick(): the running-DAG check "prevents duplicate concurrent
\* execution" of a DAG the daemon found due.
DaemonNeverDuplicates ==
    [][pc[Daemon] = "start" /\ pc'[Daemon] = "tasks" => ~Running(target[Daemon])]_vars

\* test_cross_dag_triggers.py: no re-trigger off an upstream completion that
\* was already reacted to.
NeverRetriggers ==
    [][\A d \in Dag : \A c \in captured'[d] \ captured[d] : <<d, c[1], c[2]>> \notin handled]_vars

=============================================================================
