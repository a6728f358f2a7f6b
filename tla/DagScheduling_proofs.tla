------------------------- MODULE DagScheduling_proofs -------------------------
(***************************************************************************)
(* For any set of DAGs, triggers, priorities and workers: what the store   *)
(* says of a run in progress, of a finished run, and of a reaction.        *)
(***************************************************************************)
EXTENDS DagScheduling, TLAPS, SequenceTheorems

\* i is a run of u that succeeded; by RowsKept it is so for good.
SuccessOf(u, i) == i \in RunIds /\ runs[i].dag = u /\ runs[i].status = "succeeded"

\* A call in progress is of a DAG, and the daemon's is the one its tick waits for.
CallsOK ==
    /\ \A w \in Worker : pc[w] # "idle" => target[w] \in Dag
    /\ \A w \in Worker : pc[w] = "tasks" => run[w] \in RunIds
    /\ \A w \in Worker : pc[w] = "record" => held[w] # << >>
    /\ pc[Daemon] # "idle" => phase = "execute"
    /\ phase = "compare" => held[Daemon] # << >>

\* What is about to be interrupted belongs to the dead.
SuspectsOK ==
    /\ phase = "lookup" => suspects \subseteq RunIds
    /\ phase = "interrupt" => \A i \in suspects : i \in RunIds /\ runs[i].orphan

\* Every run id on its way into a reaction row is one of a success.
SuccessesOK ==
    /\ \A w \in Worker : held[w] # << >> => SuccessOf(held[w][1], held[w][2])
    /\ \A d \in Dag : \A c \in captured[d] : SuccessOf(c[1], c[2])
    /\ \A d, u \in Dag : reacted[d][u] # 0 => SuccessOf(u, reacted[d][u])

IInv == TypeOK /\ CallsOK /\ SuspectsOK /\ ExecutingRunIsOpen /\ SuccessesOK

\* Rows are only added; a row keeps its DAG, its owner, a final status, and the
\* death of its owner.
RowsKept ==
    /\ Len(runs) <= Len(runs')
    /\ \A i \in RunIds :
         /\ i \in DOMAIN runs'
         /\ runs'[i].dag = runs[i].dag /\ runs'[i].owner = runs[i].owner
         /\ runs'[i].saw = runs[i].saw
         /\ runs[i].status # "running" => runs'[i].status = runs[i].status
         /\ runs[i].orphan => runs'[i].orphan

-----------------------------------------------------------------------------
(* The rows *)

LEMMA RowType ==
  ASSUME TypeOK, NEW i \in RunIds
  PROVE  /\ runs[i] \in Run /\ i \in RunId /\ i \in 1..Len(runs)
         /\ runs[i].dag \in Dag /\ runs[i].owner \in Worker
<1>1. runs \in Seq(Run) /\ Len(runs) <= MaxRuns /\ MaxRuns \in Nat
  BY SchedulingAssumption DEF TypeOK
<1>2. i \in 1..Len(runs) /\ Len(runs) \in Nat /\ RunIds = 1..Len(runs)
  BY <1>1 DEF RunIds
<1>3. i \in RunId /\ runs[i] \in Run
  BY <1>1, <1>2 DEF RunId
<1>4. runs[i].dag \in Dag /\ runs[i].owner \in Worker
  BY <1>3 DEF Run
<1> QED
  BY <1>2, <1>3, <1>4

\* A rewrite of the rows one by one keeps dag_runs a sequence of rows.
LEMMA Rewritten ==
  ASSUME TypeOK, NEW f, DOMAIN f = RunIds, f = [i \in RunIds |-> f[i]],
         \A i \in RunIds : f[i] \in Run
  PROVE  f \in Seq(Run) /\ Len(f) = Len(runs)
<1>1. RunIds = 1..Len(runs) /\ Len(runs) \in Nat
  BY DEF TypeOK, RunIds
<1> QED
  BY <1>1

LEMMA WithStatusType ==
  ASSUME NEW r \in Run, NEW s \in Statuses
  PROVE  WithStatus(r, s) \in Run
  BY DEF WithStatus, Run

LEMMA AsOrphanType ==
  ASSUME NEW r \in Run
  PROVE  AsOrphan(r) \in Run
  BY DEF AsOrphan, Run

LEMMA OrphanedRows ==
  ASSUME TypeOK, NEW w \in Worker, runs' = Orphaned(w)
  PROVE  runs' \in Seq(Run) /\ Len(runs') = Len(runs) /\ RowsKept
<1>1. \A i \in RunIds : Orphaned(w)[i] \in Run
  BY RowType, AsOrphanType DEF Orphaned
<1>2. runs' \in Seq(Run) /\ Len(runs') = Len(runs)
  BY <1>1, Rewritten DEF Orphaned
<1>3. RowsKept
  BY <1>2, RowType DEF Orphaned, AsOrphan, RowsKept, RunIds, TypeOK
<1> QED
  BY <1>2, <1>3

LEMMA OpenRows ==
  ASSUME TypeOK, NEW w \in Worker, target[w] \in Dag, Open(w)
  PROVE  /\ runs' \in Seq(Run) /\ Len(runs') = Len(runs) + 1 /\ Len(runs') <= MaxRuns
         /\ RowsKept
         /\ runs'[Len(runs) + 1].status = "running"
         /\ runs'[Len(runs) + 1].owner = w /\ ~runs'[Len(runs) + 1].orphan
<1> DEFINE row == [dag |-> target[w], status |-> "running", owner |-> w, orphan |-> FALSE,
                   saw |-> IF w = Daemon
                           THEN {i \in RunIds : runs[i].status = "succeeded"}
                           ELSE {}]
<1>1. runs \in Seq(Run) /\ Len(runs) \in Nat /\ MaxRuns \in Nat /\ RunIds = 1..Len(runs)
  BY SchedulingAssumption DEF TypeOK, RunIds
<1>2. row \in Run
  BY RowType DEF Run, Statuses
<1>3. runs' = Append(runs, row) /\ Len(runs) < MaxRuns
  BY DEF Open
<1>4. /\ runs' \in Seq(Run) /\ Len(runs') = Len(runs) + 1
      /\ \A i \in 1..Len(runs) : runs'[i] = runs[i]
      /\ runs'[Len(runs) + 1] = row
  <2> HIDE DEF row
  <2> QED BY <1>1, <1>2, <1>3
<1>5. DOMAIN runs' = 1..Len(runs')
  BY <1>4
<1>6. RowsKept
  BY <1>1, <1>4, <1>5 DEF RowsKept
<1> QED
  BY <1>1, <1>3, <1>4, <1>6

LEMMA CompleteRows ==
  ASSUME TypeOK, NEW w \in Worker, run[w] \in RunIds, runs[run[w]].status = "running",
         Complete(w)
  PROVE  runs' \in Seq(Run) /\ Len(runs') = Len(runs) /\ RowsKept
<1>1. PICK status \in {"succeeded", "failed"} :
        runs' = [runs EXCEPT ![run[w]] = WithStatus(@, status)]
  BY DEF Complete
<1>2. runs \in Seq(Run) /\ Len(runs) \in Nat /\ RunIds = 1..Len(runs)
  BY DEF TypeOK, RunIds
<1>3. WithStatus(runs[run[w]], status) \in Run
  BY WithStatusType, RowType DEF Statuses
<1>4. runs' \in Seq(Run) /\ Len(runs') = Len(runs) /\ DOMAIN runs' = RunIds
  BY <1>1, <1>2, <1>3
<1>5. RowsKept
  BY <1>1, <1>2, <1>4 DEF RowsKept, WithStatus
<1> QED
  BY <1>4, <1>5

LEMMA InterruptRows ==
  ASSUME TypeOK, Interrupt
  PROVE  runs' \in Seq(Run) /\ Len(runs') = Len(runs) /\ RowsKept
<1> DEFINE after == [i \in RunIds |-> IF i \in suspects \cap Incomplete
                                     THEN WithStatus(runs[i], "interrupted") ELSE runs[i]]
<1>1. runs' = after
  BY DEF Interrupt
<1>2. \A i \in RunIds : after[i] \in Run
  BY RowType, WithStatusType DEF Statuses
<1>3. runs' \in Seq(Run) /\ Len(runs') = Len(runs)
  BY <1>1, <1>2, Rewritten
<1>4. Len(runs) \in Nat
  BY DEF TypeOK
<1>5. ASSUME NEW i \in RunIds
      PROVE  /\ i \in DOMAIN runs'
             /\ runs'[i].dag = runs[i].dag /\ runs'[i].owner = runs[i].owner
             /\ runs'[i].saw = runs[i].saw
             /\ runs[i].status # "running" => runs'[i].status = runs[i].status
             /\ runs[i].orphan => runs'[i].orphan
  <2>1. i \in DOMAIN runs' /\ runs'[i] = after[i]
    BY <1>1, <1>5
  <2>2. CASE i \in suspects \cap Incomplete
    <3>1. runs[i].status = "running" /\ runs'[i] = WithStatus(runs[i], "interrupted")
      BY <2>1, <2>2, <1>5 DEF Incomplete
    <3> QED
      BY <2>1, <3>1 DEF WithStatus
  <2>3. CASE i \notin suspects \cap Incomplete
    BY <2>1, <2>3, <1>5
  <2> QED
    BY <2>2, <2>3
<1>6. RowsKept
  BY <1>3, <1>4, <1>5 DEF RowsKept
<1> QED
  BY <1>3, <1>6

\* What a step does to the rows: it rewrites none but for the four below.
LEMMA RowsWriters ==
  ASSUME [Next]_vars
  PROVE  \/ runs' = runs
         \/ \E w \in Worker : Open(w) \/ Complete(w)
         \/ \E w \in Worker : runs' = Orphaned(w)
         \/ Interrupt
<1>1. ASSUME NEW w \in Worker, Execute(w), ~Open(w), ~Complete(w)
      PROVE  runs' = runs \/ runs' = Orphaned(Daemon)
  BY <1>1 DEF Execute, Load, LoadFails, Ensure, React, Record, RecordReaction, Return,
              DaemonGone, store
<1>2. ASSUME Tick, ~Interrupt PROVE runs' = runs
  BY <1>2 DEF Tick, ListIncomplete, LookUpOwners, ReadRunning, ListDags, DecideInterval,
              ReadUpstream, Compare, DecideTrigger, Dispatch, Mark, MarkedAll, EndTick,
              RecordReaction, store
<1>3. Daemon \in Worker /\ Manual \subseteq Worker
  BY DEF Worker
<1>4. ASSUME NEW w \in Manual, EndManual(w) \/ Escape(w) \/ \E d \in Dag : Begin(w, d)
      PROVE  runs' = runs \/ runs' = Orphaned(w)
  BY <1>4 DEF EndManual, Escape, Begin, store
<1>5. ASSUME StopDaemon \/ CrashDaemon PROVE runs' = Orphaned(Daemon)
  BY <1>5 DEF StopDaemon, CrashDaemon, DaemonGone
<1>6. ASSUME StartDaemon \/ (\E d \in Dag : Register(d) \/ SetEnabled(d) \/ EditFile(d)) \/ UNCHANGED vars
       PROVE  runs' = runs
  BY <1>6 DEF StartDaemon, Register, SetEnabled, EditFile, vars, store
<1> QED
  BY <1>1, <1>2, <1>3, <1>4, <1>5, <1>6 DEF Next, Undisturbed

LEMMA RowsStep ==
  ASSUME IInv, [Next]_vars
  PROVE  runs' \in Seq(Run) /\ Len(runs') <= MaxRuns /\ RowsKept
<1>0. TypeOK /\ runs \in Seq(Run) /\ Len(runs) <= MaxRuns /\ Len(runs) \in Nat
  BY DEF IInv, TypeOK
<1>1. ASSUME runs' = runs PROVE RowsKept
  BY <1>0, <1>1 DEF RowsKept, RunIds
<1>2. ASSUME NEW w \in Worker, Open(w) PROVE runs' \in Seq(Run) /\ Len(runs') <= MaxRuns /\ RowsKept
  BY <1>2, OpenRows DEF IInv, CallsOK, Open
<1>3. ASSUME NEW w \in Worker, Complete(w) PROVE runs' \in Seq(Run) /\ Len(runs') = Len(runs) /\ RowsKept
  BY <1>3, CompleteRows DEF IInv, CallsOK, ExecutingRunIsOpen, Complete
<1>4. CASE \E w \in Worker : runs' = Orphaned(w)
  BY <1>0, <1>4, OrphanedRows
<1>5. CASE Interrupt
  BY <1>0, <1>5, InterruptRows
<1> QED
  BY <1>0, <1>1, <1>2, <1>3, <1>4, <1>5, RowsWriters

-----------------------------------------------------------------------------
(* Types *)

\* TypeOK without the rows, which RowsStep is about.
RestOK ==
    /\ registered \subseteq Dag
    /\ enabled \in [Dag -> BOOLEAN]
    /\ reacted \in [Dag -> [Dag -> 0..MaxRuns]]
    /\ file \in [Dag -> FileState]
    /\ pc \in [Worker -> {"idle", "load", "open", "start", "tasks", "react", "record"}]
    /\ target \in [Worker -> Dag \cup {NoDag}]
    /\ run \in [Worker -> 0..MaxRuns]
    /\ left \in [Worker -> SUBSET Dag]
    /\ held \in [Worker -> Reaction \cup {<< >>}]
    /\ phase \in {"down", "reconcile", "lookup", "interrupt", "running", "list", "decide",
                  "upstream", "compare", "dispatch", "execute", "mark"}
    /\ suspects \subseteq RunId /\ listed \subseteq Dag /\ todo \subseteq Dag
    /\ due \subseteq Dag \X (0..3)
    /\ interval \in BOOLEAN
    /\ captured \in [Dag -> SUBSET Reaction]
    /\ handled \subseteq Dag \X Dag \X RunId

LEMMA ResetType ==
  ASSUME TypeOK, NEW w \in Worker, Reset(w)
  PROVE  /\ pc' \in [Worker -> {"idle", "load", "open", "start", "tasks", "react", "record"}]
         /\ target' \in [Worker -> Dag \cup {NoDag}]
         /\ run' \in [Worker -> 0..MaxRuns]
         /\ left' \in [Worker -> SUBSET Dag]
         /\ held' \in [Worker -> Reaction \cup {<< >>}]
  BY SchedulingAssumption DEF TypeOK, Reset

LEMMA NoTickType ==
  ASSUME NoTick
  PROVE  /\ suspects' \subseteq RunId /\ listed' \subseteq Dag /\ todo' \subseteq Dag
         /\ due' \subseteq Dag \X (0..3) /\ interval' \in BOOLEAN
         /\ captured' \in [Dag -> SUBSET Reaction]
  BY DEF NoTick

\* A reaction about to be recorded is a pair of an upstream and a run id.
LEMMA HeldType ==
  ASSUME TypeOK, NEW w \in Worker, held[w] # << >>
  PROVE  held[w] \in Reaction /\ held[w][1] \in Dag /\ held[w][2] \in RunId
  BY DEF TypeOK, Reaction

LEMMA RecordReactionType ==
  ASSUME TypeOK, NEW d \in Dag, NEW u \in Dag, NEW i \in RunId, RecordReaction(d, u, i)
  PROVE  reacted' \in [Dag -> [Dag -> 0..MaxRuns]] /\ handled' \subseteq Dag \X Dag \X RunId
  BY SchedulingAssumption DEF TypeOK, RecordReaction, RunId

LEMMA ExecuteType ==
  ASSUME IInv, NEW w \in Worker, Execute(w)
  PROVE  RestOK'
<1>0. TypeOK /\ Upstreams \in [Dag -> SUBSET Dag] /\ MaxRuns \in Nat
  BY SchedulingAssumption DEF IInv
<1>1. CASE Load(w)
  BY <1>0, <1>1 DEF Load, TypeOK, RestOK, store, tick
<1>2. CASE LoadFails(w)
  <2>1. CASE w = Daemon
    BY <1>0, <1>2, <2>1, ResetType, NoTickType DEF LoadFails, DaemonGone, TypeOK, RestOK
  <2>2. CASE w # Daemon
    BY <1>0, <1>2, <2>2, ResetType DEF LoadFails, TypeOK, RestOK, tick
  <2> QED
    BY <2>1, <2>2
<1>3. CASE Ensure(w)
  BY <1>0, <1>3 DEF IInv, CallsOK, Ensure, TypeOK, RestOK, tick
<1>4. CASE Open(w)
  BY <1>0, <1>4 DEF Open, TypeOK, RestOK, tick
<1>5. CASE Complete(w)
  BY <1>0, <1>5 DEF IInv, CallsOK, Complete, TypeOK, RestOK, tick
<1>6. CASE React(w)
  <2>1. \A u \in Dag : \A i \in RunIds : <<u, i>> \in Reaction
    BY <1>0, RowType DEF Reaction
  <2>2. \/ UNCHANGED held
        \/ \E u \in left[w], i \in RunIds : held' = [held EXCEPT ![w] = <<u, i>>]
    BY <1>6 DEF React
  <2>3. left[w] \subseteq Dag /\ held \in [Worker -> Reaction \cup {<< >>}]
    BY <1>0 DEF TypeOK
  <2>4. UNCHANGED held \/ \E e \in Reaction : held' = [held EXCEPT ![w] = e]
    BY <2>1, <2>2, <2>3
  <2>5. held' \in [Worker -> Reaction \cup {<< >>}]
    BY <1>0, <2>3, <2>4
  <2> QED
    BY <1>0, <1>6, <2>5 DEF React, TypeOK, RestOK, store, tick
<1>7. CASE Record(w)
  <2>1. target[w] \in Dag /\ held[w] # << >>
    BY <1>7 DEF IInv, CallsOK, Record
  <2> QED
    BY <1>0, <1>7, <2>1, HeldType, RecordReactionType DEF Record, TypeOK, RestOK, tick
<1>8. CASE Return(w)
  BY <1>0, <1>8, ResetType DEF Return, TypeOK, RestOK, store, tick
<1> QED
  BY <1>1, <1>2, <1>3, <1>4, <1>5, <1>6, <1>7, <1>8 DEF Execute

LEMMA TickType ==
  ASSUME IInv, Tick
  PROVE  RestOK'
<1>0. /\ TypeOK /\ Daemon \in Worker /\ Rank \in [Dag -> 0..3] /\ MaxRuns \in Nat
      /\ Upstreams \in [Dag -> SUBSET Dag]
  BY SchedulingAssumption DEF IInv, Worker
<1>1. CASE ListIncomplete \/ LookUpOwners \/ Interrupt
  <2>1. Incomplete \subseteq RunId
    BY <1>0, RowType DEF Incomplete
  <2> QED
    BY <1>0, <1>1, <2>1 DEF ListIncomplete, LookUpOwners, Interrupt, TypeOK, RestOK, store, call
<1>2. CASE ReadRunning \/ ListDags
  BY <1>0, <1>2 DEF ReadRunning, ListDags, TypeOK, RestOK, store, call
<1>3. CASE DecideInterval
  <2>1. PICK d \in todo : \E elapsed \in BOOLEAN :
           LET isDue == d \in Scheduled /\ d \in listed /\ elapsed IN
              IF file[d] = "invalid"
              THEN /\ Decided(d, isDue, Normal)
                   /\ UNCHANGED <<phase, left, interval>>
              ELSE /\ interval' = isDue
                   /\ phase' = "upstream"
                   /\ left' = [left EXCEPT ![Daemon] = Upstreams[d]]
                   /\ UNCHANGED <<todo, listed, due>>
    BY <1>3 DEF DecideInterval
  <2>2. d \in Dag
    BY <1>0 DEF TypeOK
  <2>3. <<d, Normal>> \in Dag \X (0..3)
    BY <2>2 DEF Normal
  <2>4. CASE file[d] = "invalid"
    <3>1. /\ todo' \subseteq Dag /\ listed' \subseteq Dag /\ due' \subseteq Dag \X (0..3)
          /\ UNCHANGED <<phase, left, interval>>
      BY <1>0, <2>1, <2>3, <2>4 DEF Decided, TypeOK
    <3>2. UNCHANGED <<store, file, pc, target, run, held, suspects, captured, handled>>
      BY <1>3 DEF DecideInterval
    <3> QED
      BY <1>0, <3>1, <3>2 DEF TypeOK, RestOK, store
  <2>5. CASE file[d] # "invalid"
    <3>1. interval' \in BOOLEAN /\ left' \in [Worker -> SUBSET Dag] /\ phase' = "upstream"
          /\ UNCHANGED <<todo, listed, due>>
      BY <1>0, <2>1, <2>2, <2>5 DEF TypeOK
    <3>2. UNCHANGED <<store, file, pc, target, run, held, suspects, captured, handled>>
      BY <1>3 DEF DecideInterval
    <3> QED
      BY <1>0, <3>1, <3>2 DEF TypeOK, RestOK, store
  <2> QED
    BY <2>4, <2>5
<1>4. CASE ReadUpstream
  <2>1. \A u \in Dag : \A i \in RunIds : <<u, i>> \in Reaction
    BY <1>0, RowType DEF Reaction
  <2>2. \/ UNCHANGED held
        \/ \E u \in left[Daemon], i \in RunIds : held' = [held EXCEPT ![Daemon] = <<u, i>>]
    BY <1>4 DEF ReadUpstream
  <2>3. left[Daemon] \subseteq Dag /\ held \in [Worker -> Reaction \cup {<< >>}]
    BY <1>0 DEF TypeOK
  <2>4. UNCHANGED held \/ \E e \in Reaction : held' = [held EXCEPT ![Daemon] = e]
    BY <2>1, <2>2, <2>3
  <2>5. held' \in [Worker -> Reaction \cup {<< >>}]
    BY <1>0, <2>3, <2>4
  <2> QED
    BY <1>0, <1>4, <2>5 DEF ReadUpstream, TypeOK, RestOK, store, tick
<1>5. CASE Compare
  <2>1. held[Daemon] \in Reaction
    BY <1>0, <1>5, HeldType DEF Compare, IInv, CallsOK
  <2>2. captured' \in [Dag -> SUBSET Reaction]
    BY <1>0, <1>5, <2>1 DEF Compare, TypeOK
  <2> QED
    BY <1>0, <1>5, <2>2 DEF Compare, TypeOK, RestOK, store
<1>6. CASE DecideTrigger
  <2>1. \A d \in Dag : <<d, Rank[d]>> \in Dag \X (0..3)
    BY <1>0
  <2> QED
    BY <1>0, <1>6, <2>1 DEF DecideTrigger, Decided, TypeOK, RestOK, store, call
<1>7. CASE Dispatch
  BY <1>0, <1>7 DEF Dispatch, TypeOK, RestOK, store, tick
<1>8. CASE Mark
  <2>1. PICK x \in due : \E c \in captured[x[1]] :
           /\ RecordReaction(x[1], c[1], c[2])
           /\ captured' = [captured EXCEPT ![x[1]] = @ \ {c}]
    BY <1>8 DEF Mark
  <2>2. x[1] \in Dag
    BY <1>0 DEF TypeOK
  <2>3. \A c \in captured[x[1]] : c[1] \in Dag /\ c[2] \in RunId
    BY <1>0, <2>2 DEF TypeOK, Reaction
  <2>4. /\ reacted' \in [Dag -> [Dag -> 0..MaxRuns]] /\ handled' \subseteq Dag \X Dag \X RunId
    BY <1>0, <2>1, <2>2, <2>3, RecordReactionType
  <2>5. captured' \in [Dag -> SUBSET Reaction]
    BY <1>0, <2>1, <2>2 DEF TypeOK
  <2> QED
    BY <1>0, <1>8, <2>4, <2>5 DEF Mark, TypeOK, RestOK, call
<1>9. CASE MarkedAll
  BY <1>0, <1>9 DEF MarkedAll, TypeOK, RestOK, store, call
<1>10. CASE EndTick
  BY <1>0, <1>10, NoTickType DEF EndTick, TypeOK, RestOK, store, call
<1> QED
  BY <1>1, <1>2, <1>3, <1>4, <1>5, <1>6, <1>7, <1>8, <1>9, <1>10 DEF Tick

LEMMA TypeStep ==
  ASSUME IInv, [Next]_vars
  PROVE  TypeOK'
<1>0. TypeOK /\ Daemon \in Worker /\ Manual \subseteq Worker
  BY DEF IInv, Worker
<1>1. ASSUME NEW w \in Manual, EndManual(w) \/ Escape(w) PROVE RestOK'
  BY <1>0, <1>1, ResetType DEF EndManual, Escape, TypeOK, RestOK, store, tick
<1>2. ASSUME NEW w \in Manual, NEW d \in Dag, Begin(w, d) PROVE RestOK'
  BY <1>0, <1>2 DEF Begin, TypeOK, RestOK, store, tick
<1>3. ASSUME StartDaemon \/ StopDaemon \/ CrashDaemon PROVE RestOK'
  <2>1. CASE StartDaemon
    BY <1>0, <2>1 DEF StartDaemon, TypeOK, RestOK, store, call, tick
  <2>2. CASE StopDaemon
    BY <1>0, <2>2, NoTickType DEF StopDaemon, DaemonGone, TypeOK, RestOK, call
  <2>3. CASE CrashDaemon
    BY <1>0, <2>3, ResetType, NoTickType DEF CrashDaemon, DaemonGone, TypeOK, RestOK
  <2> QED
    BY <1>3, <2>1, <2>2, <2>3
<1>4. ASSUME NEW d \in Dag, Register(d) \/ SetEnabled(d) \/ EditFile(d) PROVE RestOK'
  <2>1. CASE EditFile(d)
    <3>0. file \in [Dag -> FileState] /\ Editable[d] \subseteq FileState
      BY <1>0, SchedulingAssumption DEF TypeOK
    <3>1. PICK s \in Editable[d] : file' = [file EXCEPT ![d] = s]
      BY <2>1 DEF EditFile
    <3>2. file' \in [Dag -> FileState]
      BY <3>0, <3>1
    <3> QED
      BY <1>0, <2>1, <3>2 DEF EditFile, TypeOK, RestOK, store, call, tick
  <2>2. CASE Register(d) \/ SetEnabled(d)
    BY <1>0, <2>2 DEF Register, SetEnabled, TypeOK, RestOK, store, call, tick
  <2> QED
    BY <1>4, <2>1, <2>2
<1>5. ASSUME UNCHANGED vars PROVE RestOK'
  BY <1>0, <1>5 DEF vars, TypeOK, RestOK, store, call, tick
<1>6. ASSUME Undisturbed PROVE RestOK'
  <2>1. ASSUME NEW w \in Worker, Execute(w) PROVE RestOK'
    BY <2>1, ExecuteType
  <2>2. ASSUME Tick PROVE RestOK'
    BY <2>2, TickType
  <2> QED
    BY <1>1, <1>2, <1>3, <1>4, <1>6, <2>1, <2>2 DEF Undisturbed
<1>7. RestOK'
  BY <1>3, <1>5, <1>6 DEF Next
<1> QED
  BY <1>7, RowsStep DEF TypeOK, RestOK

-----------------------------------------------------------------------------
(* Calls in progress, and what reconciliation suspects *)

LEMMA PairNotEmpty ==
  ASSUME NEW a, NEW b
  PROVE  <<a, b>> # << >>
<1>1. Len(<<a, b>>) = 2 /\ Len(<< >>) = 0
  OBVIOUS
<1> QED
  BY <1>1

LEMMA CallsStep ==
  ASSUME IInv, [Next]_vars
  PROVE  CallsOK'
<1>0. /\ TypeOK /\ CallsOK /\ Daemon \in Worker /\ Manual = Worker \ {Daemon} /\ NoDag \notin Dag
      /\ \A w \in Worker : run[w] \in RunIds => run[w] \in DOMAIN runs'
  BY RowsStep, SchedulingAssumption DEF IInv, Worker, RowsKept
<1>9. ASSUME NEW w \in Worker, Open(w) PROVE Len(runs) + 1 \in DOMAIN runs'
  <2>1. target[w] \in Dag
    BY <1>0, <1>9 DEF Open, CallsOK
  <2>2. Len(runs') = Len(runs) + 1 /\ runs' \in Seq(Run)
    BY <1>0, <1>9, <2>1, OpenRows
  <2> QED
    BY <1>0, <2>2 DEF TypeOK
<1> USE DEF TypeOK, CallsOK, RunIds
<1>1. ASSUME NEW w \in Worker, Load(w) \/ Ensure(w) PROVE CallsOK'
  BY <1>0, <1>1 DEF Load, Ensure, store, tick
<1>2. ASSUME NEW w \in Worker, LoadFails(w) \/ Return(w) PROVE CallsOK'
  BY <1>0, <1>2 DEF LoadFails, Return, Reset, DaemonGone, store, tick
<1>3. ASSUME NEW w \in Worker, Open(w) PROVE CallsOK'
  <2>1. run'[w] \in DOMAIN runs'
    BY <1>0, <1>3, <1>9 DEF Open
  <2> QED
    BY <1>0, <1>3, <2>1 DEF Open
<1>4. ASSUME NEW w \in Worker, Complete(w) \/ React(w) \/ Record(w) PROVE CallsOK'
  <2>1. CASE Complete(w)
    BY <1>0, <2>1 DEF Complete, tick
  <2>2. CASE React(w)
    <3>0. UNCHANGED pc \/ \E u \in Dag, i \in RunIds : held' = [held EXCEPT ![w] = <<u, i>>]
      BY <1>0, <2>2 DEF React
    <3>1. held'[w] # << >> \/ pc'[w] = "react"
      <4>1. CASE UNCHANGED pc
        BY <2>2, <4>1 DEF React
      <4>2. ASSUME NEW u \in Dag, NEW i \in RunIds, held' = [held EXCEPT ![w] = <<u, i>>]
            PROVE  held'[w] # << >>
        <5>1. held'[w] = <<u, i>>
          BY <1>0, <4>2
        <5> QED
          BY <5>1, PairNotEmpty
      <4> QED
        BY <3>0, <4>1, <4>2
    <3>2. /\ \A v \in Worker : v # w => pc'[v] = pc[v] /\ held'[v] = held[v]
          /\ pc'[w] \in {"record", "react"} /\ pc[w] = "react"
          /\ UNCHANGED <<target, run, phase>>
      BY <1>0, <2>2 DEF React
    <3> QED
      BY <1>0, <3>1, <3>2
  <2>3. CASE Record(w)
    BY <1>0, <2>3 DEF Record, tick
  <2> QED
    BY <1>4, <2>1, <2>2, <2>3
<1>5. ASSUME Tick PROVE CallsOK'
  <2>1. CASE ReadUpstream
    <3>0. UNCHANGED phase \/ \E u \in Dag, i \in RunIds : held' = [held EXCEPT ![Daemon] = <<u, i>>]
      BY <1>0, <2>1 DEF ReadUpstream
    <3>1. held'[Daemon] # << >> \/ phase' = "upstream"
      <4>1. CASE UNCHANGED phase
        BY <2>1, <4>1 DEF ReadUpstream
      <4>2. ASSUME NEW u \in Dag, NEW i \in RunIds, held' = [held EXCEPT ![Daemon] = <<u, i>>]
            PROVE  held'[Daemon] # << >>
        <5>1. held'[Daemon] = <<u, i>>
          BY <1>0, <4>2
        <5> QED
          BY <5>1, PairNotEmpty
      <4> QED
        BY <3>0, <4>1, <4>2
    <3>2. /\ \A v \in Worker : v # Daemon => held'[v] = held[v]
          /\ phase = "upstream" /\ UNCHANGED <<pc, target, run>>
      BY <1>0, <2>1 DEF ReadUpstream
    <3> QED
      BY <1>0, <3>1, <3>2
  <2>2. CASE Compare
    BY <1>0, <2>2 DEF Compare, store
  <2>3. CASE Dispatch
    BY <1>0, <2>3 DEF Dispatch, store, tick
  <2>4. CASE DecideInterval
    BY <1>0, <2>4 DEF DecideInterval, Decided, store
  <2>5. CASE \/ ListIncomplete \/ LookUpOwners \/ Interrupt \/ ReadRunning \/ ListDags
             \/ DecideTrigger \/ Mark \/ MarkedAll \/ EndTick
    BY <1>0, <2>5 DEF ListIncomplete, LookUpOwners, Interrupt, ReadRunning, ListDags,
         DecideTrigger, Mark, MarkedAll, EndTick, call
  <2> QED
    BY <1>5, <2>1, <2>2, <2>3, <2>4, <2>5 DEF Tick
<1>6. ASSUME NEW w \in Manual, EndManual(w) \/ Escape(w) \/ \E d \in Dag : Begin(w, d)
      PROVE  CallsOK'
  BY <1>0, <1>6 DEF EndManual, Escape, Begin, Reset, store, tick
<1>7. ASSUME StartDaemon \/ StopDaemon \/ CrashDaemon PROVE CallsOK'
  BY <1>0, <1>7 DEF StartDaemon, StopDaemon, CrashDaemon, DaemonGone, Reset, store, call
<1>8. ASSUME (\E d \in Dag : Register(d) \/ SetEnabled(d) \/ EditFile(d)) \/ UNCHANGED vars
      PROVE  CallsOK'
  BY <1>0, <1>8 DEF Register, SetEnabled, EditFile, vars, store, call, tick
<1> QED
  BY <1>1, <1>2, <1>3, <1>4, <1>5, <1>6, <1>7, <1>8 DEF Next, Undisturbed, Execute

LEMMA SuspectsStep ==
  ASSUME IInv, [Next]_vars
  PROVE  SuspectsOK'
<1>0. SuspectsOK /\ \A i \in RunIds : i \in DOMAIN runs' /\ (runs[i].orphan => runs'[i].orphan)
  BY RowsStep DEF IInv, RowsKept
<1>1. ASSUME UNCHANGED <<phase, suspects>> PROVE SuspectsOK'
  BY <1>0, <1>1 DEF SuspectsOK, RunIds
<1>2. ASSUME phase' \notin {"lookup", "interrupt"} PROVE SuspectsOK'
  BY <1>2 DEF SuspectsOK
<1>3. CASE ListIncomplete
  BY <1>0, <1>3 DEF ListIncomplete, SuspectsOK, Incomplete, RunIds
<1>4. CASE LookUpOwners
  <2>1. /\ suspects' \subseteq suspects /\ runs' = runs
        /\ \A i \in suspects' : runs[i].orphan
    BY <1>4 DEF LookUpOwners, OwnerLookup, store
  <2> QED
    BY <1>0, <1>4, <2>1 DEF LookUpOwners, SuspectsOK, RunIds
<1>5. ASSUME NEW w \in Worker, Execute(w)
      PROVE  UNCHANGED <<phase, suspects>> \/ phase' \notin {"lookup", "interrupt"}
  BY <1>5 DEF Execute, Load, LoadFails, Ensure, Open, Complete, React, Record, Return,
              DaemonGone, tick
<1>6. ASSUME Tick, ~ListIncomplete, ~LookUpOwners
      PROVE  phase' \notin {"lookup", "interrupt"}
  BY <1>6 DEF Tick, Interrupt, ReadRunning, ListDags, DecideInterval, ReadUpstream, Compare,
              DecideTrigger, Dispatch, Mark, MarkedAll, EndTick
<1>7. ASSUME NEW w \in Manual, EndManual(w) \/ Escape(w) \/ \E d \in Dag : Begin(w, d)
      PROVE  UNCHANGED <<phase, suspects>>
  BY <1>7 DEF EndManual, Escape, Begin, tick
<1>8. ASSUME StartDaemon \/ StopDaemon \/ CrashDaemon
      PROVE  phase' \notin {"lookup", "interrupt"}
  BY <1>8 DEF StartDaemon, StopDaemon, CrashDaemon, DaemonGone
<1>9. ASSUME (\E d \in Dag : Register(d) \/ SetEnabled(d) \/ EditFile(d)) \/ UNCHANGED vars
      PROVE  UNCHANGED <<phase, suspects>>
  BY <1>9 DEF Register, SetEnabled, EditFile, vars, tick
<1> QED
  BY <1>1, <1>2, <1>3, <1>4, <1>5, <1>6, <1>7, <1>8, <1>9 DEF Next, Undisturbed

-----------------------------------------------------------------------------
(* A run in progress *)

\* v's run in progress is what ExecutingRunIsOpen says.
OpenFor(v) ==
    pc[v] = "tasks" => /\ runs[run[v]].status = "running"
                       /\ runs[run[v]].owner = v /\ ~runs[run[v]].orphan

LEMMA OpenStep ==
  ASSUME IInv, [Next]_vars
  PROVE  ExecutingRunIsOpen'
<1> SUFFICES ASSUME NEW v \in Worker PROVE OpenFor(v)'
  BY DEF ExecutingRunIsOpen, OpenFor
<1>0. /\ TypeOK /\ OpenFor(v) /\ Daemon \in Worker /\ Manual = Worker \ {Daemon}
      /\ pc[v] = "tasks" => run[v] \in RunIds
      /\ pc \in [Worker -> {"idle", "load", "open", "start", "tasks", "react", "record"}]
      /\ run \in [Worker -> 0..MaxRuns]
  <2>1. Daemon \in Worker /\ Manual = Worker \ {Daemon}
    BY SchedulingAssumption DEF Worker
  <2>2. TypeOK /\ OpenFor(v) /\ (pc[v] = "tasks" => run[v] \in RunIds)
    BY DEF IInv, ExecutingRunIsOpen, OpenFor, CallsOK
  <2> QED
    BY <2>1, <2>2 DEF TypeOK
<1>1. ASSUME pc'[v] # "tasks" PROVE OpenFor(v)'
  BY <1>1 DEF OpenFor
<1>2. ASSUME pc'[v] = pc[v], run'[v] = run[v], runs' = runs PROVE OpenFor(v)'
  BY <1>0, <1>2 DEF OpenFor
<1>3. ASSUME NEW w \in Worker, w # v, runs' = Orphaned(w), pc'[v] = pc[v], run'[v] = run[v]
      PROVE  OpenFor(v)'
  BY <1>0, <1>3 DEF OpenFor, Orphaned
<1>4. ASSUME NEW w \in Worker, Open(w) PROVE OpenFor(v)'
  <2>1. target[w] \in Dag
    BY <1>4 DEF IInv, CallsOK, Open
  <2>2. /\ runs'[Len(runs) + 1].status = "running"
        /\ runs'[Len(runs) + 1].owner = w /\ ~runs'[Len(runs) + 1].orphan
    BY <1>0, <1>4, <2>1, OpenRows
  <2>3. CASE w = v
    BY <1>0, <1>4, <2>2, <2>3 DEF Open, OpenFor
  <2>4. CASE w # v
    <3>1. \A i \in RunIds : runs'[i] = runs[i]
      BY <1>0, <1>4 DEF Open, RunIds, TypeOK
    <3> QED
      BY <1>0, <1>4, <2>4, <3>1 DEF Open, OpenFor
  <2> QED
    BY <2>3, <2>4
<1>5. ASSUME NEW w \in Worker, Complete(w) PROVE OpenFor(v)'
  <2>1. OpenFor(w)
    BY DEF IInv, ExecutingRunIsOpen, OpenFor
  <2>2. CASE w = v
    BY <1>0, <1>5, <2>2 DEF Complete, OpenFor
  <2>3. CASE w # v /\ pc[v] = "tasks"
    <3>1. run[w] # run[v]
      BY <1>0, <1>5, <2>1, <2>3 DEF OpenFor, Complete
    <3>2. runs'[run[v]] = runs[run[v]] /\ pc'[v] = pc[v] /\ run'[v] = run[v]
      BY <1>0, <1>5, <2>3, <3>1 DEF Complete, RunIds
    <3> QED
      BY <1>0, <3>2 DEF OpenFor
  <2>4. CASE w # v /\ pc[v] # "tasks"
    BY <1>0, <1>1, <1>5, <2>4 DEF Complete
  <2> QED
    BY <2>2, <2>3, <2>4
<1>6. ASSUME Interrupt PROVE OpenFor(v)'
  BY <1>0, <1>6 DEF Interrupt, OpenFor, call, IInv, SuspectsOK
<1>7. ASSUME NEW w \in Worker, LoadFails(w) PROVE OpenFor(v)'
  <2>1. CASE w = v
    BY <1>0, <1>1, <1>7, <2>1 DEF LoadFails, Reset
  <2>2. CASE w # v /\ w = Daemon
    BY <1>0, <1>3, <1>7, <2>2 DEF LoadFails, Reset, DaemonGone
  <2>3. CASE w # v /\ w # Daemon
    BY <1>0, <1>2, <1>7, <2>3 DEF LoadFails, Reset
  <2> QED
    BY <2>1, <2>2, <2>3
<1>8. ASSUME NEW w \in Worker, Load(w) \/ Ensure(w) \/ React(w) \/ Record(w) \/ Return(w)
      PROVE  pc'[v] # "tasks" \/ (pc'[v] = pc[v] /\ run'[v] = run[v] /\ runs' = runs)
  BY <1>0, <1>8 DEF Load, Ensure, React, Record, RecordReaction, Return, Reset, store
<1>9. ASSUME NEW w \in Worker, Execute(w) PROVE OpenFor(v)'
  BY <1>1, <1>2, <1>4, <1>5, <1>7, <1>8, <1>9 DEF Execute
<1>10. ASSUME Tick, ~Interrupt
       PROVE  pc'[v] # "tasks" \/ (pc'[v] = pc[v] /\ run'[v] = run[v] /\ runs' = runs)
  BY <1>0, <1>10 DEF Tick, ListIncomplete, LookUpOwners, ReadRunning, ListDags, DecideInterval,
       ReadUpstream, Compare, DecideTrigger, Dispatch, Mark, MarkedAll, EndTick,
       RecordReaction, store, call
<1>11. ASSUME NEW w \in Manual, EndManual(w) PROVE OpenFor(v)'
  <2>1. w \in Worker
    BY DEF Worker
  <2>2. CASE w = v
    BY <1>0, <1>1, <1>11, <2>2 DEF EndManual, Reset
  <2>3. CASE w # v
    BY <1>0, <1>3, <1>11, <2>1, <2>3 DEF EndManual, Reset
  <2> QED
    BY <2>2, <2>3
<1>12. ASSUME NEW w \in Manual, Escape(w) \/ \E d \in Dag : Begin(w, d)
       PROVE  pc'[v] # "tasks" \/ (pc'[v] = pc[v] /\ run'[v] = run[v] /\ runs' = runs)
  BY <1>0, <1>12 DEF Escape, Begin, Reset, store, Worker
<1>13. ASSUME CrashDaemon PROVE OpenFor(v)'
  <2>1. CASE v = Daemon
    BY <1>0, <1>1, <1>13, <2>1 DEF CrashDaemon, Reset
  <2>2. CASE v # Daemon
    BY <1>0, <1>3, <1>13, <2>2 DEF CrashDaemon, DaemonGone, Reset
  <2> QED
    BY <2>1, <2>2
<1>14. ASSUME StopDaemon PROVE OpenFor(v)'
  <2>1. CASE v = Daemon
    <3>1. pc[Daemon] = "idle" /\ UNCHANGED pc
      BY <1>14 DEF StopDaemon, IInv, CallsOK, call
    <3> QED
      BY <1>1, <2>1, <3>1
  <2>2. CASE v # Daemon
    BY <1>0, <1>3, <1>14, <2>2 DEF StopDaemon, DaemonGone, call
  <2> QED
    BY <2>1, <2>2
<1>15. ASSUME \/ StartDaemon \/ UNCHANGED vars
              \/ \E d \in Dag : Register(d) \/ SetEnabled(d) \/ EditFile(d)
       PROVE  pc'[v] = pc[v] /\ run'[v] = run[v] /\ runs' = runs
  BY <1>15 DEF StartDaemon, Register, SetEnabled, EditFile, vars, store, call
<1> QED
  BY <1>1, <1>2, <1>6, <1>9, <1>10, <1>11, <1>12, <1>13, <1>14, <1>15 DEF Next, Undisturbed

-----------------------------------------------------------------------------
(* The run ids that become reactions *)

\* SuccessOf in the state after the step.
SuccessAfter(u, i) ==
    i \in DOMAIN runs' /\ runs'[i].dag = u /\ runs'[i].status = "succeeded"

LEMMA SuccessKept ==
  ASSUME RowsKept, NEW u, NEW i, SuccessOf(u, i)
  PROVE  SuccessAfter(u, i)
  BY DEF RowsKept, SuccessOf, SuccessAfter, RunIds

\* A step that puts no run id anywhere keeps the three conjuncts.
LEMMA NothingRecorded ==
  ASSUME IInv, RowsKept, UNCHANGED reacted,
         captured' = captured \/ captured' = [d \in Dag |-> {}],
         \A w \in Worker : held'[w] \in {held[w], << >>}
  PROVE  SuccessesOK'
<1>1. \A w \in Worker : held'[w] # << >> => SuccessAfter(held'[w][1], held'[w][2])
  BY SuccessKept DEF IInv, SuccessesOK
<1>2. \A d \in Dag : \A c \in captured'[d] : SuccessAfter(c[1], c[2])
  BY SuccessKept DEF IInv, SuccessesOK
<1>3. \A d, u \in Dag : reacted'[d][u] # 0 => SuccessAfter(u, reacted'[d][u])
  BY SuccessKept DEF IInv, SuccessesOK
<1> QED
  BY <1>1, <1>2, <1>3 DEF SuccessesOK, SuccessOf, SuccessAfter, RunIds

\* A look at an upstream puts a success into held.
LEMMA LookedUp ==
  ASSUME IInv, RowsKept, UNCHANGED <<reacted, captured>>, NEW w \in Worker,
         \/ UNCHANGED held
         \/ \E u \in Dag, i \in RunIds :
              Succeeded(u, i) /\ held' = [held EXCEPT ![w] = <<u, i>>]
  PROVE  SuccessesOK'
<1>0. held \in [Worker -> Reaction \cup {<< >>}]
  BY DEF IInv, TypeOK
<1>1. CASE UNCHANGED held
  BY <1>1, NothingRecorded
<1>2. ASSUME NEW u \in Dag, NEW i \in RunIds, Succeeded(u, i), held' = [held EXCEPT ![w] = <<u, i>>]
      PROVE  SuccessesOK'
  <2>1. SuccessAfter(u, i)
    BY <1>2, SuccessKept DEF Succeeded, Latest, SuccessOf
  <2>2. \A v \in Worker : held'[v] # << >> => SuccessAfter(held'[v][1], held'[v][2])
    <3> SUFFICES ASSUME NEW v \in Worker, held'[v] # << >>
                 PROVE  SuccessAfter(held'[v][1], held'[v][2])
      OBVIOUS
    <3>1. CASE v = w
      <4>1. held'[v] = <<u, i>>
        BY <1>0, <1>2, <3>1
      <4>2. held'[v][1] = u /\ held'[v][2] = i
        BY <4>1
      <4> QED
        BY <2>1, <4>2
    <3>2. CASE v # w
      <4>1. held'[v] = held[v]
        BY <1>0, <1>2, <3>2
      <4> QED
        BY <4>1, SuccessKept DEF IInv, SuccessesOK
    <3> QED
      BY <3>1, <3>2
  <2>3. \A d \in Dag : \A c \in captured'[d] : SuccessAfter(c[1], c[2])
    BY SuccessKept DEF IInv, SuccessesOK
  <2>4. \A d, e \in Dag : reacted'[d][e] # 0 => SuccessAfter(e, reacted'[d][e])
    BY SuccessKept DEF IInv, SuccessesOK
  <2> QED
    BY <2>2, <2>3, <2>4 DEF SuccessesOK, SuccessOf, SuccessAfter, RunIds
<1> QED
  BY <1>1, <1>2

\* A reaction row is written from a success.
LEMMA Recorded ==
  ASSUME IInv, RowsKept, NEW d \in Dag, NEW u \in Dag, NEW i, SuccessOf(u, i),
         RecordReaction(d, u, i)
  PROVE  \A e, f \in Dag : reacted'[e][f] # 0 => SuccessAfter(f, reacted'[e][f])
<1>0. reacted \in [Dag -> [Dag -> 0..MaxRuns]]
  BY DEF IInv, TypeOK
<1> SUFFICES ASSUME NEW e \in Dag, NEW f \in Dag, reacted'[e][f] # 0
             PROVE  SuccessAfter(f, reacted'[e][f])
  OBVIOUS
<1>1. CASE e = d /\ f = u
  <2>1. reacted'[e][f] = i
    BY <1>0, <1>1 DEF RecordReaction
  <2> QED
    BY <1>1, <2>1, SuccessKept
<1>2. CASE ~(e = d /\ f = u)
  <2>1. reacted'[e][f] = reacted[e][f]
    BY <1>0, <1>2 DEF RecordReaction
  <2> QED
    BY <2>1, SuccessKept DEF IInv, SuccessesOK
<1> QED
  BY <1>1, <1>2

LEMMA SuccessesStep ==
  ASSUME IInv, [Next]_vars
  PROVE  SuccessesOK'
<1>0. /\ TypeOK /\ RowsKept /\ Daemon \in Worker /\ Manual \subseteq Worker
      /\ held \in [Worker -> Reaction \cup {<< >>}]
  BY RowsStep DEF IInv, TypeOK, Worker
<1>1. ASSUME NEW w \in Worker, React(w) PROVE SuccessesOK'
  <2>1. left[w] \subseteq Dag
    BY <1>0 DEF TypeOK
  <2> QED
    BY <1>0, <1>1, <2>1, LookedUp DEF React, store, tick
<1>2. ASSUME ReadUpstream PROVE SuccessesOK'
  <2>1. left[Daemon] \subseteq Dag
    BY <1>0 DEF TypeOK
  <2> QED
    BY <1>0, <1>2, <2>1, LookedUp DEF ReadUpstream, store, tick
<1>3. ASSUME NEW w \in Worker, Record(w) PROVE SuccessesOK'
  <2>1. target[w] \in Dag /\ held[w] # << >>
    BY <1>3 DEF IInv, CallsOK, Record
  <2>2. held[w][1] \in Dag /\ SuccessOf(held[w][1], held[w][2])
    BY <1>0, <2>1, HeldType DEF IInv, SuccessesOK
  <2>3. \A e, f \in Dag : reacted'[e][f] # 0 => SuccessAfter(f, reacted'[e][f])
    BY <1>0, <1>3, <2>1, <2>2, Recorded DEF Record
  <2>4. \A v \in Worker : held'[v] \in {held[v], << >>}
    BY <1>0, <1>3 DEF Record
  <2>5. \A v \in Worker : held'[v] # << >> => SuccessAfter(held'[v][1], held'[v][2])
    BY <1>0, <2>4, SuccessKept DEF IInv, SuccessesOK
  <2>6. \A d \in Dag : \A c \in captured'[d] : SuccessAfter(c[1], c[2])
    BY <1>0, <1>3, SuccessKept DEF IInv, SuccessesOK, Record, tick
  <2> QED
    BY <2>3, <2>5, <2>6 DEF SuccessesOK, SuccessOf, SuccessAfter, RunIds
<1>4. ASSUME Compare PROVE SuccessesOK'
  <2>1. held[Daemon] # << >> /\ captured \in [Dag -> SUBSET Reaction]
    BY <1>0, <1>4 DEF IInv, CallsOK, Compare, TypeOK
  <2>2. SuccessAfter(held[Daemon][1], held[Daemon][2])
    BY <1>0, <2>1, SuccessKept DEF IInv, SuccessesOK
  <2>3. \A d \in Dag : captured'[d] \subseteq captured[d] \cup {held[Daemon]}
    BY <1>4, <2>1 DEF Compare
  <2>4. \A d \in Dag : \A c \in captured'[d] : SuccessAfter(c[1], c[2])
    BY <1>0, <2>2, <2>3, SuccessKept DEF IInv, SuccessesOK
  <2>5. \A v \in Worker : held'[v] \in {held[v], << >>}
    BY <1>0, <1>4 DEF Compare
  <2>6. \A v \in Worker : held'[v] # << >> => SuccessAfter(held'[v][1], held'[v][2])
    BY <1>0, <2>5, SuccessKept DEF IInv, SuccessesOK
  <2>7. \A d, u \in Dag : reacted'[d][u] # 0 => SuccessAfter(u, reacted'[d][u])
    BY <1>0, <1>4, SuccessKept DEF IInv, SuccessesOK, Compare, store
  <2> QED
    BY <2>4, <2>6, <2>7 DEF SuccessesOK, SuccessOf, SuccessAfter, RunIds
<1>5. ASSUME Mark PROVE SuccessesOK'
  <2>0. PICK x \in due : \E c \in captured[x[1]] :
           /\ RecordReaction(x[1], c[1], c[2])
           /\ captured' = [captured EXCEPT ![x[1]] = @ \ {c}]
    BY <1>5 DEF Mark
  <2>1. PICK c \in captured[x[1]] :
           /\ RecordReaction(x[1], c[1], c[2])
           /\ captured' = [captured EXCEPT ![x[1]] = @ \ {c}]
    BY <2>0
  <2>2. x[1] \in Dag /\ captured \in [Dag -> SUBSET Reaction]
    BY <1>0 DEF TypeOK
  <2>3. c[1] \in Dag /\ SuccessOf(c[1], c[2])
    BY <2>2 DEF IInv, SuccessesOK, Reaction
  <2>4. \A e, f \in Dag : reacted'[e][f] # 0 => SuccessAfter(f, reacted'[e][f])
    BY <1>0, <2>1, <2>2, <2>3, Recorded
  <2>5. \A d \in Dag : captured'[d] \subseteq captured[d]
    BY <2>1, <2>2
  <2>6. \A d \in Dag : \A e \in captured'[d] : SuccessAfter(e[1], e[2])
    BY <1>0, <2>5, SuccessKept DEF IInv, SuccessesOK
  <2>7. \A v \in Worker : held'[v] # << >> => SuccessAfter(held'[v][1], held'[v][2])
    BY <1>0, <1>5, SuccessKept DEF IInv, SuccessesOK, Mark, call
  <2> QED
    BY <2>4, <2>6, <2>7 DEF SuccessesOK, SuccessOf, SuccessAfter, RunIds
<1>6. ASSUME NEW w \in Worker, Execute(w), ~React(w), ~Record(w) PROVE SuccessesOK'
  <2>1. /\ UNCHANGED reacted /\ (captured' = captured \/ captured' = [d \in Dag |-> {}])
        /\ \A v \in Worker : held'[v] \in {held[v], << >>}
    BY <1>0, <1>6 DEF Execute, Load, LoadFails, Ensure, Open, Complete, Return, Reset,
         DaemonGone, NoTick, store, tick
  <2> QED
    BY <1>0, <2>1, NothingRecorded
<1>7. ASSUME Tick, ~ReadUpstream, ~Compare, ~Mark PROVE SuccessesOK'
  <2>1. /\ UNCHANGED <<reacted, held>> /\ (captured' = captured \/ captured' = [d \in Dag |-> {}])
    BY <1>7 DEF Tick, ListIncomplete, LookUpOwners, Interrupt, ReadRunning, ListDags,
         DecideInterval, DecideTrigger, Dispatch, MarkedAll, EndTick, NoTick, store, call, tick
  <2> QED
    BY <1>0, <2>1, NothingRecorded
<1>8. ASSUME NEW w \in Manual, EndManual(w) \/ Escape(w) \/ \E d \in Dag : Begin(w, d)
      PROVE  SuccessesOK'
  <2>1. /\ UNCHANGED <<reacted, captured>> /\ \A v \in Worker : held'[v] \in {held[v], << >>}
    BY <1>0, <1>8 DEF EndManual, Escape, Begin, Reset, store, tick
  <2> QED
    BY <1>0, <2>1, NothingRecorded
<1>9. ASSUME StartDaemon \/ StopDaemon \/ CrashDaemon PROVE SuccessesOK'
  <2>1. /\ UNCHANGED reacted /\ (captured' = captured \/ captured' = [d \in Dag |-> {}])
        /\ \A v \in Worker : held'[v] \in {held[v], << >>}
    BY <1>0, <1>9 DEF StartDaemon, StopDaemon, CrashDaemon, DaemonGone, NoTick, Reset,
         store, call, tick
  <2> QED
    BY <1>0, <2>1, NothingRecorded
<1>10. ASSUME (\E d \in Dag : Register(d) \/ SetEnabled(d) \/ EditFile(d)) \/ UNCHANGED vars
       PROVE  SuccessesOK'
  <2>1. UNCHANGED <<reacted, captured, held>>
    BY <1>10 DEF Register, SetEnabled, EditFile, vars, store, call, tick
  <2> QED
    BY <1>0, <2>1, NothingRecorded
<1> QED
  BY <1>1, <1>2, <1>3, <1>4, <1>5, <1>6, <1>7, <1>8, <1>9, <1>10 DEF Next, Undisturbed

-----------------------------------------------------------------------------
(* The theorems *)

LEMMA Initially == Init => IInv
<1> SUFFICES ASSUME Init PROVE IInv
  OBVIOUS
<1>1. TypeOK
  <2>1. runs \in Seq(Run) /\ Len(runs) <= MaxRuns
    BY SchedulingAssumption, EmptySeq DEF Init
  <2>2. captured \in [Dag -> SUBSET Reaction] /\ reacted \in [Dag -> [Dag -> 0..MaxRuns]]
    BY SchedulingAssumption DEF Init
  <2>3. /\ target \in [Worker -> Dag \cup {NoDag}] /\ run \in [Worker -> 0..MaxRuns]
        /\ left \in [Worker -> SUBSET Dag] /\ held \in [Worker -> Reaction \cup {<< >>}]
    BY SchedulingAssumption DEF Init
  <2> QED
    BY <2>1, <2>2, <2>3, SchedulingAssumption DEF Init, TypeOK, FileState
<1>2. CallsOK /\ SuspectsOK /\ ExecutingRunIsOpen /\ SuccessesOK
  BY SchedulingAssumption
     DEF Init, CallsOK, SuspectsOK, ExecutingRunIsOpen, SuccessesOK, Worker
<1> QED
  BY <1>1, <1>2 DEF IInv

LEMMA Step == IInv /\ [Next]_vars => IInv'
  BY TypeStep, CallsStep, SuspectsStep, OpenStep, SuccessesStep DEF IInv

\* The inductive invariant holds in every reachable state.
THEOREM Invariance == Spec => []IInv
  BY Initially, Step, PTL DEF Spec

\* Every variable of the daemon, the store and the workers keeps its type.
THEOREM TypeCorrect == Spec => []TypeOK
<1>1. IInv => TypeOK
  BY DEF IInv
<1> QED
  BY <1>1, Invariance, PTL

\* However daemon, workers and reconciliation interleave, the run of a live
\* process is `running` in the store and is that process's own.
THEOREM RunInProgress == Spec => []ExecutingRunIsOpen
<1>1. IInv => ExecutingRunIsOpen
  BY DEF IInv
<1> QED
  BY <1>1, Invariance, PTL

\* A reaction row names a successful run of its upstream.
THEOREM Reactions == Spec => []ReactionNamesASuccess
<1>1. IInv => ReactionNamesASuccess
  BY DEF IInv, SuccessesOK, SuccessOf, ReactionNamesASuccess
<1> QED
  BY <1>1, Invariance, PTL

\* A succeeded, failed or interrupted run stays what it is.
THEOREM Final == Spec => FinalStatusKept
<1>1. IInv /\ [Next]_vars =>
        [\A i \in RunIds : runs[i].status # "running" => runs'[i].status = runs[i].status]_vars
  BY RowsStep DEF RowsKept
<1> QED
  BY <1>1, Invariance, PTL DEF Spec, FinalStatusKept

-----------------------------------------------------------------------------
(* dag_runs implements RunTable *)

\* What a step may do to a row that is there, and to one that was not.
RowStep(r, s) ==
    \/ s.status = r.status /\ (r.orphan => s.orphan)
    \/ r.status = "running" /\ s.status \in {"succeeded", "failed"} /\ ~r.orphan /\ ~s.orphan
    \/ r.status = "running" /\ s.status = "interrupted" /\ r.orphan /\ s.orphan

RowsAnswer ==
    /\ RunIds \subseteq DOMAIN runs'
    /\ \A i \in RunIds : RowStep(runs[i], runs'[i])
    /\ \A i \in DOMAIN runs' \ RunIds : runs'[i].status = "running" /\ ~runs'[i].orphan

LEMMA AnswerSame ==
  ASSUME runs' = runs
  PROVE  RowsAnswer
  BY DEF RowsAnswer, RowStep, RunIds

LEMMA AnswerOrphaned ==
  ASSUME TypeOK, NEW w \in Worker, runs' = Orphaned(w)
  PROVE  RowsAnswer
  BY DEF RowsAnswer, RowStep, Orphaned, AsOrphan, RunIds

LEMMA AnswerOpen ==
  ASSUME TypeOK, NEW w \in Worker, target[w] \in Dag, Open(w)
  PROVE  RowsAnswer
<1> DEFINE row == [dag |-> target[w], status |-> "running", owner |-> w, orphan |-> FALSE,
                   saw |-> IF w = Daemon
                           THEN {i \in RunIds : runs[i].status = "succeeded"}
                           ELSE {}]
<1>1. runs \in Seq(Run) /\ Len(runs) \in Nat /\ RunIds = 1..Len(runs)
  BY DEF TypeOK, RunIds
<1>2. row \in Run /\ row.status = "running" /\ ~row.orphan
  BY RowType DEF Run, Statuses
<1>3. runs' = Append(runs, row)
  BY DEF Open
<1>4. /\ DOMAIN runs' = 1..(Len(runs) + 1)
      /\ \A i \in 1..Len(runs) : runs'[i] = runs[i]
      /\ runs'[Len(runs) + 1] = row
  <2> HIDE DEF row
  <2> QED BY <1>1, <1>2, <1>3
<1>5. DOMAIN runs' \ RunIds = {Len(runs) + 1}
  BY <1>1, <1>4
<1>6. \A i \in RunIds : i \in DOMAIN runs' /\ runs'[i] = runs[i]
  BY <1>1, <1>4
<1> QED
  BY <1>2, <1>4, <1>5, <1>6 DEF RowsAnswer, RowStep

\* The call that completes a row is in a process that lives, and the row is its own.
LEMMA AnswerComplete ==
  ASSUME TypeOK, NEW w \in Worker, run[w] \in RunIds, runs[run[w]].status = "running",
         ~runs[run[w]].orphan, Complete(w)
  PROVE  RowsAnswer
<1>1. PICK status \in {"succeeded", "failed"} :
        runs' = [runs EXCEPT ![run[w]] = WithStatus(@, status)]
  BY DEF Complete
<1>2. DOMAIN runs' = RunIds /\ runs'[run[w]] = WithStatus(runs[run[w]], status)
  BY <1>1 DEF RunIds
<1>3. \A i \in RunIds : i # run[w] => runs'[i] = runs[i]
  BY <1>1 DEF RunIds
<1>4. RowStep(runs[run[w]], runs'[run[w]])
  BY <1>2 DEF RowStep, WithStatus
<1> QED
  BY <1>2, <1>3, <1>4 DEF RowsAnswer, RowStep

\* What is interrupted belonged to the dead when its owner was looked up, and still does.
LEMMA AnswerInterrupt ==
  ASSUME SuspectsOK, Interrupt
  PROVE  RowsAnswer
<1>1. /\ DOMAIN runs' = RunIds
      /\ \A i \in RunIds : runs'[i] = IF i \in suspects \cap Incomplete
                                       THEN WithStatus(runs[i], "interrupted") ELSE runs[i]
  BY DEF Interrupt, RunIds
<1>2. \A i \in suspects \cap Incomplete : runs[i].status = "running" /\ runs[i].orphan
  BY DEF SuspectsOK, Interrupt, Incomplete
<1>3. ASSUME NEW i \in RunIds PROVE RowStep(runs[i], runs'[i])
  <2>1. CASE i \in suspects \cap Incomplete
    BY <1>1, <1>2, <2>1 DEF RowStep, WithStatus
  <2>2. CASE i \notin suspects \cap Incomplete
    BY <1>1, <2>2 DEF RowStep
  <2> QED
    BY <2>1, <2>2
<1> QED
  BY <1>1, <1>3 DEF RowsAnswer

LEMMA AnswerStep ==
  ASSUME IInv, [Next]_vars
  PROVE  RowsAnswer
<1>0. TypeOK /\ SuspectsOK
  BY DEF IInv
<1>1. ASSUME NEW w \in Worker, Open(w) PROVE RowsAnswer
  BY <1>0, <1>1, AnswerOpen DEF IInv, CallsOK, Open
<1>2. ASSUME NEW w \in Worker, Complete(w) PROVE RowsAnswer
  BY <1>0, <1>2, AnswerComplete DEF IInv, CallsOK, ExecutingRunIsOpen, Complete
<1>3. CASE runs' = runs
  BY <1>3, AnswerSame
<1>4. CASE \E w \in Worker : runs' = Orphaned(w)
  BY <1>0, <1>4, AnswerOrphaned
<1>5. CASE Interrupt
  BY <1>0, <1>5, AnswerInterrupt
<1> QED
  BY <1>1, <1>2, <1>3, <1>4, <1>5, RowsWriters

\* The rows as RunTable sees them.
LEMMA RowsMapped ==
  ASSUME TypeOK, TypeOK', RowsAnswer
  PROVE  Rows!Next
<1> DEFINE S == [i \in RunId |-> IF i \in RunIds THEN runs[i].status ELSE "none"]
           A == [i \in RunId |-> i \in RunIds /\ ~runs[i].orphan]
<1>1. ASSUME NEW i \in RunId
      PROVE  /\ S[i] = (IF i \in RunIds THEN runs[i].status ELSE "none")
             /\ A[i] = (i \in RunIds /\ ~runs[i].orphan)
             /\ S'[i] = (IF i \in RunIds' THEN runs'[i].status ELSE "none")
             /\ A'[i] = (i \in RunIds' /\ ~runs'[i].orphan)
  BY DEF RunId
<1>2. ASSUME NEW i \in RunId
      PROVE  /\ S'[i] \in {"none", "running", "succeeded", "failed", "interrupted"}
             /\ A'[i] \in BOOLEAN
  <2>1. runs' \in Seq(Run) /\ RunIds' = DOMAIN runs'
    BY DEF TypeOK, RunIds
  <2>2. RunIds' = 1..Len(runs') /\ \A j \in 1..Len(runs') : runs'[j] \in Run
    BY <2>1
  <2>3. i \in RunIds' => runs'[i].status \in Statuses
    BY <2>2 DEF Run
  <2> QED
    BY <1>1, <2>3 DEF Statuses
<1>3. ASSUME NEW i \in RunId
      PROVE  Rows!Open(i) \/ Rows!Complete(i) \/ Rows!Interrupt(i) \/ Rows!Keep(i)
  <2>1. CASE i \in RunIds
    <3>1. i \in RunIds' /\ RowStep(runs[i], runs'[i])
      BY <2>1 DEF RowsAnswer, RunIds
    <3> QED
      BY <1>1, <2>1, <3>1
         DEF RowStep, Rows!Open, Rows!Complete, Rows!Interrupt, Rows!Keep
  <2>2. CASE i \notin RunIds /\ i \in RunIds'
    <3>1. runs'[i].status = "running" /\ ~runs'[i].orphan
      BY <2>2 DEF RowsAnswer, RunIds
    <3> QED
      BY <1>1, <2>2, <3>1 DEF Rows!Open
  <2>3. CASE i \notin RunIds /\ i \notin RunIds'
    BY <1>1, <2>3 DEF Rows!Keep
  <2> QED
    BY <2>1, <2>2, <2>3
<1>4. S' = [i \in RunId |-> S'[i]] /\ A' = [i \in RunId |-> A'[i]]
  BY DEF RunId
<1> QED
  BY <1>2, <1>3, <1>4 DEF Rows!Next

\* Whatever daemon, workers, reconciliation and deaths of processes do to each
\* other, the rows of dag_runs are the rows of RunTable: a run succeeds or fails
\* only in a process that lives, and is interrupted only when that one is dead.
THEOREM RowsImplement == Spec => RowsKeepPromise
<1>1. Init => Rows!Init
  BY DEF Init, Rows!Init, RunIds
<1>2. ASSUME IInv, IInv', [Next]_vars PROVE Rows!Next
  BY <1>2, AnswerStep, RowsMapped DEF IInv
<1> QED
  BY <1>1, <1>2, Step, Invariance, PTL DEF Spec, RowsKeepPromise, Rows!Spec

-----------------------------------------------------------------------------
(* What a mark was captured before *)

\* The run i is one of d in the daemon, and began after whatever is captured of d.
Covers(i, d) ==
    /\ i \in RunIds /\ runs[i].dag = d /\ runs[i].owner = Daemon
    /\ \A c \in captured[d] : c[2] \in runs[i].saw

\* A call of the daemon is for the first due DAG, and its run covers what the
\* decision about that DAG captured.
SeenOK ==
    /\ pc[Daemon] # "idle" => \E x \in due : FirstDue(x) /\ target[Daemon] = x[1]
    /\ pc[Daemon] \in {"tasks", "react", "record"} => Covers(run[Daemon], target[Daemon])
    /\ phase = "mark" => \A x \in due : FirstDue(x) => \E i \in RunIds : Covers(i, x[1])

LEMMA FirstDueSame ==
  ASSUME UNCHANGED due
  PROVE  \A x : FirstDue(x)' <=> FirstDue(x)
  BY DEF FirstDue

\* The first due DAG is one.
LEMMA FirstDueUnique ==
  ASSUME TypeOK, NEW x, NEW y, FirstDue(x), FirstDue(y)
  PROVE  x[1] = y[1]
<1>1. /\ x \in due /\ y \in due /\ x[1] \in Dag /\ y[1] \in Dag /\ x[2] \in 0..3 /\ y[2] \in 0..3
  BY DEF FirstDue, TypeOK
<1>2. NamePos[x[1]] \in Nat /\ NamePos[y[1]] \in Nat
  BY <1>1, SchedulingAssumption
<1>3. x[2] = y[2] /\ NamePos[x[1]] = NamePos[y[1]]
  BY <1>1, <1>2 DEF FirstDue
<1> QED
  BY <1>1, <1>3, SchedulingAssumption

LEMMA CoversKept ==
  ASSUME RowsKept, NEW i, NEW d \in Dag, Covers(i, d), captured'[d] \subseteq captured[d]
  PROVE  Covers(i, d)'
  BY DEF RowsKept, Covers, RunIds

\* The daemon is between its calls and its marks.
LEMMA SeenIdle ==
  ASSUME pc'[Daemon] = "idle", phase' # "mark"
  PROVE  SeenOK'
  BY DEF SeenOK

\* The call of the daemon, its tick and its marks stay where they are.
LEMMA SeenSame ==
  ASSUME IInv, SeenOK, RowsKept, UNCHANGED <<due, captured>>, phase' = "mark" => phase = "mark",
         \/ pc'[Daemon] = pc[Daemon]
         \/ (pc[Daemon] \in {"load", "open"} /\ pc'[Daemon] \in {"open", "start"})
         \/ (pc[Daemon] \in {"tasks", "react", "record"} /\ pc'[Daemon] \in {"react", "record"}),
         target'[Daemon] = target[Daemon], run'[Daemon] = run[Daemon]
  PROVE  SeenOK'
<1>0. TypeOK /\ CallsOK /\ Daemon \in Worker
  BY DEF IInv, Worker
<1>1. (pc[Daemon] # "idle" => \E x \in due : FirstDue(x) /\ target[Daemon] = x[1])'
  BY FirstDueSame DEF SeenOK
<1>2. (pc[Daemon] \in {"tasks", "react", "record"} => Covers(run[Daemon], target[Daemon]))'
  <2> SUFFICES ASSUME pc'[Daemon] \in {"tasks", "react", "record"}
               PROVE  Covers(run[Daemon], target[Daemon])'
    OBVIOUS
  <2>1. pc[Daemon] \in {"tasks", "react", "record"} /\ target[Daemon] \in Dag
    BY <1>0 DEF CallsOK
  <2>2. Covers(run[Daemon], target[Daemon])
    BY <2>1 DEF SeenOK
  <2> QED
    BY <2>1, <2>2 DEF Covers, RowsKept, RunIds
<1>3. (phase = "mark" => \A x \in due : FirstDue(x) => \E i \in RunIds : Covers(i, x[1]))'
  <2> SUFFICES ASSUME phase' = "mark", NEW x \in due, FirstDue(x)
               PROVE  \E i \in RunIds : i \in DOMAIN runs' /\ Covers(i, x[1])'
    BY FirstDueSame DEF RunIds
  <2>1. PICK i \in RunIds : Covers(i, x[1])
    BY DEF SeenOK
  <2>2. x[1] \in Dag
    BY <1>0 DEF TypeOK
  <2> QED
    BY <2>1, <2>2, CoversKept DEF RowsKept
<1> QED
  BY <1>1, <1>2, <1>3 DEF SeenOK

\* A run that opens in the daemon has every success before it.
LEMMA SeenOpen ==
  ASSUME IInv, SeenOK, Open(Daemon)
  PROVE  SeenOK'
<1>0. /\ TypeOK /\ CallsOK /\ Daemon \in Worker /\ pc[Daemon] = "start" /\ phase = "execute"
      /\ target[Daemon] \in Dag /\ Len(runs) \in Nat /\ RunIds = 1..Len(runs)
      /\ runs \in Seq(Run)
      /\ UNCHANGED <<target, phase, due, captured>>
  <2>1. TypeOK /\ CallsOK /\ Daemon \in Worker /\ pc[Daemon] = "start"
    BY DEF IInv, Worker, Open
  <2>2. phase = "execute" /\ target[Daemon] \in Dag
    BY <2>1 DEF CallsOK, TypeOK
  <2>3. runs \in Seq(Run) /\ Len(runs) \in Nat /\ RunIds = 1..Len(runs)
    BY <2>1 DEF TypeOK, RunIds
  <2> QED
    BY <2>1, <2>2, <2>3 DEF Open, tick
<1> DEFINE d == target[Daemon]
           row == [dag |-> d, status |-> "running", owner |-> Daemon, orphan |-> FALSE,
                   saw |-> {i \in RunIds : runs[i].status = "succeeded"}]
<1>1. runs' = Append(runs, row) /\ run'[Daemon] = Len(runs) + 1
  BY <1>0 DEF Open, TypeOK
<1>2. Len(runs) + 1 \in DOMAIN runs' /\ runs'[Len(runs) + 1] = row
  <2> HIDE DEF row
  <2> QED
    BY <1>0, <1>1
<1>3. \A c \in captured[d] : c[2] \in row.saw
  BY <1>0 DEF IInv, SuccessesOK, SuccessOf
<1>4. Covers(run[Daemon], target[Daemon])'
  BY <1>0, <1>1, <1>2, <1>3 DEF Covers, RunIds
<1>5. (\E x \in due : FirstDue(x) /\ target[Daemon] = x[1])'
  BY <1>0, FirstDueSame DEF SeenOK
<1> QED
  BY <1>0, <1>4, <1>5 DEF SeenOK

\* The call of the daemon is over: what it was for is still the first due.
LEMMA SeenReturn ==
  ASSUME IInv, SeenOK, RowsKept, Return(Daemon)
  PROVE  SeenOK'
<1>0. /\ TypeOK /\ Daemon \in Worker /\ pc[Daemon] = "react" /\ pc'[Daemon] = "idle"
      /\ UNCHANGED <<due, captured>> /\ target[Daemon] \in Dag
  BY DEF IInv, Worker, CallsOK, TypeOK, Return, Reset, tick
<1>1. Covers(run[Daemon], target[Daemon])
  BY <1>0 DEF SeenOK
<1>2. PICK i \in RunIds : i = run[Daemon]
  BY <1>1 DEF Covers
<1>3. ASSUME NEW x \in due, FirstDue(x) PROVE Covers(i, x[1])'
  <2>1. x[1] = target[Daemon]
    BY <1>0, <1>3, FirstDueUnique DEF SeenOK
  <2>2. Covers(i, x[1]) /\ x[1] \in Dag
    BY <1>0, <1>1, <1>2, <2>1
  <2> QED
    BY <1>0, <2>2, CoversKept
<1>4. i \in DOMAIN runs'
  BY DEF RowsKept
<1> QED
  BY <1>0, <1>3, <1>4, FirstDueSame DEF SeenOK, RunIds

\* A mark takes from what was captured, and moves no row.
LEMMA SeenMark ==
  ASSUME IInv, SeenOK, RowsKept, Mark
  PROVE  SeenOK'
<1>0. /\ TypeOK /\ Daemon \in Worker /\ phase = "mark" /\ pc[Daemon] = "idle"
      /\ UNCHANGED <<due, pc>> /\ captured \in [Dag -> SUBSET Reaction]
  BY DEF IInv, Worker, CallsOK, TypeOK, Mark, call
<1>1. \A d \in Dag : captured'[d] \subseteq captured[d]
  BY <1>0 DEF Mark
<1>2. ASSUME NEW x \in due, FirstDue(x) PROVE \E i \in DOMAIN runs' : Covers(i, x[1])'
  <2>1. PICK i \in RunIds : Covers(i, x[1])
    BY <1>0, <1>2 DEF SeenOK
  <2>2. x[1] \in Dag
    BY <1>0 DEF TypeOK
  <2> QED
    BY <1>1, <2>1, <2>2, CoversKept DEF RowsKept
<1> QED
  BY <1>0, <1>2, FirstDueSame DEF SeenOK, RunIds

LEMMA SeenDispatch ==
  ASSUME IInv, Dispatch
  PROVE  SeenOK'
<1>0. TypeOK /\ Daemon \in Worker /\ pc'[Daemon] = "load" /\ phase' = "execute" /\ UNCHANGED due
  BY DEF IInv, Worker, TypeOK, Dispatch, tick
<1>1. \E x \in due : FirstDue(x) /\ target'[Daemon] = x[1]
  BY <1>0 DEF Dispatch, TypeOK, FirstDue
<1> QED
  BY <1>0, <1>1, FirstDueSame DEF SeenOK

LEMMA SeenStep ==
  ASSUME IInv, SeenOK, [Next]_vars
  PROVE  SeenOK'
<1>0. /\ TypeOK /\ CallsOK /\ RowsKept /\ Daemon \in Worker /\ Daemon \notin Manual
      /\ Worker = Manual \cup {Daemon} /\ Manual \subseteq Worker
  BY RowsStep, SchedulingAssumption DEF IInv, Worker
<1>1. ASSUME NEW w \in Manual,
             Execute(w) \/ EndManual(w) \/ Escape(w) \/ \E d \in Dag : Begin(w, d)
      PROVE  SeenOK'
  <2>1. /\ pc'[Daemon] = pc[Daemon] /\ target'[Daemon] = target[Daemon]
        /\ run'[Daemon] = run[Daemon] /\ w # Daemon
    BY <1>0, <1>1 DEF TypeOK, Execute, Load, LoadFails, Ensure, Open, Complete, React, Record,
                      Return, EndManual, Escape, Begin, Reset
  <2>2. UNCHANGED <<due, captured, phase>>
    BY <1>1, <2>1 DEF Execute, Load, LoadFails, Ensure, Open, Complete, React, Record, Return,
                      EndManual, Escape, Begin, tick
  <2> QED
    BY <1>0, <2>1, <2>2, SeenSame
<1>2. CASE Load(Daemon) \/ Ensure(Daemon) \/ Complete(Daemon) \/ React(Daemon) \/ Record(Daemon)
  <2>1. /\ UNCHANGED <<due, captured, phase, target, run>>
        /\ \/ pc'[Daemon] = pc[Daemon]
           \/ pc[Daemon] \in {"load", "open"} /\ pc'[Daemon] \in {"open", "start"}
           \/ pc[Daemon] \in {"tasks", "react", "record"} /\ pc'[Daemon] \in {"react", "record"}
    BY <1>0, <1>2 DEF TypeOK, Load, Ensure, Complete, React, Record, tick
  <2> QED
    BY <1>0, <2>1, SeenSame
<1>3. CASE LoadFails(Daemon) \/ CrashDaemon
  <2>1. pc'[Daemon] = "idle" /\ phase' = "down"
    BY <1>0, <1>3 DEF TypeOK, LoadFails, CrashDaemon, Reset, DaemonGone
  <2> QED
    BY <2>1, SeenIdle
<1>4. CASE Open(Daemon)
  BY <1>4, SeenOpen
<1>5. CASE Return(Daemon)
  BY <1>0, <1>5, SeenReturn
<1>6. CASE Mark
  BY <1>0, <1>6, SeenMark
<1>7. CASE Dispatch
  BY <1>7, SeenDispatch
<1>8. CASE Tick /\ ~Mark /\ ~Dispatch
  <2>1. phase # "execute" /\ phase' # "mark" /\ pc' = pc
    BY <1>8 DEF Tick, ListIncomplete, LookUpOwners, Interrupt, ReadRunning, ListDags,
                DecideInterval, ReadUpstream, Compare, DecideTrigger, MarkedAll, EndTick, call
  <2> QED
    BY <1>0, <2>1, SeenIdle DEF CallsOK
<1>9. CASE StartDaemon \/ StopDaemon
  <2>1. phase # "execute" /\ phase' # "mark" /\ pc' = pc
    BY <1>9 DEF StartDaemon, StopDaemon, DaemonGone, call
  <2> QED
    BY <1>0, <2>1, SeenIdle DEF CallsOK
<1>10. CASE (\E d \in Dag : Register(d) \/ SetEnabled(d) \/ EditFile(d)) \/ UNCHANGED vars
  <2>1. UNCHANGED <<due, captured, phase, target, run, pc>>
    BY <1>10 DEF Register, SetEnabled, EditFile, vars, call, tick
  <2> QED
    BY <1>0, <2>1, SeenSame
<1>11. (\E w \in Worker : Execute(w)) =>
         \/ \E w \in Manual : Execute(w)
         \/ Load(Daemon) \/ LoadFails(Daemon) \/ Ensure(Daemon) \/ Open(Daemon)
         \/ Complete(Daemon) \/ React(Daemon) \/ Record(Daemon) \/ Return(Daemon)
  BY <1>0 DEF Execute
<1> QED
  BY <1>1, <1>2, <1>3, <1>4, <1>5, <1>6, <1>7, <1>8, <1>9, <1>10, <1>11 DEF Next, Undisturbed

LEMMA SeenInitially == Init => SeenOK
  BY DEF Init, SeenOK, Worker

\* tick() marks only what had succeeded when some run of the downstream began in
\* the daemon, so it consumes no success that came while its downstream ran.
THEOREM MarksWhatItSaw == Spec => MarkedWasSeen
<1>1. IInv /\ SeenOK /\ [Next]_vars =>
        [phase = "mark" /\ captured' # captured =>
           \A d, u \in Dag : reacted'[d][u] # reacted[d][u] =>
              \E i \in RunIds : /\ runs[i].dag = d /\ runs[i].owner = Daemon
                                /\ reacted'[d][u] \in runs[i].saw]_vars
  <2> SUFFICES ASSUME IInv, SeenOK, [Next]_vars, phase = "mark", captured' # captured,
                      NEW d \in Dag, NEW u \in Dag, reacted'[d][u] # reacted[d][u]
               PROVE  \E i \in RunIds : /\ runs[i].dag = d /\ runs[i].owner = Daemon
                                        /\ reacted'[d][u] \in runs[i].saw
    OBVIOUS
  <2>1. Mark
    <3>1. pc[Daemon] = "idle" /\ Daemon \in Worker
      BY DEF IInv, CallsOK, Worker
    <3>2. ASSUME NEW w \in Worker, Execute(w) PROVE FALSE
      BY <3>1, <3>2 DEF Execute, Load, LoadFails, Ensure, Open, Complete, React, Record, Return,
                        tick
    <3>3. ASSUME NEW w \in Manual, EndManual(w) \/ Escape(w) \/ \E e \in Dag : Begin(w, e)
          PROVE  FALSE
      BY <3>3 DEF EndManual, Escape, Begin, tick
    <3>4. CASE Tick
      BY <3>4 DEF Tick, ListIncomplete, LookUpOwners, Interrupt, ReadRunning, ListDags,
                  DecideInterval, ReadUpstream, Compare, DecideTrigger, Dispatch, MarkedAll, EndTick
    <3>5. ASSUME StartDaemon \/ StopDaemon \/ CrashDaemon PROVE FALSE
      BY <3>5 DEF StartDaemon, StopDaemon, CrashDaemon
    <3>6. ASSUME (\E e \in Dag : Register(e) \/ SetEnabled(e) \/ EditFile(e)) \/ UNCHANGED vars
          PROVE  FALSE
      BY <3>6 DEF Register, SetEnabled, EditFile, vars, tick
    <3> QED
      BY <3>2, <3>3, <3>4, <3>5, <3>6 DEF Next, Undisturbed
  <2>2. PICK x \in due : FirstDue(x) /\ \E c \in captured[x[1]] :
          reacted' = [reacted EXCEPT ![x[1]][c[1]] = c[2]]
    BY <2>1 DEF Mark, RecordReaction
  <2>3. PICK c \in captured[x[1]] : reacted' = [reacted EXCEPT ![x[1]][c[1]] = c[2]]
    BY <2>2
  <2>4. x[1] = d /\ reacted'[d][u] = c[2]
    BY <2>3 DEF IInv, TypeOK
  <2>5. PICK i \in RunIds : Covers(i, x[1])
    BY <2>2 DEF SeenOK
  <2> QED
    BY <2>3, <2>4, <2>5 DEF Covers
<1>2. Spec => [](IInv /\ SeenOK)
  <2>1. Init => IInv /\ SeenOK
    BY Initially, SeenInitially
  <2>2. IInv /\ SeenOK /\ [Next]_vars => (IInv /\ SeenOK)'
    BY Step, SeenStep
  <2> QED
    BY <2>1, <2>2, PTL DEF Spec
<1> QED
  BY <1>1, <1>2, PTL DEF Spec, MarkedWasSeen
-----------------------------------------------------------------------------
(* What runs beside a run of the daemon *)

\* A row still `running` whose owner is the daemon, alive, is of its present call.
OwnRowOK ==
    \A i \in RunIds :
        runs[i].status = "running" /\ runs[i].owner = Daemon /\ ~runs[i].orphan =>
            pc[Daemon] = "tasks" /\ run[Daemon] = i

\* The rows of the daemon are left alone, and so is its call.
LEMMA OwnRowSame ==
  ASSUME OwnRowOK, RowsAnswer, \A i \in RunIds : runs'[i].owner = runs[i].owner,
         \A i \in DOMAIN runs' \ RunIds : runs'[i].owner # Daemon,
         pc[Daemon] = "tasks" => (pc'[Daemon] = "tasks" /\ run'[Daemon] = run[Daemon])
  PROVE  OwnRowOK'
<1> SUFFICES ASSUME NEW i \in DOMAIN runs',
                    runs'[i].status = "running", runs'[i].owner = Daemon, ~runs'[i].orphan
             PROVE  pc'[Daemon] = "tasks" /\ run'[Daemon] = i
  BY DEF OwnRowOK, RunIds
<1>1. i \in RunIds /\ RowStep(runs[i], runs'[i]) /\ runs[i].owner = Daemon
  BY DEF RowsAnswer
<1>2. runs[i].status = "running" /\ ~runs[i].orphan
  BY <1>1 DEF RowStep
<1> QED
  BY <1>1, <1>2 DEF OwnRowOK

LEMMA OwnRowStep ==
  ASSUME IInv, OwnRowOK, [Next]_vars
  PROVE  OwnRowOK'
<1>0. /\ TypeOK /\ CallsOK /\ RowsAnswer /\ RowsKept /\ Daemon \in Worker /\ Daemon \notin Manual
      /\ Worker = Manual \cup {Daemon} /\ Manual \subseteq Worker
  BY RowsStep, AnswerStep, SchedulingAssumption DEF IInv, Worker
<1>1. \A i \in RunIds : runs'[i].owner = runs[i].owner
  BY <1>0 DEF RowsKept
<1>2. ASSUME runs' = Orphaned(Daemon) PROVE OwnRowOK'
  BY <1>2 DEF OwnRowOK, Orphaned, AsOrphan, RunIds
<1>3. ASSUME DOMAIN runs' = RunIds,
             pc[Daemon] = "tasks" => (pc'[Daemon] = "tasks" /\ run'[Daemon] = run[Daemon])
      PROVE  OwnRowOK'
  BY <1>0, <1>1, <1>3, OwnRowSame
<1>4. ASSUME NEW w \in Worker, Open(w) PROVE OwnRowOK'
  <2>1. /\ target[w] \in Dag /\ Len(runs) \in Nat /\ RunIds = 1..Len(runs)
        /\ DOMAIN runs' = 1..(Len(runs) + 1) /\ runs'[Len(runs) + 1].owner = w
    <3>1. target[w] \in Dag
      BY <1>0, <1>4 DEF CallsOK, Open
    <3>2. /\ runs' \in Seq(Run) /\ Len(runs') = Len(runs) + 1 /\ runs'[Len(runs) + 1].owner = w
      BY <1>0, <1>4, <3>1, OpenRows
    <3>3. Len(runs) \in Nat /\ RunIds = 1..Len(runs)
      BY <1>0 DEF TypeOK, RunIds
    <3> QED
      BY <3>1, <3>2, <3>3
  <2>2. DOMAIN runs' \ RunIds = {Len(runs) + 1}
    BY <2>1
  <2>3. CASE w # Daemon
    <3>1. pc'[Daemon] = pc[Daemon] /\ run'[Daemon] = run[Daemon]
      BY <1>0, <1>4, <2>3 DEF Open, TypeOK
    <3> QED
      BY <1>0, <1>1, <2>1, <2>2, <2>3, <3>1, OwnRowSame
  <2>4. CASE w = Daemon
    <3>1. pc[Daemon] = "start" /\ pc'[Daemon] = "tasks" /\ run'[Daemon] = Len(runs) + 1
      BY <1>0, <1>4, <2>4 DEF Open, TypeOK
    <3>2. ASSUME NEW i \in RunIds, runs'[i].status = "running", runs'[i].owner = Daemon,
                 ~runs'[i].orphan
          PROVE  FALSE
      <4>1. RowStep(runs[i], runs'[i]) /\ runs[i].owner = Daemon
        BY <1>0, <1>1, <3>2 DEF RowsAnswer
      <4>2. runs[i].status = "running" /\ ~runs[i].orphan
        BY <3>2, <4>1 DEF RowStep
      <4> QED
        BY <3>1, <4>1, <4>2 DEF OwnRowOK
    <3> QED
      BY <2>1, <2>2, <3>1, <3>2 DEF OwnRowOK, RunIds
  <2> QED
    BY <2>3, <2>4
<1>5. ASSUME NEW w \in Worker, Complete(w) PROVE OwnRowOK'
  <2>1. DOMAIN runs' = RunIds
    BY <1>5 DEF Complete, RunIds
  <2>2. CASE w # Daemon
    BY <1>0, <1>3, <1>5, <2>1, <2>2 DEF Complete, TypeOK
  <2>3. CASE w = Daemon
    <3>1. /\ run[Daemon] \in RunIds /\ pc[Daemon] = "tasks"
          /\ runs'[run[Daemon]].status # "running"
          /\ \A i \in RunIds : i # run[Daemon] => runs'[i] = runs[i]
      BY <1>0, <1>5, <2>3 DEF Complete, CallsOK, RunIds, WithStatus
    <3> QED
      BY <2>1, <3>1 DEF OwnRowOK, RunIds
  <2> QED
    BY <2>2, <2>3
<1>6. ASSUME NEW w \in Worker, Load(w) \/ Ensure(w) \/ React(w) \/ Record(w) \/ Return(w)
      PROVE  /\ DOMAIN runs' = RunIds
             /\ pc[Daemon] = "tasks" => (pc'[Daemon] = "tasks" /\ run'[Daemon] = run[Daemon])
  BY <1>0, <1>6 DEF Load, Ensure, React, Record, RecordReaction, Return, Reset, store, TypeOK,
                    RunIds
<1>7. ASSUME NEW w \in Manual, LoadFails(w) \/ EndManual(w) \/ Escape(w) \/ \E d \in Dag : Begin(w, d)
      PROVE  /\ DOMAIN runs' = RunIds
             /\ pc[Daemon] = "tasks" => (pc'[Daemon] = "tasks" /\ run'[Daemon] = run[Daemon])
  BY <1>0, <1>7 DEF LoadFails, EndManual, Escape, Begin, Reset, Orphaned, store, TypeOK, RunIds
<1>8. ASSUME LoadFails(Daemon) \/ StopDaemon \/ CrashDaemon PROVE runs' = Orphaned(Daemon)
  BY <1>8 DEF LoadFails, StopDaemon, CrashDaemon, DaemonGone
<1>9. ASSUME Tick
      PROVE  /\ DOMAIN runs' = RunIds
             /\ pc[Daemon] = "tasks" => (pc'[Daemon] = "tasks" /\ run'[Daemon] = run[Daemon])
  <2>1. phase # "execute"
    BY <1>9 DEF Tick, ListIncomplete, LookUpOwners, Interrupt, ReadRunning, ListDags,
                DecideInterval, ReadUpstream, Compare, DecideTrigger, Dispatch, Mark, MarkedAll,
                EndTick
  <2>2. pc[Daemon] = "idle"
    BY <1>0, <2>1 DEF CallsOK
  <2>3. DOMAIN runs' = RunIds
    BY <1>9 DEF Tick, ListIncomplete, LookUpOwners, Interrupt, ReadRunning, ListDags,
                DecideInterval, ReadUpstream, Compare, DecideTrigger, Dispatch, Mark, MarkedAll,
                EndTick, RecordReaction, store, RunIds
  <2> QED
    BY <2>2, <2>3
<1>10. ASSUME \/ StartDaemon \/ UNCHANGED vars
              \/ \E d \in Dag : Register(d) \/ SetEnabled(d) \/ EditFile(d)
       PROVE  pc' = pc /\ run' = run /\ DOMAIN runs' = RunIds
  BY <1>10 DEF StartDaemon, Register, SetEnabled, EditFile, vars, store, call, RunIds
<1> QED
  BY <1>0, <1>2, <1>3, <1>4, <1>5, <1>6, <1>7, <1>8, <1>9, <1>10 DEF Next, Undisturbed, Execute

\* The daemon executes one run at a time, and a live daemon leaves no row of its
\* own behind: one that is `running` is that run.  So its next tick passes over no
\* DAG because of a run it has itself given up.
DaemonHoldsOneRow ==
    \A i \in Incomplete :
        runs[i].owner = Daemon /\ ~runs[i].orphan => pc[Daemon] = "tasks" /\ run[Daemon] = i

\* Of the rows of a live daemon only that of its current run is `running`.
THEOREM OneRowPerDaemon == Spec => []DaemonHoldsOneRow
<1>1. Init => IInv /\ OwnRowOK
  BY Initially DEF Init, OwnRowOK, RunIds
<1>2. IInv /\ OwnRowOK /\ [Next]_vars => (IInv /\ OwnRowOK)'
  BY Step, OwnRowStep
<1>3. OwnRowOK => DaemonHoldsOneRow
  BY DEF OwnRowOK, DaemonHoldsOneRow, Incomplete
<1> QED
  BY <1>1, <1>2, <1>3, PTL DEF Spec
-----------------------------------------------------------------------------
(* What the look at the running DAGs is worth when the daemon runs one *)

\* History: how many rows there were at the daemon's latest look at the running
\* DAGs, phase "running".  Nothing reads it.
VARIABLE looked

LookedInit == Init /\ looked = 0

LookedNext ==
    /\ Next
    /\ looked' = IF phase = "running" /\ phase' = "list" THEN Len(runs) ELSE looked

LookedSpec == LookedInit /\ [][LookedNext]_<<vars, looked>>

\* No row of d was `running` at that look, and none of those is now.
Free(d) == \A i \in RunIds : i <= looked /\ runs[i].dag = d => runs[i].status # "running"

\* Before the look nothing is due; after it, every DAG the tick still considers or
\* has found due was free.
LookedOK ==
    /\ looked \in 0..Len(runs)
    /\ phase \in {"down", "reconcile", "lookup", "interrupt", "running"} => due = {}
    /\ \A d \in todo : Free(d)
    /\ \A x \in due : Free(x[1])

LEMMA FreeKept ==
  ASSUME TypeOK, TypeOK', RowsKept, looked \in 0..Len(runs), looked' = looked, NEW d, Free(d)
  PROVE  Free(d)'
<1> SUFFICES ASSUME NEW i \in DOMAIN runs', i <= looked, runs'[i].dag = d
             PROVE  runs'[i].status # "running"
  BY DEF Free, RunIds
<1>1. RunIds = 1..Len(runs) /\ Len(runs) \in Nat /\ i \in Nat \ {0}
  BY DEF TypeOK, RunIds
<1>2. i \in RunIds
  BY <1>1
<1> QED
  BY <1>2 DEF Free, RowsKept

LEMMA LookedInitially == LookedInit => LookedOK
  BY DEF LookedInit, Init, LookedOK

\* The look itself: what is not in todo had a running row.
LEMMA LookedAtRunning ==
  ASSUME TypeOK, LookedOK, ReadRunning, looked' = Len(runs)
  PROVE  LookedOK'
<1>1. /\ runs' = runs /\ due = {} /\ due' = {} /\ phase' = "list" /\ Len(runs) \in Nat
      /\ todo' = Dag \ {runs[i].dag : i \in Incomplete}
  BY DEF LookedOK, ReadRunning, store, TypeOK
<1>2. ASSUME NEW d \in todo' PROVE Free(d)'
  BY <1>1, <1>2 DEF Free, Incomplete, RunIds
<1> QED
  BY <1>1, <1>2 DEF LookedOK

\* Any other step adds nothing to todo, and to due only what was in todo.
LEMMA LookedKept ==
  ASSUME TypeOK, TypeOK', RowsKept, LookedOK, looked' = looked, todo' \subseteq todo,
         \A x \in due' : x \in due \/ x[1] \in todo,
         \/ phase' \notin {"down", "reconcile", "lookup", "interrupt", "running"}
         \/ due' = {}
  PROVE  LookedOK'
<1>1. looked' \in 0..Len(runs')
  BY DEF LookedOK, RowsKept, TypeOK
<1>2. \A d : Free(d) => Free(d)'
  BY FreeKept DEF LookedOK
<1> QED
  BY <1>1, <1>2 DEF LookedOK

LEMMA OnlyReadRunning ==
  ASSUME TypeOK, CallsOK, Next, phase = "running", phase' = "list"
  PROVE  ReadRunning
<1>1. ASSUME NEW w \in Worker, Execute(w) PROVE phase' \in {phase, "down", "mark"}
  BY <1>1 DEF Execute, Load, LoadFails, Ensure, Open, Complete, React, Record, Return,
              DaemonGone, tick
<1>2. ASSUME NEW w \in Manual, EndManual(w) \/ Escape(w) \/ \E d \in Dag : Begin(w, d)
      PROVE  phase' = phase
  BY <1>2 DEF EndManual, Escape, Begin
<1>3. ASSUME Tick PROVE ReadRunning
  BY <1>3 DEF Tick, ListIncomplete, LookUpOwners, Interrupt, ListDags, DecideInterval,
       ReadUpstream, Compare, DecideTrigger, Dispatch, Mark, MarkedAll, EndTick
<1>4. ASSUME StartDaemon \/ StopDaemon \/ CrashDaemon PROVE phase' \in {"down", "reconcile"}
  BY <1>4 DEF StartDaemon, StopDaemon, CrashDaemon, DaemonGone
<1>5. ASSUME \E d \in Dag : Register(d) \/ SetEnabled(d) \/ EditFile(d) PROVE phase' = phase
  BY <1>5 DEF Register, SetEnabled, EditFile
<1> QED
  BY <1>1, <1>2, <1>3, <1>4, <1>5 DEF Next, Undisturbed

LEMMA LookedStep ==
  ASSUME IInv, IInv', LookedOK, [LookedNext]_<<vars, looked>>
  PROVE  LookedOK'
<1>0. TypeOK /\ TypeOK' /\ CallsOK /\ [Next]_vars /\ RowsKept
  <2>1. [Next]_vars
    BY DEF LookedNext
  <2> QED
    BY <2>1, RowsStep DEF IInv
<1>1. CASE ReadRunning /\ LookedNext
  BY <1>0, <1>1, LookedAtRunning DEF ReadRunning, LookedNext
<1>2. ASSUME UNCHANGED <<todo, due>>, looked' = looked, due = {} \/ phase' \notin {"down", "reconcile", "lookup", "interrupt", "running"}
      PROVE  LookedOK'
  BY <1>0, <1>2, LookedKept
<1>3. ASSUME todo' = {}, due' = {}, looked' = looked PROVE LookedOK'
  BY <1>0, <1>3, LookedKept
<1>4. ASSUME NEW w \in Worker, Execute(w), ~LoadFails(w)
      PROVE  UNCHANGED <<todo, due>> /\ (UNCHANGED phase \/ phase' = "mark")
  BY <1>4 DEF Execute, Load, Ensure, Open, Complete, React, Record, Return, tick
<1>5. ASSUME NEW w \in Worker, LoadFails(w)
      PROVE  (todo' = {} /\ due' = {}) \/ UNCHANGED <<todo, due, phase>>
  BY <1>5 DEF LoadFails, DaemonGone, NoTick, tick
<1>6. ASSUME NEW w \in Manual, EndManual(w) \/ Escape(w) \/ \E d \in Dag : Begin(w, d)
      PROVE  UNCHANGED <<todo, due, phase>>
  BY <1>6 DEF EndManual, Escape, Begin, tick
<1>7. ASSUME \E d \in Dag : Register(d) \/ SetEnabled(d) \/ EditFile(d)
      PROVE  UNCHANGED <<todo, due, phase>>
  BY <1>7 DEF Register, SetEnabled, EditFile, tick
<1>8. ASSUME StopDaemon \/ CrashDaemon \/ EndTick PROVE todo' = {} /\ due' = {}
  BY <1>8 DEF StopDaemon, CrashDaemon, EndTick, DaemonGone, NoTick
<1>9. ASSUME StartDaemon \/ ListIncomplete \/ LookUpOwners \/ Interrupt
      PROVE  /\ phase \in {"down", "reconcile", "lookup", "interrupt"}
             /\ UNCHANGED <<todo, due>>
  BY <1>9 DEF StartDaemon, ListIncomplete, LookUpOwners, Interrupt, tick
<1>10. ASSUME ReadUpstream \/ Compare \/ Dispatch \/ Mark
       PROVE  /\ UNCHANGED <<todo, due>>
              /\ phase' \in {"upstream", "compare", "execute", "mark"}
  BY <1>10 DEF ReadUpstream, Compare, Dispatch, Mark, tick
<1>11. ASSUME DecideInterval \/ DecideTrigger \/ ListDags \/ MarkedAll
       PROVE  /\ todo' \subseteq todo /\ \A x \in due' : x \in due \/ x[1] \in todo
              /\ phase' \in {"list", "decide", "upstream", "dispatch"}
  <2>1. CASE DecideInterval
    BY <2>1 DEF DecideInterval, Decided
  <2>2. CASE DecideTrigger
    BY <2>2 DEF DecideTrigger, Decided
  <2>3. CASE ListDags \/ MarkedAll
    BY <2>3 DEF ListDags, MarkedAll
  <2> QED
    BY <1>11, <2>1, <2>2, <2>3
<1>12. ASSUME LookedNext, ~ReadRunning PROVE looked' = looked
  <2>1. ~(phase = "running" /\ phase' = "list")
    BY <1>0, <1>12, OnlyReadRunning DEF LookedNext
  <2> QED
    BY <1>12, <2>1 DEF LookedNext
<1>13. CASE LookedNext /\ ~ReadRunning
  <2>1. Next /\ looked' = looked
    BY <1>12, <1>13 DEF LookedNext
  <2>2. ASSUME UNCHANGED <<todo, due, phase>> PROVE LookedOK'
    BY <1>2, <2>1, <2>2 DEF LookedOK
  <2>3. CASE \E w \in Worker : Execute(w)
    BY <1>2, <1>3, <1>4, <1>5, <2>1, <2>2, <2>3
  <2>4. CASE Tick
    BY <1>2, <1>3, <1>8, <1>9, <1>10, <1>11, <1>0, <1>13, <2>1, <2>4, LookedKept
       DEF Tick, LookedOK
  <2>5. CASE StartDaemon \/ StopDaemon \/ CrashDaemon
    BY <1>2, <1>3, <1>8, <1>9, <2>1, <2>5 DEF LookedOK
  <2> QED
    BY <1>6, <1>7, <2>1, <2>2, <2>3, <2>4, <2>5 DEF Next, Undisturbed
<1>14. CASE UNCHANGED <<vars, looked>>
  BY <1>2, <1>14 DEF LookedOK, vars, tick
<1> QED
  BY <1>1, <1>13, <1>14

\* A run the daemon opens stands beside a running row of the same DAG only if that
\* row was opened after the daemon's look at the running DAGs in this tick: an older
\* one is always seen, however long the runs before this one took.
OlderRunsAreSeen ==
    [][pc[Daemon] = "start" /\ pc'[Daemon] = "tasks" =>
         \A i \in Incomplete : runs[i].dag = target[Daemon] => i > looked]_<<vars, looked>>

\* tick() reads the running DAGs once; what has been opened before that it heeds.
THEOREM NeverBesideAnOlderRun == LookedSpec => OlderRunsAreSeen
<1> DEFINE Inv == IInv /\ SeenOK /\ LookedOK
<1>1. LookedInit => Inv
  BY Initially, SeenInitially, LookedInitially DEF LookedInit
<1>2. Inv /\ [LookedNext]_<<vars, looked>> => Inv'
  <2> SUFFICES ASSUME Inv, [LookedNext]_<<vars, looked>> PROVE Inv'
    OBVIOUS
  <2>1. [Next]_vars
    BY DEF LookedNext
  <2>2. IInv' /\ SeenOK'
    BY <2>1, Step, SeenStep
  <2> QED
    BY <2>2, LookedStep
<1>3. Inv => (pc[Daemon] = "start" =>
                \A i \in Incomplete : runs[i].dag = target[Daemon] => i > looked)
  <2> SUFFICES ASSUME Inv, pc[Daemon] = "start", NEW i \in Incomplete,
                      runs[i].dag = target[Daemon]
               PROVE  i > looked
    OBVIOUS
  <2>1. Free(target[Daemon])
    BY DEF SeenOK, FirstDue, LookedOK
  <2>2. i \in RunIds /\ runs[i].status = "running"
    BY DEF Incomplete
  <2>3. ~(i <= looked) /\ i \in Int /\ looked \in Int
    BY <2>1, <2>2 DEF Free, LookedOK, IInv, TypeOK, RunIds
  <2> QED
    BY <2>3
<1> QED
  BY <1>1, <1>2, <1>3, PTL DEF LookedSpec, OlderRunsAreSeen
==============================================================================
