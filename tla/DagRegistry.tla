----------------------------- MODULE DagRegistry -----------------------------
(***************************************************************************)
(* The dags row of one DAG name, and the three kinds of caller that write  *)
(* it: register_dag() of the CLI, the session and the API, with or without *)
(* force (dag/registration.py), the check-then-register of                 *)
(* DagExecutor.run() (dag/executor.py), and the API's pause and resume.    *)
(*                                                                         *)
(* The first two read the row, decide, and write it in a transaction of    *)
(* its own.  Several files may declare the name, and each may be edited.   *)
(***************************************************************************)
CONSTANTS
    File,        \* the DAG files that declare the name
    Schedule,    \* what `schedule:` may say: an interval that parses, or nothing
    Invalid,     \* a file that load_dag() refuses
    NoRow,       \* no dags row
    Registrar,   \* processes in register_dag()
    Runner       \* processes in DagExecutor.run()

Process == Registrar \cup Runner

Row == [path : File, schedule : Schedule, enabled : BOOLEAN]

ASSUME RegistryAssumption ==
    /\ Invalid \notin Schedule /\ NoRow \notin Row
    /\ Registrar \cap Runner = {}

VARIABLES
    declared,   \* declared[f]: the schedule of file f, or Invalid
    row,        \* the dags row
    pc,         \* pc[p]: where the call of process p is
    loaded,     \* loaded[p]: the <<file, schedule>> load_dag() returned
    force,      \* force[p]: the argument of register_dag()
    existing,   \* existing[p]: the row the call has seen
    (* history, never read by the code *)
    valid,      \* every <<file, schedule>> that load_dag() would have accepted
    stale       \* the calls that have seen a row which has changed since

caller == <<pc, loaded, force, existing>>
vars   == <<declared, row, caller, valid, stale>>

NewRow(source, e) == [path |-> source[1], schedule |-> source[2], enabled |-> e]

Accepted == {f \in File : declared[f] # Invalid}

Init ==
    /\ declared \in [File -> Schedule \cup {Invalid}]
    /\ row = NoRow
    /\ pc = [p \in Process |-> "idle"]
    /\ loaded = [p \in Process |-> << >>]
    /\ force = [p \in Process |-> FALSE]
    /\ existing = [p \in Process |-> NoRow]
    /\ valid = {<<f, declared[f]>> : f \in Accepted}
    /\ stale = {}

\* A call ends, and its locals are gone.
Over(p) ==
    /\ pc' = [pc EXCEPT ![p] = "idle"]
    /\ loaded' = [loaded EXCEPT ![p] = << >>]
    /\ force' = [force EXCEPT ![p] = FALSE]
    /\ existing' = [existing EXCEPT ![p] = NoRow]

\* Whoever writes the row makes what other calls have seen of it stale.
Outdated(r) ==
    IF r = row THEN stale ELSE {p \in Process : pc[p] \in {"create", "update"}}

\* The last write of a call: register_dag() of the store, an upsert.
Upsert(p, r) ==
    /\ row' = r
    /\ stale' = Outdated(r) \ {p}
    /\ Over(p)
    /\ UNCHANGED <<declared, valid>>

-----------------------------------------------------------------------------
(* register_dag() and the beginning of DagExecutor.run() *)

\* load_dag() of a file it accepts; of another, the call ends at once.
Load(p, f) ==
    /\ pc[p] = "idle" /\ f \in Accepted
    /\ loaded' = [loaded EXCEPT ![p] = <<f, declared[f]>>]
    /\ \E b \in BOOLEAN : force' = [force EXCEPT ![p] = b /\ p \in Registrar]
    /\ pc' = [pc EXCEPT ![p] = "get"]
    /\ UNCHANGED <<declared, row, existing, valid, stale>>

\* Mutant: a registered DAG is written again without force.
Get_IgnoresForce(p) ==
    /\ pc[p] = "get"
    /\ existing' = [existing EXCEPT ![p] = row]
    /\ pc' = [pc EXCEPT ![p] = IF row = NoRow THEN "create" ELSE "update"]
    /\ UNCHANGED <<declared, row, loaded, force, valid, stale>>

\* get_dag(): a registered DAG is left alone unless force says otherwise.
Get(p) ==
    /\ pc[p] = "get"
    /\ IF row # NoRow /\ ~force[p]
       THEN Over(p)
       ELSE /\ existing' = [existing EXCEPT ![p] = row]
            /\ pc' = [pc EXCEPT ![p] = IF row = NoRow THEN "create" ELSE "update"]
            /\ UNCHANGED <<loaded, force>>
    /\ UNCHANGED <<declared, row, valid, stale>>

\* The first registration enables the DAG.
Create(p) ==
    /\ pc[p] = "create"
    /\ Upsert(p, NewRow(loaded[p], TRUE))

\* Mutant: a forced registration enables the DAG too.
Update_Enables(p) ==
    /\ pc[p] = "update"
    /\ Upsert(p, NewRow(loaded[p], TRUE))

\* Mutant: the upsert leaves source_path as it was.
Update_KeepsPath(p) ==
    /\ pc[p] = "update"
    /\ Upsert(p, [path |-> existing[p].path, schedule |-> loaded[p][2],
                 enabled |-> existing[p].enabled])

\* Mutant: two columns of the upsert are swapped.
Update_SwapsColumns(p) ==
    /\ pc[p] = "update"
    /\ Upsert(p, [path |-> loaded[p][1], schedule |-> existing[p].enabled,
                 enabled |-> loaded[p][2]])

\* A forced one keeps the enabled flag it has seen.
Update(p) ==
    /\ pc[p] = "update"
    /\ Upsert(p, NewRow(loaded[p], existing[p].enabled))

\* The process dies, or the store refuses: the call ends, the row stays.
Abandon(p) ==
    /\ pc[p] # "idle"
    /\ Over(p)
    /\ stale' = stale \ {p}
    /\ UNCHANGED <<declared, row, valid>>

-----------------------------------------------------------------------------
(* Users *)

\* set_dag_enabled(): pause and resume.
SetEnabled(e) ==
    /\ row # NoRow
    /\ LET r == NewRow(<<row.path, row.schedule>>, e) IN row' = r /\ stale' = Outdated(r)
    /\ UNCHANGED <<declared, caller, valid>>

Edit(f, s) ==
    /\ declared' = [declared EXCEPT ![f] = s]
    /\ valid' = IF s = Invalid THEN valid ELSE valid \cup {<<f, s>>}
    /\ UNCHANGED <<row, caller, stale>>

User ==
    \/ \E e \in BOOLEAN : SetEnabled(e)
    \/ \E f \in File, s \in Schedule \cup {Invalid} : Edit(f, s)

Next ==
    \/ \E p \in Process : \/ \E f \in File : Load(p, f)
                          \/ Get(p) \/ Create(p) \/ Update(p) \/ Abandon(p)
    \/ User

Spec == Init /\ [][Next]_vars

-----------------------------------------------------------------------------
(* Properties *)

\* Every variable stays in its range.
TypeOK ==
    /\ declared \in [File -> Schedule \cup {Invalid}]
    /\ row \in Row \cup {NoRow}
    /\ pc \in [Process -> {"idle", "get", "create", "update"}]
    /\ loaded \in [Process -> (File \X Schedule) \cup {<< >>}]
    /\ force \in [Process -> BOOLEAN]
    /\ existing \in [Process -> Row \cup {NoRow}]
    /\ valid \subseteq File \X Schedule
    /\ stale \subseteq Process

\* The schedule of a row is one that its own source file declared at some time
\* and load_dag() accepted, whichever calls and edits overlapped.
RowReadFromOneFile == row # NoRow => <<row.path, row.schedule>> \in valid

\* Process p is the one that takes this step.
Acts(p) == pc'[p] # pc[p]

\* Only a user changes the enabled flag of a row, unless a call overlaps
\* another writer: registration itself neither pauses nor resumes.
EnabledChangedByUser ==
    [][row # NoRow /\ row'.enabled # row.enabled =>
         \A p \in Process : Acts(p) => p \in stale]_vars

\* A run, or a registration without force, leaves a row it has seen alone.
SeenRowKept ==
    [][row # NoRow /\ row' # row =>
         \A p \in Process : Acts(p) /\ ~force[p] => p \in stale]_vars

(* A statement of the code's own documentation; the run refutes it. *)

\* registration.py, register_dag(): "Even when forced, the DAG's current
\* `enabled` state survives the update unchanged".
EnabledSurvivesForce ==
    [][\A p \in Process : Acts(p) /\ pc[p] = "update" /\ row # row'
          => row'.enabled = row.enabled]_vars

=============================================================================
