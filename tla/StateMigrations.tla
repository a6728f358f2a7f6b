--------------------------- MODULE StateMigrations ---------------------------
(***************************************************************************)
(* Opening the state store: _ensure_schema() brings a file of any earlier  *)
(* version to the latest one (state/store.py).  executescript() commits    *)
(* each statement of a migration by itself, and the version is recorded in *)
(* a transaction of its own, so a process that dies, or meets a locked     *)
(* database, leaves the file between any two of them.                      *)
(***************************************************************************)
EXTENDS Naturals, Sequences

CONSTANTS
    Opener,   \* processes that open the store
    History,  \* what an earlier version has recorded, a row in each of the two tables
    Missing   \* no such table

VARIABLES
    tables,    \* tables[t]: Missing, or its rows and the features its shape has
    versions,  \* the rows of schema_version
    recorded,  \* history: the rows of each of the two tables at first
    at,        \* where process p is in StateStore.__init__()
    current,   \* current_version, then the migration p is applying
    hasRow,    \* has_row
    line       \* the statement of the migration that is next

process == <<at, current, hasRow, line>>
vars    == <<tables, versions, recorded, process>>

Tables == {"dag_runs", "dag_runs_new", "task_runs", "task_runs_new",
           "task_attempts", "dag_trigger_reactions"}

-----------------------------------------------------------------------------
(* The migrations, a sequence of statements each *)

DropIfExists(t)     == [op |-> "drop if exists", table |-> t]
CreateIfMissing(t)  == [op |-> "create if missing", table |-> t]
Create(t, features) == [op |-> "create", table |-> t, has |-> features]

Copy == [t \in {"dag_runs", "task_runs"} |->
    IF t = "dag_runs" THEN "dag_runs_new" ELSE "task_runs_new"]

\* SQLite cannot alter a CHECK: a table under a temporary name takes its place.
Rebuild(t, features, selected) ==
    << DropIfExists(Copy[t]),
       Create(Copy[t], features),
       [op |-> "copy", from |-> t, table |-> Copy[t], needs |-> selected],
       [op |-> "drop", table |-> t],
       [op |-> "rename", from |-> Copy[t], table |-> t] >>

Columns == {"on_failure", "severity"}

Script == <<
    << CreateIfMissing("dag_runs"), CreateIfMissing("task_runs") >>,
    Rebuild("task_runs", {"skipped"}, {}),
    << DropIfExists("task_attempts") >>
        \o Rebuild("task_runs", {"skipped", "blocked"}, {})
        \o << Create("task_attempts", {}) >>,
    << CreateIfMissing("dag_trigger_reactions") >>,
    << >>,
    Rebuild("dag_runs", Columns \cup {"interrupted", "owner_pid"}, Columns),
    << >> >>

Latest == Len(Script)

\* The column added to dag_runs before a script.
Column == [v \in {3, 5, 7} |->
    CASE v = 3 -> "on_failure" [] v = 5 -> "severity" [] v = 7 -> "owner_create_time_ns"]

-----------------------------------------------------------------------------
(* Statements *)

Exists(t) == tables[t] # Missing
Rows(t) == IF Exists(t) THEN tables[t].rows ELSE {}
Empty(features) == [rows |-> {}, has |-> features]

\* Whether SQLite raises OperationalError.
Raises(s) ==
    \/ s.op = "create" /\ Exists(s.table)
    \/ s.op = "copy" /\ ~(Exists(s.from) /\ Exists(s.table))
    \/ s.op = "copy" /\ Rows(s.from) \cap Rows(s.table) # {}
    \/ s.op = "copy" /\ Exists(s.from) /\ ~(s.needs \subseteq tables[s.from].has)
    \/ s.op = "drop" /\ ~Exists(s.table)
    \/ s.op = "rename" /\ (~Exists(s.from) \/ Exists(s.table))

Result(s) ==
    CASE s.op \in {"drop", "drop if exists"} -> [tables EXCEPT ![s.table] = Missing]
      [] s.op = "create if missing" ->
           [tables EXCEPT ![s.table] = IF Exists(s.table) THEN @ ELSE Empty({})]
      [] s.op = "create" -> [tables EXCEPT ![s.table] = Empty(s.has)]
      [] s.op = "copy" ->
           [tables EXCEPT ![s.table].rows = @ \cup Rows(s.from)]
      [] s.op = "rename" ->
           [tables EXCEPT ![s.table] = tables[s.from], ![s.from] = Missing]

-----------------------------------------------------------------------------

\* No file yet, or one that the first version has written.
Init ==
    /\ \/ versions = << >> /\ recorded = {} /\ tables = [t \in Tables |-> Missing]
       \/ versions = <<1>> /\ recorded = History /\ tables = [t \in Tables |->
            IF t \in {"dag_runs", "task_runs"} THEN [rows |-> History, has |-> {}] ELSE Missing]
    /\ at = [p \in Opener |-> "closed"]
    /\ current = [p \in Opener |-> 0]
    /\ hasRow = [p \in Opener |-> FALSE]
    /\ line = [p \in Opener |-> 0]

\* p goes on to the first statement of migration v, or is done.
Begin(p, v) ==
    /\ current' = [current EXCEPT ![p] = v]
    /\ line' = [line EXCEPT ![p] = 1]
    /\ at' = [at EXCEPT ![p] = CASE v > Latest -> "open"
                                 [] v \in DOMAIN Column -> "look"
                                 [] OTHER -> "script"]

ReadVersion(p) ==
    /\ at[p] = "closed"
    /\ hasRow' = [hasRow EXCEPT ![p] = versions # << >>]
    /\ Begin(p, IF versions = << >> THEN 1 ELSE Head(versions) + 1)
    /\ UNCHANGED <<recorded, tables, versions>>

\* PRAGMA table_info(dag_runs): the column is added only if it is not there.
LookForColumn(p) ==
    /\ at[p] = "look"
    /\ at' = [at EXCEPT ![p] =
         IF Exists("dag_runs") /\ Column[current[p]] \in tables["dag_runs"].has
         THEN "script" ELSE "add"]
    /\ UNCHANGED <<recorded, tables, versions, current, hasRow, line>>

AddColumn(p) ==
    /\ at[p] = "add"
    /\ IF Exists("dag_runs") /\ Column[current[p]] \notin tables["dag_runs"].has
       THEN /\ tables' = [tables EXCEPT !["dag_runs"].has = @ \cup {Column[current[p]]}]
            /\ at' = [at EXCEPT ![p] = "script"]
       ELSE at' = [at EXCEPT ![p] = "closed"] /\ UNCHANGED tables
    /\ UNCHANGED <<recorded, versions, current, hasRow, line>>

\* One statement of executescript(), committed; an error leaves __init__().
Execute(p) ==
    /\ at[p] = "script" /\ line[p] <= Len(Script[current[p]])
    /\ LET statement == Script[current[p]][line[p]] IN
         IF Raises(statement)
         THEN at' = [at EXCEPT ![p] = "closed"] /\ UNCHANGED <<tables, line>>
         ELSE /\ tables' = Result(statement)
              /\ line' = [line EXCEPT ![p] = @ + 1]
              /\ UNCHANGED at
    /\ UNCHANGED <<recorded, versions, current, hasRow>>

\* The UPDATE has no WHERE clause.
RecordVersion(p) ==
    /\ at[p] = "script" /\ line[p] > Len(Script[current[p]])
    /\ versions' = IF hasRow[p] THEN [i \in DOMAIN versions |-> current[p]]
                                ELSE Append(versions, current[p])
    /\ hasRow' = [hasRow EXCEPT ![p] = TRUE]
    /\ Begin(p, current[p] + 1)
    /\ UNCHANGED <<recorded, tables>>

\* The process dies, finds the database locked, or closes it.
Close(p) ==
    /\ at[p] # "closed"
    /\ at' = [at EXCEPT ![p] = "closed"]
    /\ UNCHANGED <<recorded, tables, versions, current, hasRow, line>>

Next == \E p \in Opener :
    \/ ReadVersion(p) \/ LookForColumn(p) \/ AddColumn(p) \/ Execute(p) \/ RecordVersion(p)
    \/ Close(p)

Spec == Init /\ [][Next]_vars

-----------------------------------------------------------------------------
(* Property *)

\* What a store had recorded is in it at every moment, in a table or in the
\* copy that is to replace it: retrying from any crash point converges on the
\* same end state with the same data.
RetryKeepsRows ==
    \A t \in {"dag_runs", "task_runs"} : recorded \subseteq Rows(t) \cup Rows(Copy[t])

=============================================================================
