-------------------------- MODULE PipelineDelivery --------------------------
(***************************************************************************)
(* Pipeline tasks that deliver into one SQL table: read, transform,        *)
(* prepare the Nexo Actions, write, invoke the actions                     *)
(* (execution/runner.py, connectors/sql.py, nexoactions/execution.py),     *)
(* again from the start when an attempt fails (dag/executor.py).           *)
(*                                                                         *)
(* A writer is a process with such a task; nothing keeps two of them from  *)
(* the same table.  Each call of the database is a step, for the dialect   *)
(* that excludes least: PostgreSQL, where a DELETE does not see the rows   *)
(* of transactions still open, and a DROP waits for them.  What SQLite     *)
(* does, which locks the database, is one of the behaviours.               *)
(***************************************************************************)
EXTENDS Naturals

CONSTANTS
    Writer,        \* processes that run a task of a DAG
    Retries,       \* [Writer -> Nat], `retries` of the task
    Mode,          \* the write modes in use, and "upsert" for the function
    Key,           \* the rows a source may deliver, by their unique key
    Malformed,     \* the rows that a transformation or a condition rejects
    ActionCount,   \* the actions of the pipeline, by declaration order
    Condition,     \* Condition[i]: the rows that match action i
    MatchAll       \* the actions with `match: all`

Modes   == {"append", "replace", "fail", "truncate", "upsert"}
Actions == 1..ActionCount

ASSUME DeliveryAssumption ==
    /\ Retries \in [Writer -> Nat]
    /\ Mode \subseteq Modes
    /\ Malformed \subseteq Key
    /\ ActionCount \in Nat
    /\ Condition \in [Actions -> SUBSET Key] /\ MatchAll \subseteq Actions

VARIABLES
    (* the database *)
    schema,     \* "none", "migrated" with its unique key, or "inferred" by a writer
    rows,       \* the rows of the table: <<key, number of the commit>>
    (* a task in a writer *)
    pc,         \* pc[w]: where it is
    attempt,    \* attempt[w]: attempt_number
    mode,       \* mode[w]: the write mode of the pipeline
    batch,      \* batch[w]: the rows to deliver
    snap,       \* snap[w]: the rows the DELETE of its transaction found
    outcomes,   \* outcomes[w]: the actions of result.actions that completed
    (* history, never read by the code *)
    commits,    \* the number of commits
    since,      \* since[w]: commits when w looked at the table, or cleared it
    written,    \* written[w]: the commit of this attempt, 0 for none
    resetAt     \* commits when rows were last removed

database == <<schema, rows, commits, resetAt>>
locals   == <<mode, batch, snap, outcomes, since, written>>
vars     == <<database, pc, attempt, locals>>

-----------------------------------------------------------------------------
Keys(R) == {r[1] : r \in R}

\* Every condition can be evaluated, on every row.
Preparable(b) == b \cap Malformed = {}

\* The actions the prepared batch invokes.
Matched(b) ==
    {i \in Actions : /\ Condition[i] \cap b # {}
                     /\ i \in MatchAll => b \subseteq Condition[i]}

Init ==
    /\ schema \in {"none", "migrated"}
    /\ rows = {}
    /\ pc = [w \in Writer |-> "read"]
    /\ attempt = [w \in Writer |-> 1]
    /\ mode = [w \in Writer |-> "none"]
    /\ batch = [w \in Writer |-> {}]
    /\ snap = [w \in Writer |-> {}]
    /\ outcomes = [w \in Writer |-> {}]
    /\ commits = 0 /\ resetAt = 0
    /\ since = [w \in Writer |-> 0]
    /\ written = [w \in Writer |-> 0]

Goto(w, label) == pc' = [pc EXCEPT ![w] = label]

\* The attempt and its result are gone; an open transaction is rolled back.
Forget(w) ==
    /\ mode' = [mode EXCEPT ![w] = "none"]
    /\ batch' = [batch EXCEPT ![w] = {}]
    /\ snap' = [snap EXCEPT ![w] = {}]
    /\ outcomes' = [outcomes EXCEPT ![w] = {}]
    /\ since' = [since EXCEPT ![w] = 0]
    /\ written' = [written EXCEPT ![w] = 0]

\* Mutant: attempts are not counted.
Raise_Again(w) ==
    /\ Goto(w, IF Retries[w] > 0 THEN "read" ELSE "failed")
    /\ Forget(w)
    /\ UNCHANGED <<database, attempt>>

\* The attempt raises: another one, with everything from the start, or none.
Raise(w) ==
    /\ IF attempt[w] < 1 + Retries[w]
       THEN Goto(w, "read") /\ attempt' = [attempt EXCEPT ![w] = @ + 1]
       ELSE Goto(w, "failed") /\ UNCHANGED attempt
    /\ Forget(w)
    /\ UNCHANGED database

-----------------------------------------------------------------------------
(* DefaultPipelineRunner.run(), up to the write *)

\* The pipeline is loaded and its source read and transformed; both may have
\* changed since the last attempt.
Read(w) ==
    /\ pc[w] = "read"
    /\ \E m \in Mode : mode' = [mode EXCEPT ![w] = m]
    /\ \E b \in SUBSET Key : batch' = [batch EXCEPT ![w] = b]
    /\ Goto(w, "prepare")
    /\ UNCHANGED <<database, attempt, snap, outcomes, since, written>>

\* Mutant: a condition is evaluated when its action is invoked.
Prepare_Late(w) ==
    /\ pc[w] = "prepare"
    /\ IF batch[w] # {}
       THEN Goto(w, "inspect") /\ UNCHANGED <<database, attempt, locals>>
       ELSE Raise(w)

\* prepare_actions() of the whole batch; an empty one is refused by write().
Prepare(w) ==
    /\ pc[w] = "prepare"
    /\ IF Preparable(batch[w]) /\ batch[w] # {}
       THEN Goto(w, "inspect") /\ UNCHANGED <<database, attempt, locals>>
       ELSE Raise(w)

-----------------------------------------------------------------------------
(* SqlDestination._prepare_table() *)

\* Mutant: mode fail takes an existing table for its own.
Inspect_FailAppends(w) ==
    /\ pc[w] = "inspect"
    /\ since' = [since EXCEPT ![w] = commits]
    /\ Goto(w, CASE schema = "none"       -> "create_all"
                 [] mode[w] = "replace"   -> "drop"
                 [] OTHER                 -> "reflect")
    /\ UNCHANGED <<database, attempt, mode, batch, snap, outcomes, written>>

\* has_table().  Mode fail wants no table, an upsert wants one.
Inspect(w) ==
    /\ pc[w] = "inspect"
    /\ IF (schema = "none" /\ mode[w] = "upsert") \/ (schema # "none" /\ mode[w] = "fail")
       THEN Raise(w)
       ELSE /\ since' = [since EXCEPT ![w] = commits]
            /\ Goto(w, CASE schema = "none"       -> "create_all"
                         [] mode[w] = "replace"   -> "drop"
                         [] OTHER                 -> "reflect")
            /\ UNCHANGED <<database, attempt, mode, batch, snap, outcomes, written>>

\* Between its DELETE and its commit.
InTransaction(w) == pc[w] = "insert" /\ mode[w] = "truncate"

\* autoload_with, then DROP TABLE, which waits for open transactions.  Like
\* every statement, both raise when the table has gone.
Drop(w) ==
    /\ pc[w] = "drop"
    /\ \A v \in Writer : ~InTransaction(v)
    /\ IF schema # "none"
       THEN /\ schema' = "none" /\ rows' = {}
            /\ resetAt' = commits
            /\ Goto(w, "create_all")
            /\ UNCHANGED <<commits, attempt, locals>>
       ELSE Raise(w)

\* Where the write goes on with a table at hand.
ToWrite(w) == Goto(w, IF mode[w] = "truncate" THEN "clear" ELSE "insert")

\* create_all() looks for the table again, and creates it only if it is absent.
CreateAll(w) ==
    /\ pc[w] = "create_all"
    /\ IF schema = "none" THEN Goto(w, "create") ELSE ToWrite(w)
    /\ UNCHANGED <<database, attempt, locals>>

\* CREATE TABLE with the columns of this batch; it raises on an existing table.
Create(w) ==
    /\ pc[w] = "create"
    /\ IF schema = "none"
       THEN /\ schema' = "inferred"
            /\ ToWrite(w)
            /\ UNCHANGED <<rows, commits, resetAt, attempt, locals>>
       ELSE Raise(w)

\* The table is there, with the unique key an upsert needs.
Suits(w) == schema # "none" /\ (mode[w] = "upsert" => schema = "migrated")

\* autoload_with, and _has_unique_key() for an upsert.
Reflect(w) ==
    /\ pc[w] = "reflect"
    /\ IF Suits(w)
       THEN ToWrite(w) /\ UNCHANGED <<database, attempt, locals>>
       ELSE Raise(w)

-----------------------------------------------------------------------------
(* The transaction of write() and of upsert() *)

\* Mutant: the DELETE is committed on its own.
Clear_Commits(w) ==
    /\ pc[w] = "clear"
    /\ schema # "none"
    /\ rows' = {}
    /\ resetAt' = commits
    /\ since' = [since EXCEPT ![w] = commits]
    /\ Goto(w, "insert")
    /\ UNCHANGED <<schema, commits, attempt, mode, batch, snap, outcomes, written>>

\* table.delete(): it finds the rows committed by now.
Clear(w) ==
    /\ pc[w] = "clear"
    /\ IF schema # "none"
       THEN /\ snap' = [snap EXCEPT ![w] = rows]
            /\ since' = [since EXCEPT ![w] = commits]
            /\ Goto(w, "insert")
            /\ UNCHANGED <<database, attempt, mode, batch, outcomes, written>>
       ELSE Raise(w)

\* What the table holds without the rows the transaction deletes.
Kept(w) == rows \ snap[w]

\* Rows the INSERT adds: an upsert updates the rows whose key is there.
Added(w) ==
    {<<k, commits + 1>> : k \in IF mode[w] = "upsert" THEN batch[w] \ Keys(rows) ELSE batch[w]}

\* A unique key tolerates no second row of the same key.
Fits(w) == schema = "migrated" => Keys(Kept(w)) \cap Keys(Added(w)) = {}

\* COMMIT of the rows R.
Commit(w, R) ==
    /\ rows' = R
    /\ resetAt' = IF rows \subseteq R THEN resetAt ELSE commits
    /\ commits' = commits + 1
    /\ written' = [written EXCEPT ![w] = commits + 1]
    /\ snap' = [snap EXCEPT ![w] = {}]
    /\ Goto(w, "act")
    /\ UNCHANGED <<schema, attempt, mode, batch, outcomes, since>>

\* Mutant: an INSERT that conflicts is ignored.
Insert_IgnoresConflict(w) ==
    /\ pc[w] = "insert"
    /\ IF Suits(w)
       THEN Commit(w, IF Fits(w) THEN Kept(w) \cup Added(w) ELSE Kept(w))
       ELSE Raise(w)

\* table.insert() and COMMIT, all or nothing.
Insert(w) ==
    /\ pc[w] = "insert"
    /\ IF Suits(w) /\ Fits(w) THEN Commit(w, Kept(w) \cup Added(w)) ELSE Raise(w)

-----------------------------------------------------------------------------
(* execute_prepared_actions() *)

\* Mutant: the outcome is filed under the next action.
Invoke_OffByOne(w) ==
    /\ pc[w] = "act"
    /\ \E i \in Matched(batch[w]) \ outcomes[w] :
         /\ \A j \in Matched(batch[w]) \ outcomes[w] : i <= j
         /\ outcomes' = [outcomes EXCEPT ![w] = @ \cup {i + 1}]
    /\ UNCHANGED <<database, pc, attempt, mode, batch, snap, since, written>>

\* The handler of the first action still to invoke returns its result.
Invoke(w) ==
    /\ pc[w] = "act"
    /\ \E i \in Matched(batch[w]) \ outcomes[w] :
         /\ \A j \in Matched(batch[w]) \ outcomes[w] : i <= j
         /\ outcomes' = [outcomes EXCEPT ![w] = @ \cup {i}]
    /\ UNCHANGED <<database, pc, attempt, mode, batch, snap, since, written>>

Succeed(w) ==
    /\ pc[w] = "act"
    /\ Matched(batch[w]) \subseteq outcomes[w]
    /\ Goto(w, "succeeded")
    /\ UNCHANGED <<database, attempt, locals>>

-----------------------------------------------------------------------------
Ended == {"succeeded", "failed", "gone"}

\* Any step may raise: the source, a transformation, the database, or a
\* handler, which may have had its effect by then.
Fails(w) == pc[w] \notin Ended /\ Raise(w)

\* The process dies, the database rolls its transaction back.
Die(w) ==
    /\ pc[w] \notin Ended
    /\ Goto(w, "gone")
    /\ Forget(w)
    /\ UNCHANGED <<database, attempt>>

Step(w) ==
    \/ Read(w) \/ Prepare(w)
    \/ Inspect(w) \/ Drop(w) \/ CreateAll(w) \/ Create(w) \/ Reflect(w)
    \/ Clear(w) \/ Insert(w)
    \/ Invoke(w) \/ Succeed(w)

Next == \E w \in Writer : Step(w) \/ Fails(w) \/ Die(w)

Spec == Init /\ [][Next]_vars

\* A process that lives goes on: the database and the handlers answer.
FairSpec == Spec /\ \A w \in Writer : WF_vars(Step(w))

-----------------------------------------------------------------------------
(* Properties *)

Labels == {"read", "prepare", "inspect", "drop", "create_all", "create", "reflect",
           "clear", "insert", "act"} \cup Ended

\* Every variable stays in its range.
TypeOK ==
    /\ schema \in {"none", "migrated", "inferred"}
    /\ rows \subseteq Key \X Nat
    /\ commits \in Nat /\ resetAt \in Nat
    /\ pc \in [Writer -> Labels]
    /\ attempt \in [Writer -> Nat]
    /\ mode \in [Writer -> Modes \cup {"none"}]
    /\ batch \in [Writer -> SUBSET Key]
    /\ snap \in [Writer -> SUBSET (Key \X Nat)]
    /\ outcomes \in [Writer -> SUBSET Actions]
    /\ since \in [Writer -> Nat] /\ written \in [Writer -> Nat]

\* Process w takes this step.
Acts(w) == <<pc[w], outcomes[w]>>' # <<pc[w], outcomes[w]>>

\* Rows leave the table only when a replace drops it, or in the transaction of
\* a truncate that puts its own batch in their place: a write that fails half
\* way, or dies, empties nothing.  And only a replace touches a schema that is
\* there.
OnlyResetsRemove ==
    [][/\ ~(rows \subseteq rows') =>
            \E w \in Writer : /\ Acts(w)
                              /\ \/ mode[w] = "replace"
                                 \/ mode[w] = "truncate" /\ batch[w] \subseteq Keys(rows')
       /\ schema # "none" /\ schema' # schema =>
            \E w \in Writer : Acts(w) /\ mode[w] = "replace"]_vars

\* No attempt touches the table, or invokes an action, unless all its actions
\* were prepared for all its rows.
NothingBeforePreparation ==
    [][\A w \in Writer :
         /\ Acts(w)
         /\ <<schema, rows>>' # <<schema, rows>> \/ ~(outcomes'[w] \subseteq outcomes[w])
         => Preparable(batch[w])]_vars

\* After a replace, a fail or a truncate has committed, whatever else is in the
\* table was committed while it ran: it never builds on rows it found.
ResetSeesOnlyConcurrent ==
    [][\A w \in Writer :
         pc[w] = "insert" /\ pc'[w] = "act" /\ mode[w] \in {"replace", "fail", "truncate"} =>
            \A r \in rows' : r[2] > since[w]]_vars

\* A task that succeeded has invoked all its matching actions, and its rows are
\* in the table unless some run has removed rows since.
SuccessDelivered ==
    \A w \in Writer : pc[w] = "succeeded" =>
        /\ outcomes[w] = Matched(batch[w])
        /\ written[w] > 0
        /\ written[w] > resetAt => batch[w] \subseteq Keys(rows)

\* Every task comes to its end, whoever else is at the table.
TaskEnds == \A w \in Writer : <>(pc[w] \in Ended)

=============================================================================
