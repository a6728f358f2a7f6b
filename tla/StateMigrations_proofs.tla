----------------------- MODULE StateMigrations_proofs -----------------------
(***************************************************************************)
(* A run refutes RetryKeepsRows: a process that ends between the DROP of a *)
(* table and the RENAME of its copy leaves a store whose rows the next     *)
(* attempt throws away.  Here: that is the only place.  While one process  *)
(* at a time opens the store, and none of them ends right there, however   *)
(* often and wherever else they end, no statement ever fails, no row is    *)
(* ever out of the store, and whoever gets through finds all of it.        *)
(***************************************************************************)
EXTENDS StateMigrations, TLAPS, SequenceTheorems

Statement(p) == Script[current[p]][line[p]]

Executing(p) == at[p] = "script" /\ line[p] <= Len(Script[current[p]])

\* A table has been dropped, and its copy is to take its name next.
Swapping(p) == Executing(p) /\ Statement(p).op = "rename"

\* No process ends between the two statements.
SafeNext == Next /\ \A p \in Opener : Swapping(p) => ~Close(p)
SafeSpec == Init /\ [][SafeNext]_vars

Version == IF versions = << >> THEN 0 ELSE Head(versions)

Features == Columns \cup {"skipped", "blocked", "interrupted", "owner_pid", "owner_create_time_ns"}
Table    == [rows : SUBSET History, has : SUBSET Features]
Main     == {"dag_runs", "task_runs"}

TypeOK ==
    /\ tables \in [Tables -> Table \cup {Missing}]
    /\ versions = << >> \/ \E n \in 1..Latest : versions = <<n>>
    /\ recorded \in {{}, History} /\ (versions = << >> => recorded = {})
    /\ at \in [Opener -> {"closed", "look", "add", "script", "open"}]
    /\ current \in [Opener -> 0..(Latest + 1)]
    /\ hasRow \in [Opener -> BOOLEAN]
    /\ line \in [Opener -> Nat]

\* Where process p is, against the version of the store.
PlaceOK(p) ==
    /\ at[p] \in {"look", "add", "script"} =>
         /\ current[p] = Version + 1 /\ current[p] <= Latest
         /\ hasRow[p] <=> versions # << >>
    /\ at[p] \in {"look", "add"} => current[p] \in DOMAIN Column /\ line[p] = 1
    /\ at[p] = "script" => line[p] \in 1..(Len(Script[current[p]]) + 1)
    /\ at[p] = "add" => Column[current[p]] \notin tables["dag_runs"].has
    /\ at[p] = "open" => Version = Latest

\* Process p is at statement l of migration v, or past its last one.
At(p, v, l) == at[p] = "script" /\ current[p] = v /\ line[p] = l

\* All that was recorded is in table t.
Full(t) == Exists(t) /\ tables[t].rows = recorded

Whole(t) == IF t = "dag_runs" THEN Columns \cup {"interrupted", "owner_pid"} ELSE {"skipped", "blocked"}

\* The shape of dag_runs a version, or the column just added, has brought about.
ShapeOK(p) ==
    Exists("dag_runs") =>
        /\ Version >= 3 \/ (at[p] = "script" /\ current[p] = 3) => "on_failure" \in tables["dag_runs"].has
        /\ Version >= 5 \/ (at[p] = "script" /\ current[p] = 5) => "severity" \in tables["dag_runs"].has
        /\ Version >= 6 => Whole("dag_runs") \subseteq tables["dag_runs"].has
        /\ Version >= 7 \/ (at[p] = "script" /\ current[p] = 7) =>
              "owner_create_time_ns" \in tables["dag_runs"].has

\* The rebuild of t with those features has come to its statement k, or is over.
Into(k, t, features) ==
    /\ k \in 1..4 => Full(t)
    /\ k = 2 => ~Exists(Copy[t])
    /\ k = 3 => tables[Copy[t]] = Empty(features)
    /\ k \in 4..5 => tables[Copy[t]] = [rows |-> recorded, has |-> features]
    /\ k = 5 => ~Exists(t)
    /\ k = 6 => ~Exists(Copy[t]) /\ tables[t] = [rows |-> recorded, has |-> features]

RebuildOK(p) ==
    /\ \A k \in 2..6 : At(p, 2, k) => Into(k, "task_runs", {"skipped"})
    /\ \A k \in 2..6 : At(p, 3, k + 1) => Into(k, "task_runs", {"skipped", "blocked"})
    /\ \A k \in 2..6 : At(p, 6, k) => Into(k, "dag_runs", Whole("dag_runs"))
    /\ At(p, 3, 8) => Into(6, "task_runs", {"skipped", "blocked"})
    /\ \A k \in 2..7 : At(p, 3, k) => ~Exists("task_attempts")
    /\ At(p, 3, 8) => Exists("task_attempts")

\* The tables of the version, complete outside the exchange of one for its copy.
TablesOK(p) ==
    /\ Version >= 1 /\ ~At(p, 6, 5) => Full("dag_runs")
    /\ Version >= 1 /\ ~At(p, 2, 5) /\ ~At(p, 3, 6) => Full("task_runs")
    /\ \A t \in Main : Version = 0 => Rows(t) = {}
    /\ At(p, 1, 2) \/ At(p, 1, 3) => Exists("dag_runs")
    /\ At(p, 1, 3) => Exists("task_runs")
    /\ At(p, 4, 2) => Exists("dag_trigger_reactions")
    /\ Version >= 3 => /\ ~Exists("task_runs_new") /\ Exists("task_attempts")
                       /\ tables["task_runs"].has = Whole("task_runs")
    /\ Version >= 4 => Exists("dag_trigger_reactions")
    /\ Version < 5 \/ Version >= 6 => ~Exists("dag_runs_new")

MInv(p) == TypeOK /\ PlaceOK(p) /\ ShapeOK(p) /\ RebuildOK(p) /\ TablesOK(p)

\* What follows.
NothingFails ==
    \A p \in Opener :
        /\ Executing(p) => ~Raises(Statement(p))
        /\ at[p] = "add" => Exists("dag_runs") /\ Column[current[p]] \notin tables["dag_runs"].has

OpenIsComplete ==
    \A p \in Opener : at[p] = "open" =>
        /\ versions = <<Latest>>
        /\ \A t \in Main : Full(t) /\ Whole(t) \subseteq tables[t].has /\ ~Exists(Copy[t])
        /\ "owner_create_time_ns" \in tables["dag_runs"].has
        /\ Exists("task_attempts") /\ Exists("dag_trigger_reactions")

-----------------------------------------------------------------------------
(* The scripts *)

LEMMA RebuildIs ==
  \A t, f, s :
     /\ Len(Rebuild(t, f, s)) = 5
     /\ Rebuild(t, f, s)[1] = DropIfExists(Copy[t])
     /\ Rebuild(t, f, s)[2] = Create(Copy[t], f)
     /\ Rebuild(t, f, s)[3] = [op |-> "copy", from |-> t, table |-> Copy[t], needs |-> s]
     /\ Rebuild(t, f, s)[4] = [op |-> "drop", table |-> t]
     /\ Rebuild(t, f, s)[5] = [op |-> "rename", from |-> Copy[t], table |-> t]
  BY DEF Rebuild

LEMMA DropIs ==
  \A t : DropIfExists(t).op = "drop if exists" /\ DropIfExists(t).table = t
  BY DEF DropIfExists

LEMMA Third ==
  LET b == Rebuild("task_runs", {"skipped", "blocked"}, {}) IN
  /\ Len(Script[3]) = 7
  /\ Script[3][1] = DropIfExists("task_attempts")
  /\ \A k \in 1..5 : Script[3][k + 1] = b[k]
  /\ Script[3][7] = Create("task_attempts", {})
<1> DEFINE a == DropIfExists("task_attempts")
           b == Rebuild("task_runs", {"skipped", "blocked"}, {})
           c == Create("task_attempts", {})
           S == {a, b[1], b[2], b[3], b[4], b[5], c}
<1>1. Script[3] = (<<a>> \o b) \o <<c>>
  BY DEF Script
<1>2. Len(b) = 5 /\ b = <<b[1], b[2], b[3], b[4], b[5]>>
  BY DEF Rebuild
<1> HIDE DEF a, b, c
<1>3. <<a>> \in Seq(S) /\ b \in Seq(S) /\ <<c>> \in Seq(S)
  <2>1. \A v, w, x, y, z \in S : <<v, w, x, y, z>> \in Seq(S)
    OBVIOUS
  <2>2. /\ a \in S /\ c \in S
        /\ b[1] \in S /\ b[2] \in S /\ b[3] \in S /\ b[4] \in S /\ b[5] \in S
    OBVIOUS
  <2> HIDE DEF S
  <2>3. <<b[1], b[2], b[3], b[4], b[5]>> \in Seq(S)
    BY <2>1, <2>2, Zenon
  <2>4. b \in Seq(S)
    BY <1>2, <2>3, Zenon
  <2> QED
    BY <2>2, <2>4
<1>4. /\ <<a>> \o b \in Seq(S) /\ Len(<<a>> \o b) = 6
      /\ \A i \in 1..6 : (<<a>> \o b)[i] = IF i <= 1 THEN a ELSE b[i - 1]
  <2>1. Len(<<a>>) = 1 /\ <<a>>[1] = a
    OBVIOUS
  <2>2. /\ <<a>> \o b \in Seq(S) /\ Len(<<a>> \o b) = Len(<<a>>) + Len(b)
        /\ \A i \in 1..(Len(<<a>>) + Len(b)) :
             (<<a>> \o b)[i] = IF i <= Len(<<a>>) THEN <<a>>[i] ELSE b[i - Len(<<a>>)]
    BY <1>3, ConcatProperties, Zenon
  <2>3. Len(<<a>>) + Len(b) = 6
    BY <1>2, <2>1
  <2>4. ASSUME NEW i \in 1..6 PROVE (<<a>> \o b)[i] = IF i <= 1 THEN a ELSE b[i - 1]
    BY <2>1, <2>2, <2>3
  <2> QED
    BY <2>2, <2>3, <2>4
<1>5. /\ Len(Script[3]) = 7
      /\ \A i \in 1..7 : Script[3][i] = IF i <= 6 THEN (<<a>> \o b)[i] ELSE c
  <2>1. Len(<<c>>) = 1 /\ <<c>>[1] = c
    OBVIOUS
  <2> QED
    BY <1>1, <1>3, <1>4, <2>1, ConcatProperties
<1>6. /\ Script[3][1] = a /\ Script[3][7] = c
      /\ \A k \in 1..5 : Script[3][k + 1] = b[k]
  BY <1>4, <1>5
<1> QED
  BY <1>5, <1>6 DEF a, b, c

LEMMA ScriptIs ==
  /\ Latest = 7 /\ DOMAIN Column = {3, 5, 7}
  /\ Column[3] = "on_failure" /\ Column[5] = "severity" /\ Column[7] = "owner_create_time_ns"
  /\ Script[1] = << CreateIfMissing("dag_runs"), CreateIfMissing("task_runs") >>
  /\ Script[2] = Rebuild("task_runs", {"skipped"}, {})
  /\ Script[4] = << CreateIfMissing("dag_trigger_reactions") >>
  /\ Script[5] = << >> /\ Script[7] = << >>
  /\ Script[6] = Rebuild("dag_runs", Whole("dag_runs"), Columns)
  /\ Len(Script[1]) = 2 /\ Len(Script[2]) = 5 /\ Len(Script[3]) = 7 /\ Len(Script[4]) = 1
  /\ Len(Script[5]) = 0 /\ Len(Script[6]) = 5 /\ Len(Script[7]) = 0
<1>1. Latest = 7
  BY DEF Latest, Script
<1>2. /\ DOMAIN Column = {3, 5, 7}
      /\ Column[3] = "on_failure" /\ Column[5] = "severity" /\ Column[7] = "owner_create_time_ns"
  BY DEF Column
<1>3. /\ Script[1] = << CreateIfMissing("dag_runs"), CreateIfMissing("task_runs") >>
      /\ Script[2] = Rebuild("task_runs", {"skipped"}, {})
      /\ Script[4] = << CreateIfMissing("dag_trigger_reactions") >>
      /\ Script[5] = << >> /\ Script[7] = << >>
      /\ Script[6] = Rebuild("dag_runs", Columns \cup {"interrupted", "owner_pid"}, Columns)
  BY DEF Script
<1>4. Whole("dag_runs") = Columns \cup {"interrupted", "owner_pid"}
  BY DEF Whole
<1>5. Len(Script[1]) = 2 /\ Len(Script[4]) = 1 /\ Len(Script[5]) = 0 /\ Len(Script[7]) = 0
  BY <1>3
<1>6. Len(Script[2]) = 5 /\ Len(Script[6]) = 5
  BY <1>3, RebuildIs
<1> QED
  BY <1>1, <1>2, <1>3, <1>4, <1>5, <1>6, Third

LEMMA Lengths ==
  /\ Len(Script[1]) = 2 /\ Len(Script[2]) = 5 /\ Len(Script[3]) = 7 /\ Len(Script[4]) = 1
  /\ Len(Script[5]) = 0 /\ Len(Script[6]) = 5 /\ Len(Script[7]) = 0
  BY ScriptIs

LEMMA TablesAre ==
  /\ Main \subseteq Tables /\ Copy["dag_runs"] = "dag_runs_new" /\ Copy["task_runs"] = "task_runs_new"
  /\ \A t \in Main : Copy[t] \in Tables /\ Copy[t] # t /\ Copy[t] \notin Main
  BY DEF Main, Tables, Copy

\* One statement of the rebuild of a table does not fail, touches that table and
\* its copy only, and leaves what the next one needs.
LEMMA RebuildStep ==
  ASSUME TypeOK, Missing \notin Table, NEW t \in Main, NEW f \in SUBSET Features,
         NEW s \in SUBSET Features, NEW k \in 1..5, NEW statement,
         statement = Rebuild(t, f, s)[k], Into(k, t, f), k = 3 => s \subseteq tables[t].has
  PROVE  /\ ~Raises(statement)
         /\ tables' = Result(statement) /\ recorded' = recorded =>
              /\ tables' \in [Tables -> Table \cup {Missing}]
              /\ Into(k + 1, t, f)'
              /\ \A u \in Tables : u # t /\ u # Copy[t] => tables'[u] = tables[u]
              /\ k \in 1..3 => tables'[t] = tables[t]
<1>0. /\ t \in Tables /\ Copy[t] \in Tables /\ Copy[t] # t
      /\ tables \in [Tables -> Table \cup {Missing}] /\ recorded \in SUBSET History
      /\ Empty(f) \in Table /\ [rows |-> recorded, has |-> f] \in Table
  BY TablesAre DEF TypeOK, Table, Empty
<1> DEFINE full == [rows |-> recorded, has |-> f]
           q    == Copy[t]
<1>e. full \in Table /\ Empty(f) \in Table /\ full # Missing /\ Empty(f) # Missing
      /\ q \in Tables /\ q # t
  BY <1>0
<1>k. k \in 1..4 => tables[t] # Missing /\ tables[t].rows = recorded
  BY DEF Into, Full, Exists
<1> HIDE DEF full
<1>1. CASE k = 1
  <2>0. statement = DropIfExists(q)
    BY <1>1, RebuildIs
  <2>1. statement.op = "drop if exists" /\ statement.table = q
    BY <2>0, DropIs
  <2>2. ~Raises(statement) /\ Result(statement) = [tables EXCEPT ![q] = Missing]
    <3>1. ~Raises(statement)
      BY <2>1 DEF Raises
    <3>2. Result(statement) = [tables EXCEPT ![q] = Missing]
      BY <2>1 DEF Result
    <3> QED
      BY <3>1, <3>2
  <2>3. ASSUME tables' = [tables EXCEPT ![q] = Missing], recorded' = recorded
        PROVE  /\ tables' \in [Tables -> Table \cup {Missing}]
               /\ \A u \in Tables : u # q => tables'[u] = tables[u]
               /\ tables'[q] = Missing
    BY <1>0, <1>e, <2>3
  <2>4. ASSUME tables' = [tables EXCEPT ![q] = Missing], recorded' = recorded
        PROVE  Into(k + 1, t, f)'
    BY <1>0, <1>e, <1>k, <1>1, <2>3, <2>4 DEF Into, Full, Exists
  <2> QED
    BY <1>0, <1>e, <1>1, <2>2, <2>3, <2>4
<1>2. CASE k = 2
  <2>1. statement = [op |-> "create", table |-> q, has |-> f]
    BY <1>2, RebuildIs DEF Create
  <2>2. tables[q] = Missing
    BY <1>2 DEF Into, Exists
  <2>3. ~Raises(statement) /\ Result(statement) = [tables EXCEPT ![q] = Empty(f)]
    <3>1. ~Raises(statement)
      BY <2>1, <2>2 DEF Raises, Exists
    <3>2. Result(statement) = [tables EXCEPT ![q] = Empty(f)]
      BY <2>1, <2>2 DEF Result
    <3> QED
      BY <3>1, <3>2
  <2>4. ASSUME tables' = [tables EXCEPT ![q] = Empty(f)], recorded' = recorded
        PROVE  /\ tables' \in [Tables -> Table \cup {Missing}]
               /\ \A u \in Tables : u # q => tables'[u] = tables[u]
               /\ tables'[q] = Empty(f)
    BY <1>0, <1>e, <2>4
  <2>5. ASSUME tables' = [tables EXCEPT ![q] = Empty(f)], recorded' = recorded
        PROVE  Into(k + 1, t, f)'
    BY <1>0, <1>e, <1>k, <1>2, <2>4, <2>5 DEF Into, Full, Exists, Empty
  <2> QED
    BY <1>0, <1>e, <1>2, <2>3, <2>4, <2>5
<1>3. CASE k = 3
  <2>1. statement = [op |-> "copy", from |-> t, table |-> q, needs |-> s]
    BY <1>3, RebuildIs
  <2>2. /\ tables[t] # Missing /\ tables[t].rows = recorded
        /\ tables[q] = Empty(f) /\ tables[q] # Missing
    BY <1>e, <1>k, <1>3 DEF Into
  <2>3. Rows(t) = recorded /\ Rows(q) = {} /\ s \subseteq tables[t].has
    BY <1>3, <2>2 DEF Rows, Exists, Empty
  <2>4. ~Raises(statement)
    BY <2>1, <2>2, <2>3 DEF Raises, Exists
  <2>5. Result(statement) = [tables EXCEPT ![q] = full]
    <3>1. Result(statement) = [tables EXCEPT ![q].rows = @ \cup Rows(t)]
      BY <2>1 DEF Result
    <3>2. [tables[q] EXCEPT !.rows = @ \cup Rows(t)] = full
      BY <2>2, <2>3 DEF Empty, full
    <3> QED
      BY <3>1, <3>2
  <2>6. ASSUME tables' = [tables EXCEPT ![q] = full], recorded' = recorded
        PROVE  /\ tables' \in [Tables -> Table \cup {Missing}]
               /\ \A u \in Tables : u # q => tables'[u] = tables[u]
               /\ tables'[q] = full
    BY <1>0, <1>e, <2>6
  <2>7. ASSUME tables' = [tables EXCEPT ![q] = full], recorded' = recorded
        PROVE  Into(k + 1, t, f)'
    BY <1>0, <1>e, <1>k, <1>3, <2>6, <2>7 DEF Into, Full, Exists, full
  <2> QED
    BY <1>0, <1>e, <1>3, <2>4, <2>5, <2>6, <2>7
<1>4. CASE k = 4
  <2>1. statement = [op |-> "drop", table |-> t]
    BY <1>4, RebuildIs
  <2>2. tables[t] # Missing /\ tables[q] = full
    BY <1>k, <1>4 DEF Into, full
  <2>3. ~Raises(statement) /\ Result(statement) = [tables EXCEPT ![t] = Missing]
    <3>1. ~Raises(statement)
      BY <2>1, <2>2 DEF Raises, Exists
    <3>2. Result(statement) = [tables EXCEPT ![t] = Missing]
      BY <2>1, <2>2 DEF Result
    <3> QED
      BY <3>1, <3>2
  <2>4. ASSUME tables' = [tables EXCEPT ![t] = Missing], recorded' = recorded
        PROVE  /\ tables' \in [Tables -> Table \cup {Missing}]
               /\ \A u \in Tables : u # t => tables'[u] = tables[u]
               /\ tables'[t] = Missing
    BY <1>0, <1>e, <2>4
  <2>5. ASSUME tables' = [tables EXCEPT ![t] = Missing], recorded' = recorded
        PROVE  Into(k + 1, t, f)'
    BY <1>0, <1>e, <1>4, <2>2, <2>4, <2>5 DEF Into, Exists, full
  <2>6. ~(k \in 1..3)
    BY <1>4
  <2> QED
    BY <1>0, <1>e, <2>3, <2>4, <2>5, <2>6
<1>5. CASE k = 5
  <2>1. statement = [op |-> "rename", from |-> q, table |-> t]
    BY <1>5, RebuildIs
  <2>2. tables[t] = Missing /\ tables[q] = full /\ tables[q] # Missing
    BY <1>e, <1>5 DEF Into, Exists, full
  <2>3. ~Raises(statement) /\ Result(statement) = [tables EXCEPT ![t] = full, ![q] = Missing]
    <3>1. ~Raises(statement)
      BY <2>1, <2>2 DEF Raises, Exists
    <3>2. Result(statement) = [tables EXCEPT ![t] = tables[q], ![q] = Missing]
      BY <2>1 DEF Result
    <3> QED
      BY <2>2, <3>1, <3>2
  <2>4. ASSUME tables' = [tables EXCEPT ![t] = full, ![q] = Missing], recorded' = recorded
        PROVE  /\ tables' \in [Tables -> Table \cup {Missing}]
               /\ \A u \in Tables : u # t /\ u # q => tables'[u] = tables[u]
               /\ tables'[t] = full /\ tables'[q] = Missing
    BY <1>0, <1>e, <2>4
  <2>5. ASSUME tables' = [tables EXCEPT ![t] = full, ![q] = Missing], recorded' = recorded
        PROVE  Into(k + 1, t, f)'
    BY <1>0, <1>e, <1>5, <2>4, <2>5 DEF Into, Exists, full
  <2>6. ~(k \in 1..3)
    BY <1>5
  <2> QED
    BY <1>0, <1>e, <2>3, <2>4, <2>5, <2>6
<1> QED
  BY <1>1, <1>2, <1>3, <1>4, <1>5

-----------------------------------------------------------------------------
(* What every step needs to know *)

LEMMA VersionIs ==
  ASSUME TypeOK
  PROVE  /\ Version \in 0..7
         /\ Version = 0 => versions = << >> /\ recorded = {}
         /\ Version # 0 => versions = <<Version>>
  BY ScriptIs DEF TypeOK, Version

\* Where a process is that has statements to execute.
LEMMA Where ==
  ASSUME NEW o \in Opener, MInv(o), at[o] = "script"
  PROVE  /\ current[o] \in 1..7 /\ Version = current[o] - 1 /\ line[o] \in 1..8
         /\ line[o] \in 1..(Len(Script[current[o]]) + 1)
         /\ hasRow[o] <=> versions # << >>
         /\ current[o] = 1 => line[o] \in 1..3
         /\ current[o] = 2 => line[o] \in 1..6
         /\ current[o] = 3 => line[o] \in 1..8
         /\ current[o] = 4 => line[o] \in 1..2
         /\ current[o] = 5 => line[o] = 1
         /\ current[o] = 6 => line[o] \in 1..6
         /\ current[o] = 7 => line[o] = 1
<1>1. Version \in 0..7 /\ Latest = 7
  BY VersionIs, ScriptIs DEF MInv
<1>2. /\ current[o] = Version + 1 /\ current[o] <= 7
      /\ line[o] \in 1..(Len(Script[current[o]]) + 1)
      /\ hasRow[o] <=> versions # << >>
  BY <1>1 DEF MInv, PlaceOK
<1>3. current[o] \in 1..7
  BY <1>1, <1>2
<1> DEFINE c == current[o]
           n == Len(Script[c])
           l == line[o]
<1>4. c \in 1..7 /\ Version = c - 1 /\ l \in 1..(n + 1)
  BY <1>1, <1>2, <1>3
<1> HIDE DEF c
<1>5. /\ c = 1 => n = 2
      /\ c = 2 => n = 5
      /\ c = 3 => n = 7
      /\ c = 4 => n = 1
      /\ c = 5 => n = 0
      /\ c = 6 => n = 5
      /\ c = 7 => n = 0
  BY Lengths
<1> HIDE DEF n, l
<1>6. n \in 0..7
  BY <1>4, <1>5
<1>7. /\ l \in 1..8
      /\ c = 1 => l \in 1..3
      /\ c = 2 => l \in 1..6
      /\ c = 3 => l \in 1..8
      /\ c = 4 => l \in 1..2
      /\ c = 5 => l = 1
      /\ c = 6 => l \in 1..6
      /\ c = 7 => l = 1
  BY <1>4, <1>5, <1>6
<1> QED
  BY <1>2, <1>4, <1>7 DEF c, l, n

\* The statement executed is of one of these kinds.
LEMMA Kinds ==
  ASSUME NEW o \in Opener, MInv(o), Executing(o)
  PROVE  \/ current[o] = 1 /\ line[o] = 1 /\ Statement(o) = CreateIfMissing("dag_runs")
         \/ current[o] = 1 /\ line[o] = 2 /\ Statement(o) = CreateIfMissing("task_runs")
         \/ current[o] = 2 /\ line[o] \in 1..5
            /\ Statement(o) = Rebuild("task_runs", {"skipped"}, {})[line[o]]
         \/ current[o] = 3 /\ line[o] = 1 /\ Statement(o) = DropIfExists("task_attempts")
         \/ current[o] = 3 /\ line[o] \in 2..6
            /\ Statement(o) = Rebuild("task_runs", {"skipped", "blocked"}, {})[line[o] - 1]
         \/ current[o] = 3 /\ line[o] = 7 /\ Statement(o) = Create("task_attempts", {})
         \/ current[o] = 4 /\ line[o] = 1 /\ Statement(o) = CreateIfMissing("dag_trigger_reactions")
         \/ current[o] = 6 /\ line[o] \in 1..5
            /\ Statement(o) = Rebuild("dag_runs", Whole("dag_runs"), Columns)[line[o]]
<1> DEFINE c == current[o]
           l == line[o]
<1>1. c \in 1..7 /\ l \in 1..8 /\ l <= Len(Script[c]) /\ Statement(o) = Script[c][l]
  BY Where DEF Executing, Statement
<1> HIDE DEF c, l
<1>2. c = 1 \/ c = 2 \/ c = 3 \/ c = 4 \/ c = 6
  BY <1>1, ScriptIs
<1>3. CASE c = 1
  <2>1. l = 1 \/ l = 2
    BY <1>1, <1>3, ScriptIs
  <2>2. /\ Script[1][1] = CreateIfMissing("dag_runs")
        /\ Script[1][2] = CreateIfMissing("task_runs")
    BY ScriptIs
  <2> QED
    BY <1>1, <1>3, <2>1, <2>2 DEF c, l
<1>4. CASE c = 2
  <2>1. l \in 1..5 /\ Statement(o) = Rebuild("task_runs", {"skipped"}, {})[l]
    BY <1>1, <1>4, ScriptIs
  <2> QED
    BY <1>4, <2>1 DEF c, l
<1>5. CASE c = 3
  <2>1. l = 1 \/ l = 7 \/ l \in 2..6
    BY <1>1, <1>5, ScriptIs
  <2>2. ASSUME l \in 2..6
        PROVE  Statement(o) = Rebuild("task_runs", {"skipped", "blocked"}, {})[l - 1]
    <3>1. l - 1 \in 1..5 /\ (l - 1) + 1 = l
      BY <2>2
    <3> QED
      BY <1>1, <1>5, <3>1, Third
  <2> QED
    BY <1>1, <1>5, <2>1, <2>2, Third DEF c, l
<1>6. CASE c = 4
  <2>1. l = 1 /\ Script[4][1] = CreateIfMissing("dag_trigger_reactions")
    BY <1>1, <1>6, ScriptIs
  <2> QED
    BY <1>1, <1>6, <2>1 DEF c, l
<1>7. CASE c = 6
  <2>1. l \in 1..5 /\ Statement(o) = Rebuild("dag_runs", Whole("dag_runs"), Columns)[l]
    BY <1>1, <1>7, ScriptIs
  <2> QED
    BY <1>7, <2>1 DEF c, l
<1> QED
  BY <1>2, <1>3, <1>4, <1>5, <1>6, <1>7

\* What executing one statement of a script does, if it does not fail.
Executed(o) ==
    /\ tables' = Result(Statement(o))
    /\ line' = [line EXCEPT ![o] = @ + 1]
    /\ UNCHANGED <<recorded, versions, current, hasRow, at>>

Fits(o) ==
    /\ ~Raises(Statement(o))
    /\ Executed(o) => /\ tables' \in [Tables -> Table \cup {Missing}]
                      /\ ShapeOK(o)' /\ RebuildOK(o)' /\ TablesOK(o)'

LEMMA Moves ==
  ASSUME NEW o \in Opener, MInv(o), Executing(o), Executed(o)
  PROVE  /\ at'[o] = "script" /\ current'[o] = current[o] /\ line'[o] = line[o] + 1
         /\ Version' = Version /\ recorded' = recorded
  BY DEF MInv, TypeOK, Executing, Executed, Version

LEMMA CreateIfMissingStep ==
  ASSUME TypeOK, Missing \notin Table, NEW u \in Tables, NEW statement,
         statement = CreateIfMissing(u)
  PROVE  /\ ~Raises(statement)
         /\ tables' = Result(statement) =>
              /\ tables' \in [Tables -> Table \cup {Missing}]
              /\ tables'[u] = IF Exists(u) THEN tables[u] ELSE Empty({})
              /\ tables'[u] # Missing
              /\ \A w \in Tables : w # u => tables'[w] = tables[w]
<1>1. statement.op = "create if missing" /\ statement.table = u
  BY DEF CreateIfMissing
<1>2. ~Raises(statement)
  BY <1>1 DEF Raises
<1>3. Result(statement) = [tables EXCEPT ![u] = IF Exists(u) THEN @ ELSE Empty({})]
  BY <1>1 DEF Result
<1>4. tables \in [Tables -> Table \cup {Missing}] /\ Empty({}) \in Table /\ Empty({}) # Missing
  BY DEF TypeOK, Table, Empty
<1> QED
  BY <1>2, <1>3, <1>4 DEF Exists

\* The two statements about task_attempts around the third migration's rebuild.
LEMMA AttemptsStep ==
  ASSUME TypeOK, Missing \notin Table, NEW statement,
         \/ statement = DropIfExists("task_attempts")
         \/ statement = Create("task_attempts", {}) /\ ~Exists("task_attempts")
  PROVE  /\ ~Raises(statement)
         /\ tables' = Result(statement) =>
              /\ tables' \in [Tables -> Table \cup {Missing}]
              /\ statement = DropIfExists("task_attempts") => ~Exists("task_attempts")'
              /\ statement = Create("task_attempts", {}) => Exists("task_attempts")'
              /\ \A w \in Tables : w # "task_attempts" => tables'[w] = tables[w]
<1> DEFINE u == "task_attempts"
<1>0. /\ tables \in [Tables -> Table \cup {Missing}] /\ u \in Tables
      /\ Empty({}) \in Table /\ Empty({}) # Missing
  BY DEF TypeOK, Table, Empty, Tables
<1>a. DropIfExists(u).op = "drop if exists" /\ Create(u, {}).op = "create"
  BY DropIs DEF Create
<1>1. CASE statement = DropIfExists(u)
  <2>1. statement.op = "drop if exists" /\ statement.table = u /\ statement # Create(u, {})
    BY <1>1, <1>a, DropIs
  <2>2. ~Raises(statement)
    BY <2>1 DEF Raises
  <2>3. Result(statement) = [tables EXCEPT ![u] = Missing]
    BY <2>1 DEF Result
  <2> QED
    BY <1>0, <2>1, <2>2, <2>3 DEF Exists
<1>2. CASE statement = Create(u, {}) /\ ~Exists(u)
  <2>1. /\ statement.op = "create" /\ statement.table = u /\ statement.has = {}
        /\ statement # DropIfExists(u)
    BY <1>2, <1>a DEF Create
  <2>2. ~Raises(statement)
    BY <1>2, <2>1 DEF Raises
  <2>3. Result(statement) = [tables EXCEPT ![u] = Empty({})]
    BY <2>1 DEF Result
  <2> QED
    BY <1>0, <2>1, <2>2, <2>3 DEF Exists
<1> QED
  BY <1>1, <1>2

-----------------------------------------------------------------------------
(* No statement fails, and each leaves what the next one needs *)

LEMMA IntoFull ==
  ASSUME NEW t \in Main, NEW f \in SUBSET Features, NEW k \in 1..6, k # 5,
         Missing \notin Table, recorded' \in SUBSET History, Into(k, t, f)'
  PROVE  Full(t)'
<1>1. [rows |-> recorded', has |-> f] \in Table
  BY DEF Table
<1>2. [rows |-> recorded', has |-> f] # Missing
  BY <1>1
<1>3. k \in 1..4 => Full(t)'
  BY DEF Into
<1>4. k = 6 => Full(t)'
  BY <1>2 DEF Into, Full, Exists
<1> QED
  BY <1>3, <1>4

LEMMA FirstFits ==
  ASSUME NEW o \in Opener, Missing \notin Table, MInv(o), Executing(o), current[o] = 1
  PROVE  Fits(o)
<1> DEFINE u == IF line[o] = 1 THEN "dag_runs" ELSE "task_runs"
<1>1. /\ line[o] \in 1..2 /\ Statement(o) = CreateIfMissing(u)
      /\ at[o] = "script" /\ Version = 0 /\ recorded = {} /\ TypeOK
  BY Kinds, Where, VersionIs DEF Executing, MInv
<1>2. u \in Tables /\ u \in Main
  BY DEF Tables, Main
<1>3. Statement(o) = CreateIfMissing(u)
  BY Kinds
<1>4. ~Raises(Statement(o))
  BY <1>1, <1>2, <1>3, CreateIfMissingStep
<1>5. ASSUME Executed(o)
      PROVE  /\ tables' \in [Tables -> Table \cup {Missing}]
             /\ ShapeOK(o)' /\ RebuildOK(o)' /\ TablesOK(o)'
  <2>1. /\ tables' \in [Tables -> Table \cup {Missing}]
        /\ tables'[u] = IF Exists(u) THEN tables[u] ELSE Empty({})
        /\ tables'[u] # Missing
        /\ \A w \in Tables : w # u => tables'[w] = tables[w]
    BY <1>1, <1>2, <1>3, <1>5, CreateIfMissingStep DEF Executed
  <2>2. /\ at'[o] = "script" /\ current'[o] = 1 /\ line'[o] = line[o] + 1
        /\ Version' = 0 /\ recorded' = {}
    BY <1>1, <1>5, Moves
  <2>3. ShapeOK(o)'
    BY <2>2 DEF ShapeOK
  <2>4. RebuildOK(o)'
    BY <2>2 DEF RebuildOK, At
  <2>5. TablesOK(o)'
    <3>1. ASSUME NEW t \in Main PROVE Rows(t)' = {}
      <4>1. Rows(t) = {} /\ t \in Tables
        BY <1>1, TablesAre DEF MInv, TablesOK
      <4> QED
        BY <2>1, <4>1 DEF Rows, Exists, Empty
    <3>2. line'[o] = 3 => line[o] = 2 /\ Exists("dag_runs")
      BY <1>1, <2>2, Where DEF MInv, TablesOK, At, Executing
    <3>3. line'[o] \in 2..3 => Exists("dag_runs")'
      BY <1>1, <2>1, <2>2, <3>2 DEF Exists, Tables
    <3>4. line'[o] = 3 => Exists("task_runs")'
      BY <1>1, <2>1, <2>2, <3>2 DEF Exists, Tables
    <3>5. ~Exists("dag_runs_new")'
      <4>1. ~Exists("dag_runs_new")
        BY <1>1 DEF MInv, TablesOK
      <4>2. tables'["dag_runs_new"] = tables["dag_runs_new"]
        BY <1>2, <2>1 DEF Tables, Main
      <4> QED
        BY <4>1, <4>2 DEF Exists
    <3> QED
      BY <2>2, <3>1, <3>3, <3>4, <3>5 DEF TablesOK, At
  <2> QED
    BY <2>1, <2>3, <2>4, <2>5
<1> QED
  BY <1>4, <1>5 DEF Fits

LEMMA SecondFits ==
  ASSUME NEW o \in Opener, Missing \notin Table, MInv(o), Executing(o), current[o] = 2
  PROVE  Fits(o)
<1> DEFINE t == "task_runs"
           f == {"skipped"}
<1>0. PICK k : k = line[o]
  OBVIOUS
<1>1. /\ k \in 1..5 /\ Statement(o) = Rebuild(t, f, {})[k]
      /\ at[o] = "script" /\ Version = 1 /\ TypeOK
  BY <1>0, Kinds, Where DEF Executing, MInv
<1>2. /\ t \in Main /\ f \in SUBSET Features /\ {} \in SUBSET Features
      /\ k = 3 => {} \subseteq tables[t].has
  BY DEF Main, Features
<1>3. Into(k, t, f)
  <2>1. k = 1 => Full(t)
    BY <1>0, <1>1 DEF MInv, TablesOK, At
  <2>2. k \in 2..6 => Into(k, t, f)
    BY <1>0, <1>1 DEF MInv, RebuildOK, At
  <2> QED
    BY <1>1, <2>1, <2>2 DEF Into
<1>4. ~Raises(Statement(o))
  BY <1>1, <1>2, <1>3, RebuildStep
<1>5. ASSUME Executed(o)
      PROVE  /\ tables' \in [Tables -> Table \cup {Missing}]
             /\ ShapeOK(o)' /\ RebuildOK(o)' /\ TablesOK(o)'
  <2>1. /\ tables' \in [Tables -> Table \cup {Missing}] /\ Into(k + 1, t, f)'
        /\ \A u \in Tables : u # t /\ u # Copy[t] => tables'[u] = tables[u]
    BY <1>1, <1>2, <1>3, <1>5, RebuildStep DEF Executed
  <2>2. /\ at'[o] = "script" /\ current'[o] = 2 /\ line'[o] = k + 1
        /\ Version' = 1 /\ recorded' = recorded
    BY <1>0, <1>1, <1>5, Moves
  <2>3. ShapeOK(o)'
    BY <2>2 DEF ShapeOK
  <2>4. RebuildOK(o)'
    BY <2>1, <2>2 DEF RebuildOK, At
  <2>5. TablesOK(o)'
    <3>1. /\ tables'["dag_runs"] = tables["dag_runs"]
          /\ tables'["dag_runs_new"] = tables["dag_runs_new"]
      BY <2>1, TablesAre DEF Tables
    <3>2. Full("dag_runs") /\ ~Exists("dag_runs_new")
      BY <1>1 DEF MInv, TablesOK, At
    <3>3. Full("dag_runs")' /\ ~Exists("dag_runs_new")'
      BY <2>2, <3>1, <3>2 DEF Full, Exists
    <3>4. k + 1 # 5 => Full(t)'
      <4>1. recorded' \in SUBSET History /\ k + 1 \in 1..6
        BY <1>1, <2>2 DEF TypeOK
      <4> QED
        BY <1>2, <2>1, <4>1, IntoFull
    <3> QED
      BY <2>2, <3>3, <3>4 DEF TablesOK, At
  <2> QED
    BY <2>1, <2>3, <2>4, <2>5
<1> QED
  BY <1>4, <1>5 DEF Fits

LEMMA ThirdFits ==
  ASSUME NEW o \in Opener, Missing \notin Table, MInv(o), Executing(o), current[o] = 3
  PROVE  Fits(o)
<1> DEFINE t == "task_runs"
           f == {"skipped", "blocked"}
<1>0. PICK k : k = line[o] - 1
  OBVIOUS
<1>1. /\ line[o] \in 1..7 /\ line[o] = k + 1 /\ k \in 0..6
      /\ at[o] = "script" /\ Version = 2 /\ TypeOK
      /\ k = 0 => Statement(o) = DropIfExists("task_attempts")
      /\ k \in 1..5 => Statement(o) = Rebuild(t, f, {})[k]
      /\ k = 6 => Statement(o) = Create("task_attempts", {})
  BY <1>0, Kinds, Where DEF Executing, MInv
<1>2. /\ t \in Main /\ f \in SUBSET Features /\ {} \in SUBSET Features
      /\ k = 3 => {} \subseteq tables[t].has
  BY DEF Main, Features
<1>3. k \in 1..6 => Into(k, t, f) /\ ~Exists("task_attempts")
  <2>1. k = 1 => Full(t)
    BY <1>1 DEF MInv, TablesOK, At
  <2>2. k \in 2..6 => Into(k, t, f)
    BY <1>1 DEF MInv, RebuildOK, At
  <2>3. k \in 1..6 => ~Exists("task_attempts")
    BY <1>1 DEF MInv, RebuildOK, At
  <2> QED
    BY <1>1, <2>1, <2>2, <2>3 DEF Into
<1>4. /\ Full("dag_runs") /\ ~Exists("dag_runs_new")
      /\ "on_failure" \in tables["dag_runs"].has
  BY <1>1 DEF MInv, TablesOK, ShapeOK, At, Full
<1>5. /\ k \notin 1..5 => ~Raises(Statement(o))
      /\ k \in 1..5 => ~Raises(Statement(o))
  BY <1>1, <1>2, <1>3, RebuildStep, AttemptsStep
<1>6. ASSUME Executed(o)
      PROVE  /\ tables' \in [Tables -> Table \cup {Missing}]
             /\ ShapeOK(o)' /\ RebuildOK(o)' /\ TablesOK(o)'
  <2>1. /\ at'[o] = "script" /\ current'[o] = 3 /\ line'[o] = k + 2
        /\ Version' = 2 /\ recorded' = recorded /\ recorded' \in SUBSET History
    <3>1. line'[o] = line[o] + 1
      BY <1>1, <1>6, Moves
    <3> QED
      BY <1>1, <1>6, <3>1, Moves DEF TypeOK
  <2>2. /\ tables' \in [Tables -> Table \cup {Missing}]
        /\ k = 0 => ~Exists("task_attempts")'
        /\ k = 6 => Exists("task_attempts")'
        /\ k \notin 1..5 => \A w \in Tables : w # "task_attempts" => tables'[w] = tables[w]
        /\ k \in 1..5 =>
             /\ Into(k + 1, t, f)'
             /\ \A u \in Tables : u # t /\ u # Copy[t] => tables'[u] = tables[u]
    <3>1. CASE k \in 1..5
      BY <1>1, <1>2, <1>3, <1>6, <3>1, RebuildStep DEF Executed
    <3>2. CASE k = 0 \/ k = 6
      BY <1>1, <1>3, <1>6, <3>2, AttemptsStep DEF Executed
    <3> QED
      BY <1>1, <3>1, <3>2
  <2>3. /\ tables'["dag_runs"] = tables["dag_runs"]
        /\ tables'["dag_runs_new"] = tables["dag_runs_new"]
    BY <2>2, TablesAre DEF Tables
  <2>4. ShapeOK(o)'
    BY <1>4, <2>1, <2>3 DEF ShapeOK
  <2>5. k = 0 => Into(1, t, f)'
    <3>1. k = 0 => Full(t) /\ tables'[t] = tables[t]
      BY <1>1, <2>2 DEF MInv, TablesOK, At, Tables
    <3> QED
      BY <2>1, <3>1 DEF Into, Full, Exists
  <2>6. k \in 0..5 => Into(k + 1, t, f)'
    BY <1>1, <2>2, <2>5
  <2>7. k = 6 => Into(6, t, f)'
    <3>1. k = 6 => tables'[t] = tables[t] /\ tables'[Copy[t]] = tables[Copy[t]]
      BY <2>2, TablesAre DEF Tables
    <3> QED
      BY <1>3, <2>1, <3>1 DEF Into, Full, Exists
  <2>8. /\ k \in 0..5 => ~Exists("task_attempts")'
        /\ k = 6 => Exists("task_attempts")'
    <3>1. k \in 1..5 => tables'["task_attempts"] = tables["task_attempts"]
      BY <2>2, TablesAre DEF Tables
    <3> QED
      BY <1>3, <2>2, <3>1 DEF Exists
  <2>9. RebuildOK(o)'
    BY <1>1, <2>1, <2>6, <2>7, <2>8 DEF RebuildOK, At
  <2>10. TablesOK(o)'
    <3>1. Full("dag_runs")' /\ ~Exists("dag_runs_new")'
      BY <1>4, <2>1, <2>3 DEF Full, Exists
    <3>2. k # 4 => Full(t)'
      BY <1>1, <1>2, <2>1, <2>6, <2>7, IntoFull
    <3> QED
      BY <1>1, <2>1, <3>1, <3>2 DEF TablesOK, At
  <2> QED
    BY <2>2, <2>4, <2>9, <2>10
<1> QED
  BY <1>5, <1>6 DEF Fits

LEMMA FourthFits ==
  ASSUME NEW o \in Opener, Missing \notin Table, MInv(o), Executing(o), current[o] = 4
  PROVE  Fits(o)
<1> DEFINE u == "dag_trigger_reactions"
<1>1. /\ line[o] = 1 /\ Statement(o) = CreateIfMissing(u) /\ u \in Tables
      /\ at[o] = "script" /\ Version = 3 /\ TypeOK
  BY Kinds, Where DEF Executing, MInv, Tables
<1>2. ~Raises(Statement(o))
  BY <1>1, CreateIfMissingStep
<1>3. ASSUME Executed(o)
      PROVE  /\ tables' \in [Tables -> Table \cup {Missing}]
             /\ ShapeOK(o)' /\ RebuildOK(o)' /\ TablesOK(o)'
  <2>1. /\ tables' \in [Tables -> Table \cup {Missing}] /\ tables'[u] # Missing
        /\ \A w \in Tables : w # u => tables'[w] = tables[w]
    BY <1>1, <1>3, CreateIfMissingStep DEF Executed
  <2>2. /\ at'[o] = "script" /\ current'[o] = 4 /\ line'[o] = 2
        /\ Version' = 3 /\ recorded' = recorded
    BY <1>1, <1>3, Moves
  <2>3. /\ tables'["dag_runs"] = tables["dag_runs"]
        /\ tables'["dag_runs_new"] = tables["dag_runs_new"]
        /\ tables'["task_runs"] = tables["task_runs"]
        /\ tables'["task_runs_new"] = tables["task_runs_new"]
        /\ tables'["task_attempts"] = tables["task_attempts"]
    BY <2>1 DEF Tables
  <2>4. ShapeOK(o)'
    <3>1. Exists("dag_runs") => "on_failure" \in tables["dag_runs"].has
      BY <1>1 DEF MInv, ShapeOK
    <3> QED
      BY <2>2, <2>3, <3>1 DEF ShapeOK, Exists
  <2>5. RebuildOK(o)'
    BY <2>2 DEF RebuildOK, At
  <2>6. TablesOK(o)'
    <3>1. /\ Full("dag_runs") /\ Full("task_runs") /\ ~Exists("dag_runs_new")
          /\ ~Exists("task_runs_new") /\ Exists("task_attempts")
          /\ tables["task_runs"].has = Whole("task_runs")
      BY <1>1 DEF MInv, TablesOK, At
    <3>2. /\ Full("dag_runs")' /\ Full("task_runs")' /\ ~Exists("dag_runs_new")'
          /\ ~Exists("task_runs_new")' /\ Exists("task_attempts")' /\ Exists(u)'
          /\ tables'["task_runs"].has = Whole("task_runs")
      BY <2>1, <2>2, <2>3, <3>1 DEF Full, Exists
    <3> QED
      BY <2>2, <3>2 DEF TablesOK, At, Whole
  <2> QED
    BY <2>1, <2>4, <2>5, <2>6
<1> QED
  BY <1>2, <1>3 DEF Fits

LEMMA SixthFits ==
  ASSUME NEW o \in Opener, Missing \notin Table, MInv(o), Executing(o), current[o] = 6
  PROVE  Fits(o)
<1> DEFINE t == "dag_runs"
           f == Whole(t)
<1>0. PICK k : k = line[o]
  OBVIOUS
<1>1. /\ k \in 1..5 /\ line[o] = k /\ Statement(o) = Rebuild(t, f, Columns)[k]
      /\ at[o] = "script" /\ Version = 5 /\ TypeOK
  BY <1>0, Kinds, Where DEF Executing, MInv
<1>2. t \in Main /\ f \in SUBSET Features /\ Columns \in SUBSET Features /\ Columns \subseteq f
  BY DEF Main, Features, Whole
<1>3. Into(k, t, f)
  <2>1. k = 1 => Full(t)
    BY <1>1 DEF MInv, TablesOK, At
  <2>2. k \in 2..6 => Into(k, t, f)
    BY <1>1 DEF MInv, RebuildOK, At
  <2> QED
    BY <1>1, <2>1, <2>2 DEF Into
<1>4. Exists(t) => Columns \subseteq tables[t].has
  BY <1>1 DEF MInv, ShapeOK, Columns
<1>5. k = 3 => Columns \subseteq tables[t].has
  BY <1>3, <1>4 DEF Into, Full
<1>6. ~Raises(Statement(o))
  BY <1>1, <1>2, <1>3, <1>5, RebuildStep
<1>7. ASSUME Executed(o)
      PROVE  /\ tables' \in [Tables -> Table \cup {Missing}]
             /\ ShapeOK(o)' /\ RebuildOK(o)' /\ TablesOK(o)'
  <2>1. /\ tables' \in [Tables -> Table \cup {Missing}] /\ Into(k + 1, t, f)'
        /\ \A u \in Tables : u # t /\ u # Copy[t] => tables'[u] = tables[u]
        /\ k \in 1..3 => tables'[t] = tables[t]
    BY <1>1, <1>2, <1>3, <1>5, <1>7, RebuildStep DEF Executed
  <2>2. /\ at'[o] = "script" /\ current'[o] = 6 /\ line'[o] = k + 1
        /\ Version' = 5 /\ recorded' = recorded /\ recorded' \in SUBSET History
    BY <1>1, <1>7, Moves DEF TypeOK
  <2>3. /\ tables'["task_runs"] = tables["task_runs"]
        /\ tables'["task_runs_new"] = tables["task_runs_new"]
        /\ tables'["task_attempts"] = tables["task_attempts"]
        /\ tables'["dag_trigger_reactions"] = tables["dag_trigger_reactions"]
    BY <2>1, TablesAre DEF Tables
  <2>4. ShapeOK(o)'
    <3>1. Exists(t)' => Columns \subseteq tables'[t].has
      <4>1. CASE k \in 1..3
        BY <1>4, <2>1, <4>1 DEF Exists
      <4>2. CASE k = 4
        BY <2>1, <4>2 DEF Into
      <4>3. CASE k = 5
        <5>1. tables'[t].has = f
          BY <2>1, <4>3 DEF Into
        <5> QED
          BY <1>2, <5>1
      <4> QED
        BY <1>1, <4>1, <4>2, <4>3
    <3> QED
      BY <2>2, <3>1 DEF ShapeOK, Columns
  <2>5. RebuildOK(o)'
    BY <1>1, <2>1, <2>2 DEF RebuildOK, At
  <2>6. TablesOK(o)'
    <3>1. /\ Full("task_runs") /\ ~Exists("task_runs_new") /\ Exists("task_attempts")
          /\ tables["task_runs"].has = Whole("task_runs") /\ Exists("dag_trigger_reactions")
      BY <1>1 DEF MInv, TablesOK, At
    <3>2. /\ Full("task_runs")' /\ ~Exists("task_runs_new")' /\ Exists("task_attempts")'
          /\ tables'["task_runs"].has = Whole("task_runs") /\ Exists("dag_trigger_reactions")'
      BY <2>2, <2>3, <3>1 DEF Full, Exists
    <3>3. k + 1 # 5 => Full(t)'
      BY <1>1, <1>2, <2>1, <2>2, IntoFull
    <3> QED
      BY <2>2, <3>2, <3>3 DEF TablesOK, At, Whole
  <2> QED
    BY <2>1, <2>4, <2>5, <2>6
<1> QED
  BY <1>6, <1>7 DEF Fits

LEMMA EachFits ==
  ASSUME NEW o \in Opener, Missing \notin Table, MInv(o), Executing(o)
  PROVE  Fits(o)
<1>1. current[o] = 1 \/ current[o] = 2 \/ current[o] = 3 \/ current[o] = 4 \/ current[o] = 6
  BY Kinds
<1> QED
  BY <1>1, FirstFits, SecondFits, ThirdFits, FourthFits, SixthFits

-----------------------------------------------------------------------------
(* Every step *)

LEMMA Starts ==
  ASSUME NEW o, Opener = {o}, Missing \notin Table, Init
  PROVE  MInv(o)
<1>1. at[o] = "closed" /\ \A v, l : ~At(o, v, l)
  BY DEF Init, At
<1>2. CASE versions = << >> /\ recorded = {} /\ tables = [t \in Tables |-> Missing]
  <2>1. Version = 0 /\ TypeOK
    BY <1>2, ScriptIs DEF Init, TypeOK, Version
  <2>2. \A t \in Tables : ~Exists(t) /\ Rows(t) = {}
    BY <1>2 DEF Exists, Rows
  <2> QED
    BY <1>1, <2>1, <2>2 DEF MInv, PlaceOK, ShapeOK, RebuildOK, TablesOK, Main, Tables
<1>3. CASE /\ versions = <<1>> /\ recorded = History
           /\ tables = [t \in Tables |-> IF t \in {"dag_runs", "task_runs"}
                                        THEN [rows |-> History, has |-> {}] ELSE Missing]
  <2>1. [rows |-> History, has |-> {}] \in Table /\ [rows |-> History, has |-> {}] # Missing
    BY DEF Table
  <2>2. Version = 1
    BY <1>3 DEF Version
  <2>3. TypeOK
    <3>1. tables \in [Tables -> Table \cup {Missing}]
      BY <1>3, <2>1
    <3>2. \E n \in 1..Latest : versions = <<n>>
      BY <1>3, ScriptIs
    <3>3. versions # << >>
      BY <1>3
    <3>4. /\ at \in [Opener -> {"closed", "look", "add", "script", "open"}]
          /\ current \in [Opener -> 0..(Latest + 1)]
          /\ hasRow \in [Opener -> BOOLEAN]
          /\ line \in [Opener -> Nat]
      BY ScriptIs DEF Init
    <3> QED
      BY <1>3, <3>1, <3>2, <3>3, <3>4 DEF TypeOK
  <2>4. Full("dag_runs") /\ Full("task_runs") /\ ~Exists("dag_runs_new")
    BY <1>3, <2>1 DEF Full, Exists, Tables
  <2> QED
    BY <1>1, <2>2, <2>3, <2>4 DEF MInv, PlaceOK, ShapeOK, RebuildOK, TablesOK
<1> QED
  BY <1>2, <1>3 DEF Init

LEMMA CloseStep ==
  ASSUME NEW o, Opener = {o}, MInv(o), Close(o), ~Swapping(o)
  PROVE  MInv(o)'
<1>1. /\ at'[o] = "closed" /\ Version' = Version /\ UNCHANGED <<recorded, tables, versions>>
      /\ TypeOK'
  BY DEF Close, MInv, TypeOK, Version
<1>2. ~At(o, 6, 5) /\ ~At(o, 2, 5) /\ ~At(o, 3, 6)
  <2>1. /\ Script[6][5].op = "rename" /\ Script[2][5].op = "rename"
        /\ Script[3][6].op = "rename"
    <3>1. \A t, f, s : Rebuild(t, f, s)[5].op = "rename"
      <4> TAKE t, f, s
      <4>1. Rebuild(t, f, s)[5] = [op |-> "rename", from |-> Copy[t], table |-> t]
        BY RebuildIs
      <4> QED
        BY <4>1
    <3>2. Script[3][5 + 1] = Rebuild("task_runs", {"skipped", "blocked"}, {})[5]
      BY Third
    <3> QED
      BY <3>1, <3>2, ScriptIs
  <2> QED
    BY <2>1, Lengths DEF Swapping, Executing, Statement, At
<1>3. \A v, l : ~At(o, v, l)'
  BY <1>1 DEF At
<1>4. PlaceOK(o)' /\ RebuildOK(o)'
  BY <1>1, <1>3 DEF PlaceOK, RebuildOK
<1>5. ShapeOK(o)'
  BY <1>1 DEF MInv, ShapeOK, Exists
<1>6. TablesOK(o)'
  BY <1>1, <1>2, <1>3 DEF MInv, TablesOK, Full, Exists, Rows
<1> QED
  BY <1>1, <1>4, <1>5, <1>6 DEF MInv

LEMMA ReadVersionStep ==
  ASSUME NEW o, Opener = {o}, MInv(o), ReadVersion(o)
  PROVE  MInv(o)'
<1> DEFINE v == IF versions = << >> THEN 1 ELSE Head(versions) + 1
<1>1. v = Version + 1 /\ Version \in 0..7
  BY VersionIs DEF MInv, Version
<1>2. /\ Version' = Version /\ UNCHANGED <<recorded, tables, versions>> /\ at[o] = "closed"
      /\ current'[o] = v /\ line'[o] = 1 /\ hasRow'[o] = (versions # << >>)
      /\ at'[o] = CASE v > 7 -> "open" [] v \in {3, 5, 7} -> "look" [] OTHER -> "script"
  BY ScriptIs DEF MInv, TypeOK, ReadVersion, Begin, Version
<1>3. TypeOK'
  BY <1>1, <1>2, ScriptIs DEF MInv, TypeOK, ReadVersion, Begin
<1> HIDE DEF v
<1>4. PlaceOK(o)'
  <2>1. at'[o] = "open" => v > 7
    BY <1>1, <1>2
  <2>2. at'[o] = "look" => v \in {3, 5, 7}
    BY <1>1, <1>2
  <2>3. at'[o] \in {"look", "script"} => v <= 7
    BY <1>1, <1>2
  <2>4. at'[o] \in {"look", "script", "open"}
    BY <1>1, <1>2
  <2>5. v <= 7 => Len(Script[v]) \in Nat
    <3>1. v <= 7 => v = 1 \/ v = 2 \/ v = 3 \/ v = 4 \/ v = 5 \/ v = 6 \/ v = 7
      BY <1>1
    <3> QED
      BY <3>1, Lengths
  <2>6. at'[o] = "script" => line'[o] \in 1..(Len(Script[current'[o]]) + 1)
    BY <1>2, <2>3, <2>5
  <2>7. at'[o] = "open" => Version' = Latest
    BY <1>1, <1>2, <2>1, ScriptIs
  <2> QED
    BY <1>1, <1>2, <2>2, <2>3, <2>4, <2>6, <2>7, ScriptIs DEF PlaceOK
<1>5. RebuildOK(o)'
  BY <1>2 DEF RebuildOK, At
<1>6. ShapeOK(o)'
  <2>1. at'[o] = "script" => current'[o] \notin {3, 5, 7}
    BY <1>1, <1>2
  <2> QED
    BY <1>2, <2>1 DEF MInv, ShapeOK, Exists
<1>7. TablesOK(o)'
  BY <1>2 DEF MInv, TablesOK, At, Full, Exists, Rows
<1> QED
  BY <1>3, <1>4, <1>5, <1>6, <1>7 DEF MInv

LEMMA LookStep ==
  ASSUME NEW o, Opener = {o}, MInv(o), LookForColumn(o)
  PROVE  MInv(o)'
<1> DEFINE c == current[o]
           found == Exists("dag_runs") /\ Column[c] \in tables["dag_runs"].has
<1>1. /\ Version' = Version /\ UNCHANGED <<recorded, tables, versions, current, hasRow, line>>
      /\ at[o] = "look" /\ at'[o] = IF found THEN "script" ELSE "add"
      /\ TypeOK'
  BY DEF MInv, TypeOK, LookForColumn, Version
<1>2. /\ c \in {3, 5, 7} /\ c = Version + 1 /\ line[o] = 1
      /\ hasRow[o] <=> versions # << >>
  BY <1>1, ScriptIs DEF MInv, PlaceOK
<1>3. Version \in 0..7 /\ Version >= 1
  BY <1>2, VersionIs DEF MInv
<1>4. Exists("dag_runs")
  BY <1>1, <1>3 DEF MInv, TablesOK, At, Full
<1>5. PlaceOK(o)'
  <2>1. Len(Script[c]) \in Nat
    BY <1>2, Lengths
  <2>2. at'[o] = "add" => Column[c] \notin tables["dag_runs"].has
    BY <1>1, <1>4
  <2> QED
    BY <1>1, <1>2, <2>1, <2>2, ScriptIs DEF PlaceOK
<1>6. RebuildOK(o)'
  BY <1>1, <1>2 DEF RebuildOK, At
<1>7. ShapeOK(o)'
  <2>1. at'[o] = "script" => Column[c] \in tables["dag_runs"].has
    BY <1>1
  <2> QED
    BY <1>1, <2>1, ScriptIs DEF MInv, ShapeOK, Exists
<1>8. TablesOK(o)'
  BY <1>1, <1>2, <1>3 DEF MInv, TablesOK, At, Full, Exists, Rows
<1> QED
  BY <1>1, <1>5, <1>6, <1>7, <1>8 DEF MInv

\* A column that was missing when the process looked still is.
LEMMA AddFits ==
  ASSUME NEW o \in Opener, MInv(o), at[o] = "add"
  PROVE  /\ Exists("dag_runs") /\ Column[current[o]] \notin tables["dag_runs"].has
         /\ current[o] \in {3, 5, 7} /\ current[o] = Version + 1 /\ line[o] = 1
         /\ Version >= 1
<1>1. /\ current[o] \in {3, 5, 7} /\ current[o] = Version + 1 /\ line[o] = 1
      /\ Column[current[o]] \notin tables["dag_runs"].has
  BY ScriptIs DEF MInv, PlaceOK
<1>2. Version \in 0..7 /\ Version >= 1
  BY <1>1, VersionIs DEF MInv
<1> QED
  BY <1>1, <1>2 DEF MInv, TablesOK, At, Full

LEMMA AddStep ==
  ASSUME NEW o, Opener = {o}, Missing \notin Table, MInv(o), AddColumn(o)
  PROVE  MInv(o)'
<1> DEFINE c == current[o]
           d == tables["dag_runs"]
<1>1. /\ Exists("dag_runs") /\ Column[c] \notin d.has /\ at[o] = "add"
      /\ c \in {3, 5, 7} /\ c = Version + 1 /\ line[o] = 1 /\ Version >= 1
  BY AddFits DEF AddColumn
<1>2. /\ Version' = Version /\ UNCHANGED <<recorded, versions, current, hasRow, line>>
      /\ at' = [at EXCEPT ![o] = "script"] /\ at'[o] = "script"
      /\ tables' = [tables EXCEPT !["dag_runs"].has = @ \cup {Column[c]}]
  BY <1>1 DEF MInv, TypeOK, AddColumn, Version
<1>3. d \in Table /\ "dag_runs" \in Tables /\ tables \in [Tables -> Table \cup {Missing}]
  BY <1>1 DEF MInv, TypeOK, Exists, Tables
<1>4. Column[c] \in Features
  BY <1>1, ScriptIs DEF Features, Columns
<1>5. PICK e : e = [d EXCEPT !.has = @ \cup {Column[c]}]
  OBVIOUS
<1>6. /\ e \in Table /\ e # Missing /\ e.rows = d.rows /\ d.has \subseteq e.has
      /\ Column[c] \in e.has
  BY <1>3, <1>4, <1>5 DEF Table
<1>7. tables' = [tables EXCEPT !["dag_runs"] = e]
  BY <1>2, <1>5
<1>8. /\ tables' \in [Tables -> Table \cup {Missing}] /\ tables'["dag_runs"] = e
      /\ \A t \in Tables : t # "dag_runs" => tables'[t] = tables[t]
  BY <1>3, <1>6, <1>7
<1>9. TypeOK'
  BY <1>2, <1>8 DEF MInv, TypeOK
<1>10. PlaceOK(o)'
  <2>1. Len(Script[c]) \in Nat
    BY <1>1, Lengths
  <2> QED
    BY <1>1, <1>2, <2>1 DEF MInv, PlaceOK
<1>11. RebuildOK(o)'
  BY <1>1, <1>2 DEF RebuildOK, At
<1>12. ShapeOK(o)'
  BY <1>1, <1>2, <1>6, <1>8, ScriptIs DEF MInv, ShapeOK, Exists
<1>13. TablesOK(o)'
  <2>1. /\ tables'["dag_runs_new"] = tables["dag_runs_new"]
        /\ tables'["task_runs"] = tables["task_runs"]
        /\ tables'["task_runs_new"] = tables["task_runs_new"]
        /\ tables'["task_attempts"] = tables["task_attempts"]
        /\ tables'["dag_trigger_reactions"] = tables["dag_trigger_reactions"]
    BY <1>8 DEF Tables
  <2>2. Full("dag_runs") /\ Full("task_runs")
    BY <1>1 DEF MInv, TablesOK, At
  <2>3. Full("dag_runs")' /\ Full("task_runs")'
    BY <1>2, <1>6, <1>8, <2>1, <2>2 DEF Full, Exists
  <2> QED
    BY <1>1, <1>2, <2>1, <2>3 DEF MInv, TablesOK, At, Exists
<1> QED
  BY <1>9, <1>10, <1>11, <1>12, <1>13 DEF MInv

LEMMA ExecuteStep ==
  ASSUME NEW o, Opener = {o}, Missing \notin Table, MInv(o), Execute(o)
  PROVE  MInv(o)'
<1>1. Executing(o) /\ at[o] = "script"
  BY DEF Execute, Executing
<1>2. ~Raises(Statement(o)) /\ Fits(o)
  BY <1>1, EachFits DEF Fits
<1>3. Executed(o)
  BY <1>2 DEF Execute, Statement, Executed
<1>4. /\ tables' \in [Tables -> Table \cup {Missing}]
      /\ ShapeOK(o)' /\ RebuildOK(o)' /\ TablesOK(o)'
  BY <1>2, <1>3 DEF Fits
<1>5. TypeOK'
  BY <1>3, <1>4 DEF MInv, TypeOK, Executed
<1>6. PlaceOK(o)'
  <2>1. /\ at'[o] = "script" /\ current'[o] = current[o] /\ line'[o] = line[o] + 1
        /\ Version' = Version /\ versions' = versions /\ hasRow' = hasRow
    BY <1>1, <1>3, Moves DEF Executed
  <2>2. line[o] \in 1..8 /\ line[o] <= Len(Script[current[o]]) /\ current[o] \in 1..7
    BY <1>1, Where DEF Executing
  <2>3. Len(Script[current[o]]) \in Nat
    <3>1. \/ current[o] = 1 \/ current[o] = 2 \/ current[o] = 3 \/ current[o] = 4
          \/ current[o] = 5 \/ current[o] = 6 \/ current[o] = 7
      BY <2>2
    <3> QED
      BY <3>1, Lengths
  <2>4. line'[o] \in 1..(Len(Script[current'[o]]) + 1)
    BY <2>1, <2>2, <2>3
  <2> QED
    BY <1>1, <2>1, <2>4 DEF MInv, PlaceOK
<1> QED
  BY <1>4, <1>5, <1>6 DEF MInv

\* What the migration that is over has brought about.
LEMMA RecordStep ==
  ASSUME NEW o, Opener = {o}, Missing \notin Table, MInv(o), RecordVersion(o)
  PROVE  MInv(o)'
<1> DEFINE c == current[o]
<1>1. /\ at[o] = "script" /\ c \in 1..7 /\ Version = c - 1
      /\ line[o] > Len(Script[c])
      /\ hasRow[o] <=> versions # << >>
      /\ TypeOK
  BY Where DEF RecordVersion, MInv
<1>2. /\ c = 1 => line[o] = 3
      /\ c = 2 => line[o] = 6
      /\ c = 3 => line[o] = 8
      /\ c = 4 => line[o] = 2
      /\ c = 6 => line[o] = 6
  <2> DEFINE n == Len(Script[c])
             l == line[o]
  <2>1. /\ c = 1 => n = 2 /\ l \in 1..3
        /\ c = 2 => n = 5 /\ l \in 1..6
        /\ c = 3 => n = 7 /\ l \in 1..8
        /\ c = 4 => n = 1 /\ l \in 1..2
        /\ c = 6 => n = 5 /\ l \in 1..6
    BY <1>1, Where, Lengths
  <2>2. l > n
    BY <1>1
  <2> HIDE DEF n, l
  <2>3. /\ c = 1 => l = 3
        /\ c = 2 => l = 6
        /\ c = 3 => l = 8
        /\ c = 4 => l = 2
        /\ c = 6 => l = 6
    BY <2>1, <2>2
  <2> QED
    BY <2>3 DEF l
<1>3. versions' = <<c>>
  <2>1. CASE versions = << >>
    BY <1>1, <2>1 DEF RecordVersion
  <2>2. CASE versions # << >>
    <3>1. versions = <<Version>>
      BY <1>1, <2>2, VersionIs
    <3>2. DOMAIN versions = {1}
      BY <3>1
    <3>3. versions' = [i \in {1} |-> c]
      BY <1>1, <2>2, <3>2 DEF RecordVersion
    <3> QED
      BY <3>3
  <2> QED
    BY <2>1, <2>2
<1>4. Version' = c
  BY <1>3 DEF Version
<1>5. /\ UNCHANGED <<recorded, tables>> /\ hasRow'[o] = TRUE
      /\ current'[o] = c + 1 /\ line'[o] = 1
      /\ at'[o] = CASE c + 1 > 7 -> "open" [] c + 1 \in {3, 5, 7} -> "look" [] OTHER -> "script"
  BY <1>1, ScriptIs DEF RecordVersion, Begin, TypeOK
<1>6. TypeOK'
  <2>1. versions' # << >> /\ \E n \in 1..Latest : versions' = <<n>>
    BY <1>1, <1>3, ScriptIs
  <2>2. /\ at' \in [Opener -> {"closed", "look", "add", "script", "open"}]
        /\ current' \in [Opener -> 0..(Latest + 1)]
        /\ hasRow' \in [Opener -> BOOLEAN] /\ line' \in [Opener -> Nat]
    BY <1>1, ScriptIs DEF RecordVersion, Begin, TypeOK
  <2> QED
    BY <1>1, <1>5, <2>1, <2>2 DEF TypeOK
<1>7. PlaceOK(o)'
  <2>1. at'[o] = "open" => c = 7
    BY <1>1, <1>5
  <2>2. at'[o] = "look" => c + 1 \in {3, 5, 7}
    BY <1>1, <1>5
  <2>3. at'[o] \in {"look", "script"} => c + 1 <= 7
    BY <1>1, <1>5
  <2>4. at'[o] \in {"look", "script", "open"}
    BY <1>1, <1>5
  <2>5. c + 1 <= 7 => Len(Script[c + 1]) \in Nat
    <3>1. c + 1 <= 7 =>
            \/ c + 1 = 2 \/ c + 1 = 3 \/ c + 1 = 4 \/ c + 1 = 5 \/ c + 1 = 6 \/ c + 1 = 7
      BY <1>1
    <3> QED
      BY <3>1, Lengths
  <2>6. at'[o] = "script" => line'[o] \in 1..(Len(Script[current'[o]]) + 1)
    BY <1>5, <2>3, <2>5
  <2>7. versions' # << >>
    BY <1>3
  <2> QED
    BY <1>4, <1>5, <2>1, <2>2, <2>3, <2>4, <2>6, <2>7, ScriptIs DEF PlaceOK
<1>8. RebuildOK(o)'
  BY <1>5 DEF RebuildOK, At
<1>9. ShapeOK(o)'
  <2>1. at'[o] = "script" => current'[o] \notin {3, 5, 7}
    BY <1>1, <1>5
  <2>2. c = 6 /\ Exists("dag_runs") => Whole("dag_runs") \subseteq tables["dag_runs"].has
    BY <1>1, <1>2 DEF MInv, RebuildOK, At, Into
  <2>3. Exists("dag_runs") =>
          /\ c >= 3 => "on_failure" \in tables["dag_runs"].has
          /\ c >= 5 => "severity" \in tables["dag_runs"].has
          /\ c >= 6 => Whole("dag_runs") \subseteq tables["dag_runs"].has
          /\ c >= 7 => "owner_create_time_ns" \in tables["dag_runs"].has
    BY <1>1, <2>2 DEF MInv, ShapeOK
  <2> QED
    BY <1>4, <1>5, <2>1, <2>3 DEF ShapeOK, Exists
<1>10. TablesOK(o)'
  <2>1. Full("dag_runs") /\ Full("task_runs")
    <3>1. CASE c = 1
      <4>1. Version = 0 /\ recorded = {} /\ line[o] = 3
        BY <1>1, <1>2, <3>1, VersionIs
      <4>2. Exists("dag_runs") /\ Exists("task_runs")
        BY <1>1, <3>1, <4>1 DEF MInv, TablesOK, At
      <4>3. Rows("dag_runs") = {} /\ Rows("task_runs") = {}
        BY <4>1 DEF MInv, TablesOK, Main
      <4> QED
        BY <4>1, <4>2, <4>3 DEF Full, Rows
    <3>2. CASE c # 1
      BY <1>1, <1>2, <3>2 DEF MInv, TablesOK, At
    <3> QED
      BY <3>1, <3>2
  <2>2. c >= 3 => /\ ~Exists("task_runs_new") /\ Exists("task_attempts")
                  /\ tables["task_runs"].has = Whole("task_runs")
    <3>1. CASE c = 3
      BY <1>1, <1>2, <3>1, TablesAre DEF MInv, RebuildOK, At, Into, Whole
    <3>2. CASE c > 3
      BY <1>1, <3>2 DEF MInv, TablesOK
    <3> QED
      BY <1>1, <3>1, <3>2
  <2>3. c >= 4 => Exists("dag_trigger_reactions")
    BY <1>1, <1>2 DEF MInv, TablesOK, At
  <2>4. c < 5 \/ c >= 6 => ~Exists("dag_runs_new")
    <3>1. CASE c = 6
      BY <1>1, <1>2, <3>1, TablesAre DEF MInv, RebuildOK, At, Into
    <3>2. CASE c # 6
      BY <1>1, <3>2 DEF MInv, TablesOK
    <3> QED
      BY <3>1, <3>2
  <2> QED
    BY <1>1, <1>4, <1>5, <2>1, <2>2, <2>3, <2>4 DEF TablesOK, At, Full, Exists
<1> QED
  BY <1>6, <1>7, <1>8, <1>9, <1>10 DEF MInv

-----------------------------------------------------------------------------

LEMMA InvIsPrimed ==
  ASSUME NEW o, Opener = {o}, Missing \notin Table, MInv(o), [SafeNext]_vars
  PROVE  MInv(o)'
<1>1. CASE SafeNext
  <2>1. \/ ReadVersion(o) \/ LookForColumn(o) \/ AddColumn(o) \/ Execute(o)
        \/ RecordVersion(o) \/ (Close(o) /\ ~Swapping(o))
    BY <1>1 DEF SafeNext, Next
  <2> QED
    BY <2>1, ReadVersionStep, LookStep, AddStep, ExecuteStep, RecordStep, CloseStep
<1>2. CASE UNCHANGED vars
  BY <1>2 DEF vars, process, MInv, TypeOK, PlaceOK, ShapeOK, RebuildOK, TablesOK, At, Into,
              Full, Exists, Rows, Version
<1> QED
  BY <1>1, <1>2

LEMMA KeepsRows ==
  ASSUME NEW o, Opener = {o}, Missing \notin Table, MInv(o)
  PROVE  RetryKeepsRows
<1>1. \A t \in Main : Full(t) => recorded \subseteq Rows(t)
  BY DEF Full, Rows
<1>2. Version \in 0..7 /\ (Version = 0 => recorded = {})
  BY VersionIs DEF MInv
<1>3. ASSUME NEW t \in Main, NEW f \in SUBSET Features, Into(5, t, f)
      PROVE  recorded \subseteq Rows(Copy[t])
  <2>1. tables[Copy[t]] = [rows |-> recorded, has |-> f]
    BY <1>3 DEF Into
  <2>2. [rows |-> recorded, has |-> f] \in Table
    BY DEF MInv, TypeOK, Table
  <2>3. tables[Copy[t]] # Missing
    BY <2>1, <2>2
  <2> QED
    BY <2>1, <2>3 DEF Rows, Exists
<1>4. Version >= 1 => recorded \subseteq Rows("dag_runs") \cup Rows(Copy["dag_runs"])
  <2>1. CASE At(o, 6, 5)
    <3>1. Into(5, "dag_runs", Whole("dag_runs"))
      BY <2>1 DEF MInv, RebuildOK
    <3>2. Whole("dag_runs") \in SUBSET Features /\ "dag_runs" \in Main
      BY DEF Whole, Features, Main
    <3> QED
      BY <1>3, <3>1, <3>2
  <2>2. CASE ~At(o, 6, 5)
    BY <1>1, <2>2 DEF MInv, TablesOK, Main
  <2> QED
    BY <2>1, <2>2
<1>5. Version >= 1 => recorded \subseteq Rows("task_runs") \cup Rows(Copy["task_runs"])
  <2>0. /\ {"skipped"} \in SUBSET Features /\ {"skipped", "blocked"} \in SUBSET Features
        /\ "task_runs" \in Main
    BY DEF Features, Main
  <2>1. CASE At(o, 2, 5)
    <3>1. Into(5, "task_runs", {"skipped"})
      BY <2>1 DEF MInv, RebuildOK
    <3> QED
      BY <1>3, <2>0, <3>1
  <2>2. CASE At(o, 3, 6)
    <3>1. At(o, 3, 5 + 1)
      BY <2>2
    <3>2. Into(5, "task_runs", {"skipped", "blocked"})
      BY <3>1 DEF MInv, RebuildOK
    <3> QED
      BY <1>3, <2>0, <3>2
  <2>3. CASE ~At(o, 2, 5) /\ ~At(o, 3, 6)
    BY <1>1, <2>0, <2>3 DEF MInv, TablesOK
  <2> QED
    BY <2>1, <2>2, <2>3
<1> QED
  BY <1>2, <1>4, <1>5 DEF RetryKeepsRows

LEMMA NothingElse ==
  ASSUME NEW o, Opener = {o}, Missing \notin Table, MInv(o)
  PROVE  NothingFails /\ OpenIsComplete
<1>1. NothingFails
  BY EachFits, AddFits DEF NothingFails, Fits
<1>2. ASSUME at[o] = "open"
      PROVE  /\ versions = <<Latest>>
             /\ \A t \in Main : Full(t) /\ Whole(t) \subseteq tables[t].has /\ ~Exists(Copy[t])
             /\ "owner_create_time_ns" \in tables["dag_runs"].has
             /\ Exists("task_attempts") /\ Exists("dag_trigger_reactions")
  <2>1. Version = 7 /\ Latest = 7 /\ \A v, l : ~At(o, v, l)
    BY <1>2, ScriptIs DEF MInv, PlaceOK, At
  <2>2. versions = <<Latest>>
    BY <2>1, VersionIs DEF MInv
  <2>3. /\ Full("dag_runs") /\ Full("task_runs")
        /\ ~Exists("task_runs_new") /\ ~Exists("dag_runs_new")
        /\ tables["task_runs"].has = Whole("task_runs")
        /\ Exists("task_attempts") /\ Exists("dag_trigger_reactions")
    BY <2>1 DEF MInv, TablesOK
  <2>4. /\ Whole("dag_runs") \subseteq tables["dag_runs"].has
        /\ "owner_create_time_ns" \in tables["dag_runs"].has
    BY <2>1, <2>3 DEF MInv, ShapeOK, Full
  <2> QED
    BY <2>2, <2>3, <2>4, TablesAre DEF Main
<1> QED
  BY <1>1, <1>2 DEF OpenIsComplete

\* Of a store that one process at a time opens, and that none leaves between the
\* DROP of a table and the RENAME of its copy: what was recorded is in it at
\* every moment, however often and wherever else a process ends in
\* _ensure_schema() and the next one tries again.
THEOREM RetryConverges ==
  ASSUME NEW o, Opener = {o}, Missing \notin Table
  PROVE  SafeSpec => []RetryKeepsRows
<1>1. Init => MInv(o)
  BY Starts
<1>2. MInv(o) /\ [SafeNext]_vars => MInv(o)'
  BY InvIsPrimed
<1>3. MInv(o) => RetryKeepsRows
  BY KeepsRows
<1> QED
  BY <1>1, <1>2, <1>3, PTL DEF SafeSpec

\* And no statement of any migration raises OperationalError in what an earlier
\* attempt left: neither a table nor a column that is already there, nor one
\* that is missing.
THEOREM MigrationsNeverFail ==
  ASSUME NEW o, Opener = {o}, Missing \notin Table
  PROVE  SafeSpec => []NothingFails
<1>1. Init => MInv(o)
  BY Starts
<1>2. MInv(o) /\ [SafeNext]_vars => MInv(o)'
  BY InvIsPrimed
<1>3. MInv(o) => NothingFails
  BY NothingElse
<1> QED
  BY <1>1, <1>2, <1>3, PTL DEF SafeSpec

\* Whoever gets through StateStore.__init__() has the latest version, every table
\* in its final shape, no copy left behind, and all that was recorded.
THEOREM OpenedComplete ==
  ASSUME NEW o, Opener = {o}, Missing \notin Table
  PROVE  SafeSpec => []OpenIsComplete
<1>1. Init => MInv(o)
  BY Starts
<1>2. MInv(o) /\ [SafeNext]_vars => MInv(o)'
  BY InvIsPrimed
<1>3. MInv(o) => OpenIsComplete
  BY NothingElse
<1> QED
  BY <1>1, <1>2, <1>3, PTL DEF SafeSpec
=============================================================================
