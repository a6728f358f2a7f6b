----------------------- MODULE PipelineDelivery_proofs -----------------------
(***************************************************************************)
(* Proofs about PipelineDelivery, for every number of writers, retries,    *)
(* rows and actions.                                                       *)
(*                                                                         *)
(* IInv says of the table that it is empty while it does not exist and     *)
(* that its rows come from commits of the past, and of each writer what it *)
(* can rely on at its point of the write.  The part that matters is Sees:  *)
(* a fail or a replace that has found no table, and a truncate that has    *)
(* begun its transaction, knows every row it will not delete to be newer   *)
(* than its own look at the table.  Commits of other writers keep that,    *)
(* because a commit number is never used twice.                            *)
(***************************************************************************)
EXTENDS PipelineDelivery, FiniteSetTheorems, TLAPS

Writing == {"inspect", "drop", "create_all", "create", "reflect", "clear", "insert"}

TableInv ==
    /\ schema = "none" => rows = {}
    /\ \A r \in rows : r[2] <= commits
    /\ resetAt <= commits

\* The batch has passed the preparation.
Prepared(w) ==
    pc[w] \in Writing \cup {"act", "succeeded"} => Preparable(batch[w]) /\ batch[w] # {}

\* Each mode takes its own way through the write.
ModeFits(w) ==
    /\ pc[w] \in {"prepare"} \cup Writing => mode[w] \in Modes
    /\ pc[w] = "drop" => mode[w] = "replace"
    /\ pc[w] = "reflect" => mode[w] \in {"append", "truncate", "upsert"}
    /\ pc[w] = "clear" => mode[w] = "truncate"
    /\ snap[w] # {} => InTransaction(w)

\* What w will find beside its own rows is newer than its look at the table.
Sees(w) ==
    /\ since[w] <= commits
    /\ pc[w] \in {"create_all", "create", "insert"} /\ mode[w] \in {"replace", "fail"} =>
         \A r \in rows : r[2] > since[w]
    /\ InTransaction(w) => \A r \in rows \ snap[w] : r[2] > since[w]

\* What w has written is there, and what it has invoked was to be invoked.
Wrote(w) ==
    /\ written[w] <= commits
    /\ outcomes[w] \subseteq Matched(batch[w])
    /\ outcomes[w] # {} => pc[w] \in {"act", "succeeded"}
    /\ pc[w] \in {"act", "succeeded"} =>
         /\ written[w] > 0
         /\ written[w] > resetAt => batch[w] \subseteq Keys(rows)
    /\ pc[w] = "succeeded" => Matched(batch[w]) \subseteq outcomes[w]

WriterInv(w) == Prepared(w) /\ ModeFits(w) /\ Sees(w) /\ Wrote(w)

IInv == TypeOK /\ TableInv /\ \A w \in Writer : WriterInv(w)

-----------------------------------------------------------------------------
(* Facts shared by the actions *)

\* Only the writer that acts has another program counter.
LEMMA Goes ==
    ASSUME TypeOK, NEW w \in Writer, NEW l \in Labels, Goto(w, l)
    PROVE  /\ pc' \in [Writer -> Labels]
           /\ pc'[w] = l
           /\ \A v \in Writer : v # w => pc'[v] = pc[v]
  BY DEF TypeOK, Goto

\* An attempt that is over has no locals left.
LEMMA Forgets ==
    ASSUME TypeOK, NEW w \in Writer, Forget(w)
    PROVE  /\ mode' \in [Writer -> Modes \cup {"none"}]
           /\ batch' \in [Writer -> SUBSET Key]
           /\ snap' \in [Writer -> SUBSET (Key \X Nat)]
           /\ outcomes' \in [Writer -> SUBSET Actions]
           /\ since' \in [Writer -> Nat] /\ written' \in [Writer -> Nat]
           /\ mode'[w] = "none" /\ batch'[w] = {} /\ snap'[w] = {} /\ outcomes'[w] = {}
           /\ since'[w] = 0 /\ written'[w] = 0
           /\ \A v \in Writer : v # w =>
                /\ mode'[v] = mode[v] /\ batch'[v] = batch[v] /\ snap'[v] = snap[v]
                /\ outcomes'[v] = outcomes[v] /\ since'[v] = since[v] /\ written'[v] = written[v]
  BY DEF TypeOK, Forget

\* A writer whose own state stays, at a table that stays, keeps what it knows.
LEMMA Undisturbed ==
    ASSUME NEW v \in Writer, WriterInv(v),
           pc'[v] = pc[v], mode'[v] = mode[v], batch'[v] = batch[v], snap'[v] = snap[v],
           outcomes'[v] = outcomes[v], since'[v] = since[v], written'[v] = written[v],
           rows' = rows, commits' = commits, resetAt' = resetAt
    PROVE  WriterInv(v)'
  BY DEF WriterInv, Prepared, ModeFits, Sees, Wrote, InTransaction, Matched, Preparable,
         Keys, Writing, Actions

\* Where there is no batch and no write, nothing is claimed.
LEMMA Idle ==
    ASSUME IInv, NEW w \in Writer,
           pc'[w] \in {"read", "failed", "gone"}, snap'[w] = {}, outcomes'[w] = {},
           since'[w] = 0, written'[w] = 0, commits' \in Nat
    PROVE  WriterInv(w)'
  BY DEF IInv, WriterInv, Prepared, ModeFits, Sees, Wrote, InTransaction, Writing

\* The end of an attempt, in whichever way.
LEMMA Aborts ==
    ASSUME IInv, NEW w \in Writer, NEW l \in {"read", "failed", "gone"},
           Goto(w, l), Forget(w), attempt' \in [Writer -> Nat], UNCHANGED database
    PROVE  IInv'
  <1>1. l \in Labels BY DEF Labels, Ended
  <1>2. TypeOK BY DEF IInv
  <1>3. TypeOK'
    BY <1>1, <1>2, Goes, Forgets DEF TypeOK, database
  <1>4. TableInv'
    BY DEF IInv, TableInv, database
  <1>5. WriterInv(w)'
    BY <1>1, <1>2, Goes, Forgets, Idle DEF TypeOK, database
  <1>6. ASSUME NEW v \in Writer, v # w PROVE WriterInv(v)'
    BY <1>1, <1>2, <1>6, Goes, Forgets, Undisturbed DEF IInv, database
  <1> QED BY <1>3, <1>4, <1>5, <1>6 DEF IInv

LEMMA Raises ==
    ASSUME IInv, NEW w \in Writer, Raise(w) PROVE IInv'
  <1>1. attempt' \in [Writer -> Nat]
    BY DEF Raise, IInv, TypeOK
  <1>2. CASE Goto(w, "read")
    BY <1>1, <1>2, Aborts DEF Raise
  <1>3. CASE Goto(w, "failed")
    BY <1>1, <1>3, Aborts DEF Raise
  <1> QED BY <1>2, <1>3 DEF Raise

-----------------------------------------------------------------------------
(* Each action keeps the invariant *)

\* Steps that touch only the writer's own state.
LEMMA Locally ==
    ASSUME IInv, NEW w \in Writer, NEW l \in Labels, Goto(w, l),
           UNCHANGED <<database, attempt>>,
           mode' \in [Writer -> Modes \cup {"none"}], batch' \in [Writer -> SUBSET Key],
           snap' \in [Writer -> SUBSET (Key \X Nat)], outcomes' \in [Writer -> SUBSET Actions],
           since' \in [Writer -> Nat], UNCHANGED written,
           \A v \in Writer : v # w =>
              /\ mode'[v] = mode[v] /\ batch'[v] = batch[v] /\ snap'[v] = snap[v]
              /\ outcomes'[v] = outcomes[v] /\ since'[v] = since[v],
           WriterInv(w)'
    PROVE  IInv'
  <1>1. TypeOK'
    BY Goes DEF IInv, TypeOK, database
  <1>2. TableInv'
    BY DEF IInv, TableInv, database
  <1>3. ASSUME NEW v \in Writer, v # w PROVE WriterInv(v)'
    BY <1>3, Goes, Undisturbed DEF IInv, database
  <1> QED BY <1>1, <1>2, <1>3 DEF IInv

LEMMA ReadKeeps ==
    ASSUME IInv, NEW w \in Writer, Read(w) PROVE IInv'
  <1>1. pc[w] = "read" /\ "prepare" \in Labels /\ Goto(w, "prepare")
    BY DEF Read, Labels
  <1>2. pc'[w] = "prepare"
    BY <1>1, Goes DEF IInv
  <1>3. /\ mode' \in [Writer -> Modes \cup {"none"}] /\ batch' \in [Writer -> SUBSET Key]
        /\ \A v \in Writer : v # w => mode'[v] = mode[v] /\ batch'[v] = batch[v]
        /\ mode'[w] \in Modes
    BY DeliveryAssumption DEF Read, IInv, TypeOK
  <1>4. snap[w] = {} /\ outcomes[w] = {} /\ since[w] <= commits /\ written[w] <= commits
    BY <1>1 DEF IInv, WriterInv, ModeFits, Sees, Wrote, InTransaction
  <1>5. WriterInv(w)'
    BY <1>2, <1>3, <1>4 DEF Read, WriterInv, Prepared, ModeFits, Sees, Wrote, InTransaction, Writing,
       database
  <1> QED BY <1>1, <1>3, <1>5, Locally DEF Read, IInv, TypeOK

LEMMA PrepareKeeps ==
    ASSUME IInv, NEW w \in Writer, Prepare(w) PROVE IInv'
  <1>1. CASE Preparable(batch[w]) /\ batch[w] # {}
    <2>1. pc[w] = "prepare" /\ "inspect" \in Labels /\ Goto(w, "inspect")
      BY <1>1 DEF Prepare, Labels
    <2>2. pc'[w] = "inspect"
      BY <2>1, Goes DEF IInv
    <2>3. WriterInv(w)
      BY DEF IInv
    <2>4. WriterInv(w)'
      BY <1>1, <2>1, <2>2, <2>3 DEF Prepare, WriterInv, Prepared, ModeFits, Sees, Wrote,
         InTransaction, Writing, database, locals, Preparable
    <2> QED BY <1>1, <2>1, <2>4, Locally DEF Prepare, IInv, TypeOK, locals
  <1> QED BY <1>1, Raises DEF Prepare

LEMMA InspectKeeps ==
    ASSUME IInv, NEW w \in Writer, Inspect(w) PROVE IInv'
  <1> DEFINE next == CASE schema = "none"     -> "create_all"
                       [] mode[w] = "replace" -> "drop"
                       [] OTHER               -> "reflect"
  <1>1. CASE (schema = "none" /\ mode[w] = "upsert") \/ (schema # "none" /\ mode[w] = "fail")
    BY <1>1, Raises DEF Inspect
  <1>2. CASE ~((schema = "none" /\ mode[w] = "upsert") \/ (schema # "none" /\ mode[w] = "fail"))
    <2>1. /\ pc[w] = "inspect" /\ Goto(w, next)
          /\ since' = [since EXCEPT ![w] = commits]
          /\ UNCHANGED <<database, attempt, mode, batch, snap, outcomes, written>>
      BY <1>2 DEF Inspect
    <2>2. next \in {"create_all", "drop", "reflect"} /\ next \in Labels
      BY DEF Labels
    <2>3. pc'[w] = next
      BY <2>1, <2>2, Goes DEF IInv
    <2>4. WriterInv(w) /\ (schema = "none" => rows = {}) /\ mode[w] \in Modes \cup {"none"}
      BY DEF IInv, TableInv, TypeOK
    <2>5. since'[w] = commits /\ commits' = commits /\ commits \in Nat
      BY <2>1 DEF IInv, TypeOK, database
    <2>6. Prepared(w)' /\ Wrote(w)'
      BY <2>1, <2>2, <2>3, <2>4, <2>5 DEF WriterInv, Prepared, Wrote, Writing, Preparable, database
    <2>7. ModeFits(w)'
      <3>0. mode[w] \in Modes
        BY <2>1, <2>4 DEF WriterInv, ModeFits, Writing
      <3>1. snap[w] = {}
        BY <2>1, <2>4 DEF WriterInv, ModeFits, InTransaction
      <3>2. next = "drop" => mode[w] = "replace"
        BY DEF Modes
      <3>3. next = "reflect" => mode[w] \in {"append", "truncate", "upsert"}
        BY <1>2, <3>0 DEF Modes
      <3> QED BY <2>1, <2>2, <2>3, <3>0, <3>1, <3>2, <3>3 DEF ModeFits, InTransaction
    <2>8. Sees(w)'
      <3>1. next = "create_all" => rows = {}
        BY <2>4
      <3> QED BY <2>1, <2>2, <2>3, <2>5, <3>1 DEF Sees, InTransaction, database
    <2>9. /\ since' \in [Writer -> Nat]
          /\ \A v \in Writer : v # w => since'[v] = since[v]
      BY <2>1, <2>5 DEF IInv, TypeOK
    <2> QED BY <2>1, <2>2, <2>6, <2>7, <2>8, <2>9, Locally DEF WriterInv, IInv, TypeOK
  <1> QED BY <1>1, <1>2

\* ToWrite leads to one of two labels.
LEMMA Towards ==
    ASSUME IInv, NEW w \in Writer, ToWrite(w)
    PROVE  \E l \in {"clear", "insert"} :
              /\ Goto(w, l) /\ l \in Labels /\ pc'[w] = l
              /\ l = "clear" <=> mode[w] = "truncate"
  <1> DEFINE l == IF mode[w] = "truncate" THEN "clear" ELSE "insert"
  <1>1. l \in Labels /\ Goto(w, l)
    BY DEF ToWrite, Labels
  <1>2. pc'[w] = l
    BY <1>1, Goes DEF IInv
  <1> QED BY <1>1, <1>2

\* A writer that has only to write finds nothing changed.
LEMMA OnToWrite ==
    ASSUME IInv, NEW w \in Writer, ToWrite(w), UNCHANGED <<rows, commits, resetAt, attempt, locals>>,
           pc[w] \in {"create_all", "create", "reflect"}
    PROVE  WriterInv(w)'
  <1>1. PICK l \in {"clear", "insert"} : /\ pc'[w] = l
                                         /\ l = "clear" <=> mode[w] = "truncate"
    BY Towards
  <1>2. WriterInv(w)
    BY DEF IInv
  <1>3. snap[w] = {} /\ mode[w] \in Modes
    BY <1>2 DEF WriterInv, ModeFits, InTransaction, Writing
  <1>4. Prepared(w)' /\ ModeFits(w)' /\ Wrote(w)'
    BY <1>1, <1>2, <1>3 DEF locals, WriterInv, Prepared, ModeFits, Wrote, InTransaction,
       Preparable, Writing
  <1>5. pc[w] = "reflect" => mode[w] \notin {"replace", "fail"}
    BY <1>2 DEF WriterInv, ModeFits
  <1>6. ~InTransaction(w)'
    BY <1>1 DEF InTransaction, locals
  <1>7. Sees(w)'
    BY <1>1, <1>2, <1>5, <1>6 DEF locals, WriterInv, Sees
  <1> QED BY <1>4, <1>7 DEF WriterInv

LEMMA CreateAllKeeps ==
    ASSUME IInv, NEW w \in Writer, CreateAll(w) PROVE IInv'
  <1>1. CASE schema = "none"
    <2>1. pc[w] = "create_all" /\ "create" \in Labels /\ Goto(w, "create")
      BY <1>1 DEF CreateAll, Labels
    <2>2. pc'[w] = "create"
      BY <2>1, Goes DEF IInv
    <2>3. WriterInv(w)
      BY DEF IInv
    <2>4. WriterInv(w)'
      BY <2>1, <2>2, <2>3 DEF CreateAll, WriterInv, Prepared, ModeFits, Sees, Wrote,
         InTransaction, Writing, database, locals, Preparable
    <2> QED BY <2>1, <2>4, Locally DEF CreateAll, IInv, TypeOK, locals
  <1>2. CASE schema # "none"
    <2>1. ToWrite(w) /\ UNCHANGED <<database, attempt, locals>> /\ pc[w] = "create_all"
      BY <1>2 DEF CreateAll
    <2>2. WriterInv(w)'
      BY <2>1, OnToWrite DEF database
    <2> QED BY <2>1, <2>2, Towards, Locally DEF IInv, TypeOK, locals
  <1> QED BY <1>1, <1>2

LEMMA ReflectKeeps ==
    ASSUME IInv, NEW w \in Writer, Reflect(w) PROVE IInv'
  <1>1. CASE Suits(w)
    <2>1. ToWrite(w) /\ UNCHANGED <<database, attempt, locals>> /\ pc[w] = "reflect"
      BY <1>1 DEF Reflect
    <2>2. WriterInv(w)'
      BY <2>1, OnToWrite DEF database
    <2> QED BY <2>1, <2>2, Towards, Locally DEF IInv, TypeOK, locals
  <1> QED BY <1>1, Raises DEF Reflect

LEMMA CreateKeeps ==
    ASSUME IInv, NEW w \in Writer, Create(w) PROVE IInv'
  <1>1. CASE schema = "none"
    <2>1. /\ schema' = "inferred" /\ ToWrite(w) /\ pc[w] = "create"
          /\ UNCHANGED <<rows, commits, resetAt, attempt, locals>>
      BY <1>1 DEF Create
    <2>2. PICK l \in {"clear", "insert"} : Goto(w, l) /\ l \in Labels
      BY <2>1, Towards
    <2>3. TypeOK'
      BY <2>1, <2>2, Goes DEF IInv, TypeOK, locals
    <2>4. TableInv'
      BY <2>1 DEF IInv, TableInv
    <2>5. WriterInv(w)'
      BY <2>1, OnToWrite
    <2>6. ASSUME NEW v \in Writer, v # w PROVE WriterInv(v)'
      BY <2>1, <2>2, <2>6, Goes, Undisturbed DEF IInv, locals
    <2> QED BY <2>3, <2>4, <2>5, <2>6 DEF IInv
  <1> QED BY <1>1, Raises DEF Create

LEMMA ClearKeeps ==
    ASSUME IInv, NEW w \in Writer, Clear(w) PROVE IInv'
  <1>1. CASE schema # "none"
    <2>1. /\ pc[w] = "clear" /\ "insert" \in Labels /\ Goto(w, "insert")
          /\ UNCHANGED <<database, attempt, mode, batch, outcomes, written>>
          /\ snap' = [snap EXCEPT ![w] = rows] /\ since' = [since EXCEPT ![w] = commits]
      BY <1>1 DEF Clear, Labels
    <2>2. pc'[w] = "insert"
      BY <2>1, Goes DEF IInv
    <2>3. /\ snap' \in [Writer -> SUBSET (Key \X Nat)] /\ since' \in [Writer -> Nat]
          /\ snap'[w] = rows /\ since'[w] = commits
          /\ \A v \in Writer : v # w => snap'[v] = snap[v] /\ since'[v] = since[v]
      BY <2>1 DEF IInv, TypeOK
    <2>4. WriterInv(w) /\ commits \in Nat /\ mode[w] = "truncate"
      BY <2>1 DEF IInv, TypeOK, WriterInv, ModeFits
    <2>5. WriterInv(w)'
      BY <2>1, <2>2, <2>3, <2>4 DEF WriterInv, Prepared, ModeFits, Sees, Wrote,
         InTransaction, Writing, database, Preparable
    <2> QED BY <2>1, <2>3, <2>5, Locally DEF IInv, TypeOK
  <1> QED BY <1>1, Raises DEF Clear

\* A replace drops the rows of everybody; who wrote them is told by resetAt.
LEMMA DropKeeps ==
    ASSUME IInv, NEW w \in Writer, Drop(w) PROVE IInv'
  <1>1. CASE schema # "none"
    <2>1. /\ pc[w] = "drop" /\ "create_all" \in Labels /\ Goto(w, "create_all")
          /\ schema' = "none" /\ rows' = {} /\ resetAt' = commits
          /\ UNCHANGED <<commits, attempt, locals>>
      BY <1>1 DEF Drop, Labels
    <2>2. pc'[w] = "create_all" /\ \A v \in Writer : v # w => pc'[v] = pc[v]
      BY <2>1, Goes DEF IInv
    <2>3. TypeOK'
      BY <2>1, Goes DEF IInv, TypeOK, locals
    <2>4. TableInv'
      BY <2>1 DEF IInv, TypeOK, TableInv
    <2>5. ASSUME NEW v \in Writer PROVE WriterInv(v)'
      <3>1. /\ WriterInv(v) /\ commits \in Nat /\ written[v] \in Nat
            /\ pc'[v] # pc[v] => pc'[v] = "create_all" /\ pc[v] = "drop"
        BY <2>1, <2>2 DEF IInv, TypeOK
      <3>2. Prepared(v)' /\ ModeFits(v)'
        BY <2>1, <3>1 DEF WriterInv, Prepared, ModeFits, InTransaction, locals, Writing,
           Preparable
      <3>3. Sees(v)'
        BY <2>1, <3>1 DEF WriterInv, Sees, locals, InTransaction
      <3>4. Wrote(v)'
        BY <2>1, <3>1 DEF WriterInv, Wrote, locals
      <3> QED BY <3>2, <3>3, <3>4 DEF WriterInv
    <2> QED BY <2>3, <2>4, <2>5 DEF IInv
  <1> QED BY <1>1, Raises DEF Drop

\* The rows an INSERT adds have the number of its commit, and its keys are
\* there afterwards.
LEMMA AddedRows ==
    ASSUME NEW w \in Writer, TypeOK
    PROVE  /\ Added(w) \subseteq Key \X Nat
           /\ \A r \in Added(w) : r[2] = commits + 1
           /\ snap[w] = {} \/ mode[w] # "upsert" => batch[w] \subseteq Keys(Kept(w) \cup Added(w))
  <1>1. \A k \in batch[w] : k \in Key
    BY DEF TypeOK
  <1>2. Added(w) \subseteq Key \X Nat /\ \A r \in Added(w) : r[2] = commits + 1
    BY <1>1 DEF Added, TypeOK
  <1>3. ASSUME NEW k \in batch[w], snap[w] = {} \/ mode[w] # "upsert"
        PROVE  k \in Keys(Kept(w) \cup Added(w))
    <2>1. CASE mode[w] = "upsert" /\ k \in Keys(rows)
      BY <1>3, <2>1 DEF Keys, Kept
    <2>2. CASE ~(mode[w] = "upsert" /\ k \in Keys(rows))
      <3>1. <<k, commits + 1>> \in Added(w)
        BY <1>3, <2>2 DEF Added
      <3> QED BY <3>1 DEF Keys
    <2> QED BY <2>1, <2>2
  <1> QED BY <1>2, <1>3

\* A commit is news to every other writer, and takes nothing from them that
\* resetAt does not tell.
LEMMA InsertKeeps ==
    ASSUME IInv, NEW w \in Writer, Insert(w) PROVE IInv'
  <1> DEFINE R == Kept(w) \cup Added(w)
  <1>1. CASE Suits(w) /\ Fits(w)
    <2>1. /\ pc[w] = "insert" /\ "act" \in Labels /\ Goto(w, "act")
          /\ rows' = R /\ resetAt' = (IF rows \subseteq R THEN resetAt ELSE commits)
          /\ commits' = commits + 1
          /\ written' = [written EXCEPT ![w] = commits + 1]
          /\ snap' = [snap EXCEPT ![w] = {}]
          /\ UNCHANGED <<schema, attempt, mode, batch, outcomes, since>>
          /\ schema # "none"
      BY <1>1 DEF Insert, Commit, Labels, Suits
    <2> HIDE DEF R
    <2>2. pc'[w] = "act" /\ \A v \in Writer : v # w => pc'[v] = pc[v]
      BY <2>1, Goes DEF IInv
    <2>3. /\ commits \in Nat /\ resetAt \in Nat /\ resetAt <= commits /\ rows \subseteq Key \X Nat
          /\ \A r \in rows : r[2] <= commits
          /\ written \in [Writer -> Nat] /\ since \in [Writer -> Nat]
          /\ snap \in [Writer -> SUBSET (Key \X Nat)]
          /\ \A v \in Writer : WriterInv(v)
      BY DEF IInv, TypeOK, TableInv
    <2>4. /\ R \subseteq Key \X Nat
          /\ \A r \in R : r \in Kept(w) \/ r[2] = commits + 1
      BY <2>3, AddedRows DEF R, Kept, IInv
    <2>5. Kept(w) \subseteq rows
      BY DEF Kept
    <2>6. snap[w] = {} \/ mode[w] # "upsert"
      BY <2>3 DEF WriterInv, ModeFits, InTransaction
    <2>7. batch[w] \subseteq Keys(R)
      BY <2>6, AddedRows DEF R, IInv
    <2>8. /\ written' \in [Writer -> Nat] /\ written'[w] = commits + 1
          /\ snap' \in [Writer -> SUBSET (Key \X Nat)] /\ snap'[w] = {}
          /\ \A v \in Writer : v # w => written'[v] = written[v] /\ snap'[v] = snap[v]
      BY <2>1, <2>3
    <2>9. TypeOK'
      BY <2>1, <2>3, <2>4, <2>8, Goes DEF IInv, TypeOK
    <2>10. TableInv'
      <3>1. \A r \in R : r[2] <= commits + 1
        BY <2>3, <2>4, <2>5
      <3>2. resetAt' <= commits + 1
        BY <2>1, <2>3
      <3> QED BY <2>1, <3>1, <3>2 DEF TableInv
    <2>11. WriterInv(w)'
      <3>1. WriterInv(w) /\ since[w] \in Nat
        BY <2>3
      <3>2. Prepared(w)' /\ ModeFits(w)'
        BY <2>1, <2>2, <2>8, <3>1 DEF WriterInv, Prepared, ModeFits, InTransaction, Writing,
           Preparable
      <3>3. Sees(w)'
        BY <2>1, <2>2, <2>3, <3>1 DEF WriterInv, Sees, InTransaction
      <3>4. Wrote(w)'
        BY <2>1, <2>2, <2>3, <2>7, <2>8, <3>1 DEF WriterInv, Wrote, Matched, Keys
      <3> QED BY <3>2, <3>3, <3>4 DEF WriterInv
    <2>12. ASSUME NEW v \in Writer, v # w PROVE WriterInv(v)'
      <3>1. /\ WriterInv(v) /\ since[v] \in Nat /\ written[v] \in Nat
            /\ pc'[v] = pc[v] /\ snap'[v] = snap[v] /\ written'[v] = written[v]
        BY <2>2, <2>3, <2>8, <2>12
      <3>2. Prepared(v)' /\ ModeFits(v)'
        BY <2>1, <3>1 DEF WriterInv, Prepared, ModeFits, InTransaction, Preparable
      <3>3. since[v] <= commits /\ commits + 1 > since[v] /\ since[v] <= commits + 1
        BY <2>3, <3>1 DEF WriterInv, Sees
      <3>4. Sees(v)'
        <4>1. ASSUME pc[v] \in {"create_all", "create", "insert"}, mode[v] \in {"replace", "fail"},
                     NEW r \in R
              PROVE  r[2] > since[v]
          BY <2>4, <2>5, <3>1, <3>3, <4>1 DEF WriterInv, Sees
        <4>2. ASSUME InTransaction(v), NEW r \in R \ snap[v]
              PROVE  r[2] > since[v]
          BY <2>4, <2>5, <3>1, <3>3, <4>2 DEF WriterInv, Sees
        <4> QED BY <2>1, <3>1, <3>3, <4>1, <4>2 DEF Sees, InTransaction
      <3>5. Wrote(v)'
        <4>1. written[v] > resetAt' => rows \subseteq R /\ written[v] > resetAt
          BY <2>1, <2>3, <3>1 DEF WriterInv, Wrote
        <4>2. rows \subseteq R => Keys(rows) \subseteq Keys(R)
          BY DEF Keys
        <4>3. written[v] <= commits + 1
          BY <2>3, <3>1 DEF WriterInv, Wrote
        <4>4. Keys(rows)' = Keys(R)
          BY <2>1 DEF Keys
        <4> QED BY <2>1, <3>1, <4>1, <4>2, <4>3, <4>4 DEF WriterInv, Wrote, Matched
      <3> QED BY <2>1, <3>2, <3>4, <3>5 DEF WriterInv
    <2> QED BY <2>9, <2>10, <2>11, <2>12 DEF IInv
  <1> QED BY <1>1, Raises DEF Insert

LEMMA InvokeKeeps ==
    ASSUME IInv, NEW w \in Writer, Invoke(w) PROVE IInv'
  <1>1. /\ pc[w] = "act"
        /\ UNCHANGED <<database, pc, attempt, mode, batch, snap, since, written>>
    BY DEF Invoke
  <1>2. PICK i \in Matched(batch[w]) : outcomes' = [outcomes EXCEPT ![w] = @ \cup {i}]
    BY DEF Invoke
  <1>3. /\ i \in Actions /\ outcomes' \in [Writer -> SUBSET Actions]
        /\ outcomes'[w] = outcomes[w] \cup {i}
        /\ \A v \in Writer : v # w => outcomes'[v] = outcomes[v]
    BY <1>2 DEF Matched, IInv, TypeOK
  <1>4. TypeOK' /\ TableInv'
    BY <1>1, <1>3 DEF IInv, TypeOK, TableInv, database
  <1>5. WriterInv(w)'
    <2>1. WriterInv(w)
      BY DEF IInv
    <2>2. Prepared(w)' /\ ModeFits(w)' /\ Sees(w)'
      BY <1>1, <2>1 DEF WriterInv, Prepared, ModeFits, Sees, InTransaction, database, Preparable
    <2>3. Matched(batch[w])' = Matched(batch[w]) /\ Keys(rows)' = Keys(rows)
      BY <1>1 DEF Matched, Keys, database
    <2>4. Wrote(w)'
      BY <1>1, <1>2, <1>3, <2>1, <2>3 DEF WriterInv, Wrote, database
    <2> QED BY <2>2, <2>4 DEF WriterInv
  <1>6. ASSUME NEW v \in Writer, v # w PROVE WriterInv(v)'
    BY <1>1, <1>3, <1>6, Undisturbed DEF IInv, database
  <1> QED BY <1>4, <1>5, <1>6 DEF IInv

LEMMA SucceedKeeps ==
    ASSUME IInv, NEW w \in Writer, Succeed(w) PROVE IInv'
  <1>1. /\ pc[w] = "act" /\ "succeeded" \in Labels /\ Goto(w, "succeeded")
        /\ UNCHANGED <<database, attempt, locals>> /\ Matched(batch[w]) \subseteq outcomes[w]
    BY DEF Succeed, Labels, Ended
  <1>2. pc'[w] = "succeeded"
    BY <1>1, Goes DEF IInv
  <1>3. WriterInv(w)
    BY DEF IInv
  <1>4. WriterInv(w)'
    BY <1>1, <1>2, <1>3 DEF WriterInv, Prepared, ModeFits, Sees, Wrote, InTransaction, Writing,
       database, locals, Preparable, Matched, Keys
  <1> QED BY <1>1, <1>4, Locally DEF IInv, TypeOK, locals

LEMMA DieKeeps ==
    ASSUME IInv, NEW w \in Writer, Die(w) PROVE IInv'
  BY Aborts DEF Die, IInv, TypeOK

-----------------------------------------------------------------------------
(* The invariant and what follows from it *)

LEMMA Initially == Init => IInv
  <1> SUFFICES ASSUME Init PROVE IInv
    OBVIOUS
  <1>1. TypeOK
    BY DEF Init, TypeOK, Labels
  <1>2. TableInv
    BY DEF Init, TableInv
  <1>3. ASSUME NEW w \in Writer PROVE WriterInv(w)
    BY <1>3 DEF Init, WriterInv, Prepared, ModeFits, Sees, Wrote, InTransaction, Writing
  <1> QED BY <1>1, <1>2, <1>3 DEF IInv

LEMMA Stepwise == IInv /\ [Next]_vars => IInv'
  <1> SUFFICES ASSUME IInv, [Next]_vars PROVE IInv'
    OBVIOUS
  <1>1. CASE UNCHANGED vars
    <2>1. TypeOK' /\ TableInv'
      BY <1>1 DEF IInv, TypeOK, TableInv, vars, database, locals
    <2>2. ASSUME NEW v \in Writer PROVE WriterInv(v)'
      BY <1>1, <2>2, Undisturbed DEF IInv, vars, database, locals
    <2> QED BY <2>1, <2>2 DEF IInv
  <1>2. ASSUME NEW w \in Writer, Step(w) \/ Fails(w) \/ Die(w) PROVE IInv'
    <2>1. CASE Step(w)
      BY <2>1, ReadKeeps, PrepareKeeps, InspectKeeps, DropKeeps, CreateAllKeeps, CreateKeeps,
         ReflectKeeps, ClearKeeps, InsertKeeps, InvokeKeeps, SucceedKeeps DEF Step
    <2>2. CASE Fails(w)
      BY <2>2, Raises DEF Fails
    <2>3. CASE Die(w)
      BY <2>3, DieKeeps
    <2> QED BY <1>2, <2>1, <2>2, <2>3
  <1> QED BY <1>1, <1>2 DEF Next

LEMMA Invariance == Spec => []IInv
  BY Initially, Stepwise, PTL DEF Spec

\* The variables of the delivery stay in their ranges.
THEOREM TypeCorrect == Spec => []TypeOK
  <1>1. IInv => TypeOK
    BY DEF IInv
  <1> QED BY <1>1, Invariance, PTL

\* A task that reports success has had every matching action invoked, and has
\* its rows in the table unless a reset removed rows after it: what
\* ExecutionResult says is so, whoever else writes.
THEOREM SuccessIsDelivery == Spec => []SuccessDelivered
  <1>1. IInv => SuccessDelivered
    BY DEF IInv, WriterInv, Wrote, SuccessDelivered
  <1> QED BY <1>1, Invariance, PTL

\* An attempt that raises, or dies, leaves the database as it is.
LEMMA RaiseLeaves ==
    ASSUME NEW w \in Writer, Raise(w)
    PROVE  UNCHANGED database /\ (IInv => outcomes' = [outcomes EXCEPT ![w] = {}])
  BY DEF Raise, Forget

\* A step that changes the table or adds an outcome is one of four, all of them
\* behind the preparation.
LEMMA Effects ==
    ASSUME IInv, NEW w \in Writer, Step(w) \/ Fails(w) \/ Die(w)
    PROVE  \/ /\ rows' = rows /\ schema' = schema
              /\ \A v \in Writer : outcomes'[v] \subseteq outcomes[v]
           \/ pc[w] = "drop" /\ pc'[w] = "create_all"
           \/ pc[w] = "create" /\ schema = "none" /\ rows' = rows
           \/ /\ pc[w] = "insert" /\ pc'[w] = "act" /\ schema' = schema
              /\ rows' = Kept(w) \cup Added(w)
           \/ pc[w] = "act" /\ rows' = rows /\ schema' = schema
  <1>1. outcomes \in [Writer -> SUBSET Actions] /\ pc \in [Writer -> Labels]
    BY DEF IInv, TypeOK
  <1>2. CASE Raise(w)
    BY <1>1, <1>2, RaiseLeaves DEF database
  <1>3. CASE Read(w) \/ CreateAll(w) \/ Die(w)
    BY <1>1, <1>3 DEF Read, CreateAll, Die, Forget, database, locals
  <1>4. CASE Prepare(w) \/ Inspect(w) \/ Reflect(w) \/ Clear(w)
    BY <1>1, <1>2, <1>4 DEF Prepare, Inspect, Reflect, Clear, database, locals
  <1>5. CASE Drop(w)
    BY <1>1, <1>2, <1>5 DEF Drop, Goto
  <1>6. CASE Create(w)
    BY <1>2, <1>6 DEF Create
  <1>7. CASE Insert(w)
    BY <1>1, <1>2, <1>7 DEF Insert, Commit, Goto
  <1>8. CASE Invoke(w) \/ Succeed(w)
    BY <1>8 DEF Invoke, Succeed, database
  <1>9. CASE Fails(w)
    BY <1>2, <1>9 DEF Fails
  <1> QED BY <1>3, <1>4, <1>5, <1>6, <1>7, <1>8, <1>9 DEF Step

\* Only a replace and a truncate remove rows, the latter in one step with its
\* own; no failure, death or overlap of writers empties the table otherwise,
\* and the schema of a table that is there changes only by a replace.
THEOREM OnlyResets == Spec => OnlyResetsRemove
  <1> DEFINE A == /\ ~(rows \subseteq rows') =>
                       \E w \in Writer : /\ Acts(w)
                                         /\ \/ mode[w] = "replace"
                                            \/ mode[w] = "truncate" /\ batch[w] \subseteq Keys(rows')
                  /\ schema # "none" /\ schema' # schema =>
                       \E w \in Writer : Acts(w) /\ mode[w] = "replace"
  <1>1. IInv /\ [Next]_vars => [A]_vars
    <2> SUFFICES ASSUME IInv, Next PROVE A
      OBVIOUS
    <2>1. PICK w \in Writer : Step(w) \/ Fails(w) \/ Die(w)
      BY DEF Next
    <2>2. WriterInv(w)
      BY DEF IInv
    <2>3. CASE rows' = rows /\ (schema' = schema \/ schema = "none")
      BY <2>3
    <2>4. CASE pc[w] = "drop" /\ pc'[w] = "create_all"
      <3>1. Acts(w) /\ mode[w] = "replace"
        BY <2>2, <2>4 DEF Acts, WriterInv, ModeFits
      <3> QED BY <3>1
    <2>5. CASE /\ pc[w] = "insert" /\ pc'[w] = "act" /\ schema' = schema
               /\ rows' = Kept(w) \cup Added(w)
      <3>1. Acts(w)
        BY <2>5 DEF Acts
      <3>2. CASE snap[w] = {}
        BY <2>5, <3>2 DEF Kept
      <3>3. CASE snap[w] # {}
        <4>1. mode[w] = "truncate"
          BY <2>2, <3>3 DEF WriterInv, ModeFits, InTransaction
        <4>2. batch[w] \subseteq Keys(rows')
          BY <2>5, <4>1, AddedRows DEF IInv
        <4> QED BY <2>5, <3>1, <4>1, <4>2
      <3> QED BY <3>2, <3>3
    <2> QED BY <2>1, <2>3, <2>4, <2>5, Effects
  <1> QED BY <1>1, Invariance, PTL DEF Spec, OnlyResetsRemove

\* Nothing of a batch whose conditions cannot all be evaluated, and nothing of
\* an empty one, reaches the database or a handler.
THEOREM PreparedFirst == Spec => NothingBeforePreparation
  <1> DEFINE A == \A w \in Writer :
                     /\ Acts(w)
                     /\ <<schema, rows>>' # <<schema, rows>> \/ ~(outcomes'[w] \subseteq outcomes[w])
                     => Preparable(batch[w])
  <1>1. IInv /\ [Next]_vars => [A]_vars
    <2> SUFFICES ASSUME IInv, Next,
                        NEW v \in Writer, Acts(v),
                        \/ <<schema, rows>>' # <<schema, rows>>
                        \/ ~(outcomes'[v] \subseteq outcomes[v])
                 PROVE  Preparable(batch[v])
      OBVIOUS
    <2>1. PICK w \in Writer : Step(w) \/ Fails(w) \/ Die(w)
      BY DEF Next
    <2>2. v = w
      BY <2>1 DEF Acts, Step, Fails, Die, Read, Prepare, Inspect, Drop, CreateAll, Create, Reflect,
         Clear, Insert, Invoke, Succeed, Commit, Raise, Forget, ToWrite, Goto, locals, IInv, TypeOK
    <2>3. pc[w] \in {"drop", "create", "insert", "act"}
      BY <2>1, <2>2, Effects
    <2> QED BY <2>2, <2>3 DEF IInv, WriterInv, Prepared, Writing
  <1> QED BY <1>1, Invariance, PTL DEF Spec, NothingBeforePreparation

\* A replace, a fail and a truncate commit next to nothing but rows that were
\* committed after they looked, however many writers overlap.
THEOREM ResetsAlone == Spec => ResetSeesOnlyConcurrent
  <1> DEFINE A == \A w \in Writer :
                     pc[w] = "insert" /\ pc'[w] = "act" /\ mode[w] \in {"replace", "fail", "truncate"}
                       => \A r \in rows' : r[2] > since[w]
  <1>1. IInv /\ [Next]_vars => [A]_vars
    <2> SUFFICES ASSUME IInv, Next,
                        NEW v \in Writer, pc[v] = "insert", pc'[v] = "act",
                        mode[v] \in {"replace", "fail", "truncate"},
                        NEW r \in rows'
                 PROVE  r[2] > since[v]
      OBVIOUS
    <2>1. PICK w \in Writer : Step(w) \/ Fails(w) \/ Die(w)
      BY DEF Next
    <2>2. v = w
      BY <2>1 DEF Step, Fails, Die, Read, Prepare, Inspect, Drop, CreateAll, Create, Reflect,
         Clear, Insert, Invoke, Succeed, Commit, Raise, ToWrite, Goto, locals, IInv, TypeOK
    <2>3. rows' = Kept(v) \cup Added(v)
      <3>1. pc \in [Writer -> Labels]
        BY DEF IInv, TypeOK
      <3>2. ~Raise(v)
        BY <3>1 DEF Raise, Goto
      <3>3. Insert(v)
        BY <2>1, <2>2, <3>1, <3>2 DEF Step, Fails, Die, Read, Prepare, Inspect, Drop, CreateAll,
           Create, Reflect, Clear, Invoke, Succeed, ToWrite, Goto
      <3> QED BY <3>2, <3>3 DEF Insert, Commit
    <2>4. /\ WriterInv(v) /\ commits \in Nat /\ since[v] \in Nat
          /\ \A x \in Added(v) : x[2] = commits + 1
      BY AddedRows DEF IInv, TypeOK
    <2>5. CASE r \in Kept(v)
      BY <2>4, <2>5 DEF WriterInv, Sees, InTransaction, Kept
    <2>6. CASE r \in Added(v)
      BY <2>4, <2>6 DEF WriterInv, Sees
    <2> QED BY <2>3, <2>5, <2>6
  <1> QED BY <1>1, Invariance, PTL DEF Spec, ResetSeesOnlyConcurrent


-----------------------------------------------------------------------------
(* Every task comes to its end, as far as it can be said without fairness *)

\* An attempt is one of those the task has.
TriesOK == \A w \in Writer : attempt[w] \in 1..(1 + Retries[w])

\* How far a writer is from its end: the attempts it has left, then its place in
\* the attempt, then the actions still to invoke.
TriesLeft(w) == 1 + Retries[w] - attempt[w]

Ahead == [l \in Labels |->
    CASE l \in Ended -> 0 [] l = "act" -> 1 [] l = "insert" -> 2 [] l = "clear" -> 3
      [] l \in {"reflect", "create"} -> 4 [] l = "create_all" -> 5 [] l = "drop" -> 6
      [] l = "inspect" -> 7 [] l = "prepare" -> 8 [] OTHER -> 9]

ToInvoke(w) == Cardinality(Matched(batch[w]) \ outcomes[w])

Descends(w) ==
    \/ TriesLeft(w)' < TriesLeft(w)
    \/ TriesLeft(w)' = TriesLeft(w) /\ Ahead[pc'[w]] < Ahead[pc[w]]
    \/ TriesLeft(w)' = TriesLeft(w) /\ pc'[w] = pc[w] /\ ToInvoke(w)' < ToInvoke(w)

\* What the end of a writer depends on.
Place(w) == <<pc[w], attempt[w], batch[w], outcomes[w]>>

Steps(w) == Step(w) \/ Fails(w) \/ Die(w)

LEMMA AheadIs ==
  /\ \A l \in Ended : Ahead[l] = 0
  /\ Ahead["act"] = 1 /\ Ahead["insert"] = 2 /\ Ahead["clear"] = 3 /\ Ahead["reflect"] = 4
  /\ Ahead["create"] = 4 /\ Ahead["create_all"] = 5 /\ Ahead["drop"] = 6
  /\ Ahead["inspect"] = 7 /\ Ahead["prepare"] = 8 /\ Ahead["read"] = 9
  /\ \A l \in Labels \ Ended : Ahead[l] > 0
  BY DEF Ahead, Labels, Ended

LEMMA RaiseDescends ==
  ASSUME IInv, TriesOK, NEW w \in Writer, Raise(w), pc[w] \notin Ended
  PROVE  Descends(w)
<1>1. attempt \in [Writer -> Nat] /\ Retries[w] \in Nat /\ pc \in [Writer -> Labels]
  BY DeliveryAssumption DEF IInv, TypeOK
<1>2. CASE attempt[w] < 1 + Retries[w]
  <2>1. attempt'[w] = attempt[w] + 1
    BY <1>1, <1>2 DEF Raise
  <2> QED
    BY <1>1, <2>1 DEF Descends, TriesLeft
<1>3. CASE ~(attempt[w] < 1 + Retries[w])
  <2>1. pc'[w] = "failed" /\ attempt' = attempt
    BY <1>1, <1>3 DEF Raise, Goto
  <2>2. Ahead[pc'[w]] < Ahead[pc[w]]
    BY <1>1, <2>1, AheadIs DEF Ended
  <2> QED
    BY <2>1, <2>2 DEF Descends, TriesLeft
<1> QED
  BY <1>2, <1>3

LEMMA GoDescends ==
  ASSUME IInv, NEW w \in Writer, NEW l \in Labels, Goto(w, l), attempt' = attempt,
         Ahead[l] < Ahead[pc[w]]
  PROVE  Descends(w)
  BY DEF IInv, TypeOK, Goto, Descends, TriesLeft

LEMMA InvokeDescends ==
  ASSUME IInv, NEW w \in Writer, Invoke(w)
  PROVE  Descends(w)
<1> DEFINE left == Matched(batch[w]) \ outcomes[w]
<1>1. PICK i \in left : outcomes' = [outcomes EXCEPT ![w] = @ \cup {i}]
  BY DEF Invoke
<1>2. UNCHANGED <<pc, attempt, batch>>
  BY DEF Invoke
<1>3. Matched(batch[w])' \ outcomes'[w] = left \ {i}
  BY <1>1, <1>2 DEF IInv, TypeOK, Matched
<1>4. IsFiniteSet(left)
  <2>1. IsFiniteSet(Actions)
    BY DeliveryAssumption, FS_Interval DEF Actions
  <2>2. left \subseteq Actions
    BY DEF Matched
  <2> QED
    BY <2>1, <2>2, FS_Subset
<1>5. Cardinality(left \ {i}) = Cardinality(left) - 1 /\ Cardinality(left) \in Nat
  BY <1>1, <1>4, FS_RemoveElement, FS_CardinalityType
<1>6. ToInvoke(w)' < ToInvoke(w)
  BY <1>3, <1>5 DEF ToInvoke
<1> QED
  BY <1>2, <1>6 DEF Descends, TriesLeft

LEMMA StepDescends ==
  ASSUME IInv, TriesOK, NEW w \in Writer, Steps(w)
  PROVE  Descends(w)
<1>1. /\ {"read", "prepare", "inspect", "drop", "create_all", "create", "reflect", "clear",
          "insert", "act", "succeeded", "failed", "gone"} = Labels
      /\ Ended = {"succeeded", "failed", "gone"}
  BY DEF Labels, Ended
<1>2. CASE Raise(w) /\ pc[w] \notin Ended
  BY <1>2, RaiseDescends
<1>3. CASE Invoke(w)
  BY <1>3, InvokeDescends
<1>4. CASE /\ attempt' = attempt
           /\ \E l \in Labels : Goto(w, l) /\ Ahead[l] < Ahead[pc[w]]
  BY <1>4, GoDescends
<1>5. ASSUME Inspect(w) PROVE Descends(w)
  <2> DEFINE l == CASE schema = "none"     -> "create_all"
                    [] mode[w] = "replace" -> "drop"
                    [] OTHER               -> "reflect"
  <2>1. l \in {"create_all", "drop", "reflect"} /\ pc[w] = "inspect"
    BY <1>5 DEF Inspect
  <2>2. Raise(w) \/ (Goto(w, l) /\ attempt' = attempt)
    BY <1>5 DEF Inspect
  <2> HIDE DEF l
  <2>3. l \in Labels /\ Ahead[l] < Ahead[pc[w]] /\ pc[w] \notin Ended
    BY <1>1, <2>1, AheadIs
  <2> QED
    BY <1>2, <1>4, <2>2, <2>3
<1>6. Read(w) \/ Prepare(w) \/ Succeed(w) => Descends(w)
  BY <1>1, <1>2, <1>4, AheadIs DEF Read, Prepare, Succeed
<1>10. ASSUME Die(w) PROVE Descends(w)
  <2>1. pc[w] \in Labels \ Ended /\ Goto(w, "gone") /\ attempt' = attempt
    BY <1>10 DEF Die, IInv, TypeOK
  <2>2. Ahead["gone"] < Ahead[pc[w]] /\ "gone" \in Labels
    BY <1>1, <2>1, AheadIs
  <2> QED
    BY <1>4, <2>1, <2>2
<1>7. Drop(w) \/ CreateAll(w) \/ Create(w) \/ Reflect(w) => Descends(w)
  BY <1>1, <1>2, <1>4, AheadIs DEF Drop, CreateAll, Create, Reflect, ToWrite
<1>8. Clear(w) \/ Insert(w) => Descends(w)
  BY <1>1, <1>2, <1>4, AheadIs DEF Clear, Insert, Commit
<1>9. Fails(w) => Descends(w)
  BY <1>2 DEF Fails
<1> QED
  BY <1>3, <1>5, <1>6, <1>7, <1>8, <1>9, <1>10 DEF Steps, Step

LEMMA TriesStep ==
  ASSUME IInv, TriesOK, [Next]_vars
  PROVE  TriesOK'
<1>1. CASE UNCHANGED vars
  BY <1>1 DEF TriesOK, vars
<1>2. ASSUME NEW w \in Writer, Raise(w) PROVE TriesOK'
  BY <1>2, DeliveryAssumption DEF Raise, TriesOK, IInv, TypeOK
<1>3. ASSUME NEW w \in Writer, Steps(w), ~Raise(w) PROVE attempt' = attempt
  BY <1>3 DEF Steps, Step, Fails, Die, Read, Prepare, Inspect, Drop, CreateAll, Create, Reflect,
     Clear, Insert, Invoke, Succeed, Commit
<1> QED
  BY <1>1, <1>2, <1>3 DEF Next, Steps, TriesOK

LEMMA OthersStay ==
  ASSUME IInv, NEW w \in Writer, NEW v \in Writer, v # w, Steps(w)
  PROVE  UNCHANGED Place(v)
  BY DEF Place, IInv, TypeOK, Steps, Step, Fails, Die, Read, Prepare, Inspect, Drop, CreateAll,
     Create, Reflect, Clear, Insert, Invoke, Succeed, Commit, Raise, Forget, ToWrite, Goto, locals

\* A writer that takes a step, be it an error or a retry, is nearer to its end, and
\* nothing that another does at the same table sets it back: the steps of each task
\* are finitely many.
THEOREM EveryStepCounts ==
  Spec => [][\A w \in Writer :
               /\ TriesLeft(w) \in Nat /\ ToInvoke(w) \in Nat
               /\ Steps(w) => Descends(w)
               /\ Descends(w) \/ UNCHANGED Place(w)]_vars
<1> DEFINE A == \A w \in Writer :
               /\ TriesLeft(w) \in Nat /\ ToInvoke(w) \in Nat
               /\ Steps(w) => Descends(w)
               /\ Descends(w) \/ UNCHANGED Place(w)
<1>1. Init => IInv /\ TriesOK
  BY Initially, DeliveryAssumption DEF Init, TriesOK
<1>2. IInv /\ TriesOK /\ [Next]_vars => (IInv /\ TriesOK)'
  BY Stepwise, TriesStep
<1>3. ASSUME IInv, TriesOK, [Next]_vars PROVE A
  <2> SUFFICES ASSUME NEW w \in Writer
               PROVE  /\ TriesLeft(w) \in Nat /\ ToInvoke(w) \in Nat
                      /\ Steps(w) => Descends(w)
                      /\ Descends(w) \/ UNCHANGED Place(w)
    OBVIOUS
  <2>1. TriesLeft(w) \in Nat
    BY <1>3, DeliveryAssumption DEF TriesOK, TriesLeft
  <2>2. ToInvoke(w) \in Nat
    <3>1. IsFiniteSet(Actions)
      BY DeliveryAssumption, FS_Interval DEF Actions
    <3>2. Matched(batch[w]) \ outcomes[w] \subseteq Actions
      BY DEF Matched
    <3> QED
      BY <3>1, <3>2, FS_Subset, FS_CardinalityType DEF ToInvoke
  <2>3. Steps(w) => Descends(w)
    BY <1>3, StepDescends
  <2>4. Descends(w) \/ UNCHANGED Place(w)
    <3>1. CASE UNCHANGED vars
      BY <3>1 DEF vars, Place, locals
    <3>2. ASSUME NEW v \in Writer, Steps(v) PROVE Descends(w) \/ UNCHANGED Place(w)
      BY <1>3, <2>3, <3>2, OthersStay
    <3> QED
      BY <1>3, <3>1, <3>2 DEF Next, Steps
  <2> QED
    BY <2>1, <2>2, <2>3, <2>4
<1> QED
  BY <1>1, <1>2, <1>3, PTL DEF Spec
=============================================================================
