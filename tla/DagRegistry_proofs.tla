------------------------- MODULE DagRegistry_proofs -------------------------
(***************************************************************************)
(* What DagRegistry promises for any files, schedules and callers.  The    *)
(* argument is that a call whose view of the row is not stale sees the row *)
(* as it is (SeenIsCurrent), so what it writes keeps the flag.             *)
(***************************************************************************)
EXTENDS DagRegistry, TLAPS

\* What a call has loaded is a schedule its file once declared, and a call
\* about to update has seen a row and was told to.
CallersInformed ==
    \A p \in Process :
        /\ pc[p] # "idle" => loaded[p] \in valid
        /\ pc[p] = "update" => existing[p] \in Row /\ force[p]

\* A view of the row that is not stale is the row.
SeenIsCurrent ==
    \A p \in Process \ stale :
        /\ pc[p] = "create" => row = NoRow
        /\ pc[p] = "update" => existing[p] = row

\* What a file declares now is one of the things it ever declared.
Declared == \A f \in Accepted : <<f, declared[f]>> \in valid

IInv == TypeOK /\ RowReadFromOneFile /\ CallersInformed /\ SeenIsCurrent /\ Declared

\* A new row is a row.
LEMMA NewRowType ==
    ASSUME NEW source \in File \X Schedule, NEW e \in BOOLEAN
    PROVE  /\ NewRow(source, e) \in Row
           /\ <<NewRow(source, e).path, NewRow(source, e).schedule>> = source
           /\ NewRow(source, e).enabled = e
BY DEF NewRow, Row

\* The initial state satisfies the invariant.
LEMMA Initially == Init => IInv
<1> SUFFICES ASSUME Init PROVE IInv
    OBVIOUS
<1>1. valid \subseteq File \X Schedule
    BY DEF Init, Accepted
<1>2. TypeOK
    BY <1>1 DEF Init, TypeOK
<1> QED
    BY <1>2 DEF Init, IInv, RowReadFromOneFile, CallersInformed, SeenIsCurrent, Declared

\* A call that ends breaks nothing of what is said of calls.
LEMMA Ending ==
    ASSUME IInv, NEW p \in Process, Over(p)
    PROVE  /\ pc' \in [Process -> {"idle", "get", "create", "update"}]
           /\ loaded' \in [Process -> (File \X Schedule) \cup {<< >>}]
           /\ force' \in [Process -> BOOLEAN]
           /\ existing' \in [Process -> Row \cup {NoRow}]
           /\ pc'[p] = "idle"
           /\ \A q \in Process \ {p} :
                pc'[q] = pc[q] /\ loaded'[q] = loaded[q] /\ force'[q] = force[q]
                /\ existing'[q] = existing[q]
BY DEF IInv, TypeOK, Over

\* The write of a call: a row of what the call has loaded.
LEMMA Writing ==
    ASSUME IInv, NEW p \in Process, pc[p] \in {"create", "update"},
           NEW e \in BOOLEAN, Upsert(p, NewRow(loaded[p], e))
    PROVE  IInv' /\ row'.enabled = e
<1> DEFINE r == NewRow(loaded[p], e)
<1>1. loaded[p] \in valid /\ loaded[p] \in File \X Schedule
    BY DEF IInv, CallersInformed, TypeOK
<1>2. r \in Row /\ <<r.path, r.schedule>> = loaded[p] /\ r.enabled = e
    BY <1>1, NewRowType
<1>3. row' = r /\ Over(p) /\ UNCHANGED <<declared, valid>> /\ stale' = Outdated(r) \ {p}
    BY DEF Upsert
<1> HIDE DEF r
<1>4. stale' \subseteq Process
    BY <1>3 DEF Outdated, IInv, TypeOK
<1>5. TypeOK'
    BY <1>2, <1>3, <1>4, Ending DEF TypeOK, IInv
<1>6. RowReadFromOneFile'
    BY <1>1, <1>2, <1>3 DEF RowReadFromOneFile
<1>7. CallersInformed'
    <2> SUFFICES ASSUME NEW q \in Process
                 PROVE  /\ pc'[q] # "idle" => loaded'[q] \in valid'
                        /\ pc'[q] = "update" => existing'[q] \in Row /\ force'[q]
        BY DEF CallersInformed
    <2> QED
        BY <1>3, Ending DEF IInv, CallersInformed
<1>8. SeenIsCurrent'
    <2> SUFFICES ASSUME NEW q \in Process \ stale'
                 PROVE  /\ pc'[q] = "create" => row' = NoRow
                        /\ pc'[q] = "update" => existing'[q] = row'
        BY DEF SeenIsCurrent
    <2>1. CASE q = p
        BY <2>1, <1>3, Ending
    <2>2. CASE q # p
        <3>1. q \notin Outdated(r)
            BY <2>2, <1>3
        <3>2. CASE r = row
            BY <3>1, <3>2, <2>2, <1>3, Ending DEF Outdated, IInv, SeenIsCurrent
        <3>3. CASE r # row
            BY <3>1, <3>3, <2>2, <1>3, Ending DEF Outdated
        <3> QED
            BY <3>2, <3>3
    <2> QED
        BY <2>1, <2>2
<1> QED
    BY <1>2, <1>3, <1>5, <1>6, <1>7, <1>8 DEF IInv, Declared, Accepted

\* A call that ends without a write keeps the invariant.
LEMMA Leaving ==
    ASSUME IInv, NEW p \in Process, Over(p), stale' \in {stale, stale \ {p}},
           UNCHANGED <<declared, row, valid>>
    PROVE  IInv'
<1>1. TypeOK'
    BY Ending DEF IInv, TypeOK
<1>2. RowReadFromOneFile'
    BY DEF IInv, RowReadFromOneFile
<1>3. CallersInformed'
    <2> SUFFICES ASSUME NEW q \in Process
                 PROVE  /\ pc'[q] # "idle" => loaded'[q] \in valid'
                        /\ pc'[q] = "update" => existing'[q] \in Row /\ force'[q]
        BY DEF CallersInformed
    <2> QED
        BY Ending DEF IInv, CallersInformed
<1>4. SeenIsCurrent'
    <2> SUFFICES ASSUME NEW q \in Process \ stale'
                 PROVE  /\ pc'[q] = "create" => row' = NoRow
                        /\ pc'[q] = "update" => existing'[q] = row'
        BY DEF SeenIsCurrent
    <2> QED
        BY Ending DEF IInv, SeenIsCurrent
<1> QED
    BY <1>1, <1>2, <1>3, <1>4 DEF IInv, Declared, Accepted

LEMMA LoadKeeps == ASSUME IInv, NEW p \in Process, NEW f \in File, Load(p, f) PROVE IInv'
<1>1. <<f, declared[f]>> \in File \X Schedule
    BY DEF Load, Accepted, IInv, TypeOK
<1>2. TypeOK'
    BY <1>1 DEF Load, IInv, TypeOK
<1>3. RowReadFromOneFile'
    BY DEF Load, IInv, RowReadFromOneFile
<1>4. loaded'[p] \in valid'
    BY DEF Load, IInv, Declared, TypeOK
<1>5. CallersInformed'
    BY <1>4 DEF Load, IInv, CallersInformed, TypeOK
<1>6. SeenIsCurrent'
    BY DEF Load, IInv, SeenIsCurrent, TypeOK
<1>7. Declared'
    BY DEF Load, IInv, Declared, Accepted
<1> QED
    BY <1>2, <1>3, <1>5, <1>6, <1>7 DEF IInv

LEMMA GetKeeps == ASSUME IInv, NEW p \in Process, Get(p) PROVE IInv'
<1>1. CASE row # NoRow /\ ~force[p]
    BY <1>1, Leaving DEF Get
<1>2. CASE ~(row # NoRow /\ ~force[p])
    <2>1. /\ existing' = [existing EXCEPT ![p] = row]
          /\ pc' = [pc EXCEPT ![p] = IF row = NoRow THEN "create" ELSE "update"]
          /\ UNCHANGED <<declared, row, loaded, force, valid, stale>>
          /\ pc[p] = "get"
        BY <1>2 DEF Get
    <2>2. TypeOK'
        BY <2>1 DEF IInv, TypeOK
    <2>3. CallersInformed'
        <3> SUFFICES ASSUME NEW q \in Process
                     PROVE  /\ pc'[q] # "idle" => loaded'[q] \in valid'
                            /\ pc'[q] = "update" => existing'[q] \in Row /\ force'[q]
            BY DEF CallersInformed
        <3> QED
            BY <1>2, <2>1 DEF IInv, TypeOK, CallersInformed
    <2>4. SeenIsCurrent'
        <3> SUFFICES ASSUME NEW q \in Process \ stale'
                     PROVE  /\ pc'[q] = "create" => row' = NoRow
                            /\ pc'[q] = "update" => existing'[q] = row'
            BY DEF SeenIsCurrent
        <3> QED
            BY <2>1 DEF IInv, TypeOK, SeenIsCurrent
    <2> QED
        BY <2>1, <2>2, <2>3, <2>4 DEF IInv, RowReadFromOneFile, Declared, Accepted
<1> QED
    BY <1>1, <1>2

LEMMA SetEnabledKeeps == ASSUME IInv, NEW e \in BOOLEAN, SetEnabled(e) PROVE IInv'
<1> DEFINE source == <<row.path, row.schedule>>
           r == NewRow(source, e)
<1>1. source \in valid /\ source \in File \X Schedule
    BY DEF SetEnabled, IInv, RowReadFromOneFile, TypeOK
<1>2. r \in Row /\ <<r.path, r.schedule>> = source
    BY <1>1, NewRowType
<1>3. row' = r /\ stale' = Outdated(r) /\ UNCHANGED <<declared, caller, valid>>
    BY DEF SetEnabled
<1> HIDE DEF r
<1>4. stale' \subseteq Process
    BY <1>3 DEF Outdated, IInv, TypeOK
<1>5. TypeOK'
    BY <1>2, <1>3, <1>4 DEF TypeOK, IInv, caller
<1>6. RowReadFromOneFile'
    BY <1>1, <1>2, <1>3 DEF RowReadFromOneFile
<1>7. CallersInformed' /\ Declared'
    BY <1>3 DEF IInv, CallersInformed, Declared, Accepted, caller
<1>8. SeenIsCurrent'
    BY <1>3 DEF IInv, SeenIsCurrent, Outdated, caller
<1> QED
    BY <1>5, <1>6, <1>7, <1>8 DEF IInv

LEMMA EditKeeps ==
    ASSUME IInv, NEW f \in File, NEW s \in Schedule \cup {Invalid}, Edit(f, s) PROVE IInv'
<1>1. valid \subseteq valid' /\ valid' \subseteq File \X Schedule
    BY RegistryAssumption DEF Edit, IInv, TypeOK
<1>2. TypeOK'
    BY <1>1 DEF Edit, IInv, TypeOK, caller
<1>3. RowReadFromOneFile' /\ CallersInformed' /\ SeenIsCurrent'
    BY <1>1 DEF Edit, IInv, RowReadFromOneFile, CallersInformed, SeenIsCurrent, caller
<1>4. Declared'
    BY DEF Edit, IInv, Declared, Accepted, TypeOK
<1> QED
    BY <1>2, <1>3, <1>4 DEF IInv

\* Every step keeps the invariant.
LEMMA Step == IInv /\ [Next]_vars => IInv'
<1> SUFFICES ASSUME IInv, [Next]_vars PROVE IInv'
    OBVIOUS
<1>1. ASSUME NEW p \in Process, NEW f \in File, Load(p, f) PROVE IInv'
    BY <1>1, LoadKeeps
<1>2. ASSUME NEW p \in Process, Get(p) PROVE IInv'
    BY <1>2, GetKeeps
<1>3. ASSUME NEW p \in Process, Create(p) PROVE IInv'
    BY <1>3, Writing DEF Create
<1>4. ASSUME NEW p \in Process, Update(p) PROVE IInv'
    <2>1. existing[p] \in Row
        BY <1>4 DEF Update, IInv, CallersInformed
    <2>2. existing[p].enabled \in BOOLEAN
        BY <2>1 DEF Row
    <2> QED
        BY <1>4, <2>2, Writing DEF Update
<1>5. ASSUME NEW p \in Process, Abandon(p) PROVE IInv'
    BY <1>5, Leaving DEF Abandon
<1>6. ASSUME NEW e \in BOOLEAN, SetEnabled(e) PROVE IInv'
    BY <1>6, SetEnabledKeeps
<1>7. ASSUME NEW f \in File, NEW s \in Schedule \cup {Invalid}, Edit(f, s) PROVE IInv'
    BY <1>7, EditKeeps
<1>8. ASSUME UNCHANGED vars PROVE IInv'
    BY <1>8 DEF vars, caller, IInv, TypeOK, RowReadFromOneFile, CallersInformed,
                SeenIsCurrent, Declared, Accepted
<1> QED
    BY <1>1, <1>2, <1>3, <1>4, <1>5, <1>6, <1>7, <1>8 DEF Next, User

\* The inductive invariant holds throughout.
THEOREM Invariance == Spec => []IInv
<1> QED
    BY Initially, Step, PTL DEF Spec

\* Every variable of the registry stays in its range.
THEOREM TypeCorrect == Spec => []TypeOK
<1>1. IInv => TypeOK
    BY DEF IInv
<1> QED
    BY <1>1, Invariance, PTL

\* The schedule the daemon reads was declared by the file it runs.
THEOREM OneSource == Spec => []RowReadFromOneFile
<1>1. IInv => RowReadFromOneFile
    BY DEF IInv
<1> QED
    BY <1>1, Invariance, PTL

\* Only the caller whose step it is changes its place; a step of a user is
\* nobody's.
LEMMA OneActs ==
    ASSUME IInv, NEW p \in Process, NEW q \in Process, Acts(q),
           Create(p) \/ Update(p)
    PROVE  q = p
<1>1. Over(p)
    BY DEF Create, Update, Upsert
<1> QED
    BY <1>1, Ending DEF Acts

\* What a step of a call may do to a row.
LEMMA WritersAreInformed ==
    ASSUME IInv, Next, row # NoRow, row' # row, NEW q \in Process, Acts(q), q \notin stale
    PROVE  /\ force[q]
           /\ row'.enabled = row.enabled
<1>1. ASSUME NEW p \in Process, Create(p)
      PROVE  FALSE
    <2>1. q = p
        BY <1>1, OneActs
    <2> QED
        BY <1>1, <2>1 DEF IInv, SeenIsCurrent, Create
<1>2. ASSUME NEW p \in Process, Update(p)
      PROVE  force[q] /\ row'.enabled = row.enabled
    <2>1. q = p
        BY <1>2, OneActs
    <2>2. existing[p] = row /\ existing[p] \in Row /\ force[p]
        BY <1>2, <2>1 DEF IInv, SeenIsCurrent, CallersInformed, Update
    <2>3. row.enabled \in BOOLEAN
        BY <2>2 DEF Row
    <2>4. row'.enabled = existing[p].enabled
        BY <1>2, <2>2, <2>3, Writing DEF Update
    <2> QED
        BY <2>1, <2>2, <2>4
<1>3. ASSUME NEW p \in Process, Get(p) \/ Abandon(p) \/ \E f \in File : Load(p, f)
      PROVE  FALSE
    BY <1>3 DEF Get, Abandon, Load
<1>4. ASSUME User
      PROVE  FALSE
    BY <1>4 DEF User, SetEnabled, Edit, caller, Acts
<1> QED
    BY <1>1, <1>2, <1>3, <1>4 DEF Next

\* Without an overlapping writer, registration neither pauses nor resumes.
THEOREM FlagIsTheUsers == Spec => EnabledChangedByUser
<1>1. IInv /\ [Next]_vars =>
        [row # NoRow /\ row'.enabled # row.enabled =>
           \A p \in Process : Acts(p) => p \in stale]_vars
    BY WritersAreInformed
<1> QED
    BY <1>1, Invariance, PTL DEF Spec, EnabledChangedByUser

\* Without an overlapping writer, only force rewrites a row.
THEOREM RowIsKept == Spec => SeenRowKept
<1>1. IInv /\ [Next]_vars =>
        [row # NoRow /\ row' # row =>
           \A p \in Process : Acts(p) /\ ~force[p] => p \in stale]_vars
    BY WritersAreInformed
<1> QED
    BY <1>1, Invariance, PTL DEF Spec, SeenRowKept

=============================================================================
