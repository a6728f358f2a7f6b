-------------------------- MODULE TaskGraph_proofs --------------------------
(***************************************************************************)
(* The graph algorithms are right for every set of tasks.  For the cycle   *)
(* check: what is done waits only for what is done and holds no cycle,     *)
(* while the tasks being visited are the path, each a dependency of the    *)
(* one before.  For the search: a task found and not queued has had all    *)
(* that depends on it found.                                               *)
(***************************************************************************)
EXTENDS TaskGraph, SequenceTheorems, FunctionTheorems, FiniteSetTheorems,
        WellFoundedInduction, TLAPS

Done == {t \in Task : state[t] = "done"}

\* The tasks being visited are those on the path, each of them once.
PathIsVisited ==
    /\ \A t \in Task : state[t] = "visiting" => \E k \in 1..Len(path) : path[k] = t
    /\ \A k \in 1..Len(path) : state[path[k]] = "visiting"
    /\ \A j, k \in 1..Len(path) : path[j] = path[k] => j = k

\* Each task on the path is a dependency of the one before.
PathFollows == \A k \in 1..(Len(path) - 1) : path[k + 1] \in dependsOn[path[k]]

\* What a visit is not to look at again is done, or is the visit it waits for.
LeftAccounts ==
    /\ \A k \in 1..Len(path) : left[k] \subseteq dependsOn[path[k]]
    /\ \A k \in 1..Len(path) : \A d \in dependsOn[path[k]] :
          d \in left[k] \/ state[d] = "done" \/ (k < Len(path) /\ d = path[k + 1])

DoneClosed == \A t \in Done : dependsOn[t] \subseteq Done

AcyclicIn(D) == \A S \in SUBSET D : S # {} => \E t \in S : dependsOn[t] \cap S = {}

Detecting == PathIsVisited /\ PathFollows /\ LeftAccounts

DetectInv ==
    /\ DoneClosed /\ AcyclicIn(Done)
    /\ phase = "detect" => Detecting
    /\ phase \in {"order", "ready", "search"} => Done = Task

\* The search has found only what depends on the failed, and has found all
\* that depends on whatever it no longer has in the queue.
SearchInv ==
    /\ toSkip \cap failed = {} /\ queue \subseteq failed \cup toSkip
    /\ \A C \in SUBSET Task : failed \subseteq C /\ Closed(C) => toSkip \subseteq C
    /\ \A x \in (failed \cup toSkip) \ queue : \A u \in Task :
          x \in dependsOn[u] => u \in failed \cup toSkip

OrderInv ==
    /\ \A k \in 1..Len(ordered) :
         dependsOn[ordered[k]] \subseteq {ordered[j] : j \in 1..(k - 1)}
    /\ phase \in {"ready", "search"} => Ordered = Task

IInv == TypeOK /\ DetectInv /\ ReportedIsACycle /\ OrderInv /\ SearchInv

-----------------------------------------------------------------------------
(* Sequences, as this module uses them *)

LEMMA AppendIs ==
    ASSUME NEW S, NEW s \in Seq(S), NEW e \in S
    PROVE  /\ Append(s, e) \in Seq(S)
           /\ Len(Append(s, e)) = Len(s) + 1
           /\ \A k \in 1..Len(s) : Append(s, e)[k] = s[k]
           /\ Append(s, e)[Len(s) + 1] = e
           /\ Len(s) \in Nat
OBVIOUS

LEMMA FrontIs ==
    ASSUME NEW S, NEW s \in Seq(S), s # << >>
    PROVE  LET f == SubSeq(s, 1, Len(s) - 1) IN
           /\ f \in Seq(S)
           /\ Len(f) = Len(s) - 1 /\ Len(s) \in Nat \ {0}
           /\ \A k \in 1..(Len(s) - 1) : f[k] = s[k]
<1>1. Len(s) \in Nat \ {0}
    BY EmptySeq
<1> DEFINE m == Len(s) - 1
           f == SubSeq(s, 1, m)
<1>2. m \in Nat /\ 1 \in 1..(Len(s) + 1) /\ m \in 0..Len(s)
    BY <1>1
<1> HIDE DEF m
<1>3. /\ f \in Seq(S)
      /\ Len(f) = IF 1 <= m THEN m - 1 + 1 ELSE 0
      /\ \A k \in 1..(m - 1 + 1) : f[k] = s[1 + k - 1]
    BY <1>2, SubSeqProperties
<1>4. Len(f) = m /\ \A k \in 1..m : f[k] = s[k]
    BY <1>2, <1>3
<1> QED
    BY <1>1, <1>3, <1>4 DEF m

LEMMA TailIs ==
    ASSUME NEW S, NEW s \in Seq(S), NEW k \in 1..Len(s)
    PROVE  LET f == SubSeq(s, k, Len(s)) IN
           /\ f \in Seq(S)
           /\ Len(f) = Len(s) - k + 1
           /\ \A j \in 1..(Len(s) - k + 1) : f[j] = s[k + j - 1]
OBVIOUS

-----------------------------------------------------------------------------
LEMMA Initially == Init => IInv
<1> SUFFICES ASSUME Init PROVE IInv
    OBVIOUS
<1>1. TypeOK
    BY DEF Init, TypeOK
<1>2. Done = {}
    BY DEF Init, Done
<1>3. DetectInv
    BY <1>2 DEF Init, DetectInv, Detecting, DoneClosed, AcyclicIn, PathIsVisited, PathFollows,
                LeftAccounts
<1>4. OrderInv /\ SearchInv /\ ReportedIsACycle
    BY DEF Init, OrderInv, SearchInv, ReportedIsACycle
<1> QED
    BY <1>1, <1>3, <1>4 DEF IInv

-----------------------------------------------------------------------------
(* _detect_cycle() *)

\* The visit of t begins, called by nobody or by the innermost visit.
LEMMA Entering ==
    ASSUME TypeOK, Detecting, NEW t \in Task, state[t] = "unvisited",
           NEW rest \in Seq(SUBSET Task), Len(rest) = Len(path),
           \A k \in 1..Len(path) : k < Len(path) => rest[k] = left[k],
           path # << >> => /\ t \in left[Len(path)]
                           /\ rest[Len(path)] = left[Len(path)] \ {t},
           Enter(t, rest)
    PROVE  /\ state' \in [Task -> {"unvisited", "visiting", "done"}]
           /\ path' \in Seq(Task) /\ left' \in Seq(SUBSET Task) /\ Len(left') = Len(path')
           /\ Detecting' /\ Done' = Done
<1> DEFINE n == Len(path)
<1>1. /\ path' \in Seq(Task) /\ Len(path') = n + 1 /\ n \in Nat
      /\ \A k \in 1..n : path'[k] = path[k]
      /\ path'[n + 1] = t
    BY AppendIs DEF Enter, TypeOK
<1>2. /\ left' \in Seq(SUBSET Task) /\ Len(left') = n + 1
      /\ \A k \in 1..n : left'[k] = rest[k]
      /\ left'[n + 1] = dependsOn[t]
    BY AppendIs DEF Enter, TypeOK
<1>3. /\ state' = [state EXCEPT ![t] = "visiting"] /\ dependsOn' = dependsOn
      /\ state' \in [Task -> {"unvisited", "visiting", "done"}]
    BY DEF Enter, TypeOK
<1>4. Done' = Done
    BY <1>3 DEF Done, TypeOK
<1>5. \A k \in 1..n : path[k] \in Task /\ path[k] # t
    BY <1>1 DEF Detecting, PathIsVisited, TypeOK
<1>6. PathIsVisited'
    <2>1. \A u \in Task : state'[u] = "visiting" => \E k \in 1..Len(path') : path'[k] = u
        <3> SUFFICES ASSUME NEW u \in Task, state'[u] = "visiting"
                     PROVE  \E k \in 1..(n + 1) : path'[k] = u
            BY <1>1
        <3>1. CASE u = t
            BY <3>1, <1>1
        <3>2. CASE u # t
            <4>1. PICK k \in 1..n : path[k] = u
                BY <3>2, <1>3 DEF Detecting, PathIsVisited, TypeOK
            <4> QED
                BY <4>1, <1>1
        <3> QED
            BY <3>1, <3>2
    <2>2. \A k \in 1..Len(path') : state'[path'[k]] = "visiting"
        <3>1. ASSUME NEW k \in 1..n PROVE state'[path'[k]] = "visiting"
            BY <1>1, <1>3, <1>5 DEF Detecting, PathIsVisited, TypeOK
        <3>2. state'[path'[n + 1]] = "visiting"
            BY <1>1, <1>3 DEF TypeOK
        <3> QED
            BY <3>1, <3>2, <1>1
    <2>3. \A j, k \in 1..Len(path') : path'[j] = path'[k] => j = k
        BY <1>1, <1>5 DEF Detecting, PathIsVisited
    <2> QED
        BY <2>1, <2>2, <2>3 DEF PathIsVisited
<1>7. PathFollows'
    <2> SUFFICES ASSUME NEW k \in 1..n PROVE path'[k + 1] \in dependsOn[path'[k]]
        BY <1>1, <1>3 DEF PathFollows
    <2>1. CASE k < n
        BY <2>1, <1>1 DEF Detecting, PathFollows
    <2>2. CASE k = n
        <3>1. path # << >>
            BY <2>2
        <3>2. t \in dependsOn[path[n]]
            BY <2>2, <3>1 DEF Detecting, LeftAccounts
        <3> QED
            BY <2>2, <3>2, <1>1
    <2> QED
        BY <2>1, <2>2, <1>1
<1>8. LeftAccounts'
    <2> SUFFICES ASSUME NEW k \in 1..(n + 1)
                 PROVE  /\ left'[k] \subseteq dependsOn[path'[k]]
                        /\ \A d \in dependsOn[path'[k]] :
                             d \in left'[k] \/ state'[d] = "done"
                             \/ (k < n + 1 /\ d = path'[k + 1])
        BY <1>1, <1>3 DEF LeftAccounts
    <2>1. CASE k = n + 1
        BY <2>1, <1>1, <1>2
    <2>2. CASE k < n
        <3>1. left'[k] = left[k] /\ path'[k] = path[k] /\ path'[k + 1] = path[k + 1]
            BY <2>2, <1>1, <1>2
        <3>2. \A d \in Task : state[d] = "done" => state'[d] = "done"
            BY <1>3 DEF TypeOK
        <3>3. dependsOn[path[k]] \subseteq Task
            BY <2>2, <1>5 DEF TypeOK
        <3> QED
            BY <2>2, <3>1, <3>2, <3>3, <1>1 DEF Detecting, LeftAccounts
    <2>3. CASE k = n
        <3>1. path # << >>
            BY <2>3, <1>1
        <3>2. left'[n] = left[n] \ {t} /\ path'[n] = path[n] /\ path'[n + 1] = t
            BY <2>3, <3>1, <1>1, <1>2
        <3>3. \A d \in Task : state[d] = "done" => state'[d] = "done"
            BY <1>3 DEF TypeOK
        <3>4. dependsOn[path[n]] \subseteq Task
            BY <2>3, <1>5 DEF TypeOK
        <3>5. /\ left[n] \subseteq dependsOn[path[n]]
              /\ \A d \in dependsOn[path[n]] : d \in left[n] \/ state[d] = "done"
            BY <2>3 DEF Detecting, LeftAccounts
        <3> QED
            BY <2>3, <3>2, <3>3, <3>4, <3>5, <1>1
    <2> QED
        BY <2>1, <2>2, <2>3, <1>1
<1> QED
    BY <1>1, <1>2, <1>3, <1>4, <1>6, <1>7, <1>8 DEF Detecting

LEMMA SearchStays == ASSUME SearchInv, UNCHANGED <<dependsOn, search>> PROVE SearchInv'
BY DEF SearchInv, Closed, search

LEMMA OrderStays == ASSUME OrderInv, UNCHANGED <<dependsOn, phase, ordered>> PROVE OrderInv'
BY DEF OrderInv, Ordered

LEMMA VisitRootKeeps == ASSUME IInv, NEW t \in Task, VisitRoot(t) PROVE IInv'
<1>1. TypeOK /\ Detecting /\ state[t] = "unvisited"
    BY DEF IInv, DetectInv, VisitRoot, Detecting, PathIsVisited, TypeOK
<1>2. Len(path) = 0 /\ Len(left) = Len(path) /\ left \in Seq(SUBSET Task)
    BY <1>1 DEF VisitRoot, TypeOK
<1>3. Enter(t, left)
    BY DEF VisitRoot
<1>4. /\ state' \in [Task -> {"unvisited", "visiting", "done"}]
      /\ path' \in Seq(Task) /\ left' \in Seq(SUBSET Task) /\ Len(left') = Len(path')
      /\ Detecting' /\ Done' = Done
    BY <1>1, <1>2, <1>3, Entering DEF VisitRoot
<1>5. UNCHANGED <<dependsOn, phase, cycle, ordered, search>> /\ phase = "detect"
    BY <1>3 DEF Enter, VisitRoot
<1>6. TypeOK'
    BY <1>4, <1>5 DEF IInv, TypeOK, search
<1>7. DetectInv'
    BY <1>4, <1>5 DEF IInv, DetectInv, DoneClosed, AcyclicIn
<1>8. OrderInv' /\ SearchInv' /\ ReportedIsACycle'
    BY <1>5, OrderStays, SearchStays DEF IInv, ReportedIsACycle
<1> QED
    BY <1>6, <1>7, <1>8 DEF IInv

LEMMA WithoutIs ==
    ASSUME TypeOK, NEW d \in Task, LooksAt(d)
    PROVE  /\ Without(d) \in Seq(SUBSET Task) /\ Len(Without(d)) = Len(path)
           /\ Len(path) \in Nat \ {0}
           /\ Without(d)[Len(path)] = left[Len(path)] \ {d}
           /\ \A k \in 1..Len(path) : k < Len(path) => Without(d)[k] = left[k]
<1>1. Len(path) \in Nat \ {0}
    BY EmptySeq DEF TypeOK, LooksAt
<1>2. left[Len(path)] \in SUBSET Task
    BY <1>1 DEF TypeOK
<1> QED
    BY <1>1, <1>2 DEF TypeOK, Without

LEMMA VisitKeeps == ASSUME IInv, NEW d \in Task, Visit(d) PROVE IInv'
<1>1. TypeOK /\ Detecting /\ LooksAt(d) /\ state[d] = "unvisited" /\ d \in left[Len(path)]
    BY DEF IInv, DetectInv, Visit, LooksAt
<1>2. Enter(d, Without(d))
    BY DEF Visit
<1>3. /\ state' \in [Task -> {"unvisited", "visiting", "done"}]
      /\ path' \in Seq(Task) /\ left' \in Seq(SUBSET Task) /\ Len(left') = Len(path')
      /\ Detecting' /\ Done' = Done
    BY <1>1, <1>2, WithoutIs, Entering
<1>4. UNCHANGED <<dependsOn, phase, cycle, ordered, search>> /\ phase = "detect"
    BY <1>2 DEF Enter, Visit, LooksAt
<1>5. TypeOK'
    BY <1>3, <1>4 DEF IInv, TypeOK, search
<1>6. DetectInv'
    BY <1>3, <1>4 DEF IInv, DetectInv, DoneClosed, AcyclicIn
<1>7. OrderInv' /\ SearchInv' /\ ReportedIsACycle'
    BY <1>4, OrderStays, SearchStays DEF IInv, ReportedIsACycle
<1> QED
    BY <1>5, <1>6, <1>7 DEF IInv

LEMMA PassOverKeeps == ASSUME IInv, NEW d \in Task, PassOver(d) PROVE IInv'
<1>1. TypeOK /\ Detecting /\ LooksAt(d) /\ state[d] = "done" /\ phase = "detect"
    BY DEF IInv, DetectInv, PassOver, LooksAt
<1>2. left' = Without(d) /\ UNCHANGED <<dependsOn, phase, state, path, cycle, ordered, search>>
    BY DEF PassOver
<1>3. TypeOK'
    BY <1>1, <1>2, WithoutIs DEF TypeOK, search
<1>4. LeftAccounts'
    <2> SUFFICES ASSUME NEW k \in 1..Len(path)
                 PROVE  /\ Without(d)[k] \subseteq dependsOn[path[k]]
                        /\ \A e \in dependsOn[path[k]] :
                             e \in Without(d)[k] \/ state[e] = "done"
                             \/ (k < Len(path) /\ e = path[k + 1])
        BY <1>2 DEF LeftAccounts
    <2>1. Without(d)[k] = left[k] \/ Without(d)[k] = left[k] \ {d}
        BY <1>1, WithoutIs
    <2> QED
        BY <2>1, <1>1 DEF Detecting, LeftAccounts
<1>5. Detecting'
    BY <1>1, <1>2, <1>4 DEF Detecting, PathIsVisited, PathFollows
<1> QED
    BY <1>1, <1>2, <1>3, <1>5 DEF search, IInv, DetectInv, Done, DoneClosed, AcyclicIn, OrderInv,
                                  Ordered, SearchInv, Closed, ReportedIsACycle

LEMMA FindKeeps == ASSUME IInv, NEW d \in Task, Find(d) PROVE IInv'
<1>1. TypeOK /\ Detecting /\ LooksAt(d)
    BY DEF IInv, DetectInv, Find, LooksAt
<1>2. PICK k \in 1..Len(path) :
         path[k] = d /\ cycle' = Append(SubSeq(path, k, Len(path)), d)
    BY DEF Find
<1> DEFINE n == Len(path)
           tail == SubSeq(path, k, n)
           m == n - k + 1
<1>3. n \in Nat \ {0} /\ path \in Seq(Task)
    BY <1>1, WithoutIs DEF TypeOK
<1>4. /\ tail \in Seq(Task) /\ Len(tail) = m /\ m \in Nat \ {0}
      /\ \A j \in 1..m : tail[j] = path[k + j - 1]
    BY <1>3, TailIs
<1> HIDE DEF tail
<1>5. /\ cycle' \in Seq(Task) /\ Len(cycle') = m + 1
      /\ \A j \in 1..m : cycle'[j] = tail[j]
      /\ cycle'[m + 1] = d
    BY <1>2, <1>4, AppendIs DEF tail
<1>6. cycle'[1] = d
    BY <1>2, <1>3, <1>4, <1>5
<1>7. d \in dependsOn[path[n]]
    BY <1>1, <1>3 DEF LooksAt, Detecting, LeftAccounts
<1>8. \A j \in 1..m : cycle'[j + 1] \in dependsOn[cycle'[j]]
    <2> SUFFICES ASSUME NEW j \in 1..m PROVE cycle'[j + 1] \in dependsOn[cycle'[j]]
        OBVIOUS
    <2>1. CASE j = m
        BY <2>1, <1>3, <1>4, <1>5, <1>7
    <2>2. CASE j < m
        <3>1. k + j - 1 \in 1..(n - 1) /\ j + 1 \in 1..m
            BY <2>2, <1>3, <1>4
        <3>2. cycle'[j] = path[k + j - 1] /\ cycle'[j + 1] = path[k + j - 1 + 1]
            BY <3>1, <1>3, <1>4, <1>5
        <3>3. path[k + j - 1 + 1] \in dependsOn[path[k + j - 1]]
            BY <3>1, <1>1 DEF Detecting, PathFollows
        <3> QED
            BY <3>2, <3>3
    <2> QED
        BY <2>1, <2>2, <1>4
<1>9. ReportedIsACycle'
    <2>1. Len(cycle') > 1 /\ cycle'[1] = cycle'[Len(cycle')] /\ Len(cycle') - 1 = m
        BY <1>4, <1>5, <1>6
    <2> QED
        BY <2>1, <1>8 DEF Find, ReportedIsACycle
<1>10. /\ phase' = "refused"
       /\ UNCHANGED <<dependsOn, state, path, left, ordered, search>>
    BY DEF Find
<1>11. TypeOK'
    BY <1>1, <1>5, <1>10 DEF TypeOK, search
<1> QED
    BY <1>9, <1>10, <1>11 DEF search, IInv, DetectInv, Done, DoneClosed, AcyclicIn, OrderInv,
                              Ordered, SearchInv, Closed

\* What is done stays acyclic when a task whose dependencies are done is added.
LEMMA AddToAcyclic ==
    ASSUME NEW D, NEW t, t \notin D, AcyclicIn(D),
           \A u \in D : dependsOn[u] \subseteq D, dependsOn[t] \subseteq D
    PROVE  AcyclicIn(D \cup {t})
<1> SUFFICES ASSUME NEW S \in SUBSET (D \cup {t}), S # {}
             PROVE  \E u \in S : dependsOn[u] \cap S = {}
    BY DEF AcyclicIn
<1>1. CASE S \ {t} = {}
    <2>1. S = {t}
        BY <1>1
    <2> QED
        BY <2>1
<1>2. CASE S \ {t} # {}
    <2>1. PICK u \in S \ {t} : dependsOn[u] \cap (S \ {t}) = {}
        BY <1>2 DEF AcyclicIn
    <2>2. u \in D
        BY <2>1
    <2> QED
        BY <2>1, <2>2
<1> QED
    BY <1>1, <1>2

LEMMA LeaveKeeps == ASSUME IInv, Leave PROVE IInv'
<1> DEFINE n == Len(path)
           t == path[n]
<1>1. TypeOK /\ Detecting /\ DoneClosed /\ AcyclicIn(Done)
    BY DEF IInv, DetectInv, Leave
<1>2. /\ n \in Nat \ {0} /\ path' \in Seq(Task) /\ Len(path') = n - 1
      /\ \A k \in 1..(n - 1) : path'[k] = path[k]
    BY <1>1, FrontIs DEF TypeOK, Leave
<1>3. left # << >> /\ left \in Seq(SUBSET Task) /\ Len(left) = n
    BY <1>1, <1>2, EmptySeq DEF TypeOK
<1>4. /\ left' \in Seq(SUBSET Task) /\ Len(left') = n - 1
      /\ \A k \in 1..(n - 1) : left'[k] = left[k]
    BY <1>3, FrontIs DEF Leave
<1>5. /\ t \in Task /\ state[t] = "visiting" /\ left[n] = {}
      /\ \A k \in 1..(n - 1) : path[k] # t /\ path[k] \in Task
    BY <1>1, <1>2, ElementOfSeq DEF Leave, Detecting, PathIsVisited, TypeOK
<1>6. /\ state' = [state EXCEPT ![t] = "done"]
      /\ UNCHANGED <<dependsOn, phase, cycle, ordered, search>>
      /\ state' \in [Task -> {"unvisited", "visiting", "done"}]
      /\ phase = "detect"
    BY <1>1 DEF Leave, TypeOK
<1> HIDE DEF t
<1>7. TypeOK'
    BY <1>1, <1>2, <1>4, <1>6 DEF TypeOK, search
<1>8. Done' = Done \cup {t} /\ t \notin Done
    BY <1>5, <1>6 DEF Done, TypeOK
<1>9. dependsOn[t] \subseteq Done
    <2>1. \A d \in dependsOn[t] : state[d] = "done" /\ d \in Task
        BY <1>1, <1>2, <1>5 DEF Detecting, LeftAccounts, TypeOK, t
    <2> QED
        BY <2>1 DEF Done
<1>10. DoneClosed'
    BY <1>1, <1>6, <1>8, <1>9 DEF DoneClosed
<1>11. AcyclicIn(Done)'
    <2>1. AcyclicIn(Done \cup {t})
        BY <1>1, <1>8, <1>9, AddToAcyclic DEF DoneClosed
    <2> QED
        BY <2>1, <1>6, <1>8 DEF AcyclicIn
<1>12. PathIsVisited'
    <2>1. \A u \in Task : state'[u] = "visiting" => \E k \in 1..Len(path') : path'[k] = u
        <3> SUFFICES ASSUME NEW u \in Task, state'[u] = "visiting"
                     PROVE  \E k \in 1..(n - 1) : path'[k] = u
            BY <1>2
        <3>1. u # t /\ state[u] = "visiting"
            BY <1>5, <1>6 DEF TypeOK
        <3>2. PICK k \in 1..n : path[k] = u
            BY <1>1, <3>1 DEF Detecting, PathIsVisited
        <3>3. k \in 1..(n - 1)
            BY <3>1, <3>2, <1>2 DEF t
        <3> QED
            BY <3>2, <3>3, <1>2
    <2>2. \A k \in 1..Len(path') : state'[path'[k]] = "visiting"
        BY <1>1, <1>2, <1>5, <1>6 DEF Detecting, PathIsVisited, TypeOK
    <2>3. \A j, k \in 1..Len(path') : path'[j] = path'[k] => j = k
        BY <1>1, <1>2 DEF Detecting, PathIsVisited
    <2> QED
        BY <2>1, <2>2, <2>3 DEF PathIsVisited
<1>13. PathFollows'
    BY <1>1, <1>2, <1>6 DEF Detecting, PathFollows
<1>14. LeftAccounts'
    <2> SUFFICES ASSUME NEW k \in 1..(n - 1)
                 PROVE  /\ left'[k] \subseteq dependsOn[path'[k]]
                        /\ \A d \in dependsOn[path'[k]] :
                             d \in left'[k] \/ state'[d] = "done"
                             \/ (k < n - 1 /\ d = path'[k + 1])
        BY <1>2, <1>6 DEF LeftAccounts
    <2>1. left'[k] = left[k] /\ path'[k] = path[k] /\ path[k] \in Task
        BY <1>2, <1>4, <1>5
    <2>2. \A d \in Task : state[d] = "done" => state'[d] = "done"
        BY <1>6 DEF TypeOK
    <2>3. state'[t] = "done"
        BY <1>5, <1>6 DEF TypeOK
    <2>4. dependsOn[path[k]] \subseteq Task
        BY <1>1, <2>1 DEF TypeOK
    <2>5. /\ left[k] \subseteq dependsOn[path[k]]
          /\ \A d \in dependsOn[path[k]] :
               d \in left[k] \/ state[d] = "done" \/ (k < n /\ d = path[k + 1])
        BY <1>1, <1>2 DEF Detecting, LeftAccounts
    <2>6. CASE k = n - 1
        <3>1. path[k + 1] = t
            BY <2>6, <1>2 DEF t
        <3> QED
            BY <3>1, <2>1, <2>2, <2>3, <2>4, <2>5
    <2>7. CASE k < n - 1
        <3>1. path'[k + 1] = path[k + 1]
            BY <2>7, <1>2
        <3> QED
            BY <3>1, <2>7, <2>1, <2>2, <2>4, <2>5
    <2> QED
        BY <2>6, <2>7, <1>2
<1>15. DetectInv'
    BY <1>6, <1>10, <1>11, <1>12, <1>13, <1>14 DEF DetectInv, Detecting
<1>16. OrderInv' /\ SearchInv' /\ ReportedIsACycle'
    BY <1>6, OrderStays, SearchStays DEF IInv, ReportedIsACycle
<1> QED
    BY <1>7, <1>15, <1>16 DEF IInv

LEMMA AcceptKeeps == ASSUME IInv, Accept PROVE IInv'
<1>1. /\ UNCHANGED <<dependsOn, detection, ordered, search>>
      /\ phase' = "order" /\ phase = "detect" /\ \A t \in Task : state[t] = "done"
    BY DEF Accept
<1>2. Done' = Done /\ Done = Task
    BY <1>1 DEF Done, detection
<1>3. TypeOK'
    BY <1>1 DEF IInv, TypeOK, detection, search
<1>4. DetectInv'
    BY <1>1, <1>2 DEF IInv, DetectInv, DoneClosed, AcyclicIn
<1>5. OrderInv'
    BY <1>1 DEF IInv, OrderInv
<1>6. SearchInv'
    BY <1>1, SearchStays DEF IInv
<1> QED
    BY <1>1, <1>3, <1>4, <1>5, <1>6 DEF IInv, ReportedIsACycle

-----------------------------------------------------------------------------
(* _topological_order() *)

LEMMA OrderKeeps == ASSUME IInv, NEW t \in Task, Order(t) PROVE IInv'
<1> DEFINE n == Len(ordered)
<1>1. /\ UNCHANGED <<dependsOn, phase, detection, search>> /\ phase = "order"
      /\ t \notin Ordered /\ dependsOn[t] \subseteq Ordered
      /\ ordered' = Append(ordered, t)
    BY DEF Order, Ready
<1>2. /\ ordered' \in Seq(Task) /\ Len(ordered') = n + 1 /\ n \in Nat
      /\ \A k \in 1..n : ordered'[k] = ordered[k]
      /\ ordered'[n + 1] = t
    BY <1>1, AppendIs DEF IInv, TypeOK
<1>3. TypeOK'
    BY <1>1, <1>2 DEF IInv, TypeOK, detection, search
<1>4. \A k \in 1..(n + 1) : dependsOn[ordered'[k]] \subseteq {ordered'[j] : j \in 1..(k - 1)}
    <2> SUFFICES ASSUME NEW k \in 1..(n + 1)
                 PROVE  dependsOn[ordered'[k]] \subseteq {ordered'[j] : j \in 1..(k - 1)}
        OBVIOUS
    <2>1. {ordered'[j] : j \in 1..(k - 1)} = {ordered[j] : j \in 1..(k - 1)}
        BY <1>2
    <2>2. CASE k = n + 1
        <3>1. Ordered = {ordered[j] : j \in 1..(k - 1)}
            BY <2>2, <1>2 DEF Ordered
        <3> QED
            BY <2>1, <2>2, <3>1, <1>1, <1>2
    <2>3. CASE k \in 1..n
        BY <2>1, <2>3, <1>2 DEF IInv, OrderInv
    <2> QED
        BY <2>2, <2>3, <1>2
<1>5. OrderInv'
    BY <1>1, <1>2, <1>4 DEF OrderInv
<1>6. DetectInv'
    BY <1>1 DEF IInv, DetectInv, Done, DoneClosed, AcyclicIn, detection
<1>7. SearchInv' /\ ReportedIsACycle'
    BY <1>1, SearchStays DEF IInv, ReportedIsACycle
<1> QED
    BY <1>3, <1>5, <1>6, <1>7 DEF IInv

LEMMA EndOrderKeeps == ASSUME IInv, EndOrder PROVE IInv'
<1>1. /\ UNCHANGED <<dependsOn, detection, ordered, search>>
      /\ phase' = "ready" /\ phase = "order" /\ Ordered = Task
    BY DEF EndOrder
<1>2. TypeOK'
    BY <1>1 DEF IInv, TypeOK, detection, search
<1>3. DetectInv'
    BY <1>1 DEF IInv, DetectInv, Done, DoneClosed, AcyclicIn, detection
<1>4. OrderInv'
    BY <1>1 DEF IInv, OrderInv, Ordered
<1>5. SearchInv' /\ ReportedIsACycle'
    BY <1>1, SearchStays DEF IInv, ReportedIsACycle
<1> QED
    BY <1>2, <1>3, <1>4, <1>5 DEF IInv

-----------------------------------------------------------------------------
(* _transitive_dependents() *)

\* A step of the search changes nothing of what the other algorithms left.
LEMMA SearchFrame ==
    ASSUME IInv, UNCHANGED <<dependsOn, detection, ordered>>,
           phase \in {"ready", "search"}, phase' \in {"ready", "search"}
    PROVE  DetectInv' /\ OrderInv' /\ ReportedIsACycle'
BY DEF IInv, DetectInv, Done, DoneClosed, AcyclicIn, OrderInv, Ordered, ReportedIsACycle,
       detection

LEMMA SearchKeeps == ASSUME IInv, NEW S \in SUBSET Task, Search(S) PROVE IInv'
<1>1. /\ UNCHANGED <<dependsOn, detection, ordered>>
      /\ phase = "ready" /\ phase' = "search"
      /\ failed' = S /\ toSkip' = {} /\ queue' = S
    BY DEF Search
<1>2. TypeOK'
    BY <1>1 DEF IInv, TypeOK, detection
<1>3. SearchInv'
    BY <1>1 DEF SearchInv
<1> QED
    BY <1>1, <1>2, <1>3, SearchFrame DEF IInv

LEMMA PopKeeps == ASSUME IInv, NEW t \in Task, Pop(t) PROVE IInv'
<1> DEFINE found == {u \in Task \ (toSkip \cup failed) : t \in dependsOn[u]}
<1>1. /\ UNCHANGED <<dependsOn, phase, detection, ordered, failed>>
      /\ phase = "search" /\ t \in queue
      /\ toSkip' = toSkip \cup found /\ queue' = (queue \ {t}) \cup found
    BY DEF Pop
<1>2. TypeOK'
    BY <1>1 DEF IInv, TypeOK, detection
<1>3. toSkip' \cap failed' = {} /\ queue' \subseteq failed' \cup toSkip'
    BY <1>1 DEF IInv, SearchInv
<1>4. \A C \in SUBSET Task : failed' \subseteq C /\ Closed(C)' => toSkip' \subseteq C
    <2> SUFFICES ASSUME NEW C \in SUBSET Task, failed \subseteq C, Closed(C)
                 PROVE  toSkip' \subseteq C
        BY <1>1 DEF Closed
    <2>1. toSkip \subseteq C /\ t \in C
        BY <1>1 DEF IInv, SearchInv
    <2> QED
        BY <2>1, <1>1 DEF Closed
<1>5. \A x \in (failed' \cup toSkip') \ queue' : \A u \in Task :
          x \in dependsOn'[u] => u \in failed' \cup toSkip'
    <2> SUFFICES ASSUME NEW x \in (failed' \cup toSkip') \ queue', NEW u \in Task,
                        x \in dependsOn[u]
                 PROVE  u \in failed' \cup toSkip'
        BY <1>1
    <2>1. CASE x = t
        BY <2>1, <1>1
    <2>2. CASE x # t
        BY <2>2, <1>1 DEF IInv, SearchInv
    <2> QED
        BY <2>1, <2>2
<1>6. SearchInv'
    BY <1>3, <1>4, <1>5 DEF SearchInv
<1> QED
    BY <1>1, <1>2, <1>6, SearchFrame DEF IInv

LEMMA EndSearchKeeps == ASSUME IInv, EndSearch PROVE IInv'
<1>1. /\ UNCHANGED <<dependsOn, detection, ordered, search>>
      /\ phase = "search" /\ phase' = "ready"
    BY DEF EndSearch
<1>2. TypeOK'
    BY <1>1 DEF IInv, TypeOK, detection, search
<1>3. SearchInv'
    BY <1>1, SearchStays DEF IInv
<1> QED
    BY <1>1, <1>2, <1>3, SearchFrame DEF IInv

-----------------------------------------------------------------------------
LEMMA Step == IInv /\ [Next]_vars => IInv'
<1> SUFFICES ASSUME IInv, [Next]_vars PROVE IInv'
    OBVIOUS
<1>1. CASE UNCHANGED vars
    <2>1. UNCHANGED <<dependsOn, phase, detection, ordered, search>>
        BY <1>1 DEF vars
    <2>2. SearchInv' /\ OrderInv'
        BY <2>1, SearchStays, OrderStays DEF IInv
    <2>3. TypeOK' /\ ReportedIsACycle'
        BY <2>1 DEF IInv, TypeOK, ReportedIsACycle, detection, search
    <2>4. DetectInv'
        BY <2>1 DEF IInv, DetectInv, Detecting, PathIsVisited, PathFollows, LeftAccounts, Done,
                    DoneClosed, AcyclicIn, detection
    <2> QED
        BY <2>2, <2>3, <2>4 DEF IInv
<1>2. CASE Next
    <2>1. ASSUME NEW t \in Task,
                 VisitRoot(t) \/ Visit(t) \/ PassOver(t) \/ Find(t) \/ Order(t) \/ Pop(t)
          PROVE  IInv'
        BY <2>1, VisitRootKeeps, VisitKeeps, PassOverKeeps, FindKeeps, OrderKeeps, PopKeeps
    <2>2. CASE Leave \/ Accept \/ EndOrder \/ EndSearch
        BY <2>2, LeaveKeeps, AcceptKeeps, EndOrderKeeps, EndSearchKeeps
    <2>3. ASSUME NEW S \in SUBSET Task, Search(S) PROVE IInv'
        BY <2>3, SearchKeeps
    <2> QED
        BY <1>2, <2>1, <2>2, <2>3 DEF Next, Algorithm
<1> QED
    BY <1>1, <1>2

\* The inductive invariant holds throughout.
THEOREM Invariance == Spec => []IInv
<1> QED
    BY Initially, Step, PTL DEF Spec

\* Every variable stays in its range.
THEOREM TypeCorrect == Spec => []TypeOK
<1>1. IInv => TypeOK
    BY DEF IInv
<1> QED
    BY <1>1, Invariance, PTL

\* load_dag() accepts acyclic graphs only.
THEOREM Accepted == Spec => []AcceptedIsAcyclic
<1>1. IInv => AcceptedIsAcyclic
    BY DEF IInv, DetectInv, AcyclicIn, AcceptedIsAcyclic, Acyclic
<1> QED
    BY <1>1, Invariance, PTL

\* The cycle load_dag() reports is a cycle of the graph.
THEOREM Reported == Spec => []ReportedIsACycle
<1>1. IInv => ReportedIsACycle
    BY DEF IInv
<1> QED
    BY <1>1, Invariance, PTL

\* load_dag() refuses no acyclic graph: with Accepted, it is exact.
THEOREM Refused == Spec => [](phase = "refused" => ~Acyclic(dependsOn))
<1>1. ASSUME IInv, phase = "refused", Acyclic(dependsOn) PROVE FALSE
    <2> DEFINE S == {cycle[k] : k \in 1..(Len(cycle) - 1)}
    <2>1. /\ cycle \in Seq(Task) /\ Len(cycle) \in Nat /\ Len(cycle) > 1
          /\ cycle[1] = cycle[Len(cycle)]
          /\ \A k \in 1..(Len(cycle) - 1) : cycle[k + 1] \in dependsOn[cycle[k]]
        BY <1>1 DEF IInv, TypeOK, ReportedIsACycle
    <2>2. S \in SUBSET Task /\ cycle[1] \in S
        BY <2>1, ElementOfSeq
    <2>3. PICK t \in S : dependsOn[t] \cap S = {}
        BY <1>1, <2>2 DEF Acyclic
    <2>4. PICK k \in 1..(Len(cycle) - 1) : t = cycle[k]
        BY <2>3
    <2>5. cycle[k + 1] \in S
        <3>1. CASE k + 1 \in 1..(Len(cycle) - 1)
            BY <3>1
        <3>2. CASE k = Len(cycle) - 1
            BY <3>2, <2>1, <2>2
        <3> QED
            BY <3>1, <3>2, <2>1, <2>4
    <2> QED
        BY <2>1, <2>3, <2>4, <2>5
<1>2. IInv => (phase = "refused" => ~Acyclic(dependsOn))
    BY <1>1
<1> QED
    BY <1>2, Invariance, PTL

LEMMA OrderGoesOn ==
    ASSUME IInv, phase = "order", Ordered # Task
    PROVE  Ready # {}
<1>1. AcyclicIn(Task) /\ Ordered \subseteq Task
    BY ElementOfSeq DEF IInv, DetectInv, TypeOK, Ordered
<1>2. PICK t \in Task \ Ordered : dependsOn[t] \cap (Task \ Ordered) = {}
    BY <1>1 DEF AcyclicIn
<1>3. dependsOn[t] \subseteq Task
    BY DEF IInv, TypeOK
<1>4. t \in Ready
    BY <1>2, <1>3 DEF Ready
<1> QED
    BY <1>4

\* An order is always found, and respects every dependency.
THEOREM Orders == Spec => []OrderSound
<1>1. IInv => OrderSound
    BY OrderGoesOn DEF IInv, OrderInv, OrderSound
<1> QED
    BY <1>1, Invariance, PTL

\* The search finds exactly what depends on a failed task.
THEOREM Searches == Spec => []SearchExact
<1>1. ASSUME IInv, phase = "search", queue = {} PROVE toSkip = TransitiveDependents(failed)
    <2>1. failed \cup toSkip \in SUBSET Task /\ Closed(failed \cup toSkip)
        BY <1>1 DEF IInv, TypeOK, SearchInv, Closed
    <2>2. toSkip \subseteq TransitiveDependents(failed)
        BY <1>1 DEF IInv, TypeOK, SearchInv, TransitiveDependents
    <2>3. TransitiveDependents(failed) \subseteq toSkip
        BY <2>1 DEF TransitiveDependents
    <2> QED
        BY <2>2, <2>3
<1>2. IInv => SearchExact
    BY <1>1 DEF SearchExact
<1> QED
    BY <1>2, Invariance, PTL

-----------------------------------------------------------------------------
(* The algorithms come to their ends, as far as it can be said without fairness *)

\* visit() recurses no deeper than there are tasks: the tasks on its path are
\* different ones.  (A chain as long as the interpreter's limit reaches that limit.)
THEOREM RecursionBounded ==
    ASSUME IsFiniteSet(Task)
    PROVE  Spec => [](phase = "detect" => Len(path) <= Cardinality(Task))
<1>1. ASSUME IInv, phase = "detect" PROVE Len(path) <= Cardinality(Task)
    <2>1. /\ path \in [1..Len(path) -> Task] /\ Len(path) \in Nat
          /\ \A j, k \in 1..Len(path) : path[j] = path[k] => j = k
        BY <1>1 DEF IInv, TypeOK, DetectInv, Detecting, PathIsVisited
    <2>2. path \in Injection(1..Len(path), Task)
        BY <2>1, Fun_IsInj
    <2>3. Cardinality(1..Len(path)) <= Cardinality(Task)
        BY <2>2, FS_Injection
    <2>4. Cardinality(1..Len(path)) = Len(path)
        <3>1. 1 \in Int /\ Len(path) \in Int
            BY <2>1
        <3>2. Cardinality(1..Len(path)) = IF 1 > Len(path) THEN 0 ELSE Len(path) - 1 + 1
            BY <3>1, FS_Interval, ZenonT(30)
        <3> QED
            BY <2>1, <3>2
    <2> QED
        BY <2>3, <2>4
<1> QED
    BY <1>1, Invariance, PTL

\* No algorithm is ever left without a step: a search between two roots is in no
\* task, the task that closes a cycle is found on the path, and as long as the
\* order lacks a task one is the first of those that are ready.
NeverStuck ==
    /\ phase = "detect" /\ path = << >> => \A t \in Task : state[t] # "visiting"
    /\ \A d \in Task : LooksAt(d) /\ state[d] = "visiting" =>
          \E k \in 1..Len(path) : path[k] = d
    /\ phase = "order" /\ Ordered # Task =>
          \E t \in Ready : \A u \in Ready : Position[t] <= Position[u]

LEMMA FirstByPosition ==
    ASSUME NEW S \in SUBSET Task, S # {}
    PROVE  \E t \in S : \A u \in S : Position[t] <= Position[u]
<1> DEFINE T == {Position[u] : u \in S}
           R == OpToRel(<, Nat)
<1>1. T \subseteq Nat /\ T # {}
    BY GraphAssumption
<1>2. PICK x \in T : \A y \in T : ~(<<y, x>> \in R)
    <2> HIDE DEF T, R
    <2> QED
        BY <1>1, NatLessThanWellFounded, WFMin DEF R
<1>3. \A y \in T : ~(y < x)
    BY <1>1, <1>2 DEF OpToRel
<1>4. PICK t \in S : x = Position[t]
    BY <1>2
<1>5. ASSUME NEW u \in S PROVE Position[t] <= Position[u]
    <2>1. Position[t] \in Nat /\ Position[u] \in Nat /\ ~(Position[u] < Position[t])
        BY <1>3, <1>4, GraphAssumption
    <2> QED
        BY <2>1
<1> QED
    BY <1>5

\* _detect_cycle() and _topological_order() always have their next task.
THEOREM Progress == Spec => []NeverStuck
<1>1. ASSUME IInv PROVE NeverStuck
    <2>1. ASSUME phase = "detect"
          PROVE  \A t \in Task : state[t] = "visiting" => \E k \in 1..Len(path) : path[k] = t
        BY <1>1, <2>1 DEF IInv, DetectInv, Detecting, PathIsVisited
    <2>2. Len(<< >>) = 0
        BY EmptySeq
    <2>3. ASSUME phase = "detect", path = << >>, NEW t \in Task PROVE state[t] # "visiting"
        <3>1. Len(path) = 0
            BY <2>2, <2>3
        <3>2. \A k \in 1..Len(path) : FALSE
            BY <3>1
        <3> QED
            BY <2>1, <2>3, <3>2
    <2>4. \A d \in Task : LooksAt(d) /\ state[d] = "visiting" => \E k \in 1..Len(path) : path[k] = d
        BY <2>1 DEF LooksAt
    <2>5. phase = "order" /\ Ordered # Task => Ready # {}
        BY <1>1, OrderGoesOn
    <2>6. phase = "order" /\ Ordered # Task =>
            \E t \in Ready : \A u \in Ready : Position[t] <= Position[u]
        <3>1. Ready \in SUBSET Task
            BY DEF Ready
        <3> QED
            BY <2>5, <3>1, FirstByPosition
    <2> QED
        BY <2>3, <2>4, <2>6 DEF NeverStuck
<1>2. IInv => NeverStuck
    BY <1>1
<1> QED
    BY <1>2, Invariance, PTL

\* How far an algorithm is from its end.  The cycle check: the tasks it has not
\* come to, those it is not done with, the dependencies the innermost visit has
\* still to look at.
Unvisited == Cardinality({t \in Task : state[t] = "unvisited"})
NotDone   == Cardinality(Task \ Done)
ToLookAt  == IF path = << >> THEN 0 ELSE Cardinality(left[Len(path)])
Unordered == Cardinality(Task \ Ordered)
NotFound  == Cardinality(Task \ (failed \cup toSkip))
Waiting   == Cardinality(queue)

Stage == IF phase = "detect" THEN 2 ELSE IF phase \in {"order", "search"} THEN 1 ELSE 0

Descends ==
    \/ Stage' < Stage
    \/ /\ phase = "detect" /\ phase' = "detect"
       /\ \/ Unvisited' < Unvisited
          \/ Unvisited' = Unvisited /\ NotDone' < NotDone
          \/ Unvisited' = Unvisited /\ NotDone' = NotDone /\ ToLookAt' < ToLookAt
    \/ phase = "order" /\ phase' = "order" /\ Unordered' < Unordered
    \/ /\ phase = "search" /\ phase' = "search"
       /\ \/ NotFound' < NotFound
          \/ NotFound' = NotFound /\ Waiting' < Waiting

Measured ==
    /\ Unvisited \in Nat /\ NotDone \in Nat /\ ToLookAt \in Nat
    /\ Unordered \in Nat /\ NotFound \in Nat /\ Waiting \in Nat

LEMMA Fewer ==
    ASSUME IsFiniteSet(Task), NEW A \in SUBSET Task, NEW B \in SUBSET A, A # B
    PROVE  Cardinality(A) \in Nat /\ Cardinality(B) < Cardinality(A)
<1>1. IsFiniteSet(A) /\ IsFiniteSet(B) /\ Cardinality(B) <= Cardinality(A)
    BY FS_Subset
<1>2. Cardinality(A) \in Nat /\ Cardinality(B) \in Nat /\ Cardinality(A) # Cardinality(B)
    BY <1>1, FS_CardinalityType, FS_Subset
<1> QED
    BY <1>1, <1>2

LEMMA Counted ==
    ASSUME IsFiniteSet(Task), TypeOK
    PROVE  Measured
<1>1. \A A \in SUBSET Task : Cardinality(A) \in Nat
    BY FS_Subset, FS_CardinalityType
<1>2. path # << >> => left[Len(path)] \in SUBSET Task
    <2>1. path # << >> => Len(path) \in Nat \ {0}
        BY EmptySeq DEF TypeOK
    <2> QED
        BY <2>1 DEF TypeOK
<1>3. ToLookAt \in Nat
    BY <1>1, <1>2 DEF ToLookAt
<1>4. Unvisited \in Nat /\ NotDone \in Nat /\ Unordered \in Nat /\ NotFound \in Nat /\ Waiting \in Nat
    BY <1>1 DEF TypeOK, Unvisited, NotDone, Unordered, NotFound, Waiting
<1> QED
    BY <1>3, <1>4 DEF Measured

\* Every step an algorithm takes brings it nearer to its end, and the measures are
\* natural numbers: on a finite DAG each of them takes finitely many steps.
THEOREM EveryStepCounts ==
    ASSUME IsFiniteSet(Task)
    PROVE  Spec => [][Measured /\ (Algorithm => Descends)]_vars
<1>1. ASSUME IInv, [Next]_vars PROVE Measured /\ (Algorithm => Descends)
    <2>0. TypeOK /\ TypeOK' /\ Measured
        BY <1>1, Step, Counted DEF IInv
    <2>1. ASSUME NEW t \in Task, state[t] = "unvisited", phase = "detect", NEW rest, Enter(t, rest)
          PROVE  Descends
        <3> DEFINE U == {u \in Task : state[u] = "unvisited"}
        <3>1. U' = U \ {t} /\ t \in U /\ phase' = "detect"
            BY <2>0, <2>1 DEF Enter, TypeOK
        <3>2. Unvisited' < Unvisited
            BY <3>1, Fewer DEF Unvisited
        <3> QED
            BY <2>1, <3>1, <3>2 DEF Descends
    <2>2. ASSUME NEW t \in Task, VisitRoot(t) PROVE Descends
        <3>1. state[t] = "unvisited" /\ phase = "detect"
            BY <1>1, <2>2 DEF IInv, DetectInv, VisitRoot, Detecting, PathIsVisited, TypeOK
        <3> QED
            BY <2>1, <2>2, <3>1 DEF VisitRoot
    <2>3. ASSUME NEW t \in Task, Visit(t) PROVE Descends
        BY <2>1, <2>3 DEF Visit, LooksAt
    <2>4. ASSUME NEW t \in Task, PassOver(t) PROVE Descends
        <3>1. /\ path # << >> /\ path' = path /\ t \in left[Len(path)] /\ left[Len(path)] \in SUBSET Task
              /\ left'[Len(path)] = left[Len(path)] \ {t} /\ phase = "detect" /\ phase' = phase
              /\ state' = state
            BY <2>0, <2>4, WithoutIs DEF PassOver, LooksAt, TypeOK
        <3>2. ToLookAt' < ToLookAt
            BY <3>1, Fewer DEF ToLookAt
        <3> QED
            BY <3>1, <3>2 DEF Descends, Unvisited, NotDone, Done
    <2>5. ASSUME Leave PROVE Descends
        <3> DEFINE t == path[Len(path)]
        <3>1. Len(path) \in Nat \ {0} /\ phase = "detect" /\ phase' = "detect"
            BY <2>0, <2>5, EmptySeq DEF Leave, TypeOK
        <3>2. t \in Task /\ state[t] = "visiting" /\ state' = [state EXCEPT ![t] = "done"]
            BY <1>1, <2>0, <2>5, <3>1 DEF IInv, DetectInv, Detecting, PathIsVisited, Leave, TypeOK
        <3>3. t \in Task \ Done /\ Task \ Done' = (Task \ Done) \ {t}
            BY <2>0, <3>2 DEF Done, TypeOK
        <3>4. NotDone' < NotDone
            BY <3>3, Fewer DEF NotDone
        <3>5. {u \in Task : state'[u] = "unvisited"} = {u \in Task : state[u] = "unvisited"}
            BY <2>0, <3>2 DEF TypeOK
        <3> QED
            BY <3>1, <3>4, <3>5 DEF Descends, Unvisited
    <2>6. ASSUME (\E t \in Task : Find(t)) \/ Accept \/ EndOrder \/ EndSearch PROVE Descends
        BY <2>6 DEF Find, Accept, EndOrder, EndSearch, LooksAt, Descends, Stage
    <2>7. ASSUME NEW t \in Task, Order(t) PROVE Descends
        <3>1. t \in Task \ Ordered /\ ordered' = Append(ordered, t)
            BY <2>7 DEF Order, Ready
        <3>2. /\ Len(ordered') = Len(ordered) + 1 /\ Len(ordered) \in Nat
              /\ \A k \in 1..Len(ordered) : ordered'[k] = ordered[k]
              /\ ordered'[Len(ordered) + 1] = t
            BY <2>0, <3>1, AppendIs DEF TypeOK
        <3>3. \A u \in Task : u \in Ordered' <=> u \in Ordered \/ u = t
            BY <3>2 DEF Ordered
        <3>4. Task \ Ordered' \in SUBSET (Task \ Ordered) /\ Task \ Ordered' # Task \ Ordered
            BY <3>1, <3>3
        <3>5. Unordered' < Unordered
            BY <3>4, Fewer DEF Unordered
        <3> QED
            BY <2>7, <3>5 DEF Descends, Order
    <2>8. ASSUME NEW t \in Task, Pop(t) PROVE Descends
        <3> DEFINE found == {u \in Task \ (toSkip \cup failed) : t \in dependsOn[u]}
        <3>1. /\ toSkip' = toSkip \cup found /\ queue' = (queue \ {t}) \cup found
              /\ t \in queue /\ failed' = failed /\ phase = "search" /\ phase' = "search"
            BY <2>8 DEF Pop
        <3>2. CASE found = {}
            <4>1. queue' = queue \ {t} /\ toSkip' = toSkip /\ queue \in SUBSET Task
                BY <2>0, <3>1, <3>2 DEF TypeOK
            <4>2. Waiting' < Waiting
                BY <3>1, <4>1, Fewer DEF Waiting
            <4> QED
                BY <3>1, <4>1, <4>2 DEF Descends, NotFound
        <3>3. CASE found # {}
            <4>1. /\ Task \ (failed' \cup toSkip') \in SUBSET (Task \ (failed \cup toSkip))
                  /\ Task \ (failed' \cup toSkip') # Task \ (failed \cup toSkip)
                BY <3>1, <3>3
            <4>2. NotFound' < NotFound
                BY <4>1, Fewer DEF NotFound
            <4> QED
                BY <3>1, <4>2 DEF Descends
        <3> QED
            BY <3>2, <3>3
    <2> QED
        BY <2>0, <2>2, <2>3, <2>4, <2>5, <2>6, <2>7, <2>8 DEF Algorithm
<1> QED
    BY <1>1, Invariance, PTL DEF Spec

=============================================================================
