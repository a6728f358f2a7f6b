------------------------------ MODULE TaskGraph ------------------------------
(***************************************************************************)
(* The three graph algorithms a DAG goes through, loop by loop:            *)
(* _detect_cycle(), by which load_dag() refuses it (dag/validator.py),     *)
(* _topological_order(), which orders its tasks, and                       *)
(* _transitive_dependents(), which finds what a failure keeps from running *)
(* (dag/executor.py).  DagExecution rests on what is shown here: its       *)
(* graphs are acyclic, and its TransitiveDependents is what the search     *)
(* computes.                                                               *)
(***************************************************************************)
EXTENDS Integers, Sequences

CONSTANTS
    Task,       \* the tasks of the DAG
    Position    \* [Task -> Nat], their order in the file

ASSUME GraphAssumption ==
    Position \in [Task -> Nat] /\ \A t, u \in Task : Position[t] = Position[u] => t = u

VARIABLES
    dependsOn,  \* dependsOn[t]: depends_on of task t
    phase,      \* the algorithm at work, or "refused", "ready"
    (* _detect_cycle() *)
    state,      \* state[t]: "unvisited", "visiting" or "done"
    path,       \* the tasks whose visit() is active, the outermost first
    left,       \* left[k]: the dependencies path[k] has still to look at
    cycle,      \* the cycle it returned
    (* _topological_order() *)
    ordered,
    (* _transitive_dependents() *)
    failed, toSkip, queue

detection == <<state, path, left, cycle>>
search    == <<failed, toSkip, queue>>
vars      == <<dependsOn, phase, detection, ordered, search>>

\* A dependency is a task of the DAG, and another one: DagConfig checks that.
Init ==
    /\ dependsOn \in {g \in [Task -> SUBSET Task] : \A t \in Task : t \notin g[t]}
    /\ phase = "detect"
    /\ state = [t \in Task |-> "unvisited"] /\ path = << >> /\ left = << >> /\ cycle = << >>
    /\ ordered = << >>
    /\ failed = {} /\ toSkip = {} /\ queue = {}

-----------------------------------------------------------------------------
(* _detect_cycle(): a depth-first search; the order of the tasks and of the *)
(* dependencies of a task is left open.                                     *)

\* visit(t) begins, called with `rest` left to its caller.
Enter(t, rest) ==
    /\ state' = [state EXCEPT ![t] = "visiting"]
    /\ path' = Append(path, t)
    /\ left' = Append(rest, dependsOn[t])
    /\ UNCHANGED <<dependsOn, phase, cycle, ordered, search>>

\* The loop of the innermost visit() comes to dependency d.
LooksAt(d) == phase = "detect" /\ path # << >> /\ d \in left[Len(path)]

\* What is left to the visits once the innermost has looked at d.
Without(d) == [left EXCEPT ![Len(path)] = @ \ {d}]

VisitRoot(t) ==
    /\ phase = "detect" /\ path = << >>
    /\ state[t] # "done"
    /\ Enter(t, left)

Visit(d) == LooksAt(d) /\ state[d] = "unvisited" /\ Enter(d, Without(d))

\* Mutant: a task being visited is passed over like one that is done.
PassOver_Visiting(d) ==
    /\ LooksAt(d) /\ state[d] \in {"visiting", "done"}
    /\ left' = Without(d)
    /\ UNCHANGED <<dependsOn, phase, state, path, cycle, ordered, search>>

PassOver(d) ==
    /\ LooksAt(d) /\ state[d] = "done"
    /\ left' = Without(d)
    /\ UNCHANGED <<dependsOn, phase, state, path, cycle, ordered, search>>

\* Mutant: the cycle is taken to begin where the search began.
Find_WholePath(d) ==
    /\ LooksAt(d) /\ state[d] = "visiting"
    /\ cycle' = Append(path, d)
    /\ phase' = "refused"
    /\ UNCHANGED <<dependsOn, state, path, left, ordered, search>>

\* A dependency that is being visited closes a cycle, and load_dag() raises.
Find(d) ==
    /\ LooksAt(d) /\ state[d] = "visiting"
    /\ \E k \in 1..Len(path) :
         path[k] = d /\ cycle' = Append(SubSeq(path, k, Len(path)), d)
    /\ phase' = "refused"
    /\ UNCHANGED <<dependsOn, state, path, left, ordered, search>>

\* Mutant: a task left is not marked.
Leave_Unmarked ==
    /\ phase = "detect" /\ path # << >> /\ left[Len(path)] = {}
    /\ state' = [state EXCEPT ![path[Len(path)]] = "unvisited"]
    /\ path' = SubSeq(path, 1, Len(path) - 1)
    /\ left' = SubSeq(left, 1, Len(path) - 1)
    /\ UNCHANGED <<dependsOn, phase, cycle, ordered, search>>

\* Mutant: the task stays on the path.
Leave_KeepsPath ==
    /\ phase = "detect" /\ path # << >> /\ left[Len(path)] = {}
    /\ state' = [state EXCEPT ![path[Len(path)]] = "done"]
    /\ left' = SubSeq(left, 1, Len(path) - 1)
    /\ UNCHANGED <<dependsOn, phase, path, cycle, ordered, search>>

\* visit() returns.
Leave ==
    /\ phase = "detect" /\ path # << >> /\ left[Len(path)] = {}
    /\ state' = [state EXCEPT ![path[Len(path)]] = "done"]
    /\ path' = SubSeq(path, 1, Len(path) - 1)
    /\ left' = SubSeq(left, 1, Len(path) - 1)
    /\ UNCHANGED <<dependsOn, phase, cycle, ordered, search>>

Accept ==
    /\ phase = "detect" /\ path = << >> /\ \A t \in Task : state[t] = "done"
    /\ phase' = "order"
    /\ UNCHANGED <<dependsOn, detection, ordered, search>>

-----------------------------------------------------------------------------
(* _topological_order() *)

Ordered == {ordered[k] : k \in 1..Len(ordered)}

\* Mutant: a task is ready with its first dependencies missing.
Ready_AnyDependency ==
    {t \in Task \ Ordered : dependsOn[t] = {} \/ dependsOn[t] \cap Ordered # {}}

Ready == {t \in Task \ Ordered : dependsOn[t] \subseteq Ordered}

\* The first of the ready tasks, in the order of the file.
Order(t) ==
    /\ phase = "order"
    /\ t \in Ready /\ \A u \in Ready : Position[t] <= Position[u]
    /\ ordered' = Append(ordered, t)
    /\ UNCHANGED <<dependsOn, phase, detection, search>>

EndOrder ==
    /\ phase = "order" /\ Ordered = Task
    /\ phase' = "ready"
    /\ UNCHANGED <<dependsOn, detection, ordered, search>>

-----------------------------------------------------------------------------
(* _transitive_dependents(): called with any set of failed tasks *)

Search(S) ==
    /\ phase = "ready"
    /\ failed' = S /\ toSkip' = {} /\ queue' = S
    /\ phase' = "search"
    /\ UNCHANGED <<dependsOn, detection, ordered>>

\* Mutant: what is found is not searched from.
Pop_OneLevel(t) ==
    /\ phase = "search" /\ t \in queue
    /\ LET found == {u \in Task \ (toSkip \cup failed) : t \in dependsOn[u]} IN
         /\ toSkip' = toSkip \cup found
         /\ queue' = queue \ {t}
    /\ UNCHANGED <<dependsOn, phase, detection, ordered, failed>>

\* Every task behind t that is not yet found is found, and waits its turn.
Pop(t) ==
    /\ phase = "search" /\ t \in queue
    /\ LET found == {u \in Task \ (toSkip \cup failed) : t \in dependsOn[u]} IN
         /\ toSkip' = toSkip \cup found
         /\ queue' = (queue \ {t}) \cup found
    /\ UNCHANGED <<dependsOn, phase, detection, ordered, failed>>

EndSearch ==
    /\ phase = "search" /\ queue = {}
    /\ phase' = "ready"
    /\ UNCHANGED <<dependsOn, detection, ordered, search>>

-----------------------------------------------------------------------------
Algorithm ==
    \/ \E t \in Task : VisitRoot(t) \/ Visit(t) \/ PassOver(t) \/ Find(t) \/ Order(t) \/ Pop(t)
    \/ Leave \/ Accept \/ EndOrder \/ EndSearch

Next == Algorithm \/ \E S \in SUBSET Task : Search(S)

Spec == Init /\ [][Next]_vars

FairSpec == Spec /\ WF_vars(Algorithm)

-----------------------------------------------------------------------------
(* Properties *)

\* Every variable stays in its range.
TypeOK ==
    /\ dependsOn \in [Task -> SUBSET Task]
    /\ phase \in {"detect", "refused", "order", "ready", "search"}
    /\ state \in [Task -> {"unvisited", "visiting", "done"}]
    /\ path \in Seq(Task) /\ left \in Seq(SUBSET Task) /\ Len(left) = Len(path)
    /\ cycle \in Seq(Task) /\ ordered \in Seq(Task)
    /\ failed \subseteq Task /\ toSkip \subseteq Task /\ queue \subseteq Task

\* No set of tasks waits for itself.
Acyclic(g) == \A S \in SUBSET Task : S # {} => \E t \in S : g[t] \cap S = {}

\* load_dag() lets only acyclic graphs pass: the executor never meets another.
AcceptedIsAcyclic == phase \in {"order", "ready", "search"} => Acyclic(dependsOn)

\* The reported cycle is one: each task depends on the next, and the last is
\* the first.
ReportedIsACycle ==
    phase = "refused" =>
        /\ Len(cycle) > 1 /\ cycle[1] = cycle[Len(cycle)]
        /\ \A k \in 1..(Len(cycle) - 1) : cycle[k + 1] \in dependsOn[cycle[k]]

\* The check for a cycle that _topological_order() makes on its own never
\* fires, and it names every task, after all it depends on.
OrderSound ==
    /\ phase = "order" /\ Ordered # Task => Ready # {}
    /\ \A k \in 1..Len(ordered) :
         dependsOn[ordered[k]] \subseteq {ordered[j] : j \in 1..(k - 1)}
    /\ phase \in {"ready", "search"} => Ordered = Task

\* The tasks that depend on a task of S, through however many others.
Closed(C) == \A t \in Task : dependsOn[t] \cap C # {} => t \in C

TransitiveDependents(S) ==
    {t \in Task \ S : \A C \in SUBSET Task : S \subseteq C /\ Closed(C) => t \in C}

\* The search finds all of them and no other.
SearchExact == phase = "search" /\ queue = {} => toSkip = TransitiveDependents(failed)

\* Every algorithm comes to its end.
Terminates == <>[](phase = "refused") \/ []<>(phase = "ready")

=============================================================================
