------------------------------ MODULE RunTable ------------------------------
(***************************************************************************)
(* What the rows of dag_runs promise to whoever reads them, whoever writes *)
(* them: an id is taken once, by a live process; only while that process   *)
(* lives does its run succeed or fail, and only once it is dead is the run *)
(* called interrupted; a status that is not `running` is the last one.     *)
(* Nothing is said of who writes, when, or how many rows in one statement. *)
(***************************************************************************)
CONSTANT Id

VARIABLES
    status,  \* status[i]: of row i, "none" while there is no such row
    alive    \* alive[i]: the process that owns row i lives

vars == <<status, alive>>

Init ==
    /\ status \in [Id -> {"none", "running"}]
    /\ alive = [i \in Id |-> status[i] = "running"]

Open(i) ==
    /\ status[i] = "none" /\ status'[i] = "running"
    /\ alive'[i]

Complete(i) ==
    /\ status[i] = "running" /\ status'[i] \in {"succeeded", "failed"}
    /\ alive[i] /\ alive'[i]

Interrupt(i) ==
    /\ status[i] = "running" /\ status'[i] = "interrupted"
    /\ ~alive[i] /\ ~alive'[i]

\* The row is left alone; its process may die, and does not come back.
Keep(i) == status'[i] = status[i] /\ (alive'[i] => alive[i])

Next ==
    /\ status' \in [Id -> {"none", "running", "succeeded", "failed", "interrupted"}]
    /\ alive' \in [Id -> BOOLEAN]
    /\ \A i \in Id : Open(i) \/ Complete(i) \/ Interrupt(i) \/ Keep(i)

Spec == Init /\ [][Next]_vars
=============================================================================
