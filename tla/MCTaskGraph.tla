----------------------------- MODULE MCTaskGraph -----------------------------
(* Every graph without self-references over the tasks. *)
EXTENDS TaskGraph

CONSTANTS t1, t2, t3, t4

MCPosition == [t \in Task |-> CASE t = t1 -> 1 [] t = t2 -> 2 [] t = t3 -> 3 [] t = t4 -> 4]
==============================================================================
