--------------------------- MODULE MCDagScheduling ---------------------------
\* DAG b is triggered by the success of DAG a; a comes first by name, b last by
\* priority.  Where there is a third, c, it has nothing to do with them and comes
\* first by priority.
EXTENDS DagScheduling

CONSTANTS a, b, c

MCUpstreams == [d \in Dag |-> IF d = b THEN {a} ELSE {}]
MCRank      == [d \in Dag |-> CASE d = a -> 1 [] d = b -> 0 [] d = c -> 2]
MCNamePos   == [d \in Dag |-> CASE d = a -> 1 [] d = b -> 2 [] d = c -> 3]

\* What users make of the files: nothing, anything of a, a broken b mended again.
Unedited == [d \in Dag |-> {}]
EditedA  == [d \in Dag |-> IF d = a THEN FileState ELSE {}]
BrokenB  == [d \in Dag |-> IF d = b THEN {"ok", "invalid"} ELSE {}]
==============================================================================
