---------------------------- MODULE MCDagRegistry ----------------------------
(* One DAG name declared by two files, two registrars and a run of it. *)
EXTENDS DagRegistry, TLC

CONSTANTS r1, r2

MCSymmetry == Permutations({r1, r2})
==============================================================================
