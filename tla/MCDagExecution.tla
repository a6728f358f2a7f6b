--------------------------- MODULE MCDagExecution ---------------------------
\* Every acyclic graph over four tasks; the second task has two retries.  The
\* run of one of them is watched: two roots, and a task behind each.
EXTENDS RunMonitor, TLC

CONSTANTS t1, t2, t3, t4

MCPosition == t1 :> 1 @@ t2 :> 2 @@ t3 :> 3 @@ t4 :> 4
MCRetries  == t1 :> 0 @@ t2 :> 2 @@ t3 :> 0 @@ t4 :> 1
MCWatched  == {t1 :> {} @@ t2 :> {} @@ t3 :> {t1} @@ t4 :> {t2, t3}}
=============================================================================
