----------------------- MODULE MCSchedulerOwnership -----------------------
\* Three instances, two of which share a pid, so that a marker can outlive
\* its process and its pid be reused by a scheduler or by a stranger.
EXTENDS SchedulerControl

CONSTANTS p1, p2, p3

MCProc  == {p1, p2, p3}
MCPidOf == [p \in MCProc |-> IF p = p3 THEN 2 ELSE 1]
MCCasts == {{p1, p2}, {p1, p3}}
===========================================================================
