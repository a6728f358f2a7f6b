------------------------- MODULE MCStateMigrations -------------------------
\* One process at a time opens the store: what a crash alone can do.
EXTENDS StateMigrations

CONSTANTS p1, r1, r2
============================================================================
