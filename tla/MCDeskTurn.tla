----------------------------- MODULE MCDeskTurn -----------------------------
\* Instance of DeskTurn for TLC.
EXTENDS DeskTurn

CONSTANTS m1, m2, t1

=============================================================================
