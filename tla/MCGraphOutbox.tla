--------------------------- MODULE MCGraphOutbox ---------------------------
\* Instances of GraphOutbox for TLC.  Edges and processes are interchangeable.
EXTENDS GraphOutbox, TLC

CONSTANTS p1, p2

Interchangeable == Permutations(Edges) \cup Permutations(Procs)

\* p1 watches, p2 records and drains.  Where the Hub watches, p1 is alone on the desk, and
\* what fires are handoffs that failed.
InReach ==
  /\ ~OnWatch(p2)
  /\ hubWatches => Idle(p2) /\ overdue = {}
  /\ hubWatches \/ unheard = {}

=============================================================================
