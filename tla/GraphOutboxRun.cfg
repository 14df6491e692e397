\* One edge with its rows, two processes whose drains overlap, one of which watches, the
\* drain its alert leaves running, a fault, and the watch of the Hub's desk runner.
SPECIFICATION FairSpec
CONSTANTS
  Edges = {e1}
  Procs = {p1, p2}
  BatchSize = 2
  MaxFaults = 1
  MaxAlerts = 2
  None = None
  p1 = p1
  p2 = p2
CONSTRAINT InReach
INVARIANTS
  OnlyExposedRowsAreLost
  AloneFiresOnce
PROPERTIES
  EventuallyOnHub
  EventuallyAlerted
