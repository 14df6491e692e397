\* A row that is appended while another process drains.
SPECIFICATION Spec
SYMMETRY Interchangeable
CONSTANTS
  Edges = {e1}
  Procs = {p1, p2}
  BatchSize = 2
  MaxFaults = 1
  MaxAlerts = 1
  None = None
  p1 = p1
  p2 = p2
INVARIANT NothingIsLost
