\* Two projects, two callers at a time, a crash and a deleted session.
SPECIFICATION Spec
SYMMETRY Interchangeable
CONSTANTS
  Slugs = {s1, s2}
  Sessions = {x1, x2}
  Callers = {c1, c2}
  MaxFaults = 1
  MaxDrops = 1
  None = None
CHECK_DEADLOCK FALSE
INVARIANTS
  CurrentIsListed
  EnsureAgrees
  NoStraySession
PROPERTY ForgetsOnlyDeadSessions
