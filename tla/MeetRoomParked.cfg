SPECIFICATION Spec
CONSTANTS
  chair = chair
  h1 = h1
  h2 = h2
  Gotchi = {chair, h1, h2}
  Chair = chair
  Picks <- SomePicks
  MaxProcs = 3
  None = None
CONSTRAINT NotCrossed
CHECK_DEADLOCK FALSE
INVARIANT
  ContinueResumes
