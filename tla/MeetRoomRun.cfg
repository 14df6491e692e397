SPECIFICATION Spec
CONSTANTS
  chair = chair
  h1 = h1
  h2 = h2
  Gotchi = {chair, h1, h2}
  Chair = chair
  Picks <- SomePicks
  MaxProcs = 3
  None = None
CONSTRAINT InReach
CHECK_DEADLOCK FALSE
INVARIANTS
  TypeOK
  NobodyIsLost
  NobodyIsAskedTwice
  SavedAsLeft
  OneAtATime
