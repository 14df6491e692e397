SPECIFICATION FairSpec
CONSTANTS
  Threads = {t1}
  Old = t1
  Openings = {t1}
  Sends = {s1}
  PageSize = 3
  MaxRows = 2
  MaxFaults = 0
  None = None
PROPERTY
  PollerCatchesUp
CHECK_DEADLOCK FALSE
