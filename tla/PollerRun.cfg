\* The page comes back three times; both intervals are asked for at any time.
SPECIFICATION FairSpec
CONSTANTS
  TimerIds = {t1, t2, t3}
  Intervals = {1750, 4000}
  MaxShows = 3
  Calls = {k1, k2}
  None = None
CHECK_DEADLOCK FALSE
INVARIANTS
  TypeOK
  OneLoop
PROPERTY KeepsPolling
