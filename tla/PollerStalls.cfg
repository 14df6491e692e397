\* The page hides and returns while a request is on its way.
SPECIFICATION FairSpec
CONSTANTS
  TimerIds = {t1, t2}
  Intervals = {1750, 4000}
  MaxShows = 1
  Calls = {k1, k2}
  None = None
CHECK_DEADLOCK FALSE
PROPERTY TicksWhileVisible
