\* One message typed into an old thread or a draft, rows of others, pages of two.
SPECIFICATION FairSpec
CONSTANTS
  Threads = {t1, t2, t3}
  Old = t1
  Openings = {t1, None}
  Sends = {s1}
  PageSize = 2
  MaxRows = 3
  MaxFaults = 1
  None = None
INVARIANTS
  GapsLieBelowOwnRows
  OncePerThread
  SentTextStays
PROPERTIES
  CatchesUp
  LatestReplyShown
CHECK_DEADLOCK FALSE
