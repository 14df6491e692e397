\* One message, two hub runners and two desk runners, two faults and a retry.
SPECIFICATION FairSpec
CONSTANTS
  Messages <- OneMessage
  DeskThreads <- OneMessage
  HubRunners = {h1, h2}
  DeskRunners = {d1, d2}
  Phones = {p1}
  HubStale = 1
  DeskStale = 2
  RetryStale = 1
  MaxAge = 3
  MaxFaults = 2
  MaxRetries = 1
  None = None
CHECK_DEADLOCK FALSE
INVARIANTS
  TypeOK
  OneAnswerPerClaim
  SingleAnswerInLease
  AnsweredByItsLane
  ClaimedHasWorker
PROPERTIES
  EventuallySettled
  KeepsPromise
