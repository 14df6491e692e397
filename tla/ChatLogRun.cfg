\* Two requests at a time, and a desk that keeps pulling in two processes, one page of
\* one row at a time or two.
SPECIFICATION FairSpec
CONSTANTS
  m1 = m1
  m2 = m2
  p1 = p1
  p2 = p2
  q1 = q1
  Messages = {m1, m2}
  Batches <- TwoBatches
  Pushers = {p1, p2}
  Pullers = {q1, q2}
  PageLimit = 1
  PageCap <- TwoCaps
  MaxPushes = 2
  MaxFaults = 1
CONSTRAINT NamedInOrder
INVARIANTS
  TypeOK
  AcksHold
  NoSkippedRow
PROPERTIES
  RecoveredMeansCaughtUp
  AppendOnly
  KeepsLog
  EventuallyPulled
