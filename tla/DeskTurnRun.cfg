\* Two phone messages, one of them a command, and a terminal that types a text of its
\* own.
SPECIFICATION FairSpec
CONSTANTS
  m1 = m1
  m2 = m2
  t1 = t1
  Phone = {m1, m2}
  Slash = {m2}
  Typed = {t1}
  MaxModels = 2
  ContextRows = 2
  MaxRows = 4
  MaxFaults = 1
  None = None
CHECK_DEADLOCK FALSE
INVARIANTS
  TypeOK
  NothingSkipped
  NoPhoneEcho
  ReplyIsItsOwn
PROPERTY EventuallyMirrored
