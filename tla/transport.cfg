SPECIFICATION FairSpec
CONSTANTS
  Node = {master, a, b}
  Joining = {b}
  Master = master
  Backlog = 1
  Fits = 2
  First = 4
  ForgeLimit = 6
  Misses = 2
  Patient = TRUE
INVARIANTS
  TypeOK
  AnswersAwaited
  NoMutualSend
PROPERTIES
  LockReleased
CHECK_DEADLOCK FALSE
