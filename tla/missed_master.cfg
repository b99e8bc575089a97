SPECIFICATION FairSpec
CONSTANTS
  Node = {master, a, b}
  Joining = {a, b}
  Master = master
  Backlog = 3
  Fits = 3
  First = 2
  ForgeLimit = 2
  Misses = 0
  Patient = FALSE
PROPERTIES
  GrabsMissing
CHECK_DEADLOCK FALSE
