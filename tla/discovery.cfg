SPECIFICATION FairSpec
CONSTANTS
  Node = {master, a, b}
  Master = master
  Running = {master, a, b}
  Backlog = 1
  Traffic = 1
  Budget <- OneStartOneKill
INVARIANTS
  TypeOK
  DoubledByErasing
PROPERTIES
  MasterKept
  Acquaintance
  DeadDropped
