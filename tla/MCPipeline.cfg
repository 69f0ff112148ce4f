SPECIFICATION FairSpec
CONSTANTS
  RING = 2
  BUFFER = 2
  CPUS = 2
  MaxEvents = 5
INVARIANTS
  TypeOK
  InOrder
  CleanExitComplete
  BoundedLoss
PROPERTIES
  KeepsLog
  StopsWhenTold
CHECK_DEADLOCK FALSE
