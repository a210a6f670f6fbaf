SPECIFICATION FairSpec
CONSTANTS
  Nodes = {n1, n2, n3, n4}
  NoNode = NoNode
  MaxWorkers = 2
  SpawnMayFail = TRUE
INVARIANTS
  TypeOK
  WorkersBounded
  NoStrandedNode
PROPERTIES
  QueueDrains
CHECK_DEADLOCK FALSE
