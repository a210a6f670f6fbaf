SPECIFICATION Spec
CONSTANTS
  Nodes = {n1, n2}
  NoNode = NoNode
  MaxWorkers = 2
  SpawnMayFail = FALSE
SYMMETRY NodeSymmetry
INVARIANT
  OneWorkerPerOutstandingItem
CHECK_DEADLOCK FALSE
