SPECIFICATION Spec
CONSTANTS
  Producers = {p1, p2}
  Controller = Controller
  QueueLimit = 1
  MaxEmits = 2
  SpawnMayFail = TRUE
  PushMayFail = FALSE
  EnvMayDie = FALSE
SYMMETRY ProducerSymmetry
INVARIANTS
  EventsPrecedeSettlement
CHECK_DEADLOCK FALSE
