SPECIFICATION FairSpec
CONSTANTS
  Producers = {p1, p2}
  Controller = Controller
  QueueLimit = 1
  MaxEmits = 2
  SpawnMayFail = FALSE
  PushMayFail = TRUE
  EnvMayDie = FALSE
PROPERTIES
  LiveHandleReleased
CHECK_DEADLOCK FALSE
