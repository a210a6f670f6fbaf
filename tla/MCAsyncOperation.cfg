SPECIFICATION FairSpec
CONSTANTS
  Producers = {p1, p2}
  Controller = Controller
  QueueLimit = 1
  MaxEmits = 2
  SpawnMayFail = TRUE
  PushMayFail = TRUE
  EnvMayDie = TRUE
INVARIANTS
  TypeOK
  RefCountExact
  NoUseAfterFree
  NoPushAfterFinalizer
  Bookkeeping
  SettlementIsLast
PROPERTIES
  ImplementsContract
  PromiseSettles
  OperationFreed
CHECK_DEADLOCK FALSE
