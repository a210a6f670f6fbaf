SPECIFICATION FairSpec
CONSTANTS
  Promises = {p1, p2}
  Workers = {w1, w2}
  Callers = {c1, c2}
  DrainTurns = 2
  BlindTurns = 1
  MaxReplays = 1
  TerminateThrows = FALSE
CHECK_DEADLOCK FALSE
INVARIANTS
  NoStrandedSettlement
  OwedTeardown
  TeardownLeavesNothing
PROPERTIES
  NoEntryAfterClose
  TeardownsEnd
