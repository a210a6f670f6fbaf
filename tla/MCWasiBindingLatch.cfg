SPECIFICATION Spec
CONSTANTS
  Promises = {p1}
  Workers = {w1}
  Callers = {c1, c2}
  DrainTurns = 2
  BlindTurns = 1
  MaxReplays = 0
  TerminateThrows = FALSE
PROPERTY CrashDisposalLatched
CHECK_DEADLOCK FALSE
