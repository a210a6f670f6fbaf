SPECIFICATION Spec
CONSTANTS
  Workers = {w1, w2}
  NoWorker = none
  Options = {code, bad, worse, fine}
  Inline = {code}
  Refused = {code, bad, worse}
CHECK_DEADLOCK FALSE
INVARIANTS
  ReportIsWhole
PROPERTIES
  CrashIsReported
