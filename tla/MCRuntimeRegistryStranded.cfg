SPECIFICATION Spec
CONSTANTS
  Envs = {e1, e2, e3}
  Addrs = {a1, a2}
  Ops = {o1, o2, o3}
  Runtimes = {r1, r2, r3}
  None = None
  SpawnMayFail = TRUE
PROPERTY
  NextAcquireReleasesRetired
CHECK_DEADLOCK FALSE
