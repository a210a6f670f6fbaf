SPECIFICATION FairSpec
CONSTANTS
  Envs = {e1, e2, e3}
  Addrs = {a1, a2}
  Ops = {o1, o2}
  Runtimes = {r1, r2, r3}
  None = None
  SpawnMayFail = TRUE
INVARIANTS
  TypeOK
  LeaseKeepsRuntime
  EntryCountsLeases
  EntriesExact
  RuntimeHasOneHolder
PROPERTIES
  RetiredIsDestroyed
CHECK_DEADLOCK FALSE
