SPECIFICATION FairSpec
CONSTANTS
  i1 = i1
  i2 = i2
  Instances <- MCInstances
  None = None
  MaxExits = 1
CHECK_DEADLOCK FALSE
INVARIANTS
  YieldingPathsStrandNothing
  RetainedIsManaged
  OneSingleton
PROPERTIES
  DisposeSettles
