SPECIFICATION Spec
CONSTANTS
  Instances = {i1, i2, i3, i4, i5}
  None = None
SYMMETRY Symmetry
CHECK_DEADLOCK FALSE
INVARIANTS
  ListenerIsOwners
  FailedLoadRemembered
