SPECIFICATION FairSpec
CONSTANTS
  Configs <- MCConfigs
  Image = 1
  DefaultInitial = 2
  DefaultMaximum = 5
  None = None
  MaxEdits = 2
  MaxCommands = 2
CHECK_DEADLOCK FALSE
INVARIANTS
  BuiltFlavorMatches
PROPERTIES
  RemovalIsSafe
  StopStartsNoChild
  ChangesAreBuilt
  BuildsComeToRest
