SPECIFICATION RenameSpec
CONSTANTS
  Paths <- MCPaths
  Initial <- MCInitial
  EditOrder <- MCEditOrder
  MoveOrder <- MCMoveOrder
  MaxFaults = 2
  MaxWrites = 1
CHECK_DEADLOCK FALSE
INVARIANTS
  AllOrNothing
  NoTempLeft
