SPECIFICATION LoadSpec
CONSTANTS
  Tuples <- MCTuples
  Natives <- MCNatives
  Layouts <- MCLayouts
  Exports <- MCExports
  Unset = Unset
CHECK_DEADLOCK FALSE
INVARIANTS
  EntryPolicy
