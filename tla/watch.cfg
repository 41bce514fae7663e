SPECIFICATION Spec
CONSTANT MaxSaves = 3
INVARIANTS
  OneChild
  SourceClean
  NoOrphanUnlessRaced
PROPERTIES
  LastSaveRuns
  SignalExits
CHECK_DEADLOCK FALSE
