SPECIFICATION Spec
CONSTANTS
  Programs <- MCPrograms
  MaxEdits = 2
INVARIANT KeepsCode
PROPERTIES KeepsComments SettlesSoon
CHECK_DEADLOCK FALSE
