SPECIFICATION Spec
CONSTANTS
  MaxDepth = 4
  MaxArgs = 3
  Programs <- MCPrograms
  Layers <- MCLayers
INVARIANTS
  NoCallLeft
PROPERTY Terminates
CHECK_DEADLOCK FALSE
