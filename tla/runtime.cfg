CONSTANTS
  IntBits = 5
  MantBits = 2
  Starts <- MCStarts
  Elements <- MCElements
  Ks <- MCKs
  Ns <- MCNs
  Fns <- MCFns
  Preds <- MCPreds
  Xfs <- MCXfs
  Others <- MCOthers
  MaxCalls = 2
SPECIFICATION Spec
CHECK_DEADLOCK FALSE
INVARIANT ForkNeedsTwo
INVARIANT NumbersOrdered
PROPERTY Persists
