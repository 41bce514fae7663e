SPECIFICATION Spec
CONSTANTS
  Fuel = 8
  Programs <- AllPrograms
  Plain <- MCPlain
  Inputs = {"nil", "false", "0"}
INVARIANTS
  AcceptedMeansSame
  PlainIsAccepted
CHECK_DEADLOCK FALSE
