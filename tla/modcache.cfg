SPECIFICATION Spec
CONSTANTS
  Projects = {p, q}
  Versions = {v1, v2}
  None = None
  Sources = {"a"}
  MaxCommands = 3
  MaxKills = 1
INVARIANTS
  CompleteAtBuild
  RegisteredUnlessDrifted
SYMMETRY Symmetry
CHECK_DEADLOCK FALSE
