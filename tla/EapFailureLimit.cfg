CHECK_DEADLOCK FALSE
CONSTANTS
  Configs <- Defaults
  FrameBound = 7
SPECIFICATION Spec
INVARIANT
  FailuresInARowLimited
