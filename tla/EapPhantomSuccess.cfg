CHECK_DEADLOCK FALSE
CONSTANTS
  Configs <- TwoRounds
  FrameBound = 7
SPECIFICATION Spec
INVARIANT
  SuccessIsEarned
