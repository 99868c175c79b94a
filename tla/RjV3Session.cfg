\* The process may exit, so the behaviour may end.
CHECK_DEADLOCK FALSE
CONSTANTS
  Configs <- Supplicants
  Plugins <- PluginOptions
  FrameBound = 6
SPECIFICATION RjFairSpec
INVARIANTS
  SessionTypeOK
  TimersAreOwned
  LeaseWaitHoldsFrame
  HeartbeatHasKey
  FailureEndsSession
  ChallengeIsCurrent
  SupplicantUndisturbed
PROPERTIES
  LeaseWaitEnds
