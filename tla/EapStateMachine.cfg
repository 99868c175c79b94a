\* The process may exit, so the behaviour may end.
CHECK_DEADLOCK FALSE
CONSTANTS
  Configs <- MCConfigs
  FrameBound = 7
SPECIFICATION FairSpec
INVARIANTS
  TypeOK
  AwaitedAnswerIsWatched
  WatchdogHasTransition
  RetransmissionHasFrame
  FailureHasRetry
  LimitsRespected
  SingleRoundSuccessIsFinal
  OnlineIsMonitored
PROPERTIES
  OnlineSurvives
  SilenceSettles
