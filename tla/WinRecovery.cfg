\* The process may exit, so the behaviour may end.
CHECK_DEADLOCK FALSE
CONSTANTS
  Batch = 2
  MaxSleeps = 2
  MaxLinks = 1
SPECIFICATION FairSpec
INVARIANTS
  TypeOK
  CleanSlate
  TransportFailureIsNotFatal
PROPERTIES
  OneWakeOneTeardown
  PendingSticks
  SleepIsNoticed
  LinkLossIsNoticed
  Recovers
  Implements
