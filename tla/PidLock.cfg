\* Every instance is started once, so the behaviour ends.
CHECK_DEADLOCK FALSE
CONSTANTS
  a = a
  b = b
  c = c
  Procs = {a, b, c}
  Nobody = Nobody
  Digits <- MCDigits
  Platforms = {"posix", "windows"}
  Modes = {"none", "only", "start", "off"}
SPECIFICATION Spec
INVARIANTS
  TypeOK
  SingleInstance
PROPERTIES
  KillHitsHolder
