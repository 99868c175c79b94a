\* A job is the end of a behaviour.
CHECK_DEADLOCK FALSE
CONSTANTS
  Box <- ToyBox
INIT Init
NEXT Next
PROPERTIES
  DigestsAgree
  FieldsSurvive
  SettingsSurvive
  CommandLineWins
  AnswersAreOfTheInterface
