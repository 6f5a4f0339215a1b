SPECIFICATION Spec
CONSTANTS
  HOURS = 2
  UTC_OFFSET = 0
  Crons <- MCCrons
  BadAnswers = {}
  Faults = {"reset"}
  DebugClient = TRUE
PROPERTIES AlarmBlocksSwitchOn
