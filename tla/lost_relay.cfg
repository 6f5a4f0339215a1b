SPECIFICATION FairSpec
CONSTANTS
  HOURS = 2
  UTC_OFFSET = 0
  Crons <- MCCrons
  BadAnswers = {}
  Faults = {"powerLoss"}
  DebugClient = FALSE
PROPERTIES AlarmTurnsOff
