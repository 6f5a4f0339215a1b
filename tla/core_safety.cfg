SPECIFICATION Spec
CONSTANTS
  HOURS = 2
  UTC_OFFSET = 0
  Crons <- MCCrons
  BadAnswers = {"noField", "badJson", "error"}
  Faults = {"reset", "powerLoss", "midSwitch", "fsLost", "update"}
  DebugClient = TRUE
INVARIANTS TypeOK BelievedOnIsOn OnOnlyAfterAllClear AlarmHonoured
PROPERTIES SafeModeOnlyByButton
