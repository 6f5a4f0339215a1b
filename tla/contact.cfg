SPECIFICATION FairSpec
CONSTANTS
  HOURS = 2
  UTC_OFFSET = 0
  Crons <- MCCrons
  BadAnswers = {"noField", "badJson", "error"}
  Faults = {"reset", "fsLost"}
  DebugClient = FALSE
INVARIANTS Mirror
PROPERTIES ContactPolicy MemoryContract SirenOpensContact PollingGoesOn SafeModeReached ContactProgress
