SPECIFICATION PartsSpec
CONSTANTS
  v0 = v0
  v1 = v1
  v2 = v2
  Values <- MCValues
  Zero = v0
  HasPath = TRUE
  FlashFull = TRUE
  SHORT_PRESS_TIME = 1
  LONG_PRESS_TIME = 3
  HALF = 8
  MaxGap = 2
  MaxSetup = 2
  MaxHeld = 7
  UpdateFaults = {"reset", "powerLoss", "fsLost"}
  Letters = {x}
  Slash = slash
  MaxParam = 4
  MaxCwd = 4
  MaxChunks = 2
  HeapFull = TRUE
  LastYear = 9
  Hand = {0, 35999, 43200, 86399}
INVARIANTS PartsTypeOK PathTypeOK TidyNamesResolve WholeImages OkIsWhole NowCounts
PROPERTIES
  BeginRecovers LongPressOnly
  BootEnds TransferComesToEnd
CHECK_DEADLOCK FALSE
