SPECIFICATION FairFtp
CONSTANTS
  root = root
  a = a
  b = b
  none = none
  Names <- OneName
  Root = root
  None = none
  Commands <- TransferCommands
  Polite = TRUE
  FsFull = FALSE
  HeapFull = TRUE
  MaxSize = 1
  MaxKnocks = 1
INVARIANTS FtpTypeOK OneReplyEach BufferHeld
PROPERTIES TransferIsWhole  SilentClientFreed TransferEnds
