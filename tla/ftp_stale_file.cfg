SPECIFICATION FtpSpec
CONSTANTS
  root = root
  a = a
  b = b
  none = none
  Names <- OneName
  Root = root
  None = none
  Commands <- TransferCommands
  Polite = TRUE
  FsFull = FALSE
  HeapFull = FALSE
  MaxSize = 1
  MaxKnocks = 1
INVARIANT RightFile
