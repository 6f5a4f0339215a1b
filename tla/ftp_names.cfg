SPECIFICATION FtpSpec
CONSTANTS
  root = root
  a = a
  b = b
  none = none
  Names <- TwoNames
  Root = root
  None = none
  Commands <- NameCommands
  Polite = FALSE
  FsFull = TRUE
  HeapFull = FALSE
  MaxSize = 1
  MaxKnocks = 1
SYMMETRY Alike
INVARIANT OwnLogin
PROPERTY OnlyNamedChanges
