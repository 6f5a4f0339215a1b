SPECIFICATION MSpec
CONSTANTS
  d = d
  e = e
  Names = {d, e}
  Depth = 2
  Bad = bad
SYMMETRY Alike
INVARIANTS ManagerTypeOK ReplyIsDirectory
PROPERTIES DeleteIsExact OnlyUploadsWrite
