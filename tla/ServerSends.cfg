SPECIFICATION Spec
CONSTANTS
  Conns = {c1, c2}
  NoConn = NoConn
  MaxFiles = 3
  MaxImages = 0
  MaxSize = 2
  Clicks = {"START", "FILELIST", "MODE_SELECT", "CLIENT_SEND"}
INVARIANTS
  ServedAllButLast
PROPERTIES
  WalksItsList
SYMMETRY ConnSymmetry
CHECK_DEADLOCK FALSE
