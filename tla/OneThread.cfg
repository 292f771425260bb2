SPECIFICATION Spec
CONSTANTS
  Threads = {t1}
  Conns = {c1, c2}
  NoConn = NoConn
  MaxFiles = 2
  MaxPosted = 2
  Clicks = {"START", "FILELIST", "BATCH_LOAD", "SINGLE_LOAD", "SENDING_START", "NEXT", "PREVIOUS"}
INVARIANTS
  TypeOK
  CompletionCoversList
  IndexInList
  FlagsMatchCheckBoxes
PROPERTIES
  WalksItsList
SYMMETRY ConnSymmetry
CHECK_DEADLOCK FALSE
