SPECIFICATION FairSpec
CONSTANTS
  Threads = {t1}
  Conns = {c1, c2}
  NoConn = NoConn
  MaxFiles = 2
  MaxPosted = 1
  Clicks = {"START", "FILELIST", "SINGLE_LOAD", "PREVIOUS"}
PROPERTIES
  BatchEnds
  CompletionReported
CHECK_DEADLOCK FALSE
