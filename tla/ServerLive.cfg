SPECIFICATION FairSpec
CONSTANTS
  Conns = {c1}
  NoConn = NoConn
  MaxFiles = 3
  MaxImages = 0
  MaxSize = 2
  Clicks = {"START", "FILELIST", "NEXT", "BATCH_LOAD", "MODE_SELECT", "CLIENT_SEND"}
PROPERTIES
  ServedToTheEnd
CHECK_DEADLOCK FALSE
