SPECIFICATION Spec
CONSTANTS
  Threads = {t1, t2}
  Conns = {c1, c2, c3}
  NoConn = NoConn
  MaxFiles = 1
  MaxPosted = 2
  Clicks = {"START", "FILELIST", "MODE_SELECT", "CLIENT_SEND"}
INVARIANTS
  OneThread
  StartMeansCompleted
  RequestIntact
SYMMETRY Symmetry
CHECK_DEADLOCK FALSE
