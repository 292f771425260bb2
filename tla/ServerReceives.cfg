SPECIFICATION Spec
CONSTANTS
  Conns = {c1, c2}
  NoConn = NoConn
  MaxFiles = 0
  MaxImages = 2
  MaxSize = 2
  Clicks = {"START", "MODE_SELECT"}
INVARIANTS
  TypeOK
  OneThreadPerConnection
  AloneSavedInOrder
SYMMETRY ConnSymmetry
CHECK_DEADLOCK FALSE
