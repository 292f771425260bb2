SPECIFICATION Spec
CONSTANTS
  Conns = {c1, c2}
  NoConn = NoConn
  MaxFiles = 0
  MaxImages = 0
  MaxSize = 2
  Clicks = {"START", "MODE_SELECT"}
INVARIANTS
  EveryRequestServed
CHECK_DEADLOCK FALSE
