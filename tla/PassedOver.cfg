SPECIFICATION Spec
CONSTANTS
  Sessions = {i1}
  Lengths = {9, 18}
  Garbage = {4, 12}
  MaxBuffer = 18
INVARIANTS
  PassedOverIsConnected
CHECK_DEADLOCK FALSE
