SPECIFICATION MCSpec
CONSTANTS
  Sessions = {i1, i2}
  Lengths = {9, 18, 27}
  Garbage = {4, 12}
  MaxBuffer = 27
  FrameLengths = {5, 8, 14}
  Most = 14
  Modulus = 64
  Msgs = {m1, m2}
  Tokens = {1, 2}
  Words = {0}
  MaxData = 1
  MaxLength = 2
  MaxCalls = 5
  Peers = {"box", "simulator"}
  Sizes = {0, 1, 2}
  Room = 1
  MaxImages = 3
  Loops = {l1, l2}
  MaxSockets = 4
INVARIANTS
  TypeOK
  LostOnlyByError
  RoomForFrame
  MessageTypeOK
  ReadsBack
  StaysInside
  ExchangeTypeOK
  InStep
  StalledForGood
  AcceptTypeOK
  ThreadHasItsConnection
PROPERTIES
  ReceivesLikeSession
  HandLoadedArrives
CHECK_DEADLOCK FALSE
