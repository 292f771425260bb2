SPECIFICATION MCSpec
CONSTANTS
  Threads = {t1, t2}
  Texts = {x1, x2, x3}
  NoText = NoText
  MaxImages = 2
  MaxPosted = 3
  ShowTextLength = 2
  Spare = 2
  Rows = 6
  Magnifications = {0, 1, 2}
  Leftovers <- Anything
  MaxLines = 8
  FileSpeeds = {20000}
  Typed <- SomeSpeeds
  FileNumbers = {0}
  TypedNumbers = {2, 5}
INVARIANTS
  TypeOK
  TextsHaveOneOwner
  OneTextLostPerPicture
  NeverOlder
  AliveForPatientUser
  TextTypeOK
  LatestInOrder
  SettingsTypeOK
  
  TitleTellsCamera
PROPERTIES
  DrawnSoon
SYMMETRY Symmetry
CHECK_DEADLOCK FALSE
