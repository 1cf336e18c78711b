SPECIFICATION Spec
CONSTANTS
  Rows <- MCRows
  Cols <- MCCols
  Cell <- MCCell
  Codes <- MCCodes
  StartBoards <- MCStartBoards
  Target <- MCTarget
  Vd <- MCVd
  OneNA = 4496
  ShiftA = 256
  ShiftB = 8
  Offset = 21
  SA = 1
  VdGnd = FALSE
  FileWords = 200
  Reach = 1390
  N = 2
  Rounds = 2
  MeasOn = FALSE
INVARIANTS
  FrameInv
  WordFitsLevel
  WordFromFile
PROPERTIES
  ImplementsStage
