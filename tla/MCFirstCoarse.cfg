SPECIFICATION Spec
CONSTANTS
  Rows <- MCRows
  Cols <- MCCols
  Cell <- MCCell
  Codes <- MCCodes
  StartBoards <- MCStartBoards
  Target <- MCTarget
  Table <- MCTable
  OneNA = 2360
  N = 2
  Rounds = 1
  MeasOn = FALSE
INVARIANTS
  FrameInv
  CountFitsDistance
  BelowOneNA
  OneBurstEach
PROPERTIES
  ImplementsStage
