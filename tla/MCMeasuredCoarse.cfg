SPECIFICATION Spec
CONSTANTS
  Rows <- MCRows
  Cols <- MCCols
  Cell <- MCCell
  Codes <- MCCodes
  StartBoards <- MCStartBoards
  Target <- MCTarget
  Table <- MCTable
  OneNA = 2360
  N = 2
  Margin = 500
  Rounds = 2
  MeasOn = FALSE
INVARIANTS
  FrameInv
  CountFitsLevel
  OpenOrThere
PROPERTIES
  ImplementsStage
