SPECIFICATION Spec
CONSTANTS
  Rows <- MCRows
  Cols <- MCCols
  Cell <- MCCell
  Codes <- MCCodes
  StartBoards <- MCStartBoards
  N = 2
  Rounds = 2
  MeasOn = TRUE
  VC1 = 50
  VC2 = 40
  VC3 = 30
  VC4 = 20
  TwoUnits = TRUE
INVARIANTS
  FrameInv
  MeasuredAtRest
  LogFits
  OrderFitsLevel
PROPERTIES
  SelectionInterlock
  UnlistedUntouched
  OverIsFinal
  GentleNearGoal
  ImplementsStage
  Termination
