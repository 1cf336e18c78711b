SPECIFICATION Spec
CONSTANTS
  NBatches = 17
  Files <- MCTables
  Designs <- MCDesigns
  Torn = Torn
  Faults = 2
INVARIANTS
  RemoteInv
  FailureIsLocal
  OneBinEach
  WordFitsBin
