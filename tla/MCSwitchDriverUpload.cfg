SPECIFICATION Spec
CONSTANTS
  N = 5
  Max = 2
  Rounds = 2
  Faults = 4
INVARIANT ZeroMeansUploaded
