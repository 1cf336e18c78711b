SPECIFICATION Spec
CONSTANTS
  Files <- MCFiles
  PulseTable <- MCPulseTable
  VdTable = "Vd"
  NBatches = 2
  Torn = Torn
  Faults = 3
INVARIANT DriverInv
PROPERTIES
  RunsOnFreshData
  PassesWhenEnded
  AllProgrammed
