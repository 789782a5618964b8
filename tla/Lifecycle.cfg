CONSTANTS
  MaxRuns = 3
  MaxNodes = 2
  MaxSignals = 2
SPECIFICATION Spec
INVARIANTS
  LifecycleTypeOK
  CallsReachServer
  NodesOfThisServer
  OneReader
PROPERTIES
  ExitEnds
  RestartRuns
  SignalEnds
CHECK_DEADLOCK FALSE
