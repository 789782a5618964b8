CONSTANTS
  Index = {"date", "double", "byte", "sbyte"}
  Name <- MCName
  Number <- MCNumber
  Lines <- RestartLines
  Ports = {4850}
  DefaultPort = 4840
  NodeId = {1, 2, 3, 4, 5, 6, 7, 8, 9, 10}
  Given <- MCGiven
  MaxLines = 4
SPECIFICATION Spec
PROPERTY
  TreeUntouched
CHECK_DEADLOCK FALSE
