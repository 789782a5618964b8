CONSTANTS
  Index = {"date", "double", "byte", "sbyte"}
  Name <- MCName
  Number <- MCNumber
  Lines <- MCLines
  Ports = {4850}
  DefaultPort = 4840
  NodeId = {1, 2, 3, 4, 5, 6, 7, 8, 9, 10}
  Given <- MCGiven
  MaxLines = 8
SPECIFICATION Spec
INVARIANT
  SelectionsObeyed
PROPERTY
  TreeUntouchedWhileOn
CHECK_DEADLOCK FALSE
