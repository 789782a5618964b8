CONSTANTS
  Port = {1000, 2000}
  Interval = {100, 250}
  DefaultInterval = 100
  DataType = {"byte"}
  Byte = "byte"
  MaxString = 2
  KeyBound = 100
  MaxNodes = 100
  Number <- MCNumber
  Amount <- MCAmount
  Quoted <- MCQuoted
  TypeOf <- MCTypeOf
  Lines <- MCLines
  MaxLines = 3
SPECIFICATION Spec
INVARIANTS
  ConsoleTypeOK
  SelectionExists
PROPERTIES
  AddedNodeSelected
  OnlyRemoveRemoves
  TreeSpec
  LineEventuallyDone
CHECK_DEADLOCK FALSE
