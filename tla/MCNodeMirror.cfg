CONSTANTS
  Port = {1000}
  Interval = {100, 250}
  DefaultInterval = 100
  DataType = {"byte", "date"}
  Byte = "byte"
  DateTime = "date"
  CurrentTime = 0
  KeyBound = 2
  MaxNodes = 5
  MaxString = 2
  NodeId = {1, 2}
  Offered <- MCOffered
SPECIFICATION Spec
INVARIANTS
  TreeTypeOK
  ParentsExist
  KeysBelowCounter
  StringsContiguous
  MirrorTypeOK
  IdsDistinct
  NothingLeftBehind
  NodesPublished
PROPERTIES
  KeysNotReissued
