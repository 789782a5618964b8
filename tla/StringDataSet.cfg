CONSTANTS
  Char = {1, 2}
  MaxString = 3
  MaxNet = 1
SPECIFICATION Spec
INVARIANTS
  StringTypeOK
  Settled
  TornAtOnePlace
  NothingBehindZero
PROPERTIES
  WritesAsOneStep
  WriteEnds
