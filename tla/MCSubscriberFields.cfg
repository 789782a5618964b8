CONSTANTS
  Messages <- MCMessages
  Byte = "byte"
  WellKnown <- MCWellKnown
  MaxFields = 255
SPECIFICATION Spec
INVARIANT
  EveryFieldPrinted
CHECK_DEADLOCK FALSE
