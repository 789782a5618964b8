CONSTANTS
  Messages <- MCMessages
  Byte = "byte"
  WellKnown <- MCWellKnown
  MaxFields = 255
SPECIFICATION Spec
INVARIANTS
  SubscriberTypeOK
  ReportedFaithfully
PROPERTIES
  StopsOnSignal
CHECK_DEADLOCK FALSE
