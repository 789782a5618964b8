CONSTANTS
  Port = {1000, 2000}
  Interval = {100, 250}
  DefaultInterval = 100
  DataType = {"byte", "sbyte", "bool", "uint64", "date"}
  Byte = "byte"
  MaxString = 2
  KeyBound = 100
  MaxNodes = 100
  UnsignedType = {"byte", "uint64"}
  SignedType = {"sbyte", "int64"}
  Modulus <- MCModulus
  Number <- MCNumber
  Amount <- MCAmount
  Quoted <- MCQuoted
  QuotedOf <- MCQuotedOf
  TypeOf <- MCTypeOf
  Numeral <- MCNumeral
  Lines <- MCLines
  Scripts <- MCScripts
  Exported = "my.txt"
  Leftover = {"foo"}
  Behind = {0, 3}
  Misprinted <- MCMisprinted
  MaxLines = 3
SPECIFICATION ExportSpec
INVARIANTS
  ExportTypeOK
  LoadRebuilds
PROPERTY
  LineEventuallyDone
CHECK_DEADLOCK FALSE
