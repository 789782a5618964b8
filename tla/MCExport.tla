------------------------------ MODULE MCExport ------------------------------
(* Lines, scripts and small widths for Export.                              *)
EXTENDS Export

Words == {"add", "rm", "ch", "wg", "ds", "all", "byte", "sbyte", "bool", "uint64", "date", "string", "wrt",
          "off", "on", "intv", "export", "load", "my.txt", "in.txt", "pubsub.txt", "lost.txt", "//",
          "true", "foo", "'ab'", "'a'", "''", "restart", "0"}
Numbers == (-8 .. 63) \cup {100, 250, 1000, 2000}
MCNumeral == [n \in Numbers |-> IF n = 0 THEN "0" ELSE ToString(n)]
MCNumber == [t \in Words \cup Range(MCNumeral) |->
               IF t \in Words THEN 0 ELSE CHOOSE n \in Numbers : MCNumeral[n] = t]
MCAmount == "-n=2" :> 2
MCQuoted == ("'ab'" :> 2) @@ ("'a'" :> 1) @@ ("''" :> 0)
MCQuotedOf == (2 :> "'ab'") @@ (1 :> "'a'") @@ (0 :> "''")
MCTypeOf == [t \in {"byte", "sbyte", "bool", "uint64", "date"} |-> t]

\* A Byte of 2 bits, an Int16 of 4, an int of 4 and a long of 6.
MCModulus == [t \in {"byte", "sbyte"} |-> 4] @@ [t \in {"int"} |-> 16] @@ [t \in {"uint64", "int64", "long"} |-> 64]

MCScripts ==
  [n \in {"pubsub.txt", "in.txt"} |->
     IF n = "in.txt" THEN << <<"add", "string", "'a'">> >>
     ELSE << <<"//", "add">>, <<"add", "ch", "1000", "wg">>, <<>>, <<"load", "in.txt", "add", "wg", "ds">>, <<"add", "ds">> >>]

\* A quote within the string, and a line end.
MCMisprinted == { << <<"add", "string", "'a'", "foo">> >>, << <<"add", "string", "'a'">>, <<"foo">> >> }

MCLines == {
  <<"add", "ch", "1000", "wg", "ds", "byte", "wrt", "3">>,
  <<"add", "ch", "2000", "wg", "off", "add", "ds", "sbyte", "wrt", "-2", "add", "date", "bool", "wrt", "true">>,
  <<"add", "string", "'ab'">>,
  <<"wrt", "3", "1", "2", "1", "1">>,
  <<"add", "ch", "1000", "wg", "add", "string", "'a'", "wrt", "3", "1", "1", "1", "1">>,
  <<"add", "wg", "intv", "250", "off">>,
  <<"'a'">>,
  <<"add", "ds", "uint64", "wrt", "-2", "add", "bool", "wrt", "foo">>,
  <<"rm", "ds", "1", "1", "1">>,
  <<"rm", "all">>,
  <<"restart">>,
  <<"export", "my.txt">>,
  <<"load", "my.txt">>,
  <<"export", "my.txt", "load", "my.txt">>,
  <<"load", "my.txt", "add", "ch", "2000", "wg">>,
  <<"load">>,
  <<"load", "lost.txt", "add", "ch", "1000">> }
=============================================================================
