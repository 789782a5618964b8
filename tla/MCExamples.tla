----------------------------- MODULE MCExamples -----------------------------
(* Lines of the example commands for Examples.                              *)
EXTENDS Examples

\* The lowest free ids, in a fixed order: an id comes back as soon as its
\* object is gone.  The first object of a kind, if made alone, may also be given
\* the next id, so that a connection and its group need not come back together.
Order == <<"one", "date", "double", "byte", "sbyte">>
Rank(Q, x) == Cardinality({y \in Q : \E i, j \in DOMAIN Order : i < j /\ Order[i] = y /\ Order[j] = x})
Lowest(Q, S) == [x \in Q |-> CHOOSE i \in S : Cardinality({j \in S : j < i}) = Rank(Q, x)]
MCGiven(Q, S) ==
  IF Cardinality(Q) > Cardinality(S) THEN {}
  ELSE IF Q = {"one"} /\ S = NodeId THEN [Q -> {1, 2}] ELSE {Lowest(Q, S)}

MCNumber ==
  [t \in {"250", "7"} |-> IF t = "250" THEN 250 ELSE 7]
  @@ [t \in {"example", "on", "off", "hello", "disable", "enable", "interval", "set", "restart",
             "all", "date", "double", "byte", "sbyte", "foo", "0", "none"} |-> 0]

MCName == [t \in {"date", "double", "byte", "sbyte"} |-> t]

\* Every command with one, several, all and wrong selections, and without any.
MCLines == {
  <<"example", "on">>,
  <<"example", "off", "example">>,
  <<"example", "hello", "foo">>,
  <<"interval", "250", "all", "disable", "all", "set", "7", "all", "double", "byte", "date",
    "interval", "7", "byte", "date", "double", "set", "250", "sbyte", "enable", "foo", "date",
    "enable", "byte", "disable", "sbyte", "double", "interval", "7", "disable", "byte">>,
  <<"interval", "7", "sbyte", "enable", "double", "date", "set", "250", "date", "byte">>,
  <<"restart">> }

RestartLines == {<<"example", "on">>, <<"disable", "all">>, <<"restart">>}
=============================================================================
