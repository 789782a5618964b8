---------------------------- MODULE MCSubscriber ----------------------------
(* Messages for Subscriber: one DataSet of up to five fields of every mix   *)
(* of types, pairs of short DataSets, a string with a zero inside, and the  *)
(* longest string the buffer has room for.                                  *)
EXTENDS Subscriber

MCWellKnown == {"byte", "int32"}

\* Every field has a value of its own, which tells the fields apart.
FieldsOf(types) == [k \in DOMAIN types |-> [type |-> types[k], value |-> 64 + k]]
TypesUpTo(n) == UNION {[1 .. l -> MCWellKnown \cup {"other"}] : l \in 0 .. n}

Frame(key, fs) == [key |-> key, fields |-> fs]
Message(sets) == [dataset |-> TRUE, header |-> TRUE, sets |-> sets]

OneSet == {Message(<<Frame(TRUE, FieldsOf(t))>>) : t \in TypesUpTo(5)}
TwoSets ==
  {Message(<<Frame(k, FieldsOf(t)), Frame(l, FieldsOf(u))>>) :
     k \in BOOLEAN, l \in BOOLEAN, t \in [1 .. 2 -> MCWellKnown], u \in TypesUpTo(2)}
Cut == Message(<<Frame(TRUE, [k \in 1 .. 4 |-> [type |-> "byte", value |-> IF k = 3 THEN 0 ELSE 64 + k]])>>)
Long == Message(<<Frame(TRUE, [k \in 1 .. 255 |-> [type |-> "byte", value |-> k]])>>)
Refused == {[Cut EXCEPT !.dataset = FALSE], [Cut EXCEPT !.header = FALSE], Message(<<>>)}

MCMessages == OneSet \cup TwoSets \cup {Cut, Long} \cup Refused
=============================================================================
