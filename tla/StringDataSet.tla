---------------------------- MODULE StringDataSet ---------------------------
(***************************************************************************)
(* One String DataSet while the publisher runs: the input thread writes it  *)
(* character by character (BranchDataSet::writeString), every character is  *)
(* a Byte Field with a variable of its own, and the server thread samples   *)
(* all Fields of the DataSet when the WriterGroup is due, also in between.  *)
(*                                                                         *)
(* A call to the server is one step; the library serialises the calls and   *)
(* the publishing callback.  Key frames are what the subscriber prints, so  *)
(* delta frames are left out.  writeString as the one step NodeTree makes   *)
(* of it is checked by the property WritesAsOneStep.                        *)
(***************************************************************************)
EXTENDS Integers, Sequences, FiniteSets, Functions

CONSTANTS
  Char,       \* the characters, a set of numbers without 0
  MaxString,  \* STRING_SIZE - 1
  MaxNet      \* bound: key frames under way at a time

Texts == UNION {[1 .. n -> Char] : n \in 0 .. MaxString}

ASSUME StringOK == Char \subseteq 1 .. 255 /\ MaxString \in Nat /\ MaxString <= 65534 /\ MaxNet \in Nat

UInt16 == 65536  \* UA_UInt16 varKeyInc wraps

VARIABLES
  chars,      \* key of a Field |-> value of its variable
  varKeyInc,
  text,       \* the string given to writeString
  i,          \* characters of it written
  pc,         \* the loop of writeString that runs
  byHand,     \* wrt changed a character since the last writeString
  oldChars,   \* history: chars and varKeyInc when writeString was called
  oldKeyInc,
  net         \* key frames sent and not yet received

vars == <<chars, varKeyInc, text, i, pc, byHand, oldChars, oldKeyInc, net>>
-----------------------------------------------------------------------------
\* The keys in the order of std::map.
Keys == [k \in 1 .. Cardinality(DOMAIN chars) |->
           CHOOSE x \in DOMAIN chars : Cardinality({y \in DOMAIN chars : y <= x}) = k]
Values == [k \in 1 .. Len(Keys) |-> chars[Keys[k]]]

\* addDatasetString: the DataSet starts without Fields.
Init ==
  /\ chars = <<>> /\ varKeyInc = 0
  /\ text = <<>> /\ i = 0 /\ pc = "idle"
  /\ byHand = FALSE
  /\ oldChars = <<>> /\ oldKeyInc = 0
  /\ net = {}

\* Mutant: i keeps its value.
CallGoingOn(t) ==
  /\ pc = "idle"
  /\ text' = t /\ i' = i
  /\ pc' = "overwrite"
  /\ oldChars' = chars /\ oldKeyInc' = varKeyInc
  /\ UNCHANGED <<chars, varKeyInc, byHand, net>>

Call(t) ==
  /\ pc = "idle"
  /\ text' = t /\ i' = 0
  /\ pc' = "overwrite"
  /\ oldChars' = chars /\ oldKeyInc' = varKeyInc
  /\ UNCHANGED <<chars, varKeyInc, byHand, net>>

\* Mutant: the map is walked from its end.
OverwriteBackwards ==
  /\ pc = "overwrite"
  /\ IF i < Len(Keys) /\ i < Len(text)
     THEN chars' = [chars EXCEPT ![Keys[Len(Keys) - i]] = text[i + 1]] /\ i' = i + 1 /\ pc' = pc
     ELSE chars' = chars /\ i' = i /\ pc' = "append"
  /\ UNCHANGED <<varKeyInc, text, byHand, oldChars, oldKeyInc, net>>

\* while(it != fields.end() && i < strlen(string)), it at the Field number i
Overwrite ==
  /\ pc = "overwrite"
  /\ IF i < Len(Keys) /\ i < Len(text)
     THEN chars' = [chars EXCEPT ![Keys[i + 1]] = text[i + 1]] /\ i' = i + 1 /\ pc' = pc
     ELSE chars' = chars /\ i' = i /\ pc' = "append"
  /\ UNCHANGED <<varKeyInc, text, byHand, oldChars, oldKeyInc, net>>

(* while(i < strlen(string)): addData makes the Field with the value 0,     *)
(* unless the key is in use, and the character follows.                     *)
AppendField ==
  /\ pc = "append"
  /\ IF i < Len(text)
     THEN /\ varKeyInc' = (varKeyInc + 1) % UInt16
          /\ chars' = IF varKeyInc' \in DOMAIN chars THEN chars
                      ELSE [k \in DOMAIN chars \cup {varKeyInc'} |->
                              IF k = varKeyInc' THEN 0 ELSE chars[k]]
          /\ pc' = "fill"
     ELSE /\ pc' = "shorten"
          /\ UNCHANGED <<chars, varKeyInc>>
  /\ UNCHANGED <<text, i, byHand, oldChars, oldKeyInc, net>>

\* Mutant: the character is not written.
FillNothing ==
  /\ pc = "fill"
  /\ i' = i + 1
  /\ pc' = "append"
  /\ UNCHANGED <<chars, varKeyInc, text, byHand, oldChars, oldKeyInc, net>>

Fill ==
  /\ pc = "fill"
  /\ chars' = [chars EXCEPT ![varKeyInc] = text[i + 1]]
  /\ i' = i + 1
  /\ pc' = "append"
  /\ UNCHANGED <<varKeyInc, text, byHand, oldChars, oldKeyInc, net>>

\* Mutant: one Field too many is left.
ShortenLess ==
  /\ pc = "shorten"
  /\ IF varKeyInc > Len(text) + 1
     THEN /\ varKeyInc \in DOMAIN chars
          /\ chars' = Restrict(chars, DOMAIN chars \ {varKeyInc})
          /\ varKeyInc' = varKeyInc - 1
          /\ UNCHANGED <<pc, byHand>>
     ELSE /\ pc' = "idle" /\ byHand' = FALSE
          /\ UNCHANGED <<chars, varKeyInc>>
  /\ UNCHANGED <<text, i, oldChars, oldKeyInc, net>>

\* Mutant: the counter does not follow.
ShortenKeepingCounter ==
  /\ pc = "shorten"
  /\ IF varKeyInc > Len(text)
     THEN /\ varKeyInc \in DOMAIN chars
          /\ chars' = Restrict(chars, DOMAIN chars \ {varKeyInc})
          /\ UNCHANGED <<varKeyInc, pc, byHand>>
     ELSE /\ pc' = "idle" /\ byHand' = FALSE
          /\ UNCHANGED <<chars, varKeyInc>>
  /\ UNCHANGED <<text, i, oldChars, oldKeyInc, net>>

\* while(varKeyInc > strlen(string)): the counter follows a removal that worked.
Shorten ==
  /\ pc = "shorten"
  /\ IF varKeyInc > Len(text)
     THEN /\ varKeyInc \in DOMAIN chars
          /\ chars' = Restrict(chars, DOMAIN chars \ {varKeyInc})
          /\ varKeyInc' = varKeyInc - 1
          /\ UNCHANGED <<pc, byHand>>
     ELSE /\ pc' = "idle" /\ byHand' = FALSE
          /\ UNCHANGED <<chars, varKeyInc>>
  /\ UNCHANGED <<text, i, oldChars, oldKeyInc, net>>

(* wrt on a Field of the DataSet: neither UserInput::writeVariable nor      *)
(* BranchField::writeValue looks at isString.  A 0 written by hand is left  *)
(* out.                                                                     *)
WriteValue(k, c) ==
  /\ pc = "idle"
  /\ k \in DOMAIN chars
  /\ chars' = [chars EXCEPT ![k] = c]
  /\ byHand' = TRUE
  /\ UNCHANGED <<varKeyInc, text, i, pc, oldChars, oldKeyInc, net>>

-----------------------------------------------------------------------------
(* The server's publishing callback, and a network that loses, repeats and  *)
(* reorders.                                                                *)
Publish ==
  /\ Cardinality(net \cup {Values}) <= MaxNet
  /\ net' = net \cup {Values}
  /\ UNCHANGED <<chars, varKeyInc, text, i, pc, byHand, oldChars, oldKeyInc>>

Vanish(m) ==
  /\ net' = net \ {m}
  /\ UNCHANGED <<chars, varKeyInc, text, i, pc, byHand, oldChars, oldKeyInc>>

WriteStep == Overwrite \/ AppendField \/ Fill \/ Shorten

Next ==
  \/ \E t \in Texts : Call(t)
  \/ WriteStep
  \/ \E k \in DOMAIN chars, c \in Char : WriteValue(k, c)
  \/ Publish
  \/ \E m \in net : Vanish(m)

\* The input thread goes on with a string it has begun.
Spec == Init /\ [][Next]_vars /\ WF_vars(WriteStep)

-----------------------------------------------------------------------------
(* Type of the variables.                                                   *)
StringTypeOK ==
  /\ chars \in [DOMAIN chars -> Char \cup {0}]
  /\ DOMAIN chars \subseteq 1 .. MaxString
  /\ varKeyInc \in 0 .. MaxString
  /\ text \in Texts
  /\ i \in 0 .. Len(text)
  /\ pc \in {"idle", "overwrite", "append", "fill", "shorten"}
  /\ byHand \in BOOLEAN
  /\ Cardinality(net) <= MaxNet

(* Between two calls the Fields hold the last string written, one by one    *)
(* and no more, whatever was there before; wrt is the exception.            *)
Settled == pc = "idle" /\ ~ byHand => Values = text /\ varKeyInc = Len(text)

(* What a key frame may show of a string s that replaces r: the first k     *)
(* characters of s, the rest of r or, when all of s is there, a part of it, *)
(* and while s is longer possibly a 0 that still waits for its character.   *)
Tears(r, s) ==
  {SubSeq(s, 1, k) \o SubSeq(r, k + 1, Len(r)) : k \in 0 .. Len(s)}
    \cup {SubSeq(s, 1, k) \o <<0>> : k \in {l \in 0 .. Len(s) - 1 : l >= Len(r)}}
    \cup {s \o SubSeq(r, Len(s) + 1, l) : l \in Len(s) .. Len(r)}

OldText == [k \in 1 .. Cardinality(DOMAIN oldChars) |-> oldChars[k]]

(* A message never shows more than one tear: never a character out of its   *)
(* place, never a mix of three strings.                                     *)
TornAtOnePlace == ~ byHand => Values \in Tears(OldText, text)

(* The 0 of a character that is still missing is always the last of a key   *)
(* frame, so the subscriber's "%s" cuts off nothing that is there.          *)
NothingBehindZero ==
  \A m \in net : \A k \in 1 .. Len(m) - 1 : m[k] # 0

(* A string that was begun is finished: the loop that removes Fields finds  *)
(* each of them.                                                            *)
WriteEnds == pc # "idle" ~> pc = "idle"

-----------------------------------------------------------------------------
(* The same DataSet in the tree: while writeString runs, the tree still has *)
(* the Fields from before.                                                  *)
p == <<1, 1, 1>>
inc == IF pc = "idle" THEN varKeyInc ELSE oldKeyInc
keys == IF pc = "idle" THEN DOMAIN chars ELSE DOMAIN oldChars

Tree == INSTANCE NodeTree WITH
  Port <- {1000}, Interval <- {100}, DefaultInterval <- 100, DataType <- {"byte"}, Byte <- "byte",
  KeyBound <- MaxString, MaxNodes <- MaxString + 3,
  connKeyInc <- 1,
  conns <- [c \in {1} |-> [port |-> 1000, wgKeyInc |-> 1]],
  wgs <- [g \in {<<1, 1>>} |-> [enabled |-> TRUE, interval |-> 100, dtsKeyInc |-> 1]],
  dts <- [d \in {p} |-> [isString |-> TRUE, varKeyInc |-> inc]],
  fields <- [q \in {<<1, 1, 1, k>> : k \in keys} |-> "byte"]

(* The steps of writeString together are the one step WriteString of the    *)
(* tree: keys, counter and number of Fields come out as it says.            *)
WritesAsOneStep == [][Tree!WriteString(p, Len(text))]_<<inc, keys>>
=============================================================================
