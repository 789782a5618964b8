------------------------ MODULE StringDataSetProofs -------------------------
(***************************************************************************)
(* What a String DataSet holds, and what its key frames show, for every     *)
(* alphabet and every string: the safety properties of StringDataSet, and   *)
(* that writeString is one step of the tree.                                *)
(***************************************************************************)
EXTENDS StringDataSet, FiniteSetTheorems, SequenceTheorems, TLAPS

Byte0 == Char \cup {0}

-----------------------------------------------------------------------------
(* The inductive invariant.  The keys are 1 to the counter; the characters  *)
(* up to i are those of the new string, the ones behind it those of the     *)
(* string that was there, and how long that makes it depends on the loop.   *)
Fields == varKeyInc \in 0 .. MaxString /\ chars \in [1 .. varKeyInc -> Byte0]
OldFields == oldKeyInc \in 0 .. MaxString /\ oldChars \in [1 .. oldKeyInc -> Char]
NewText == text \in Texts /\ i \in 0 .. Len(text)
Place == pc \in {"idle", "overwrite", "append", "fill", "shorten"} /\ byHand \in BOOLEAN
Frames == IsFiniteSet(net) /\ Cardinality(net) <= MaxNet
Typed == Fields /\ OldFields /\ NewText /\ Place /\ Frames

Lengths ==
  /\ pc = "overwrite" => varKeyInc = oldKeyInc /\ i <= varKeyInc
  /\ pc = "append" => /\ i <= oldKeyInc => varKeyInc = oldKeyInc
                      /\ i >= oldKeyInc => varKeyInc = i
                      /\ i >= oldKeyInc \/ i = Len(text)
  /\ pc = "fill" => i < Len(text) /\ i >= oldKeyInc /\ varKeyInc = i + 1
  /\ pc = "shorten" => /\ i = Len(text) /\ varKeyInc >= Len(text)
                       /\ varKeyInc <= oldKeyInc \/ varKeyInc = Len(text)

Written ==
  pc # "idle" => \A k \in 1 .. varKeyInc :
    /\ k <= i => chars[k] = text[k]
    /\ k > i /\ pc = "fill" => chars[k] = 0
    /\ k > i /\ pc # "fill" => chars[k] = oldChars[k]
Complete ==
  pc = "idle" => chars \in [1 .. varKeyInc -> Char] /\ (~ byHand => chars = text)

ZeroLast == \A m \in net : m \in Seq(Byte0) /\ \A k \in 1 .. Len(m) - 1 : m[k] # 0

IInv == Typed /\ Lengths /\ Written /\ Complete /\ ZeroLast

-----------------------------------------------------------------------------
(* Sequences.                                                               *)
LEMMA FunctionIsSeq ==
  ASSUME NEW S, NEW n \in Nat, NEW f \in [1 .. n -> S]
  PROVE  f \in Seq(S) /\ Len(f) = n
  <1>1. f \in Seq(S)
    BY SeqDef
  <1>2. DOMAIN f = 1 .. Len(f) /\ Len(f) \in Nat
    BY <1>1, LenProperties
  <1>3. 1 .. n = 1 .. Len(f)
    BY <1>2
  <1> QED
    BY <1>1, <1>2, <1>3

LEMMA NoWrap ==
  ASSUME NEW n \in Nat, n <= 65535
  PROVE  n % UInt16 = n
  BY SMT DEF UInt16

LEMMA TextType ==
  ASSUME NEW t \in Texts
  PROVE  Len(t) \in 0 .. MaxString /\ t \in [1 .. Len(t) -> Char]
  <1>1. PICK n \in 0 .. MaxString : t \in [1 .. n -> Char]
    BY DEF Texts
  <1>2. Len(t) = n
    BY <1>1, FunctionIsSeq, StringOK
  <1> QED
    BY <1>1, <1>2

LEMMA Ranks ==
  ASSUME NEW n \in Nat, NEW k \in 1 .. n
  PROVE  (CHOOSE x \in 1 .. n : Cardinality({y \in 1 .. n : y <= x}) = k) = k
  <1>1. ASSUME NEW x \in 1 .. n
        PROVE  Cardinality({y \in 1 .. n : y <= x}) = x
    <2>1. {y \in 1 .. n : y <= x} = 1 .. x
      OBVIOUS
    <2>2. Cardinality(1 .. x) = x
      BY FS_Interval
    <2> QED
      BY <2>1, <2>2
  <1>2. \A x \in 1 .. n : Cardinality({y \in 1 .. n : y <= x}) = k <=> x = k
    BY <1>1
  <1> QED
    BY <1>2

\* With keys 1 to n the Field number k is the Field k, and what is sampled is chars.
LEMMA KeysInOrder ==
  ASSUME Typed
  PROVE  /\ Len(Keys) = varKeyInc
         /\ \A k \in 1 .. varKeyInc : Keys[k] = k
         /\ Values = chars
  <1>1. varKeyInc \in Nat /\ chars \in [1 .. varKeyInc -> Byte0]
    BY StringOK DEF Typed, Fields
  <1>2. DOMAIN chars = 1 .. varKeyInc
    BY <1>1
  <1>3. Cardinality(DOMAIN chars) = varKeyInc
    BY <1>1, <1>2, FS_Interval
  <1>4. Keys = [k \in 1 .. varKeyInc |-> k]
    <2> DEFINE Ranked(D, n) == [k \in 1 .. n |-> CHOOSE x \in D : Cardinality({y \in D : y <= x}) = k]
    <2>0. Keys = Ranked(DOMAIN chars, Cardinality(DOMAIN chars))
      BY Zenon DEF Keys
    <2> HIDE DEF Ranked
    <2>1. Keys = Ranked(1 .. varKeyInc, varKeyInc)
      BY <1>2, <1>3, <2>0, Zenon
    <2> USE DEF Ranked
    <2>2. \A k \in 1 .. varKeyInc :
            (CHOOSE x \in 1 .. varKeyInc : Cardinality({y \in 1 .. varKeyInc : y <= x}) = k) = k
      BY <1>1, Ranks
    <2> QED
      BY <2>1, <2>2, Zenon
  <1>5. Keys \in [1 .. varKeyInc -> Nat] /\ \A k \in 1 .. varKeyInc : Keys[k] = k
    BY <1>1, <1>4
  <1>6. Len(Keys) = varKeyInc
    BY <1>1, <1>5, FunctionIsSeq
  <1>7. Values = [k \in 1 .. varKeyInc |-> chars[k]]
    <2>1. Values = [k \in 1 .. varKeyInc |-> chars[Keys[k]]]
      BY <1>6, Zenon DEF Values
    <2> QED
      BY <1>5, <2>1, Zenon
  <1>8. Values = chars
    BY <1>1, <1>7
  <1> QED
    BY <1>5, <1>6, <1>8

-----------------------------------------------------------------------------
\* The numbers of a typed state.
LEMMA Numbers ==
  ASSUME Typed
  PROVE  /\ MaxString \in Nat /\ MaxString <= 65534
         /\ varKeyInc \in Nat /\ varKeyInc <= MaxString
         /\ oldKeyInc \in Nat /\ oldKeyInc <= MaxString
         /\ Len(text) \in Nat /\ Len(text) <= MaxString
         /\ i \in Nat /\ i <= Len(text)
         /\ text \in [1 .. Len(text) -> Char]
  <1>1. MaxString \in Nat /\ MaxString <= 65534
    BY StringOK
  <1>2. varKeyInc \in Nat /\ varKeyInc <= MaxString /\ oldKeyInc \in Nat /\ oldKeyInc <= MaxString
    BY <1>1 DEF Typed, Fields, OldFields
  <1>3. Len(text) \in 0 .. MaxString /\ text \in [1 .. Len(text) -> Char]
    BY TextType DEF Typed, NewText
  <1>4. i \in 0 .. Len(text)
    BY DEF Typed, NewText
  <1> QED
    BY <1>1, <1>2, <1>3, <1>4

\* The only byte outside Char is 0, and 0 is none of them.
LEMMA Bytes == 0 \notin Char /\ \A b \in Byte0 : b \in Char \/ b = 0
  BY StringOK DEF Byte0

LEMMA InitInv == Init => IInv
  <1> SUFFICES ASSUME Init PROVE IInv
    OBVIOUS
  <1>0. MaxString \in Nat /\ MaxNet \in Nat
    BY StringOK
  <1>1. <<>> \in [1 .. 0 -> Char] /\ <<>> \in [1 .. 0 -> Byte0]
    OBVIOUS
  <1>2. <<>> \in Texts
    <2>1. 0 \in 0 .. MaxString
      BY <1>0
    <2>2. [1 .. 0 -> Char] \in {[1 .. n -> Char] : n \in 0 .. MaxString}
      BY <2>1
    <2> QED
      BY <1>1, <2>2, Zenon DEF Texts
  <1>3. Fields /\ OldFields
    BY <1>0, <1>1 DEF Init, Fields, OldFields
  <1>4. NewText
    BY <1>2 DEF Init, NewText
  <1>5. Frames
    BY <1>0, FS_EmptySet DEF Init, Frames
  <1>6. Place
    BY DEF Init, Place
  <1>7. Complete
    BY <1>1 DEF Init, Complete
  <1>8. Lengths /\ Written /\ ZeroLast
    BY DEF Init, Lengths, Written, ZeroLast
  <1> QED
    BY <1>3, <1>4, <1>5, <1>6, <1>7, <1>8 DEF IInv, Typed

LEMMA InvCall ==
  ASSUME IInv, NEW t \in Texts, Call(t)
  PROVE  IInv'
  <1>1. /\ pc = "idle" /\ pc' = "overwrite" /\ text' = t /\ i' = 0
        /\ oldChars' = chars /\ oldKeyInc' = varKeyInc /\ chars' = chars /\ varKeyInc' = varKeyInc
        /\ byHand' = byHand /\ net' = net
    BY DEF Call
  <1>2. Fields' /\ Frames' /\ ZeroLast' /\ Place'
    BY <1>1 DEF IInv, Typed, Fields, Frames, Place, ZeroLast
  <1>3. OldFields'
    BY <1>1 DEF IInv, Typed, Fields, OldFields, Complete
  <1>4. NewText'
    <2>1. Len(t) \in Nat
      BY TextType, StringOK
    <2> QED
      BY <1>1, <2>1 DEF NewText
  <1>5. varKeyInc \in Nat
    BY Numbers DEF IInv
  <1>6. Lengths' /\ Complete'
    BY <1>1, <1>5 DEF Lengths, Complete
  <1>7. Written'
    BY <1>1, <1>5 DEF Written
  <1> QED
    BY <1>2, <1>3, <1>4, <1>6, <1>7 DEF IInv, Typed

LEMMA InvOverwrite == IInv /\ Overwrite => IInv'
  <1> SUFFICES ASSUME IInv, Overwrite PROVE IInv'
    OBVIOUS
  <1>1. /\ pc = "overwrite" /\ varKeyInc' = varKeyInc /\ text' = text /\ byHand' = byHand
        /\ oldChars' = oldChars /\ oldKeyInc' = oldKeyInc /\ net' = net
    BY DEF Overwrite
  <1>2. OldFields' /\ Frames' /\ ZeroLast'
    BY <1>1 DEF IInv, Typed, OldFields, Frames, ZeroLast
  <1>3. varKeyInc = oldKeyInc /\ i <= varKeyInc
    BY <1>1 DEF IInv, Lengths
  <1>4. Len(Keys) = varKeyInc /\ \A k \in 1 .. varKeyInc : Keys[k] = k
    BY KeysInOrder DEF IInv
  <1>5. chars \in [1 .. varKeyInc -> Byte0]
    BY DEF IInv, Typed, Fields
  <1>6. \A k \in 1 .. varKeyInc : (k <= i => chars[k] = text[k]) /\ (k > i => chars[k] = oldChars[k])
    BY <1>1 DEF IInv, Written
  <1>7. CASE i < varKeyInc /\ i < Len(text)
    <2>1. i + 1 \in 1 .. varKeyInc /\ i + 1 \in 1 .. Len(text)
      BY <1>7, Numbers DEF IInv
    <2>2. chars' = [chars EXCEPT ![i + 1] = text[i + 1]] /\ i' = i + 1 /\ pc' = "overwrite"
      BY <1>1, <1>4, <1>7, <2>1 DEF Overwrite
    <2>3. text[i + 1] \in Byte0
      BY <2>1, Numbers DEF IInv, Byte0
    <2>4. Fields'
      BY <1>1, <1>5, <2>2, <2>3 DEF IInv, Typed, Fields
    <2>5. NewText' /\ Place'
      BY <1>1, <2>1, <2>2, Numbers DEF IInv, Typed, NewText, Place
    <2>6. Lengths' /\ Complete'
      BY <1>1, <1>3, <1>7, <2>2, Numbers DEF IInv, Lengths, Complete
    <2>7. Written'
      <3>1. ASSUME NEW k \in 1 .. varKeyInc
            PROVE  (k <= i + 1 => chars'[k] = text[k]) /\ (k > i + 1 => chars'[k] = oldChars[k])
        <4>1. chars'[k] = IF k = i + 1 THEN text[i + 1] ELSE chars[k]
          BY <1>5, <2>2
        <4>2. i \in Nat
          BY Numbers DEF IInv
        <4> QED
          BY <1>6, <4>1, <4>2
      <3> QED
        BY <1>1, <2>2, <3>1 DEF Written
    <2> QED
      BY <1>2, <2>4, <2>5, <2>6, <2>7 DEF IInv, Typed
  <1>8. CASE ~ (i < varKeyInc /\ i < Len(text))
    <2>1. chars' = chars /\ i' = i /\ pc' = "append"
      BY <1>1, <1>4, <1>8 DEF Overwrite
    <2>2. Fields' /\ NewText' /\ Place'
      BY <1>1, <2>1 DEF IInv, Typed, Fields, NewText, Place
    <2>3. Lengths' /\ Complete'
      BY <1>1, <1>3, <1>8, <2>1, Numbers DEF IInv, Lengths, Complete
    <2>4. Written'
      BY <1>1, <1>6, <2>1 DEF Written
    <2> QED
      BY <1>2, <2>2, <2>3, <2>4 DEF IInv, Typed
  <1> QED
    BY <1>7, <1>8

LEMMA InvAppendField == IInv /\ AppendField => IInv'
  <1> SUFFICES ASSUME IInv, AppendField PROVE IInv'
    OBVIOUS
  <1>1. /\ pc = "append" /\ text' = text /\ i' = i /\ byHand' = byHand
        /\ oldChars' = oldChars /\ oldKeyInc' = oldKeyInc /\ net' = net
    BY DEF AppendField
  <1>2. OldFields' /\ Frames' /\ ZeroLast' /\ NewText'
    BY <1>1 DEF IInv, Typed, OldFields, Frames, ZeroLast, NewText
  <1>3. /\ i <= oldKeyInc => varKeyInc = oldKeyInc
        /\ i >= oldKeyInc => varKeyInc = i
        /\ i >= oldKeyInc \/ i = Len(text)
    BY <1>1 DEF IInv, Lengths
  <1>4. varKeyInc \in Nat /\ chars \in [1 .. varKeyInc -> Byte0]
    BY Numbers DEF IInv, Typed, Fields
  <1>5. \A k \in 1 .. varKeyInc : (k <= i => chars[k] = text[k]) /\ (k > i => chars[k] = oldChars[k])
    BY <1>1 DEF IInv, Written
  <1>6. CASE i < Len(text)
    <2>1. varKeyInc = i /\ i >= oldKeyInc /\ i + 1 \in 1 .. MaxString /\ i + 1 \in Nat /\ i + 1 <= 65535
      BY <1>3, <1>6, Numbers DEF IInv
    <2>a. (i + 1) % UInt16 = i + 1
      BY <2>1, NoWrap
    <2>2. varKeyInc' = i + 1 /\ pc' = "fill"
      <3>1. varKeyInc' = (varKeyInc + 1) % UInt16 /\ pc' = "fill"
        BY <1>6, Zenon DEF AppendField
      <3> QED
        BY <2>1, <2>a, <3>1
    <2>3. chars' = [k \in 1 .. i + 1 |-> IF k = i + 1 THEN 0 ELSE chars[k]]
      <3>1. DOMAIN chars = 1 .. i /\ i + 1 \notin 1 .. i /\ (1 .. i) \cup {i + 1} = 1 .. i + 1
        BY <1>4, <2>1
      <3>2. chars' = [k \in DOMAIN chars \cup {varKeyInc'} |-> IF k = varKeyInc' THEN 0 ELSE chars[k]]
        BY <1>6, <2>2, <3>1, Zenon DEF AppendField
      <3> QED
        BY <2>2, <3>1, <3>2, Zenon
    <2>4. Fields'
      <3>1. \A k \in 1 .. i + 1 : (IF k = i + 1 THEN 0 ELSE chars[k]) \in Byte0
        BY <1>4, <2>1 DEF Byte0
      <3>2. chars' \in [1 .. i + 1 -> Byte0]
        BY <2>3, <3>1
      <3> QED
        BY <2>1, <2>2, <3>2, Numbers DEF Fields, IInv
    <2>5. Place' /\ Complete'
      BY <1>1, <2>2 DEF IInv, Typed, Place, Complete
    <2>6. Lengths'
      BY <1>1, <1>6, <2>1, <2>2 DEF Lengths
    <2>7. Written'
      <3>1. ASSUME NEW k \in 1 .. i + 1
            PROVE  (k <= i => chars'[k] = text[k]) /\ (k > i => chars'[k] = 0)
        <4>1. chars'[k] = IF k = i + 1 THEN 0 ELSE chars[k]
          BY <2>3
        <4> QED
          BY <1>5, <2>1, <4>1, Numbers DEF IInv
      <3> QED
        BY <1>1, <2>2, <3>1 DEF Written
    <2> QED
      BY <1>2, <2>4, <2>5, <2>6, <2>7 DEF IInv, Typed
  <1>7. CASE ~ (i < Len(text))
    <2>1. i = Len(text)
      BY <1>7, Numbers DEF IInv
    <2>2. pc' = "shorten" /\ chars' = chars /\ varKeyInc' = varKeyInc
      BY <1>7 DEF AppendField
    <2>3. Fields' /\ Place' /\ Complete'
      BY <1>1, <2>2 DEF IInv, Typed, Fields, Place, Complete
    <2>4. Lengths'
      BY <1>1, <1>3, <2>1, <2>2, Numbers DEF Lengths, IInv
    <2>5. Written'
      BY <1>1, <1>5, <2>2 DEF Written
    <2> QED
      BY <1>2, <2>3, <2>4, <2>5 DEF IInv, Typed
  <1> QED
    BY <1>6, <1>7

LEMMA InvFill == IInv /\ Fill => IInv'
  <1> SUFFICES ASSUME IInv, Fill PROVE IInv'
    OBVIOUS
  <1>1. /\ pc = "fill" /\ pc' = "append" /\ varKeyInc' = varKeyInc /\ text' = text /\ i' = i + 1
        /\ byHand' = byHand /\ oldChars' = oldChars /\ oldKeyInc' = oldKeyInc /\ net' = net
        /\ chars' = [chars EXCEPT ![varKeyInc] = text[i + 1]]
    BY DEF Fill
  <1>2. OldFields' /\ Frames' /\ ZeroLast' /\ Place' /\ Complete'
    BY <1>1 DEF IInv, Typed, OldFields, Frames, ZeroLast, Place, Complete
  <1>3. varKeyInc = i + 1 /\ i + 1 \in 1 .. Len(text) /\ i >= oldKeyInc
    BY <1>1, Numbers DEF IInv, Lengths
  <1>4. chars \in [1 .. i + 1 -> Byte0] /\ text[i + 1] \in Byte0
    BY <1>3, Numbers DEF IInv, Typed, Fields, Byte0
  <1>5. Fields'
    <2>1. chars' \in [1 .. i + 1 -> Byte0]
      BY <1>1, <1>3, <1>4
    <2> QED
      BY <1>1, <1>3, <2>1 DEF IInv, Typed, Fields
  <1>6. NewText'
    BY <1>1, <1>3, Numbers DEF IInv, Typed, NewText
  <1>7. Lengths'
    BY <1>1, <1>3, Numbers DEF IInv, Lengths
  <1>8. Written'
    <2>1. ASSUME NEW k \in 1 .. i + 1
          PROVE  chars'[k] = text[k]
      <3>1. chars'[k] = IF k = i + 1 THEN text[i + 1] ELSE chars[k]
        BY <1>1, <1>3, <1>4
      <3>2. k <= i => chars[k] = text[k]
        BY <1>1, <1>3 DEF IInv, Written
      <3> QED
        BY <3>1, <3>2, Numbers DEF IInv
    <2>2. i \in Nat
      BY Numbers DEF IInv
    <2> QED
      BY <1>1, <1>3, <2>1, <2>2 DEF Written
  <1> QED
    BY <1>2, <1>5, <1>6, <1>7, <1>8 DEF IInv, Typed

LEMMA InvShorten == IInv /\ Shorten => IInv'
  <1> SUFFICES ASSUME IInv, Shorten PROVE IInv'
    OBVIOUS
  <1>1. /\ pc = "shorten" /\ text' = text /\ i' = i
        /\ oldChars' = oldChars /\ oldKeyInc' = oldKeyInc /\ net' = net
    BY DEF Shorten
  <1>2. OldFields' /\ Frames' /\ ZeroLast' /\ NewText'
    BY <1>1 DEF IInv, Typed, OldFields, Frames, ZeroLast, NewText
  <1>3. i = Len(text) /\ varKeyInc >= Len(text) /\ (varKeyInc <= oldKeyInc \/ varKeyInc = Len(text))
    BY <1>1 DEF IInv, Lengths
  <1>4. varKeyInc \in Nat /\ chars \in [1 .. varKeyInc -> Byte0]
    BY Numbers DEF IInv, Typed, Fields
  <1>5. \A k \in 1 .. varKeyInc : (k <= i => chars[k] = text[k]) /\ (k > i => chars[k] = oldChars[k])
    BY <1>1 DEF IInv, Written
  <1>6. CASE varKeyInc > Len(text)
    <2>1. varKeyInc' = varKeyInc - 1 /\ pc' = "shorten" /\ byHand' = byHand
      BY <1>1, <1>6 DEF Shorten
    <2>2. chars' = [k \in 1 .. varKeyInc - 1 |-> chars[k]]
      <3>1. DOMAIN chars = 1 .. varKeyInc /\ (1 .. varKeyInc) \ {varKeyInc} = 1 .. varKeyInc - 1
        BY <1>4
      <3>2. chars' = [k \in DOMAIN chars \ {varKeyInc} |-> chars[k]]
        BY <1>6, Zenon DEF Shorten, Restrict
      <3> QED
        BY <3>1, <3>2, Zenon
    <2>3. Fields'
      <3>1. chars' \in [1 .. varKeyInc - 1 -> Byte0]
        BY <1>4, <2>2
      <3> QED
        BY <1>6, <2>1, <3>1, Numbers DEF IInv, Fields
    <2>4. Place' /\ Complete'
      BY <2>1 DEF IInv, Typed, Place, Complete
    <2>5. Lengths'
      BY <1>1, <1>3, <1>6, <2>1, Numbers DEF IInv, Lengths
    <2>6. Written'
      BY <1>1, <1>4, <1>5, <2>1, <2>2 DEF Written
    <2> QED
      BY <1>2, <2>3, <2>4, <2>5, <2>6 DEF IInv, Typed
  <1>7. CASE ~ (varKeyInc > Len(text))
    <2>1. varKeyInc = Len(text)
      BY <1>3, <1>7, Numbers DEF IInv
    <2>2. pc' = "idle" /\ byHand' = FALSE /\ chars' = chars /\ varKeyInc' = varKeyInc
      BY <1>7 DEF Shorten
    <2>3. chars = text
      BY <1>3, <1>4, <1>5, <2>1, Numbers DEF IInv
    <2>4. Fields' /\ Place'
      BY <2>2 DEF IInv, Typed, Fields, Place
    <2>5. Lengths' /\ Written'
      BY <2>2 DEF Lengths, Written
    <2>6. Complete'
      BY <1>1, <2>1, <2>2, <2>3, Numbers DEF IInv, Complete
    <2> QED
      BY <1>2, <2>4, <2>5, <2>6 DEF IInv, Typed
  <1> QED
    BY <1>6, <1>7

LEMMA InvWriteValue ==
  ASSUME IInv, NEW k \in DOMAIN chars, NEW c \in Char, WriteValue(k, c)
  PROVE  IInv'
  <1>1. /\ pc = "idle" /\ pc' = pc /\ byHand' = TRUE /\ chars' = [chars EXCEPT ![k] = c]
        /\ varKeyInc' = varKeyInc /\ text' = text /\ i' = i
        /\ oldChars' = oldChars /\ oldKeyInc' = oldKeyInc /\ net' = net
    BY DEF WriteValue
  <1>2. OldFields' /\ Frames' /\ ZeroLast' /\ NewText' /\ Place'
    BY <1>1 DEF IInv, Typed, OldFields, Frames, ZeroLast, NewText, Place
  <1>3. chars' \in [1 .. varKeyInc -> Char]
    BY <1>1 DEF IInv, Complete
  <1>4. Fields'
    BY <1>1, <1>3 DEF IInv, Typed, Fields, Byte0
  <1>5. Lengths' /\ Written' /\ Complete'
    BY <1>1, <1>3 DEF Lengths, Written, Complete
  <1> QED
    BY <1>2, <1>4, <1>5 DEF IInv, Typed

\* Only the last Field can hold a 0.
LEMMA ZeroInChars ==
  ASSUME IInv, NEW k \in 1 .. varKeyInc - 1
  PROVE  chars[k] # 0
  <1>1. varKeyInc \in Nat /\ k \in 1 .. varKeyInc /\ k < varKeyInc
    BY Numbers DEF IInv
  <1>2. CASE pc = "idle"
    BY <1>1, <1>2, Bytes DEF IInv, Complete
  <1>3. CASE pc # "idle" /\ k <= i
    <2>1. chars[k] = text[k] /\ k \in 1 .. Len(text)
      BY <1>1, <1>3, Numbers DEF IInv, Written
    <2> QED
      BY <2>1, Bytes, Numbers DEF IInv
  <1>4. CASE pc # "idle" /\ ~ (k <= i)
    <2>1. pc # "fill" /\ k <= oldKeyInc
      BY <1>1, <1>4, Numbers DEF IInv, Typed, Place, Lengths
    <2>2. chars[k] = oldChars[k]
      BY <1>1, <1>4, <2>1, Numbers DEF IInv, Written
    <2>3. oldChars[k] \in Char
      BY <1>1, <2>1, Numbers DEF IInv, Typed, OldFields
    <2> QED
      BY <2>2, <2>3, Bytes
  <1> QED
    BY <1>2, <1>3, <1>4

LEMMA InvPublish == IInv /\ Publish => IInv'
  <1> SUFFICES ASSUME IInv, Publish PROVE IInv'
    OBVIOUS
  <1>1. /\ net' = net \cup {chars} /\ Cardinality(net') <= MaxNet
        /\ chars' = chars /\ varKeyInc' = varKeyInc /\ text' = text /\ i' = i /\ pc' = pc
        /\ byHand' = byHand /\ oldChars' = oldChars /\ oldKeyInc' = oldKeyInc
    BY KeysInOrder, Zenon DEF IInv, Publish
  <1>2. Fields' /\ OldFields' /\ NewText' /\ Place'
    BY <1>1 DEF IInv, Typed, Fields, OldFields, NewText, Place
  <1>3. Lengths' /\ Complete' /\ Written'
    BY <1>1 DEF IInv, Lengths, Complete, Written
  <1>4. Frames'
    BY <1>1, FS_AddElement DEF IInv, Typed, Frames
  <1>5. ZeroLast'
    <2>1. varKeyInc \in Nat /\ chars \in [1 .. varKeyInc -> Byte0]
      BY Numbers DEF IInv, Typed, Fields
    <2>2. chars \in Seq(Byte0) /\ Len(chars) = varKeyInc
      BY <2>1, FunctionIsSeq
    <2>3. \A k \in 1 .. Len(chars) - 1 : chars[k] # 0
      BY <2>2, ZeroInChars
    <2> QED
      BY <1>1, <2>2, <2>3 DEF IInv, ZeroLast
  <1> QED
    BY <1>2, <1>3, <1>4, <1>5 DEF IInv, Typed

LEMMA InvVanish ==
  ASSUME IInv, NEW m \in net, Vanish(m)
  PROVE  IInv'
  <1>1. /\ net' = net \ {m}
        /\ chars' = chars /\ varKeyInc' = varKeyInc /\ text' = text /\ i' = i /\ pc' = pc
        /\ byHand' = byHand /\ oldChars' = oldChars /\ oldKeyInc' = oldKeyInc
    BY DEF Vanish
  <1>2. Fields' /\ OldFields' /\ NewText' /\ Place'
    BY <1>1 DEF IInv, Typed, Fields, OldFields, NewText, Place
  <1>3. Lengths' /\ Complete' /\ Written' /\ ZeroLast'
    BY <1>1 DEF IInv, Lengths, Complete, Written, ZeroLast
  <1>4. Frames'
    <2>1. IsFiniteSet(net) /\ Cardinality(net) <= MaxNet /\ MaxNet \in Nat
      BY StringOK DEF IInv, Typed, Frames
    <2>2. IsFiniteSet(net') /\ Cardinality(net') <= Cardinality(net)
      BY <1>1, <2>1, FS_Subset
    <2>3. Cardinality(net') \in Nat /\ Cardinality(net) \in Nat
      BY <2>1, <2>2, FS_CardinalityType
    <2> QED
      BY <2>1, <2>2, <2>3 DEF Frames
  <1> QED
    BY <1>2, <1>3, <1>4 DEF IInv, Typed

LEMMA InvIdle == IInv /\ UNCHANGED vars => IInv'
  <1> SUFFICES ASSUME IInv, UNCHANGED vars PROVE IInv'
    OBVIOUS
  <1>1. Fields' /\ OldFields' /\ NewText' /\ Place' /\ Frames'
    BY DEF vars, IInv, Typed, Fields, OldFields, NewText, Place, Frames
  <1>2. Lengths' /\ Written' /\ Complete' /\ ZeroLast'
    BY DEF vars, IInv, Lengths, Written, Complete, ZeroLast
  <1> QED
    BY <1>1, <1>2 DEF IInv, Typed

LEMMA Invariance == Spec => []IInv
  <1>1. IInv /\ [Next]_vars => IInv'
    BY InvCall, InvOverwrite, InvAppendField, InvFill, InvShorten, InvWriteValue, InvPublish, InvVanish,
       InvIdle DEF Next, WriteStep
  <1> QED
    BY InitInv, <1>1, PTL DEF Spec

-----------------------------------------------------------------------------
(* Type correctness: the Fields have the keys 1 to the counter, and the     *)
(* counter, an UA_UInt16 that BranchDataSet::writeString lets run with the  *)
(* characters, never wraps.                                                 *)
THEOREM StringTypes == Spec => []StringTypeOK
  <1>1. IInv => StringTypeOK
    <2> SUFFICES ASSUME IInv PROVE StringTypeOK
      OBVIOUS
    <2>1. chars \in [1 .. varKeyInc -> Byte0] /\ varKeyInc \in 0 .. MaxString
      BY DEF IInv, Typed, Fields
    <2>2. DOMAIN chars = 1 .. varKeyInc /\ 1 .. varKeyInc \subseteq 1 .. MaxString
      BY <2>1, StringOK
    <2>3. chars \in [DOMAIN chars -> Char \cup {0}]
      BY <2>1, <2>2, Zenon DEF Byte0
    <2> QED
      BY <2>1, <2>2, <2>3 DEF StringTypeOK, IInv, Typed, NewText, Place, Frames
  <1> QED
    BY Invariance, <1>1, PTL

(* Whatever the DataSet held before, once BranchDataSet::writeString is     *)
(* through its Fields are the characters of the string and no more.         *)
THEOREM SettledAlways == Spec => []Settled
  <1>1. IInv => Settled
    <2> SUFFICES ASSUME IInv, pc = "idle", ~ byHand PROVE Values = text /\ varKeyInc = Len(text)
      BY DEF Settled
    <2>1. Values = chars /\ chars = text
      BY KeysInOrder DEF IInv, Complete
    <2>2. varKeyInc \in Nat /\ text \in [1 .. varKeyInc -> Byte0]
      BY <2>1, Numbers DEF IInv, Typed, Fields
    <2>3. varKeyInc = Len(text)
      BY <2>2, FunctionIsSeq
    <2> QED
      BY <2>1, <2>3
  <1> QED
    BY Invariance, <1>1, PTL

(* In every key frame that is under way only the last character can be the  *)
(* 0 of a Field that BranchDataSet::addField has just made.                 *)
THEOREM NothingBehindZeroAlways == Spec => []NothingBehindZero
  <1>1. IInv => NothingBehindZero
    BY DEF IInv, ZeroLast, NothingBehindZero
  <1> QED
    BY Invariance, <1>1, PTL

LEMMA Glued ==
  ASSUME NEW S, NEW a \in Seq(S), NEW b \in Seq(S), NEW c \in Seq(S),
         Len(c) = Len(a) + Len(b),
         \A n \in 1 .. Len(c) : c[n] = IF n <= Len(a) THEN a[n] ELSE b[n - Len(a)]
  PROVE  c = a \o b
  <1> DEFINE d == a \o b
  <1>1. d \in Seq(S) /\ Len(d) = Len(a) + Len(b)
    BY ConcatProperties
  <1>2. \A n \in 1 .. Len(a) + Len(b) : d[n] = IF n <= Len(a) THEN a[n] ELSE b[n - Len(a)]
    BY ConcatProperties
  <1> HIDE DEF d
  <1>3. Len(c) = Len(d) /\ \A n \in 1 .. Len(c) : c[n] = d[n]
    BY <1>1, <1>2
  <1>4. c = d
    BY <1>1, <1>3, SeqEqual
  <1> QED
    BY <1>4 DEF d

\* A sequence that agrees with s up to k and with r behind it, up to l.
Splice(c, s, r, k, l) ==
  /\ Len(c) = IF l > k THEN l ELSE k
  /\ \A n \in 1 .. Len(c) : c[n] = IF n <= k THEN s[n] ELSE r[n]

LEMMA Spliced ==
  ASSUME NEW S, NEW s \in Seq(S), NEW r \in Seq(S), NEW c \in Seq(S),
         NEW k \in Nat, k <= Len(s), NEW l \in Nat, l <= Len(r),
         Splice(c, s, r, k, l)
  PROVE  c = SubSeq(s, 1, k) \o SubSeq(r, k + 1, l)
  <1>0. /\ Len(c) = IF l > k THEN l ELSE k
        /\ \A n \in 1 .. Len(c) : c[n] = IF n <= k THEN s[n] ELSE r[n]
    BY DEF Splice
  <1> DEFINE a == SubSeq(s, 1, k)
             b == SubSeq(r, k + 1, l)
  <1>1. a \in Seq(S) /\ Len(a) = k /\ \A n \in 1 .. k : a[n] = s[n]
    <2>1. \A n \in 1 .. k : s[n] \in S
      BY ElementOfSeq, LenProperties
    <2> QED
      BY <2>1, SubSeqProperties
  <1>2. b \in Seq(S) /\ Len(b) = (IF k + 1 <= l THEN l - k ELSE 0)
        /\ \A n \in 1 .. l - k : b[n] = r[k + n]
    <2>1. \A n \in k + 1 .. l : r[n] \in S
      BY ElementOfSeq, LenProperties
    <2> DEFINE j == k + 1
    <2>2. j \in Int /\ l \in Int /\ \A n \in j .. l : r[n] \in S
      BY <2>1
    <2>3. j = k + 1
      OBVIOUS
    <2> HIDE DEF j
    <2>4. /\ SubSeq(r, j, l) \in Seq(S)
          /\ Len(SubSeq(r, j, l)) = IF j <= l THEN l - j + 1 ELSE 0
          /\ \A n \in 1 .. l - j + 1 : SubSeq(r, j, l)[n] = r[j + n - 1]
      BY <2>2, SubSeqProperties
    <2> QED
      BY <2>3, <2>4
  <1> HIDE DEF a, b
  <1>3. Len(a) \in Nat /\ Len(b) \in Nat /\ Len(c) = Len(a) + Len(b)
    BY <1>0, <1>1, <1>2
  <1>4. ASSUME NEW n \in 1 .. Len(c)
        PROVE  c[n] = IF n <= Len(a) THEN a[n] ELSE b[n - Len(a)]
    <2>1. CASE n <= k
      BY <1>0, <1>1, <2>1
    <2>2. CASE ~ (n <= k)
      <3>1. n - k \in 1 .. l - k /\ k + (n - k) = n
        BY <1>0, <1>1, <1>2, <2>2
      <3>2. b[n - k] = r[n] /\ c[n] = r[n]
        BY <1>0, <1>2, <2>2, <3>1
      <3> QED
        BY <1>1, <2>2, <3>2
    <2> QED
      BY <2>1, <2>2
  <1>5. c = a \o b
    BY <1>1, <1>2, <1>3, <1>4, Glued
  <1> QED
    BY <1>5 DEF a, b

LEMMA OldTextIsOld == Typed => OldText = oldChars
  <1> SUFFICES ASSUME Typed PROVE OldText = oldChars
    OBVIOUS
  <1>1. oldKeyInc \in Nat /\ oldChars \in [1 .. oldKeyInc -> Char]
    BY Numbers DEF Typed, OldFields
  <1>2. DOMAIN oldChars = 1 .. oldKeyInc /\ Cardinality(1 .. oldKeyInc) = oldKeyInc
    BY <1>1, FS_Interval
  <1>3. OldText = [k \in 1 .. oldKeyInc |-> oldChars[k]]
    BY <1>2, Zenon DEF OldText
  <1> QED
    BY <1>1, <1>3

\* The three strings as sequences of bytes.
LEMMA Strings ==
  ASSUME IInv
  PROVE  /\ chars \in Seq(Byte0) /\ Len(chars) = varKeyInc
         /\ oldChars \in Seq(Byte0) /\ Len(oldChars) = oldKeyInc
         /\ text \in Seq(Byte0)
  <1>1. varKeyInc \in Nat /\ chars \in [1 .. varKeyInc -> Byte0]
    BY Numbers DEF IInv, Typed, Fields
  <1>2. oldKeyInc \in Nat /\ oldChars \in [1 .. oldKeyInc -> Byte0]
    BY Numbers DEF IInv, Typed, OldFields, Byte0
  <1>3. Len(text) \in Nat /\ text \in [1 .. Len(text) -> Byte0]
    BY Numbers DEF IInv, Byte0
  <1> QED
    BY <1>1, <1>2, <1>3, FunctionIsSeq

\* Three ways to be torn at one place at most.
LEMMA TornInOld ==
  ASSUME NEW s \in Seq(Byte0), NEW r \in Seq(Byte0), NEW c \in Seq(Byte0), NEW k \in 0 .. Len(s),
         Len(c) = IF Len(r) > k THEN Len(r) ELSE k,
         \A n \in 1 .. Len(c) : c[n] = IF n <= k THEN s[n] ELSE r[n]
  PROVE  c \in Tears(r, s)
  <1>1. k \in Nat /\ k <= Len(s) /\ Len(r) \in Nat /\ Len(r) <= Len(r)
    BY LenProperties
  <1>2. Splice(c, s, r, k, Len(r))
    BY DEF Splice
  <1>3. c = SubSeq(s, 1, k) \o SubSeq(r, k + 1, Len(r))
    BY <1>1, <1>2, Spliced
  <1> QED
    BY <1>3, Zenon DEF Tears

LEMMA TornBehindNew ==
  ASSUME NEW s \in Seq(Byte0), NEW r \in Seq(Byte0), NEW c \in Seq(Byte0),
         Len(s) <= Len(c), Len(c) <= Len(r),
         \A n \in 1 .. Len(c) : c[n] = IF n <= Len(s) THEN s[n] ELSE r[n]
  PROVE  c \in Tears(r, s)
  <1> DEFINE k == Len(s)
             l == Len(c)
  <1>1. k \in Nat /\ k <= Len(s) /\ l \in Nat /\ l <= Len(r) /\ Len(r) \in Nat
    BY LenProperties
  <1>2. Splice(c, s, r, k, l)
    BY <1>1 DEF Splice
  <1>3. k = Len(s) /\ l = Len(c)
    OBVIOUS
  <1> HIDE DEF k, l
  <1>4. c = SubSeq(s, 1, k) \o SubSeq(r, k + 1, l)
    BY <1>1, <1>2, Spliced
  <1>5. c = s \o SubSeq(r, Len(s) + 1, l)
    BY <1>3, <1>4, SubSeqFull
  <1>6. l \in Len(s) .. Len(r)
    BY <1>1, <1>3
  <1> QED
    BY <1>5, <1>6, Zenon DEF Tears

LEMMA TornAtZero ==
  ASSUME NEW s \in Seq(Byte0), NEW r \in Seq(Byte0), NEW c \in Seq(Byte0), NEW k \in 0 .. Len(s) - 1,
         k >= Len(r), Len(c) = k + 1,
         \A n \in 1 .. Len(c) : c[n] = IF n <= k THEN s[n] ELSE 0
  PROVE  c \in Tears(r, s)
  <1> DEFINE g == SubSeq(s, 1, k)
             z == <<0>>
  <1>1. k \in Nat /\ k < Len(s)
    BY LenProperties
  <1>2. \A n \in 1 .. k : s[n] \in Byte0
    BY <1>1, ElementOfSeq, LenProperties
  <1>3. g \in Seq(Byte0) /\ Len(g) = k /\ \A n \in 1 .. k : g[n] = s[n]
    BY <1>1, <1>2, SubSeqProperties
  <1>4. z \in Seq(Byte0) /\ Len(z) = 1 /\ z[1] = 0
    BY DEF Byte0
  <1> HIDE DEF g, z
  <1>5. Len(c) = Len(g) + Len(z)
    BY <1>3, <1>4
  <1>6. ASSUME NEW n \in 1 .. Len(c)
        PROVE  c[n] = IF n <= Len(g) THEN g[n] ELSE z[n - Len(g)]
    <2>1. CASE n <= k
      <3>1. n \in 1 .. k /\ n <= Len(g)
        BY <1>1, <1>3, <2>1
      <3>2. c[n] = s[n] /\ g[n] = s[n]
        BY <1>3, <2>1, <3>1
      <3> QED
        BY <3>1, <3>2
    <2>2. CASE ~ (n <= k)
      <3>1. n - Len(g) = 1 /\ ~ (n <= Len(g))
        BY <1>1, <1>3, <2>2
      <3>2. c[n] = 0
        BY <2>2
      <3> QED
        BY <1>4, <3>1, <3>2
    <2> QED
      BY <2>1, <2>2
  <1>7. c = g \o z
    BY <1>3, <1>4, <1>5, <1>6, Glued
  <1>8. k \in {l \in 0 .. Len(s) - 1 : l >= Len(r)}
    OBVIOUS
  <1> QED
    BY <1>7, <1>8, Zenon DEF Tears, g, z

(* Publishing between any two calls of BranchDataSet::writeString sends a   *)
(* text with at most one tear: the new string up to some character and the  *)
(* old one, the rest of it that is left, or a waiting 0 behind it.          *)
THEOREM OneTear == Spec => []TornAtOnePlace
  <1>1. ASSUME IInv, ~ byHand
        PROVE  chars \in Tears(oldChars, text)
    <2>1. /\ chars \in Seq(Byte0) /\ Len(chars) = varKeyInc
          /\ oldChars \in Seq(Byte0) /\ Len(oldChars) = oldKeyInc
          /\ text \in Seq(Byte0)
      BY <1>1, Strings
    <2>2. varKeyInc \in Nat /\ oldKeyInc \in Nat /\ Len(text) \in Nat /\ i \in Nat /\ i <= Len(text)
      BY <1>1, Numbers DEF IInv
    <2>3. CASE pc \in {"overwrite", "append"}
      <3>1. i \in 0 .. Len(text) /\ Len(chars) = IF Len(oldChars) > i THEN Len(oldChars) ELSE i
        BY <1>1, <2>1, <2>2, <2>3 DEF IInv, Lengths
      <3>2. \A n \in 1 .. Len(chars) : chars[n] = IF n <= i THEN text[n] ELSE oldChars[n]
        BY <1>1, <2>1, <2>2, <2>3 DEF IInv, Written
      <3> QED
        BY <2>1, <3>1, <3>2, TornInOld, Zenon
    <2>4. CASE pc = "fill"
      <3>1. i \in 0 .. Len(text) - 1 /\ i >= Len(oldChars) /\ Len(chars) = i + 1
        BY <1>1, <2>1, <2>2, <2>4 DEF IInv, Lengths
      <3>2. \A n \in 1 .. Len(chars) : chars[n] = IF n <= i THEN text[n] ELSE 0
        BY <1>1, <2>1, <2>2, <2>4 DEF IInv, Written
      <3> QED
        BY <2>1, <3>1, <3>2, TornAtZero, Zenon
    <2>5. CASE pc = "shorten" /\ varKeyInc <= oldKeyInc
      <3>1. i = Len(text) /\ Len(text) <= Len(chars) /\ Len(chars) <= Len(oldChars)
        BY <1>1, <2>1, <2>2, <2>5 DEF IInv, Lengths
      <3>2. \A n \in 1 .. Len(chars) : chars[n] = IF n <= Len(text) THEN text[n] ELSE oldChars[n]
        BY <1>1, <2>1, <2>2, <2>5, <3>1 DEF IInv, Written
      <3> QED
        BY <2>1, <3>1, <3>2, TornBehindNew, Zenon
    <2>6. CASE pc = "idle" \/ (pc = "shorten" /\ ~ (varKeyInc <= oldKeyInc))
      <3>1. varKeyInc = Len(text) /\ \A n \in 1 .. Len(chars) : chars[n] = text[n]
        <4>1. CASE pc = "idle"
          BY <1>1, <2>1, <4>1 DEF IInv, Complete
        <4>2. CASE pc = "shorten" /\ ~ (varKeyInc <= oldKeyInc)
          BY <1>1, <2>1, <2>2, <4>2 DEF IInv, Lengths, Written
        <4> QED
          BY <2>6, <4>1, <4>2
      <3>2. \A n \in 1 .. Len(chars) : chars[n] = IF n <= Len(text) THEN text[n] ELSE oldChars[n]
        BY <2>1, <2>2, <3>1
      <3>3. CASE Len(text) <= oldKeyInc
        <4>1. Len(text) <= Len(chars) /\ Len(chars) <= Len(oldChars)
          BY <2>1, <2>2, <3>1, <3>3
        <4> QED
          BY <2>1, <3>2, <4>1, TornBehindNew, Zenon
      <3>4. CASE ~ (Len(text) <= oldKeyInc)
        <4>1. Len(text) \in 0 .. Len(text)
              /\ Len(chars) = IF Len(oldChars) > Len(text) THEN Len(oldChars) ELSE Len(text)
          BY <2>1, <2>2, <3>1, <3>4
        <4> QED
          BY <2>1, <3>2, <4>1, TornInOld, Zenon
      <3> QED
        BY <3>3, <3>4
    <2> QED
      BY <1>1, <2>3, <2>4, <2>5, <2>6 DEF IInv, Typed, Place
  <1>2. IInv => TornAtOnePlace
    <2> SUFFICES ASSUME IInv, ~ byHand PROVE Values \in Tears(OldText, text)
      BY DEF TornAtOnePlace
    <2>1. Values = chars /\ OldText = oldChars
      BY KeysInOrder, OldTextIsOld DEF IInv
    <2> QED
      BY <1>1, <2>1
  <1> QED
    BY Invariance, <1>2, PTL

-----------------------------------------------------------------------------
(* The tree of the refinement: one DataSet p with the Fields of keys.       *)
FieldPaths(ks) == {<<1, 1, 1, k>> : k \in ks}

LEMMA TreeFieldKeys == Tree!FieldKeys(p) = keys
  <1>1. DOMAIN [q \in FieldPaths(keys) |-> "byte"] = FieldPaths(keys)
    OBVIOUS
  <1>2. \A r \in FieldPaths(keys) : Tree!DataSetOf(r) = p
    BY DEF FieldPaths, Tree!DataSetOf, p
  <1>3. {r \in FieldPaths(keys) : Tree!DataSetOf(r) = p} = FieldPaths(keys)
    BY <1>2
  <1>4. {q[4] : q \in FieldPaths(keys)} = keys
    <2>1. ASSUME NEW k \in keys
          PROVE  k \in {q[4] : q \in FieldPaths(keys)}
      <3>1. <<1, 1, 1, k>>[4] = k /\ <<1, 1, 1, k>> \in FieldPaths(keys)
        BY DEF FieldPaths
      <3> QED
        BY <3>1, Zenon
    <2>2. \A q \in FieldPaths(keys) : q[4] \in keys
      BY DEF FieldPaths
    <2> QED
      BY <2>1, <2>2, Zenon
  <1>5. Tree!FieldKeys(p) = {q[4] : q \in {r \in FieldPaths(keys) : Tree!DataSetOf(r) = p}}
    BY <1>1, Zenon DEF Tree!FieldKeys, FieldPaths
  <1> QED
    BY <1>3, <1>4, <1>5

LEMMA TreeLonger ==
  ASSUME Typed, pc # "idle", NEW n \in Nat
  PROVE  /\ Tree!Longer(p, n) = IF n > oldKeyInc THEN n ELSE oldKeyInc
         /\ Tree!Shorter(p, n) = n
  <1>1. inc = oldKeyInc /\ keys = 1 .. oldKeyInc /\ oldKeyInc \in Nat
    BY Numbers DEF inc, keys, Typed, OldFields
  <1>2. Tree!Cardinality(Tree!FieldKeys(p)) = oldKeyInc
    <2>1. \A S : Tree!Cardinality(S) = Cardinality(S)
      BY Zenon DEF Tree!Cardinality, Cardinality
    <2> QED
      BY <1>1, <2>1, TreeFieldKeys, FS_Interval
  <1>3. [d \in {p} |-> [isString |-> TRUE, varKeyInc |-> inc]][p].varKeyInc = oldKeyInc
    BY <1>1
  <1>4. Tree!Longer(p, n) = oldKeyInc + (IF n > oldKeyInc THEN n - oldKeyInc ELSE 0)
    BY <1>2, <1>3, Zenon DEF Tree!Longer
  <1>5. Tree!Longer(p, n) = IF n > oldKeyInc THEN n ELSE oldKeyInc
    BY <1>1, <1>4
  <1>6. Tree!Shorter(p, n) = n
    BY <1>1, <1>5 DEF Tree!Shorter
  <1> QED
    BY <1>5, <1>6

LEMMA LastStep ==
  ASSUME IInv, Shorten, pc' = "idle"
  PROVE  Tree!WriteString(p, Len(text))
  <1> DEFINE n == Len(text)
             old == [q \in FieldPaths(keys) |-> "byte"]
             last == Tree!Shorter(p, n)
             new == {f \in Tree!FieldKeys(p) \cup (oldKeyInc + 1 .. Tree!Longer(p, n)) : f <= last}
             data(m) == [d \in {p} |-> [isString |-> TRUE, varKeyInc |-> m]]
             other == {q \in DOMAIN old : Tree!DataSetOf(q) # p}
  <1>1. pc = "shorten" /\ ~ (varKeyInc > Len(text)) /\ chars' = chars /\ varKeyInc' = varKeyInc
    BY DEF Shorten
  <1>2. n \in Nat /\ varKeyInc = n
    BY <1>1, Numbers DEF IInv, Lengths
  <1>3. inc = oldKeyInc /\ keys = 1 .. oldKeyInc /\ oldKeyInc \in Nat
    BY <1>1, Numbers DEF inc, keys, IInv, Typed, OldFields
  <1>4. inc' = n /\ keys' = 1 .. n
    BY <1>1, <1>2, Numbers DEF inc, keys, IInv, Typed, Fields
  <1>5. last = n /\ Tree!Longer(p, n) = (IF n > oldKeyInc THEN n ELSE oldKeyInc) /\ Tree!FieldKeys(p) = 1 .. oldKeyInc
    BY <1>1, <1>2, <1>3, TreeLonger, TreeFieldKeys DEF IInv
  <1>6. new = 1 .. n
    BY <1>2, <1>3, <1>5
  <1>7. other = {}
    <2>1. DOMAIN old = FieldPaths(keys)
      OBVIOUS
    <2>2. \A q \in FieldPaths(keys) : Tree!DataSetOf(q) = p
      BY DEF FieldPaths, Tree!DataSetOf, p
    <2> QED
      BY <2>1, <2>2
  <1>8. data(inc)[p].varKeyInc = oldKeyInc /\ data(inc)[p].isString
    BY <1>3
  <1>9. data(inc') = [data(inc) EXCEPT ![p].varKeyInc = last]
    BY <1>4, <1>5
  <1>10. [q \in FieldPaths(keys') |-> "byte"]
         = [q \in other \cup {<<p[1], p[2], p[3], f>> : f \in new} |->
              IF q \in DOMAIN old THEN old[q] ELSE "byte"]
    <2>1. {<<p[1], p[2], p[3], f>> : f \in new} = FieldPaths(keys')
      BY <1>4, <1>6 DEF FieldPaths, p
    <2>2. other \cup {<<p[1], p[2], p[3], f>> : f \in new} = FieldPaths(keys')
      BY <1>7, <2>1
    <2>3. \A q : (IF q \in DOMAIN old THEN old[q] ELSE "byte") = "byte"
      OBVIOUS
    <2> QED
      BY <2>2, <2>3
  <1>11. p \in {p}
    OBVIOUS
  <1> QED
    BY <1>8, <1>9, <1>10, <1>11, Zenon DEF Tree!WriteString, FieldPaths

(* BranchDataSet::writeString is WriteString of NodeTree: whatever the      *)
(* server sends in between and however long the two strings are, its steps  *)
(* leave the counter and the keys as they were until the last, which makes  *)
(* of them what the tree's one step does.                                   *)
THEOREM StringIsWrittenInOneStep == Spec => WritesAsOneStep
  <1>1. ASSUME IInv, [Next]_vars, <<inc, keys>>' # <<inc, keys>>
        PROVE  Tree!WriteString(p, Len(text))
    <2>1. CASE Shorten
      <3>1. CASE pc' = "idle"
        BY <1>1, <2>1, <3>1, LastStep
      <3>2. CASE pc' # "idle"
        BY <1>1, <2>1, <3>2 DEF Shorten, inc, keys
      <3> QED
        BY <3>1, <3>2
    <2>2. CASE Overwrite \/ AppendField \/ Fill
      BY <1>1, <2>2 DEF Overwrite, AppendField, Fill, inc, keys
    <2>3. CASE \E t \in Texts : Call(t)
      BY <1>1, <2>3 DEF Call, inc, keys
    <2>4. CASE \E k \in DOMAIN chars, c \in Char : WriteValue(k, c)
      <3>1. PICK k \in DOMAIN chars, c \in Char : WriteValue(k, c)
        BY <2>4
      <3>2. DOMAIN chars' = DOMAIN chars /\ varKeyInc' = varKeyInc /\ pc' = pc /\ oldChars' = oldChars /\ oldKeyInc' = oldKeyInc
        BY <3>1 DEF WriteValue
      <3> QED
        BY <1>1, <3>2, Zenon DEF inc, keys
    <2>5. CASE Publish \/ \E m \in net : Vanish(m)
      BY <1>1, <2>5 DEF Publish, Vanish, inc, keys
    <2>6. CASE UNCHANGED vars
      BY <1>1, <2>6 DEF vars, inc, keys
    <2> QED
      BY <1>1, <2>1, <2>2, <2>3, <2>4, <2>5, <2>6 DEF Next, WriteStep
  <1>2. IInv /\ [Next]_vars => [Tree!WriteString(p, Len(text))]_<<inc, keys>>
    BY <1>1
  <1> QED
    BY Invariance, <1>2, PTL DEF Spec, WritesAsOneStep

=============================================================================
