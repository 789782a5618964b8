-------------------------- MODULE SubscriberProofs --------------------------
(***************************************************************************)
(* The two nested loops of subscriberListen, for every message that fits    *)
(* the buffer: their indices stay inside it, what the inner loop gathers is *)
(* a run of Byte fields, what is printed appears once and in order, and it  *)
(* is what a definition by maximal runs of Bytes says (Faithfulness).       *)
(***************************************************************************)
EXTENDS Subscriber, SequenceTheorems, WellFoundedInduction, TLAPS

Incoming == Messages \cup {Undecoded}
FrameRecord == [key : BOOLEAN, fields : Seq(Field)]

-----------------------------------------------------------------------------
(* The inductive invariant.  j counts DataSets that are there; in both field *)
(* loops there is one at j, and in the inner loop i is inside it or just    *)
(* behind it.                                                               *)
Typed ==
  /\ running \in BOOLEAN
  /\ pc \in {"check", "listen", "sets", "fields", "string", "closed"}
  /\ msg \in Incoming
  /\ j \in 0 .. Len(msg.sets) /\ i \in Nat /\ it \in Nat

Indices ==
  /\ pc = "listen" => j = 0
  /\ pc = "sets" => j <= count
  /\ pc \in {"fields", "string"} => j < count /\ i <= fieldCount + 1
  /\ pc # "string" => it = 0
  /\ i <= MaxFields + 1

(* What is in the buffer while a string is gathered: the values of the it   *)
(* Byte fields in front of i, and there is always room for one more         *)
(* character, the terminating zero included.                                *)
RunInBuffer ==
  pc = "string" =>
    /\ 1 <= it /\ it <= i /\ i <= fieldCount
    /\ DOMAIN buf = 0 .. fieldCount
    /\ \A k \in 0 .. it - 1 :
         fields[i - it + k + 1].type = Byte /\ buf[k] = fields[i - it + k + 1].value

\* What the loops have passed, and nothing else was printed.
Passed(set, k) ==
  /\ pc = "sets" => set <= j
  /\ pc = "fields" => set <= j \/ (set = j + 1 /\ k <= i)
  /\ pc = "string" => set <= j \/ (set = j + 1 /\ k <= i - it)
Behind(e) == e.set \in Nat /\ e.at \in Nat /\ Passed(e.set, e.at)

Printed ==
  /\ \E S : out \in Seq(S)
  /\ pc = "listen" => out = <<>>
  /\ \A n \in DOMAIN out : Behind(out[n])
  /\ PrintedInOrder

IInv == Typed /\ Indices /\ RunInBuffer /\ Printed

-----------------------------------------------------------------------------
(* What arrives.                                                            *)
LEMMA Bounds == MaxFields \in Nat /\ MaxFields < 256
  BY MessagesOK DEF MessagesOK, UByte

LEMMA IncomingType ==
  ASSUME NEW m \in Incoming
  PROVE  /\ m.sets \in Seq(FrameRecord) /\ m.header \in BOOLEAN /\ m.dataset \in BOOLEAN
         /\ \A k \in DOMAIN m.sets : Len(m.sets[k].fields) <= MaxFields
  <1>1. CASE m \in Messages
    BY <1>1, MessagesOK DEF MessagesOK, FrameRecord
  <1>2. CASE m = Undecoded
    <2>1. m.sets = <<>> /\ m.header = FALSE /\ m.dataset = TRUE
      BY <1>2 DEF Undecoded
    <2>2. <<>> \in Seq(FrameRecord) /\ DOMAIN <<>> = {}
      OBVIOUS
    <2> QED
      BY <2>1, <2>2
  <1> QED
    BY <1>1, <1>2 DEF Incoming

LEMMA SetsLength ==
  ASSUME Typed
  PROVE  Len(msg.sets) \in Nat /\ count \in 0 .. Len(msg.sets) /\ j \in Nat
  <1>1. msg.sets \in Seq(FrameRecord) /\ msg.header \in BOOLEAN
    BY IncomingType DEF Typed
  <1>2. Len(msg.sets) \in Nat
    BY <1>1, LenProperties
  <1> QED
    BY <1>1, <1>2, SMT DEF count, Typed

LEMMA FieldsType ==
  ASSUME Typed, j < Len(msg.sets)
  PROVE  /\ fields \in Seq(Field) /\ DOMAIN fields = 1 .. fieldCount
         /\ fieldCount \in Nat /\ fieldCount <= MaxFields
  <1>1. /\ msg.sets \in Seq(FrameRecord)
        /\ \A k \in DOMAIN msg.sets : Len(msg.sets[k].fields) <= MaxFields
    BY IncomingType DEF Typed
  <1>2. DOMAIN msg.sets = 1 .. Len(msg.sets) /\ Len(msg.sets) \in Nat
    BY <1>1, LenProperties
  <1>3. j + 1 \in DOMAIN msg.sets
    BY <1>2, SMT DEF Typed
  <1>4. msg.sets[j + 1] \in FrameRecord
    BY <1>1, <1>3, ElementOfSeq, <1>2
  <1>5. fields \in Seq(Field)
    BY <1>4 DEF FrameRecord, fields
  <1> QED
    BY <1>1, <1>3, <1>5, LenProperties DEF fields, fieldCount

LEMMA NoWrap ==
  ASSUME NEW n \in Nat, n < 256
  PROVE  n % UByte = n
  BY SMT DEF UByte

-----------------------------------------------------------------------------
(* What has been printed.                                                   *)

(* A step that prints nothing keeps the order if no entry falls in front of *)
(* the loops.                                                               *)
LEMMA NothingPrinted ==
  ASSUME Printed, out' = out, pc' # "listen",
         \A d : Behind(d) => Behind(d)'
  PROVE  Printed'
  <1>1. \A n \in DOMAIN out : Behind(out[n])'
    BY DEF Printed
  <1>2. \A n \in DOMAIN out' : Behind(out[n])'
    BY <1>1
  <1>3. PrintedInOrder'
    BY DEF Printed, PrintedInOrder, Precedes
  <1> QED
    BY <1>2, <1>3 DEF Printed

(* An entry that comes after every other and that the loops have passed may *)
(* be printed.                                                              *)
LEMMA OnePrinted ==
  ASSUME Printed, NEW e, out' = Append(out, e), pc' # "listen", Behind(e)',
         \A d : Behind(d) => Behind(d)' /\ Precedes(d, e)
  PROVE  Printed'
  <1>1. PICK S : out \in Seq(S)
    BY DEF Printed
  <1> DEFINE T == S \cup {e}
  <1>2. out \in Seq(T)
    BY <1>1, SeqDef
  <1>3. /\ Append(out, e) \in Seq(T)
        /\ Len(Append(out, e)) = Len(out) + 1
        /\ \A k \in 1 .. Len(out) : Append(out, e)[k] = out[k]
        /\ Append(out, e)[Len(out) + 1] = e
    BY <1>2, AppendProperties
  <1>4. DOMAIN out = 1 .. Len(out) /\ Len(out) \in Nat /\ DOMAIN out' = 1 .. Len(out) + 1
    BY <1>2, <1>3, LenProperties
  <1>5. \A n \in DOMAIN out : out'[n] = out[n] /\ Behind(out[n]) /\ Behind(out[n])' /\ Precedes(out[n], e)
    BY <1>3, <1>4 DEF Printed
  <1>6. \A n \in DOMAIN out' : n \in DOMAIN out \/ (n = Len(out) + 1 /\ out'[n] = e)
    BY <1>3, <1>4
  <1>7. \A n \in DOMAIN out' : Behind(out[n])'
    <2> SUFFICES ASSUME NEW n \in DOMAIN out' PROVE Behind(out[n])'
      OBVIOUS
    <2>1. CASE n \in DOMAIN out
      <3>1. out'[n] = out[n] /\ Behind(out[n])'
        BY <2>1, <1>5
      <3> QED
        BY <3>1
    <2>2. CASE out'[n] = e
      BY <2>2
    <2> QED
      BY <2>1, <2>2, <1>6
  <1>8. PrintedInOrder'
    <2> SUFFICES ASSUME NEW m \in DOMAIN out', NEW n \in DOMAIN out', m < n
                 PROVE  Precedes(out'[m], out'[n])
      BY DEF PrintedInOrder, Precedes
    <2>1. m \in DOMAIN out
      BY <1>4, SMT
    <2>2. CASE n \in DOMAIN out
      BY <2>1, <2>2, <1>5 DEF Printed, PrintedInOrder
    <2>3. CASE out'[n] = e
      BY <2>1, <2>3, <1>5
    <2> QED
      BY <2>2, <2>3, <1>6
  <1> QED
    BY <1>2, <1>3, <1>7, <1>8 DEF Printed

-----------------------------------------------------------------------------
(* The invariant holds at the start, and every step keeps it.               *)
LEMMA InvInit == Init => IInv
  <1> SUFFICES ASSUME Init PROVE IInv
    OBVIOUS
  <1>1. msg \in Incoming /\ msg.sets = <<>> /\ Len(<<>>) = 0
    BY DEF Init, Incoming, Undecoded
  <1>2. Typed
    BY <1>1 DEF Init, Typed
  <1>3. Indices
    BY Bounds DEF Init, Indices
  <1>4. RunInBuffer
    BY DEF Init, RunInBuffer
  <1>5. Printed
    <2>1. out \in Seq({}) /\ DOMAIN out = {}
      BY DEF Init
    <2> QED
      BY <2>1 DEF Init, Printed, PrintedInOrder
  <1> QED
    BY <1>2, <1>3, <1>4, <1>5 DEF IInv

LEMMA InvCheck ==
  ASSUME IInv, Check
  PROVE  IInv'
  <1>1. msg' \in Incoming /\ msg'.sets = <<>> /\ Len(<<>>) = 0
    BY DEF Check, Incoming, Undecoded
  <1>2. Typed'
    BY <1>1 DEF IInv, Check, Typed
  <1>3. Indices'
    BY DEF IInv, Check, Indices
  <1>4. RunInBuffer'
    BY DEF Check, RunInBuffer
  <1>5. Printed'
    <2>1. out' \in Seq({}) /\ DOMAIN out' = {} /\ out' = <<>>
      BY DEF Check
    <2> QED
      BY <2>1 DEF Printed, PrintedInOrder
  <1> QED
    BY <1>2, <1>3, <1>4, <1>5 DEF IInv

\* Steps that only go back to main's loop, or out of it.
LEMMA InvLeave ==
  ASSUME IInv, pc' \in {"check", "closed"}, pc # "string",
         UNCHANGED <<running, msg, j, i, it, out>>
  PROVE  IInv'
  <1>1. Typed'
    BY DEF IInv, Typed
  <1>2. Indices'
    BY DEF IInv, Indices
  <1>3. RunInBuffer'
    BY DEF RunInBuffer
  <1>4. Printed'
    BY NothingPrinted DEF IInv, Behind, Passed
  <1> QED
    BY <1>1, <1>2, <1>3, <1>4 DEF IInv

LEMMA InvReceive ==
  ASSUME IInv, NEW m \in Incoming, Receive(m)
  PROVE  IInv'
  <1>1. m.sets \in Seq(FrameRecord) /\ m.header \in BOOLEAN
    BY IncomingType
  <1>2. Len(m.sets) \in Nat
    BY <1>1, LenProperties
  <1>3. j = 0 /\ j' = 0 /\ msg' = m /\ pc' \in {"check", "sets"} /\ out' = <<>> /\ out = out'
    BY DEF IInv, Indices, Printed, Receive
  <1>4. Typed'
    BY <1>2, <1>3 DEF IInv, Typed, Receive
  <1>5. Indices'
    <2>1. count' \in Nat
      BY <1>1, <1>2, <1>3, SMT DEF count
    <2> QED
      BY <2>1, <1>3 DEF IInv, Indices, Receive
  <1>6. RunInBuffer'
    BY <1>3 DEF RunInBuffer
  <1>7. Printed'
    <2>1. out' \in Seq({}) /\ DOMAIN out' = {} /\ out' = <<>>
      BY <1>3
    <2> QED
      BY <2>1 DEF Printed, PrintedInOrder
  <1> QED
    BY <1>4, <1>5, <1>6, <1>7 DEF IInv

LEMMA InvNextSet ==
  ASSUME IInv, NextSet
  PROVE  IInv'
  <1>1. Len(msg.sets) \in Nat /\ count \in 0 .. Len(msg.sets) /\ j \in Nat /\ j <= count
    BY SetsLength DEF IInv, Indices, NextSet
  <1>2. pc = "sets" /\ UNCHANGED <<running, msg, buf, it, out>> /\ it = 0
    BY DEF NextSet, IInv, Indices
  <1>3. CASE j = count
    BY <1>2, <1>3, InvLeave DEF NextSet
  <1>4. CASE j # count /\ msg.sets[j + 1].key
    <2>1. pc' = "fields" /\ i' = 0 /\ j' = j
      BY <1>4 DEF NextSet
    <2>2. j < count /\ j < Len(msg.sets) /\ count' = count
      BY <1>1, <1>2, <1>4, SMT DEF count
    <2>3. fieldCount' = fieldCount /\ fieldCount \in Nat
      BY <1>2, <2>1, <2>2, FieldsType DEF fieldCount, fields, IInv
    <2>4. Typed'
      BY <1>1, <1>2, <2>1 DEF IInv, Typed
    <2>5. Indices'
      BY <1>2, <2>1, <2>2, <2>3, Bounds DEF Indices
    <2>6. RunInBuffer'
      BY <2>1 DEF RunInBuffer
    <2>7. Printed'
      BY <1>2, <2>1, NothingPrinted DEF IInv, Behind, Passed
    <2> QED
      BY <2>4, <2>5, <2>6, <2>7 DEF IInv
  <1>5. CASE j # count /\ ~ msg.sets[j + 1].key
    <2>1. pc' = pc /\ i' = i /\ j' = j + 1
      BY <1>5 DEF NextSet
    <2>2. j + 1 <= count /\ count' = count
      BY <1>1, <1>2, <1>5 DEF count
    <2>4. Typed'
      BY <1>1, <1>2, <2>1, <2>2, SMT DEF IInv, Typed
    <2>5. Indices'
      BY <1>1, <1>2, <2>1, <2>2 DEF IInv, Indices
    <2>6. RunInBuffer'
      BY <1>2, <2>1 DEF RunInBuffer
    <2>7. Printed'
      <3>1. \A d : Behind(d) => Behind(d)'
        BY <1>1, <1>2, <2>1 DEF Behind, Passed
      <3> QED
        BY <3>1, <1>2, <2>1, NothingPrinted DEF IInv
    <2> QED
      BY <2>4, <2>5, <2>6, <2>7 DEF IInv
  <1> QED
    BY <1>3, <1>4, <1>5

(* What both field loops know of the place they are at.                     *)
LEMMA InFields ==
  ASSUME IInv, pc \in {"fields", "string"}
  PROVE  /\ j \in Nat /\ i \in Nat /\ it \in Nat
         /\ count \in Nat /\ j < count /\ j < Len(msg.sets) /\ Len(msg.sets) \in Nat
         /\ fieldCount \in Nat /\ fieldCount <= MaxFields /\ i <= fieldCount + 1
         /\ fields \in Seq(Field) /\ DOMAIN fields = 1 .. fieldCount
  BY SetsLength, FieldsType DEF IInv, Typed, Indices

(* A step of the loops that stays in the same DataSet sees the same Fields. *)
LEMMA SameFields ==
  ASSUME UNCHANGED <<msg, j>>
  PROVE  fields' = fields /\ fieldCount' = fieldCount /\ count' = count
  BY DEF fields, fieldCount, count

LEMMA InvFieldsDone ==
  ASSUME IInv, NextField, i >= fieldCount
  PROVE  IInv'
  <1>1. /\ pc = "fields" /\ pc' = "sets" /\ j' = j + 1 /\ i' = 0
        /\ UNCHANGED <<running, msg, buf, it, out>>
    BY DEF NextField
  <1>2. /\ j \in Nat /\ j < Len(msg.sets) /\ Len(msg.sets) \in Nat /\ it = 0
        /\ count \in Nat /\ j < count /\ count' = count
    BY <1>1, InFields DEF IInv, Indices, count
  <1>3. Typed'
    BY <1>1, <1>2, SMT DEF IInv, Typed
  <1>4. Indices'
    BY <1>1, <1>2, Bounds DEF Indices
  <1>5. RunInBuffer'
    BY <1>1 DEF RunInBuffer
  <1>6. Printed'
    <2>1. \A d : Behind(d) => Behind(d)'
      BY <1>1, <1>2 DEF Behind, Passed
    <2> QED
      BY <2>1, <1>1, NothingPrinted DEF IInv
  <1> QED
    BY <1>3, <1>4, <1>5, <1>6 DEF IInv

(* The first character of a string.                                         *)
LEMMA InvStringStarts ==
  ASSUME IInv, NextField, ~ (i >= fieldCount), IsByte(i), IsByte(i + 1)
  PROVE  IInv'
  <1>1. /\ pc = "fields" /\ pc' = "string" /\ i' = i + 1 /\ it' = 1
        /\ buf' = [k \in 0 .. fieldCount |-> IF k = 0 THEN fields[i + 1].value ELSE 0]
        /\ UNCHANGED <<running, msg, j, out>>
    BY DEF NextField
  <1>2. /\ j \in Nat /\ i \in Nat /\ j < Len(msg.sets)
        /\ fieldCount \in Nat /\ fieldCount <= MaxFields
    BY <1>1, InFields
  <1>3. fields' = fields /\ fieldCount' = fieldCount /\ count' = count /\ j < count /\ i + 1 <= fieldCount
    BY <1>1, <1>2, SameFields, InFields
  <1>4. Typed'
    BY <1>1, <1>2 DEF IInv, Typed
  <1>5. Indices'
    BY <1>1, <1>2, <1>3, Bounds DEF Indices
  <1>6. RunInBuffer'
    <2>1. DOMAIN buf' = 0 .. fieldCount /\ buf'[0] = fields[i + 1].value
      BY <1>1, <1>2
    <2>2. fields[i + 1].type = Byte
      BY DEF IsByte
    <2>3. i' - it' = i /\ i' \in Nat /\ it' = 1
      BY <1>1, <1>2
    <2>4. \A k \in 0 .. it' - 1 : k = 0 /\ i' - it' + k + 1 = i + 1
      <3>1. 0 .. it' - 1 = {0} /\ i + 0 + 1 = i + 1
        BY <2>3, <1>2
      <3> QED
        BY <3>1, <2>3
    <2>5. \A k \in 0 .. it' - 1 :
            fields[i' - it' + k + 1].type = Byte /\ buf'[k] = fields[i' - it' + k + 1].value
      BY <2>1, <2>2, <2>4
    <2>6. 1 <= it' /\ it' <= i' /\ i' <= fieldCount
      BY <1>1, <1>2, <1>3
    <2> QED
      BY <2>1, <2>5, <2>6, <1>3 DEF RunInBuffer
  <1>7. Printed'
    <2>1. \A d : Behind(d) => Behind(d)'
      BY <1>1, <1>2 DEF Behind, Passed
    <2> QED
      BY <2>1, <1>1, NothingPrinted DEF IInv
  <1> QED
    BY <1>4, <1>5, <1>6, <1>7 DEF IInv

(* A Field printed for itself, or not at all.                               *)
LEMMA InvSingle ==
  ASSUME IInv, NextField, ~ (i >= fieldCount), ~ (IsByte(i) /\ IsByte(i + 1))
  PROVE  IInv'
  <1>1. /\ pc = "fields" /\ pc' = pc /\ i' = i + 1
        /\ UNCHANGED <<running, msg, j, buf, it>>
        /\ out' = out \/ out' = Append(out, Single(j + 1, i + 1, fields[i + 1]))
    BY DEF NextField
  <1>2. /\ j \in Nat /\ i \in Nat /\ j < Len(msg.sets)
        /\ fieldCount \in Nat /\ fieldCount <= MaxFields
    BY <1>1, InFields
  <1>3. fields' = fields /\ fieldCount' = fieldCount /\ count' = count /\ j < count /\ i + 1 <= fieldCount
    BY <1>1, <1>2, SameFields, InFields
  <1>4. Typed'
    BY <1>1, <1>2 DEF IInv, Typed
  <1>5. Indices'
    BY <1>1, <1>2, <1>3, Bounds DEF IInv, Indices
  <1>6. RunInBuffer'
    BY <1>1 DEF RunInBuffer
  <1>7. \A d : Behind(d) => Behind(d)'
    BY <1>1, <1>2 DEF Behind, Passed
  <1>8. CASE out' = out
    <2>1. Printed'
      BY <1>1, <1>7, <1>8, NothingPrinted DEF IInv
    <2> QED
      BY <2>1, <1>4, <1>5, <1>6 DEF IInv
  <1>9. CASE out' = Append(out, Single(j + 1, i + 1, fields[i + 1]))
    <2>1. PICK e : e = Single(j + 1, i + 1, fields[i + 1])
      OBVIOUS
    <2>2. e.set = j + 1 /\ e.at = i + 1
      BY <2>1 DEF Single
    <2>3. Behind(e)'
      BY <2>2, <1>1, <1>2 DEF Behind, Passed
    <2>4. \A d : Behind(d) => Precedes(d, e)
      BY <2>2, <1>1, <1>2 DEF Behind, Passed, Precedes
    <2>5. Printed'
      BY <2>1, <2>3, <2>4, <1>1, <1>7, <1>9, OnePrinted DEF IInv
    <2> QED
      BY <2>5, <1>4, <1>5, <1>6 DEF IInv
  <1> QED
    BY <1>1, <1>8, <1>9

LEMMA InvNextField ==
  ASSUME IInv, NextField
  PROVE  IInv'
  BY InvFieldsDone, InvStringStarts, InvSingle

(* One more character: i and it move together, so i - it stays where the    *)
(* run begins, and it, below fieldCount, does not wrap around.              *)
LEMMA InvNextChar ==
  ASSUME IInv, NextChar
  PROVE  IInv'
  <1>1. /\ pc = "string" /\ pc' = pc /\ i' = i + 1 /\ it' = (it + 1) % UByte
        /\ buf' = [buf EXCEPT ![it] = fields[i + 1].value]
        /\ UNCHANGED <<running, msg, j, out>>
        /\ i < fieldCount /\ fields[i + 1].type = Byte
    BY DEF NextChar, IsByte
  <1>2. /\ j \in Nat /\ i \in Nat /\ it \in Nat /\ count \in Nat /\ j < count
        /\ fieldCount \in Nat /\ fieldCount <= MaxFields
    BY <1>1, InFields
  <1>3. fields' = fields /\ fieldCount' = fieldCount /\ count' = count
    BY <1>1, SameFields
  <1>4. 1 <= it /\ it <= i
    BY <1>1 DEF IInv, RunInBuffer
  <1>5. it' = it + 1
    <2>1. it + 1 \in Nat /\ it + 1 < 256
      BY <1>1, <1>2, <1>4, Bounds
    <2> QED
      BY <1>1, <2>1, NoWrap
  <1>6. Typed'
    BY <1>1, <1>2, <1>5 DEF IInv, Typed
  <1>7. Indices'
    BY <1>1, <1>2, <1>3, Bounds DEF Indices
  <1>8. RunInBuffer'
    <2>1. DOMAIN buf = 0 .. fieldCount /\ it \in 0 .. fieldCount
      BY <1>1, <1>2, <1>4 DEF IInv, RunInBuffer
    <2>2. DOMAIN buf' = 0 .. fieldCount /\ buf'[it] = fields[i + 1].value
      BY <1>1, <2>1
    <2>3. \A k \in 0 .. it - 1 : buf'[k] = buf[k]
      BY <1>1, <1>2, <2>1
    <2>4. i' - it' = i - it
      BY <1>1, <1>2, <1>5
    <2>5. \A k \in 0 .. it' - 1 :
            fields[i' - it' + k + 1].type = Byte /\ buf'[k] = fields[i' - it' + k + 1].value
      <3> SUFFICES ASSUME NEW k \in 0 .. it' - 1
                   PROVE  /\ fields[i - it + k + 1].type = Byte
                          /\ buf'[k] = fields[i - it + k + 1].value
        BY <2>4
      <3>1. CASE k = it
        <4>1. i - it + k + 1 = i + 1
          BY <3>1, <1>2
        <4> QED
          BY <4>1, <3>1, <2>2, <1>1
      <3>2. CASE k \in 0 .. it - 1
        BY <3>2, <2>3, <1>1 DEF IInv, RunInBuffer
      <3> QED
        BY <3>1, <3>2, <1>2, <1>5
    <2>6. 1 <= it' /\ it' <= i' /\ i' <= fieldCount
      BY <1>1, <1>2, <1>4, <1>5
    <2> QED
      BY <2>2, <2>5, <2>6, <1>3 DEF RunInBuffer
  <1>9. Printed'
    <2>1. \A d : Behind(d) => Behind(d)'
      BY <1>1, <1>2, <1>5 DEF Behind, Passed
    <2> QED
      BY <2>1, <1>1, NothingPrinted DEF IInv
  <1> QED
    BY <1>6, <1>7, <1>8, <1>9 DEF IInv

(* The string is printed at the place of its first character, which lies    *)
(* behind everything printed so far.                                        *)
LEMMA InvEndString ==
  ASSUME IInv, EndString
  PROVE  IInv'
  <1> DEFINE chars == CString([buf EXCEPT ![it] = 0])
  <1>1. /\ pc = "string" /\ pc' = "fields" /\ i' = i + 1 /\ it' = 0
        /\ out' = Append(out, Text(j + 1, i - it + 1, chars))
        /\ UNCHANGED <<running, msg, j>>
    BY DEF EndString
  <1>2. /\ j \in Nat /\ i \in Nat /\ it \in Nat /\ count \in Nat /\ j < count
        /\ fieldCount \in Nat /\ fieldCount <= MaxFields
    BY <1>1, InFields
  <1>3. fields' = fields /\ fieldCount' = fieldCount /\ count' = count
    BY <1>1, SameFields
  <1>4. 1 <= it /\ it <= i /\ i <= fieldCount
    BY <1>1 DEF IInv, RunInBuffer
  <1>5. Typed'
    BY <1>1, <1>2 DEF IInv, Typed
  <1>6. Indices'
    BY <1>1, <1>2, <1>3, <1>4, Bounds DEF Indices
  <1>7. RunInBuffer'
    BY <1>1 DEF RunInBuffer
  <1>8. Printed'
    <2>1. PICK e : e = Text(j + 1, i - it + 1, chars)
      OBVIOUS
    <2>2. e.set = j + 1 /\ e.at = i - it + 1
      BY <2>1 DEF Text
    <2>3. Behind(e)'
      BY <2>2, <1>1, <1>2, <1>4 DEF Behind, Passed
    <2>4. \A d : Behind(d) => Precedes(d, e)
      BY <2>2, <1>1, <1>2, <1>4 DEF Behind, Passed, Precedes
    <2>5. \A d : Behind(d) => Behind(d)'
      BY <1>1, <1>2, <1>4 DEF Behind, Passed
    <2> HIDE DEF chars
    <2> QED
      BY <2>1, <2>3, <2>4, <2>5, <1>1, OnePrinted DEF IInv
  <1> QED
    BY <1>5, <1>6, <1>7, <1>8 DEF IInv

LEMMA InvSame ==
  ASSUME IInv, UNCHANGED vars \/ Signal
  PROVE  IInv'
  <1>1. UNCHANGED <<pc, msg, j, i, buf, it, out>> /\ running' \in BOOLEAN
    BY DEF IInv, Typed, vars, Signal
  <1>2. Typed' /\ Indices' /\ RunInBuffer'
    BY <1>1 DEF IInv, Typed, Indices, RunInBuffer, count, fieldCount, fields
  <1>3. Printed'
    BY <1>1 DEF IInv, Printed, PrintedInOrder, Behind, Passed, Precedes
  <1> QED
    BY <1>2, <1>3 DEF IInv

LEMMA InvNext ==
  ASSUME IInv, [Next]_vars
  PROVE  IInv'
  <1>1. CASE Check
    BY <1>1, InvCheck
  <1>2. CASE Timeout
    BY <1>2, InvLeave DEF Timeout
  <1>3. CASE NextSet
    BY <1>3, InvNextSet
  <1>4. CASE NextField
    BY <1>4, InvNextField
  <1>5. CASE NextChar
    BY <1>5, InvNextChar
  <1>6. CASE EndString
    BY <1>6, InvEndString
  <1>7. CASE AllocFails
    BY <1>7, InvLeave DEF AllocFails
  <1>8. CASE \E m \in Incoming : Receive(m)
    BY <1>8, InvReceive
  <1>9. CASE UNCHANGED vars \/ Signal
    BY <1>9, InvSame
  <1> QED
    BY <1>1, <1>2, <1>3, <1>4, <1>5, <1>6, <1>7, <1>8, <1>9 DEF Next, Step, Incoming

LEMMA Invariance == Spec => []IInv
  BY InvInit, InvNext, PTL DEF Spec

-----------------------------------------------------------------------------
(* Strings.  The library's least-number principle takes an operator; stated *)
(* of the order on Nat as a set of pairs, it can be used.                   *)
LEMMA LeastNumber ==
  ASSUME NEW S, S \subseteq Nat, S # {}
  PROVE  \E m \in S : \A n \in S : m <= n
  <1>1. IsWellFoundedOn({p \in Nat \X Nat : p[1] < p[2]}, Nat)
    BY NatLessThanWellFounded DEF OpToRel
  <1>2. PICK R : R = {p \in Nat \X Nat : p[1] < p[2]}
    OBVIOUS
  <1>3. IsWellFoundedOn(R, Nat)
    BY <1>1, <1>2
  <1>4. PICK m \in S : \A n \in S : <<n, m>> \notin R
    BY <1>3, WFMin
  <1>5. ASSUME NEW n \in S
        PROVE  m <= n
    <2>1. <<n, m>> \in Nat \X Nat /\ <<n, m>> \notin R
      BY <1>4
    <2>2. ~ (n < m)
      BY <2>1, <1>2
    <2> QED
      BY <2>2
  <1> QED
    BY <1>4, <1>5

LEMMA RunEnds ==
  ASSUME NEW fs, Len(fs) \in Nat, NEW k \in Nat, NEW e \in k .. Len(fs),
         \A l \in k .. e : fs[l].type = Byte,
         e = Len(fs) \/ fs[e + 1].type # Byte
  PROVE  RunEnd(fs, k) = e
  <1> DEFINE Ends(x) == /\ \A l \in k .. x : fs[l].type = Byte
                        /\ x = Len(fs) \/ fs[x + 1].type # Byte
  <1>1. Ends(e)
    OBVIOUS
  <1>2. ASSUME NEW x \in k .. Len(fs), Ends(x)
        PROVE  x = e
    <2>1. CASE x < e
      <3>1. x + 1 \in k .. e
        BY <2>1
      <3> QED
        BY <3>1, <2>1, <1>2
    <2>2. CASE e < x
      <3>1. e + 1 \in k .. x
        BY <2>2
      <3> QED
        BY <3>1, <2>2, <1>2
    <2> QED
      BY <2>1, <2>2
  <1>3. RunEnd(fs, k) = CHOOSE x \in k .. Len(fs) : Ends(x)
    BY DEF RunEnd
  <1> HIDE DEF Ends
  <1> QED
    BY <1>1, <1>2, <1>3

(* "%s" of a buffer that holds the characters v and a zero behind them      *)
(* shows v up to its first zero.                                            *)
LEMMA ZeroEnded ==
  ASSUME NEW n \in Nat, NEW N \in Nat, n <= N, NEW v, NEW s,
         DOMAIN v = 1 .. n, DOMAIN s = 0 .. N, s[n] = 0,
         \A l \in 1 .. n : s[l - 1] = v[l]
  PROVE  CString(s) = UpToZero(v)
  <1> DEFINE Ends(x) == s[x] = 0 /\ \A l \in 0 .. x - 1 : s[l] # 0
  <1> DEFINE Zeros == {x \in 0 .. N : s[x] = 0}
  <1>1. PICK e \in Zeros : \A x \in Zeros : e <= x
    <2>1. n \in Zeros /\ Zeros \subseteq Nat
      OBVIOUS
    <2> HIDE DEF Zeros
    <2> QED
      BY <2>1, LeastNumber
  <1>2. e \in 0 .. N /\ e <= n /\ Ends(e)
    <2>1. e \in 0 .. N /\ s[e] = 0 /\ e <= n
      BY <1>1
    <2>2. ASSUME NEW l \in 0 .. e - 1
          PROVE  s[l] # 0
      <3>1. l \in 0 .. N /\ l < e
        BY <2>1
      <3> QED
        BY <1>1, <3>1
    <2> QED
      BY <2>1, <2>2
  <1>3. ASSUME NEW x \in 0 .. N, Ends(x)
        PROVE  x = e
    <2>1. ~ (x < e)
      BY <1>2, <1>3
    <2>2. ~ (e < x)
      BY <1>2, <1>3
    <2> QED
      BY <2>1, <2>2, <1>2
  <1>4. e = CHOOSE x \in DOMAIN s : Ends(x)
    <2> HIDE DEF Ends
    <2> QED
      BY <1>2, <1>3
  <1>5. CString(s) = [l \in 1 .. e |-> s[l - 1]]
    BY <1>4 DEF CString
  <1> HIDE DEF Ends, Zeros
  <1>6. {l \in 1 .. n : \A m \in 1 .. l : v[m] # 0} = 1 .. e
    <2>1. ASSUME NEW l \in 1 .. e, NEW m \in 1 .. l
          PROVE  l \in 1 .. n /\ v[m] # 0
      <3>1. m - 1 \in 0 .. e - 1 /\ m \in 1 .. n /\ l \in 1 .. n
        BY <1>2
      <3> QED
        BY <3>1, <1>2 DEF Ends
    <2>2. ASSUME NEW l \in 1 .. n, l > e
          PROVE  e + 1 \in 1 .. l /\ v[e + 1] = 0
      <3>1. e + 1 \in 1 .. l /\ e + 1 \in 1 .. n /\ (e + 1) - 1 = e
        BY <1>2, <2>2
      <3>2. s[(e + 1) - 1] = v[e + 1]
        BY <3>1
      <3> QED
        BY <3>1, <3>2, <1>2 DEF Ends
    <2>3. ASSUME NEW l \in 1 .. e
          PROVE  l \in 1 .. n /\ \A m \in 1 .. l : v[m] # 0
      <3>1. l \in 1 .. n
        BY <1>2
      <3> QED
        BY <2>1, <3>1
    <2>4. ASSUME NEW l \in 1 .. n, \A m \in 1 .. l : v[m] # 0
          PROVE  l \in 1 .. e
      BY <2>2, <2>4, <1>2
    <2> QED
      BY <2>3, <2>4
  <1>7. UpToZero(v) = [l \in 1 .. e |-> v[l]]
    BY <1>6 DEF UpToZero
  <1>8. ASSUME NEW l \in 1 .. e
        PROVE  s[l - 1] = v[l]
    <2>1. l \in 1 .. n
      BY <1>2
    <2> QED
      BY <2>1
  <1> QED
    BY <1>5, <1>7, <1>8

-----------------------------------------------------------------------------
(* The second invariant: what is printed is what is due.  Where the field   *)
(* loop stands no string is under way, so that the next field either begins *)
(* one or is printed for itself, and the inner loop began at the first      *)
(* character; every entry that is due and passed has been printed.          *)
Standing ==
  /\ pc = "listen" => msg = Undecoded
  /\ pc \in {"sets", "fields", "string"} => msg.dataset
  /\ pc \in {"fields", "string"} => msg.header /\ msg.sets[j + 1].key
  /\ pc = "fields" /\ i < fieldCount => ~ Inside(fields, i + 1) /\ ~ Skipped(fields, i + 1)
  /\ pc = "string" => ~ Inside(fields, i - it + 1) /\ (it = 1 => IsByte(i))

PassedReported ==
  \A set \in DOMAIN msg.sets : \A k \in Due(msg, set) : Passed(set, k) => Reported(set, k)

Faithful == Standing /\ PrintedAsDue /\ PassedReported

LEMMA DueType ==
  ASSUME Typed, NEW set \in DOMAIN msg.sets, NEW k \in Due(msg, set)
  PROVE  /\ set \in 1 .. Len(msg.sets) /\ k \in 1 .. Len(msg.sets[set].fields)
         /\ Len(msg.sets[set].fields) \in Nat /\ msg.header /\ msg.dataset /\ msg.sets[set].key
  <1>1. msg.sets \in Seq(FrameRecord)
    BY IncomingType DEF Typed
  <1>2. set \in 1 .. Len(msg.sets) /\ msg.sets[set] \in FrameRecord
    BY <1>1, LenProperties, ElementOfSeq
  <1>3. msg.sets[set].fields \in Seq(Field)
    BY <1>2 DEF FrameRecord
  <1>4. k \in DOMAIN msg.sets[set].fields /\ msg.header /\ msg.dataset /\ msg.sets[set].key
    BY DEF Due
  <1> QED
    BY <1>2, <1>3, <1>4, LenProperties

LEMMA DueHere ==
  ASSUME Typed, j < Len(msg.sets), NEW k
  PROVE  k \in Due(msg, j + 1) <=>
           /\ msg.dataset /\ msg.header /\ msg.sets[j + 1].key
           /\ k \in 1 .. fieldCount /\ fields[k].type \in WellKnown
           /\ ~ Inside(fields, k) /\ ~ Skipped(fields, k)
  BY FieldsType DEF Due, fields

LEMMA HereInSets ==
  ASSUME Typed, j < Len(msg.sets)
  PROVE  j + 1 \in DOMAIN msg.sets
  <1>1. msg.sets \in Seq(FrameRecord)
    BY IncomingType DEF Typed
  <1>2. DOMAIN msg.sets = 1 .. Len(msg.sets) /\ Len(msg.sets) \in Nat
    BY <1>1, LenProperties
  <1> QED
    BY <1>2, SMT DEF Typed

\* Nothing is printed, and nothing passed that is due.
LEMMA NothingDue ==
  ASSUME Faithful, UNCHANGED <<msg, out>>,
         \A set \in DOMAIN msg.sets : \A k \in Due(msg, set) : Passed(set, k)' => Passed(set, k)
  PROVE  PrintedAsDue' /\ PassedReported'
  BY DEF Faithful, PrintedAsDue, PassedReported, Reported

\* One entry is printed, the one that is due and passed now.
LEMMA OneDue ==
  ASSUME Faithful, Printed, msg' = msg, NEW e, out' = Append(out, e),
         e.set \in DOMAIN msg.sets, e.at \in Due(msg, e.set), e = Entry(msg, e.set, e.at),
         \A set \in DOMAIN msg.sets : \A k \in Due(msg, set) :
           Passed(set, k)' => Passed(set, k) \/ (set = e.set /\ k = e.at)
  PROVE  PrintedAsDue' /\ PassedReported'
  <1>1. PICK S : out \in Seq(S)
    BY DEF Printed
  <1> DEFINE T == S \cup {e}
  <1>2. out \in Seq(T)
    BY <1>1, SeqDef
  <1>3. /\ Append(out, e) \in Seq(T)
        /\ Len(Append(out, e)) = Len(out) + 1
        /\ \A k \in 1 .. Len(out) : Append(out, e)[k] = out[k]
        /\ Append(out, e)[Len(out) + 1] = e
    BY <1>2, AppendProperties
  <1>4. DOMAIN out = 1 .. Len(out) /\ Len(out) \in Nat /\ DOMAIN out' = 1 .. Len(out) + 1
    BY <1>2, <1>3, LenProperties
  <1>5. \A n \in DOMAIN out : n \in DOMAIN out' /\ out'[n] = out[n]
    BY <1>3, <1>4
  <1>6. Len(out) + 1 \in DOMAIN out' /\ out'[Len(out) + 1] = e
    BY <1>3, <1>4
  <1>7. \A n \in DOMAIN out' : n \in DOMAIN out \/ n = Len(out) + 1
    BY <1>4
  <1>8. PrintedAsDue'
    <2> SUFFICES ASSUME NEW n \in DOMAIN out'
                 PROVE  /\ out'[n].set \in DOMAIN msg.sets /\ out'[n].at \in Due(msg, out'[n].set)
                        /\ out'[n] = Entry(msg, out'[n].set, out'[n].at)
      BY DEF PrintedAsDue
    <2>1. CASE n \in DOMAIN out
      BY <2>1, <1>5 DEF Faithful, PrintedAsDue
    <2>2. CASE n = Len(out) + 1
      BY <2>2, <1>6
    <2> QED
      BY <2>1, <2>2, <1>7
  <1>9. PassedReported'
    <2> SUFFICES ASSUME NEW set \in DOMAIN msg.sets, NEW k \in Due(msg, set), Passed(set, k)'
                 PROVE  \E n \in DOMAIN out' : out'[n].set = set /\ out'[n].at = k
      BY DEF PassedReported, Reported
    <2>1. CASE Passed(set, k)
      <3>1. PICK n \in DOMAIN out : out[n].set = set /\ out[n].at = k
        BY <2>1 DEF Faithful, PassedReported, Reported
      <3> QED
        BY <3>1, <1>5
    <2>2. CASE set = e.set /\ k = e.at
      BY <2>2, <1>6
    <2> QED
      BY <2>1, <2>2
  <1> QED
    BY <1>8, <1>9

(* Where nothing is due there is nothing to print.                          *)
LEMMA NoneDue ==
  ASSUME out = <<>>, \A set \in DOMAIN msg.sets : Due(msg, set) = {}
  PROVE  PrintedAsDue /\ PassedReported
  <1>1. DOMAIN out = {}
    OBVIOUS
  <1> QED
    BY <1>1 DEF PrintedAsDue, PassedReported

LEMMA FaithfulInit == Init => Faithful
  <1> SUFFICES ASSUME Init PROVE Faithful
    OBVIOUS
  <1>1. \A set \in DOMAIN msg.sets : Due(msg, set) = {}
    BY DEF Init, Undecoded, Due
  <1>2. PrintedAsDue /\ PassedReported
    BY <1>1, NoneDue DEF Init
  <1> QED
    BY <1>2 DEF Init, Faithful, Standing

LEMMA FaithfulCheck ==
  ASSUME Check
  PROVE  Faithful'
  <1>1. msg' = Undecoded /\ out' = <<>> /\ pc' \in {"listen", "closed"}
    BY DEF Check
  <1>2. \A set \in DOMAIN msg'.sets : Due(msg', set) = {}
    BY <1>1 DEF Undecoded, Due
  <1>3. PrintedAsDue' /\ PassedReported'
    <2>1. DOMAIN out' = {}
      BY <1>1
    <2> QED
      BY <2>1, <1>2 DEF PrintedAsDue, PassedReported
  <1> QED
    BY <1>1, <1>3 DEF Faithful, Standing

(* Timeout, AllocFails: nothing was received, and nothing is due.           *)
LEMMA FaithfulLeave ==
  ASSUME Faithful, pc = "listen", pc' \in {"check", "closed"}, UNCHANGED <<msg, out>>
  PROVE  Faithful'
  <1>1. \A set \in DOMAIN msg.sets : Due(msg, set) = {}
    BY DEF Faithful, Standing, Undecoded, Due
  <1>2. PrintedAsDue' /\ PassedReported'
    BY <1>1, NothingDue
  <1> QED
    BY <1>2 DEF Faithful, Standing

LEMMA FaithfulReceive ==
  ASSUME IInv, NEW m \in Incoming, Receive(m)
  PROVE  Faithful'
  <1>1. /\ msg' = m /\ j' = 0 /\ out' = <<>> /\ DOMAIN out' = {}
        /\ pc' = IF ~ m.dataset \/ (m.header /\ m.sets = <<>>) THEN "check" ELSE "sets"
    <2>1. j = 0 /\ out = <<>>
      BY DEF IInv, Indices, Printed, Receive
    <2> QED
      BY <2>1 DEF Receive
  <1>2. m.sets \in Seq(FrameRecord) /\ m.header \in BOOLEAN /\ m.dataset \in BOOLEAN
    BY IncomingType
  <1>3. Standing'
    BY <1>1, <1>2 DEF Standing
  <1>4. ASSUME NEW set \in DOMAIN m.sets, NEW k \in Due(m, set)
        PROVE  ~ Passed(set, k)'
    <2>1. m.dataset /\ m.header
      BY DEF Due
    <2>2. m.sets # <<>>
      OBVIOUS
    <2>3. pc' = "sets"
      BY <1>1, <2>1, <2>2
    <2>4. set \in Nat /\ set > 0
      BY <1>2, LenProperties
    <2> QED
      BY <1>1, <2>3, <2>4 DEF Passed
  <1>5. PrintedAsDue' /\ PassedReported'
    BY <1>1, <1>4 DEF PrintedAsDue, PassedReported
  <1> QED
    BY <1>3, <1>5 DEF Faithful

LEMMA FaithfulNextSet ==
  ASSUME IInv, Faithful, NextSet
  PROVE  Faithful'
  <1>1. /\ Len(msg.sets) \in Nat /\ count \in 0 .. Len(msg.sets) /\ j \in Nat /\ j <= count
        /\ pc = "sets" /\ UNCHANGED <<msg, out>>
    BY SetsLength DEF IInv, Indices, NextSet
  <1>2. CASE j = count
    <2>1. pc' = "check"
      BY <1>2 DEF NextSet
    <2>2. ASSUME NEW set \in DOMAIN msg.sets, NEW k \in Due(msg, set)
          PROVE  Passed(set, k)
      <3>1. set \in 1 .. Len(msg.sets) /\ msg.header
        BY DueType DEF IInv
      <3>2. set <= j
        BY <3>1, <1>2 DEF count
      <3> QED
        BY <3>2, <1>1 DEF Passed
    <2>3. PrintedAsDue' /\ PassedReported'
      BY <1>1, <2>2, NothingDue
    <2> QED
      BY <2>1, <2>3 DEF Faithful, Standing
  <1>3. CASE j # count /\ msg.sets[j + 1].key
    <2>1. pc' = "fields" /\ i' = 0 /\ j' = j
      BY <1>3 DEF NextSet
    <2>2. msg.header /\ j < Len(msg.sets)
      BY <1>1, <1>3 DEF count
    <2>3. ~ Inside(fields', 1) /\ ~ Skipped(fields', 1)
      BY DEF Inside, Skipped
    <2>4. Standing'
      BY <1>1, <1>3, <2>1, <2>2, <2>3 DEF Faithful, Standing
    <2>5. ASSUME NEW set \in DOMAIN msg.sets, NEW k \in Due(msg, set), Passed(set, k)'
          PROVE  Passed(set, k)
      <3>1. k \in Nat /\ k > 0
        BY DueType DEF IInv
      <3> QED
        BY <3>1, <1>1, <2>1, <2>5 DEF Passed
    <2> QED
      BY <1>1, <2>4, <2>5, NothingDue DEF Faithful
  <1>4. CASE j # count /\ ~ msg.sets[j + 1].key
    <2>1. pc' = pc /\ j' = j + 1
      BY <1>4 DEF NextSet
    <2>2. ASSUME NEW set \in DOMAIN msg.sets, NEW k \in Due(msg, set), Passed(set, k)'
          PROVE  Passed(set, k)
      <3>1. set \in 1 .. Len(msg.sets) /\ msg.sets[set].key
        BY DueType DEF IInv
      <3>2. set <= j + 1 /\ set # j + 1
        BY <3>1, <1>1, <1>4, <2>1, <2>2 DEF Passed
      <3> QED
        BY <3>1, <3>2, <1>1 DEF Passed
    <2>3. Standing'
      BY <1>1, <2>1 DEF Faithful, Standing
    <2> QED
      BY <1>1, <2>2, <2>3, NothingDue DEF Faithful
  <1> QED
    BY <1>2, <1>3, <1>4

LEMMA FaithfulFieldsDone ==
  ASSUME IInv, Faithful, NextField, i >= fieldCount
  PROVE  Faithful'
  <1>1. pc = "fields" /\ pc' = "sets" /\ j' = j + 1 /\ UNCHANGED <<msg, out>>
    BY DEF NextField
  <1>2. j \in Nat /\ i \in Nat /\ j < Len(msg.sets) /\ Len(msg.sets) \in Nat /\ fieldCount \in Nat
    BY <1>1, InFields
  <1>3. ASSUME NEW set \in DOMAIN msg.sets, NEW k \in Due(msg, set), Passed(set, k)'
        PROVE  Passed(set, k)
    <2>1. set \in Nat /\ set <= j + 1
      BY <1>1, <1>3, DueType DEF IInv, Passed
    <2>2. set = j + 1 => k \in 1 .. fieldCount
      BY <1>2, DueHere DEF IInv
    <2> QED
      BY <1>1, <1>2, <2>1, <2>2 DEF Passed
  <1>4. Standing'
    BY <1>1 DEF Faithful, Standing
  <1> QED
    BY <1>1, <1>3, <1>4, NothingDue DEF Faithful

LEMMA FaithfulStringStarts ==
  ASSUME IInv, Faithful, NextField, ~ (i >= fieldCount), IsByte(i), IsByte(i + 1)
  PROVE  Faithful'
  <1>1. pc = "fields" /\ pc' = "string" /\ i' = i + 1 /\ it' = 1 /\ UNCHANGED <<msg, j, out>>
    BY DEF NextField
  <1>2. j \in Nat /\ i \in Nat /\ fieldCount \in Nat /\ i < fieldCount
    BY <1>1, InFields
  <1>3. fields' = fields /\ fieldCount' = fieldCount /\ i' - it' = i
    BY <1>1, <1>2, SameFields
  <1>4. Standing'
    <2>1. i' < fieldCount' /\ fields'[i' + 1].type = Byte
      BY <1>1, <1>3 DEF IsByte
    <2>2. ~ Inside(fields, i + 1) /\ msg.dataset /\ msg.header /\ msg.sets[j + 1].key
      BY <1>1, <1>2 DEF Faithful, Standing
    <2> QED
      BY <1>1, <1>3, <2>1, <2>2 DEF Standing, IsByte
  <1>5. \A set, k : Passed(set, k)' => Passed(set, k)
    BY <1>1, <1>3 DEF Passed
  <1> QED
    BY <1>1, <1>4, <1>5, NothingDue DEF Faithful

LEMMA FaithfulSingle ==
  ASSUME IInv, Faithful, NextField, ~ (i >= fieldCount), ~ (IsByte(i) /\ IsByte(i + 1))
  PROVE  Faithful'
  <1>1. /\ pc = "fields" /\ pc' = pc /\ i' = i + 1 /\ UNCHANGED <<msg, j>>
        /\ out' = IF fields[i + 1].type \in WellKnown
                  THEN Append(out, Single(j + 1, i + 1, fields[i + 1])) ELSE out
    BY DEF NextField
  <1>2. /\ j \in Nat /\ i \in Nat /\ j < Len(msg.sets) /\ fieldCount \in Nat /\ i < fieldCount
        /\ Typed
    BY <1>1, InFields DEF IInv
  <1>3. fields' = fields /\ fieldCount' = fieldCount
    BY <1>1, SameFields
  <1>4. /\ msg.dataset /\ msg.header /\ msg.sets[j + 1].key
        /\ ~ Inside(fields, i + 1) /\ ~ Skipped(fields, i + 1)
    BY <1>1, <1>2 DEF Faithful, Standing
  <1>5. ~ IsRun(fields, i + 1)
    <2>1. i + 1 < Len(fields) => (i + 1) + 1 = i + 2 /\ i + 1 < fieldCount
      BY <1>2 DEF fieldCount
    <2> QED
      BY <1>2, <2>1 DEF IsRun, IsByte, fieldCount
  <1>6. ASSUME i' < fieldCount
        PROVE  ~ Inside(fields, i' + 1) /\ ~ Skipped(fields, i' + 1)
    <2>1. i' + 1 = (i + 1) + 1 /\ (i' + 1) - 1 = i + 1 /\ (i' + 1) - 2 = i /\ (i + 1) - 1 = i /\ i + 1 < fieldCount
      BY <1>1, <1>2, <1>6
    <2>2. ~ (fields[i + 1].type = Byte /\ fields[i' + 1].type = Byte)
      BY <1>2, <2>1 DEF IsByte
    <2>3. ~ (i + 1 > 1 /\ fields[i + 1].type = Byte /\ fields[i].type = Byte)
      BY <1>4, <2>1 DEF Inside
    <2>4. ~ Inside(fields, i' + 1)
      BY <2>1, <2>2 DEF Inside
    <2>5. ~ Skipped(fields, i' + 1)
      BY <1>2, <2>1, <2>3 DEF Skipped
    <2> QED
      BY <2>4, <2>5
  <1>7. Standing'
    BY <1>1, <1>3, <1>4, <1>6 DEF Faithful, Standing
  <1>8. ASSUME NEW set \in DOMAIN msg.sets, NEW k \in Due(msg, set), Passed(set, k)'
        PROVE  Passed(set, k) \/ (set = j + 1 /\ k = i + 1)
    <2>1. set \in Nat /\ k \in Nat
      BY <1>2, DueType
    <2> QED
      BY <1>1, <1>2, <1>8, <2>1 DEF Passed
  <1>9. CASE fields[i + 1].type \in WellKnown
    <2>1. PICK e : e = Single(j + 1, i + 1, fields[i + 1])
      OBVIOUS
    <2>2. e.set = j + 1 /\ e.at = i + 1
      BY <2>1 DEF Single
    <2>3. i + 1 \in Due(msg, j + 1) /\ j + 1 \in DOMAIN msg.sets
      BY <1>2, <1>4, <1>9, DueHere, HereInSets
    <2>4. e = Entry(msg, j + 1, i + 1)
      BY <1>5, <2>1 DEF Entry, fields
    <2>5. PrintedAsDue' /\ PassedReported'
      BY <1>1, <1>8, <1>9, <2>1, <2>2, <2>3, <2>4, OneDue DEF IInv
    <2> QED
      BY <1>7, <2>5 DEF Faithful
  <1>10. CASE fields[i + 1].type \notin WellKnown
    <2>1. i + 1 \notin Due(msg, j + 1)
      BY <1>2, <1>10, DueHere
    <2>2. PrintedAsDue' /\ PassedReported'
      BY <1>1, <1>8, <1>10, <2>1, NothingDue
    <2> QED
      BY <1>7, <2>2 DEF Faithful
  <1> QED
    BY <1>9, <1>10

LEMMA FaithfulNextChar ==
  ASSUME IInv, Faithful, NextChar
  PROVE  Faithful'
  <1>1. /\ pc = "string" /\ pc' = pc /\ i' = i + 1 /\ it' = (it + 1) % UByte
        /\ UNCHANGED <<msg, j, out>> /\ i < fieldCount
    BY DEF NextChar, IsByte
  <1>2. /\ j \in Nat /\ i \in Nat /\ it \in Nat /\ fieldCount \in Nat /\ fieldCount <= MaxFields
        /\ 1 <= it /\ it <= i
    BY <1>1, InFields DEF IInv, RunInBuffer
  <1>3. it' = it + 1
    <2>1. it + 1 \in Nat /\ it + 1 < 256
      BY <1>1, <1>2, Bounds
    <2> QED
      BY <1>1, <2>1, NoWrap
  <1>4. fields' = fields /\ i' - it' = i - it /\ it' # 1
    BY <1>1, <1>2, <1>3, SameFields
  <1>5. Standing'
    BY <1>1, <1>4 DEF Faithful, Standing
  <1>6. \A set, k : Passed(set, k)' => Passed(set, k)
    BY <1>1, <1>4 DEF Passed
  <1> QED
    BY <1>1, <1>5, <1>6, NothingDue DEF Faithful

(* The string that ends is the run that began at i - it, and the field the  *)
(* loop steps over with it is not due.                                      *)
LEMMA FaithfulEndString ==
  ASSUME IInv, Faithful, EndString
  PROVE  Faithful'
  <1> DEFINE chars == CString([buf EXCEPT ![it] = 0])
  <1>1. /\ pc = "string" /\ pc' = "fields" /\ i' = i + 1 /\ it' = 0 /\ ~ IsByte(i)
        /\ out' = Append(out, Text(j + 1, i - it + 1, chars))
        /\ UNCHANGED <<msg, j>>
    BY DEF EndString
  <1> HIDE DEF chars
  <1>2. /\ j \in Nat /\ i \in Nat /\ it \in Nat /\ fieldCount \in Nat /\ j < Len(msg.sets)
        /\ Typed
    BY <1>1, InFields DEF IInv
  <1>3. /\ 1 <= it /\ it <= i /\ i <= fieldCount /\ DOMAIN buf = 0 .. fieldCount
        /\ \A k \in 0 .. it - 1 :
             fields[i - it + k + 1].type = Byte /\ buf[k] = fields[i - it + k + 1].value
    BY <1>1 DEF IInv, RunInBuffer
  <1>4. it >= 2
    BY <1>1, <1>2, <1>3 DEF Faithful, Standing
  <1>5. PICK k : k = i - it + 1
    OBVIOUS
  <1>6. k \in Nat /\ k >= 1 /\ k + 1 <= i /\ i \in k .. fieldCount /\ i - k + 1 = it
    BY <1>2, <1>3, <1>4, <1>5
  <1>7. ASSUME NEW l \in k .. i
        PROVE  fields[l].type = Byte
    <2>1. l - k \in 0 .. it - 1 /\ i - it + (l - k) + 1 = l
      BY <1>2, <1>3, <1>5, <1>6
    <2> QED
      BY <2>1, <1>3
  <1>8. i = fieldCount \/ fields[i + 1].type # Byte
    BY <1>1, <1>2, <1>3 DEF IsByte
  <1>9. fields' = fields /\ fieldCount' = fieldCount
    BY <1>1, SameFields
  <1>10. ASSUME i' < fieldCount
         PROVE  ~ Inside(fields, i' + 1) /\ ~ Skipped(fields, i' + 1)
    <2>1. (i' + 1) - 1 = i + 1 /\ fields[i + 1].type # Byte
      BY <1>1, <1>2, <1>8, <1>10
    <2> QED
      BY <2>1 DEF Inside, Skipped
  <1>11. Standing'
    BY <1>1, <1>9, <1>10 DEF Faithful, Standing
  <1>12. /\ msg.dataset /\ msg.header /\ msg.sets[j + 1].key /\ ~ Inside(fields, k)
    BY <1>1, <1>5 DEF Faithful, Standing
  <1>13. k \in Due(msg, j + 1) /\ j + 1 \in DOMAIN msg.sets
    <2>1. fields[k].type = Byte /\ k \in 1 .. fieldCount /\ ~ Skipped(fields, k)
      BY <1>2, <1>3, <1>6, <1>7 DEF Skipped
    <2>2. fields[k].type \in WellKnown
      BY <2>1, MessagesOK DEF MessagesOK
    <2> QED
      BY <1>2, <1>12, <2>1, <2>2, DueHere, HereInSets
  <1>14. ASSUME NEW l \in k + 1 .. i + 1
         PROVE  l \notin Due(msg, j + 1)
    <2>1. CASE l \in k + 1 .. i
      <3>1. l \in k .. i /\ l - 1 \in k .. i /\ l > 1
        BY <2>1, <1>6, <1>2
      <3>2. Inside(fields, l)
        BY <3>1, <1>7 DEF Inside
      <3> QED
        BY <3>2, <1>2, DueHere
    <2>2. CASE l = i + 1 /\ i < fieldCount
      <3>1. l - 1 = i /\ l - 2 = i - 1 /\ i - 1 \in k .. i /\ i \in k .. i /\ l > 2
        BY <2>2, <1>6, <1>2
      <3>2. fields[i].type = Byte /\ fields[i - 1].type = Byte
        BY <3>1, <1>7
      <3>3. Skipped(fields, l)
        BY <2>2, <3>1, <3>2, <1>2, <1>8 DEF Skipped
      <3> QED
        BY <3>3, <1>2, DueHere
    <2>3. CASE l = i + 1 /\ i = fieldCount
      BY <2>3, <1>2, DueHere
    <2> QED
      BY <2>1, <2>2, <2>3, <1>2, <1>3, <1>6
  <1>15. ASSUME NEW set \in DOMAIN msg.sets, NEW l \in Due(msg, set), Passed(set, l)'
         PROVE  Passed(set, l) \/ (set = j + 1 /\ l = k)
    <2>1. set \in Nat /\ l \in Nat
      BY <1>2, DueType
    <2>2. set <= j \/ (set = j + 1 /\ l <= i + 1)
      BY <1>1, <1>15 DEF Passed
    <2>3. set = j + 1 => l \notin k + 1 .. i + 1
      BY <1>14
    <2> QED
      BY <1>1, <1>2, <1>3, <1>5, <1>6, <2>1, <2>2, <2>3 DEF Passed
  <1>16. RunEnd(fields, k) = i
    BY <1>2, <1>6, <1>7, <1>8, RunEnds DEF fieldCount
  <1>17. chars = UpToZero(Chars(fields, k))
    <2>1. PICK v : v = Chars(fields, k)
      OBVIOUS
    <2>2. v = [l \in 1 .. it |-> fields[k + l - 1].value]
      BY <2>1, <1>6, <1>16 DEF Chars
    <2>3. PICK s : s = [buf EXCEPT ![it] = 0]
      OBVIOUS
    <2>4. DOMAIN s = 0 .. fieldCount /\ s[it] = 0 /\ \A l \in 0 .. it - 1 : s[l] = buf[l]
      BY <2>3, <1>2, <1>3
    <2>5. ASSUME NEW l \in 1 .. it
          PROVE  s[l - 1] = v[l]
      <3>1. l - 1 \in 0 .. it - 1 /\ i - it + (l - 1) + 1 = k + l - 1
        BY <1>2, <1>5
      <3> QED
        BY <3>1, <2>2, <2>4, <1>3
    <2>6. DOMAIN v = 1 .. it /\ it <= fieldCount
      BY <2>2, <1>2, <1>3
    <2>7. CString(s) = UpToZero(v)
      <3>1. PICK N : N = fieldCount
        OBVIOUS
      <3>2. PICK n : n = it
        OBVIOUS
      <3>3. /\ n \in Nat /\ N \in Nat /\ n <= N
            /\ DOMAIN v = 1 .. n /\ DOMAIN s = 0 .. N /\ s[n] = 0
            /\ \A l \in 1 .. n : s[l - 1] = v[l]
        BY <1>2, <2>4, <2>5, <2>6, <3>1, <3>2
      <3> QED
        BY <3>3, ZeroEnded
    <2> QED
      BY <2>1, <2>3, <2>7 DEF chars
  <1>18. PICK e : e = Text(j + 1, k, chars)
    OBVIOUS
  <1>19. e.set = j + 1 /\ e.at = k
    BY <1>18 DEF Text
  <1>20. e = Entry(msg, j + 1, k)
    <2>1. k < Len(fields) /\ fields[k].type = Byte /\ fields[k + 1].type = Byte
      BY <1>2, <1>6, <1>7 DEF fieldCount
    <2>2. IsRun(fields, k)
      BY <2>1 DEF IsRun
    <2> QED
      BY <2>2, <1>17, <1>18 DEF Entry, fields
  <1>21. out' = Append(out, e)
    BY <1>1, <1>5, <1>18
  <1>22. PrintedAsDue' /\ PassedReported'
    BY <1>1, <1>13, <1>15, <1>19, <1>20, <1>21, OneDue DEF IInv
  <1> QED
    BY <1>11, <1>22 DEF Faithful

LEMMA FaithfulSame ==
  ASSUME Faithful, UNCHANGED vars \/ Signal
  PROVE  Faithful'
  <1>1. UNCHANGED <<pc, msg, j, i, buf, it, out>>
    BY DEF vars, Signal
  <1>2. fields' = fields /\ fieldCount' = fieldCount /\ (\A k : IsByte(k)' = IsByte(k))
    BY <1>1 DEF fields, fieldCount, IsByte
  <1>3. Standing'
    BY <1>1, <1>2 DEF Faithful, Standing, IsByte
  <1>4. PrintedAsDue' /\ PassedReported'
    BY <1>1, NothingDue DEF Passed
  <1> QED
    BY <1>3, <1>4 DEF Faithful

LEMMA FaithfulNext ==
  ASSUME IInv, Faithful, [Next]_vars
  PROVE  Faithful'
  <1>1. CASE Check
    BY <1>1, FaithfulCheck
  <1>2. CASE Timeout \/ AllocFails
    BY <1>2, FaithfulLeave DEF Timeout, AllocFails
  <1>3. CASE NextSet
    BY <1>3, FaithfulNextSet
  <1>4. CASE NextField
    BY <1>4, FaithfulFieldsDone, FaithfulStringStarts, FaithfulSingle
  <1>5. CASE NextChar
    BY <1>5, FaithfulNextChar
  <1>6. CASE EndString
    BY <1>6, FaithfulEndString
  <1>7. CASE \E m \in Incoming : Receive(m)
    BY <1>7, FaithfulReceive
  <1>8. CASE UNCHANGED vars \/ Signal
    BY <1>8, FaithfulSame
  <1> QED
    BY <1>1, <1>2, <1>3, <1>4, <1>5, <1>6, <1>7, <1>8 DEF Next, Step, Incoming

LEMMA FaithfulReports ==
  ASSUME IInv, Faithful
  PROVE  ReportedFaithfully
  <1>1. ASSUME NEW set \in DOMAIN msg.sets, NEW k \in Due(msg, set), ~ Reported(set, k)
        PROVE  pc # "check" /\ \A n \in DOMAIN out : Precedes(out[n], [set |-> set, at |-> k])
    <2>1. ~ Passed(set, k)
      BY <1>1 DEF Faithful, PassedReported
    <2>2. pc \in {"sets", "fields", "string"} /\ j \in Nat /\ i \in Nat /\ it \in Nat
      BY <2>1, SetsLength DEF Passed, IInv, Typed
    <2>3. set \in Nat /\ k \in Nat
      BY DueType DEF IInv
    <2>4. ASSUME NEW n \in DOMAIN out
          PROVE  Precedes(out[n], [set |-> set, at |-> k])
      <3>1. PICK e : e = out[n]
        OBVIOUS
      <3>2. Behind(e)
        BY <3>1 DEF IInv, Printed
      <3>3. e.set < set \/ (e.set = set /\ e.at < k)
        BY <2>1, <2>2, <2>3, <3>2 DEF Behind, Passed
      <3> QED
        BY <3>1, <3>3 DEF Precedes
    <2> QED
      BY <2>2, <2>4
  <1>2. NothingLeftOut
    BY <1>1 DEF NothingLeftOut
  <1> QED
    BY <1>2 DEF ReportedFaithfully, IInv, Printed, Faithful

-----------------------------------------------------------------------------
LEMMA InvTypes ==
  ASSUME IInv
  PROVE  SubscriberTypeOK
  <1>1. it = 0 \/ pc = "string"
    BY DEF IInv, Indices
  <1>2. i \in 0 .. MaxFields + 1
    BY Bounds DEF IInv, Typed, Indices
  <1>3. it \in 0 .. MaxFields
    <2>1. CASE pc = "string"
      BY <2>1, InFields, Bounds DEF IInv, RunInBuffer
    <2> QED
      BY <1>1, <2>1, Bounds
  <1>4. pc \in {"fields", "string"} => j < Len(msg.sets) /\ i <= fieldCount + 1
    BY InFields
  <1> QED
    BY <1>2, <1>3, <1>4 DEF IInv, Typed, Incoming, SubscriberTypeOK

(* Every index of the two loops stays where it belongs, for every message   *)
(* whose Fields fit the buffer: in particular it, a UA_Byte, never wraps.   *)
THEOREM SubscriberTypes == Spec => []SubscriberTypeOK
  BY Invariance, InvTypes, PTL

(* While a string is gathered every character written, and the zero behind  *)
(* the last one, is inside the malloc'ed buffer, and the characters are the *)
(* values of the run of Byte fields in front of i.                          *)
THEOREM StringIsARun == Spec => []RunInBuffer
  BY Invariance, PTL DEF IInv

(* No Field is printed twice, and none before one that precedes it.         *)
THEOREM InOrder == Spec => []PrintedInOrder
  BY Invariance, PTL DEF IInv, Printed

(* What is on the screen is what the message holds: every maximal run of    *)
(* two or more Bytes as one string up to its first zero, every other        *)
(* well-known Field for itself but the one behind a string, each with its   *)
(* index, of the key frames only, in order; at any moment a beginning of    *)
(* it, and all of it when the message is done.                              *)
THEOREM Faithfulness == Spec => []ReportedFaithfully
  <1>1. Init => Faithful
    BY FaithfulInit
  <1>2. IInv /\ Faithful /\ [Next]_vars => Faithful'
    BY FaithfulNext
  <1>3. IInv /\ Faithful => ReportedFaithfully
    BY FaithfulReports
  <1> QED
    BY Invariance, <1>1, <1>2, <1>3, PTL DEF Spec
=============================================================================
