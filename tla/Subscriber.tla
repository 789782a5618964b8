----------------------------- MODULE Subscriber -----------------------------
(***************************************************************************)
(* The stand-alone subscriber: main calls subscriberListen until a signal   *)
(* or an error; subscriberListen waits 100 ms for a network message, walks  *)
(* over the DataSetMessages in it and prints their fields, taking two or    *)
(* more Byte fields in a row for the characters of a string.                *)
(*                                                                         *)
(* The network and the decoder are the open62541 library: what arrives, and *)
(* when, is any message of Messages, any number of times and in any order.  *)
(* A message that cannot be decoded leaves the zeroed structure behind, a   *)
(* DataSet message without a payload header (Undecoded).                    *)
(***************************************************************************)
EXTENDS Integers, SequencesExt

CONSTANTS
  Messages,   \* network messages that may arrive
  Byte,       \* the type of a character
  WellKnown,  \* types subscriberListen prints
  MaxFields   \* Fields a message has room for in the 512 bytes of the buffer

UByte == 256
Undecoded == [dataset |-> TRUE, header |-> FALSE, sets |-> <<>>]

Field == [type : WellKnown \cup {"other"}, value : 0 .. UByte - 1]

\* A Byte takes two bytes of the buffer, so a string is shorter than UByte.
ASSUME MessagesOK ==
  /\ Byte \in WellKnown /\ "other" \notin WellKnown
  /\ MaxFields \in 0 .. UByte - 1
  /\ \A m \in Messages :
       /\ m.dataset \in BOOLEAN /\ m.header \in BOOLEAN
       /\ m.sets \in Seq([key : BOOLEAN, fields : Seq(Field)])
       /\ \A k \in DOMAIN m.sets : Len(m.sets[k].fields) <= MaxFields

VARIABLES
  running,  \* cleared by the signal handler
  pc,       \* where main and subscriberListen are
  msg,      \* networkMessage
  j,        \* index of the DataSetMessage, counted from 0 as i and it are
  i,        \* index of the field
  buf,      \* the malloc'ed "msg" a string is gathered in
  it,       \* UA_Byte it, the next index of buf
  out       \* what has been printed for networkMessage

vars == <<running, pc, msg, j, i, buf, it, out>>

-----------------------------------------------------------------------------
count == IF msg.header THEN Len(msg.sets) ELSE 0
fields == msg.sets[j + 1].fields
fieldCount == Len(fields)
IsByte(k) == k < fieldCount /\ fields[k + 1].type = Byte

Init ==
  /\ running = TRUE
  /\ pc = "check"
  /\ msg = Undecoded
  /\ j = 0 /\ i = 0
  /\ buf = <<>> /\ it = 0
  /\ out = <<>>

\* Mutant: the loop does not look at running.
CheckNothing ==
  /\ pc = "check"
  /\ pc' = "listen"
  /\ msg' = Undecoded
  /\ j' = 0
  /\ out' = <<>>
  /\ UNCHANGED <<running, i, buf, it>>

(* while(running && retval == UA_STATUSCODE_GOOD): the next call starts     *)
(* with variables of its own.                                               *)
Check ==
  /\ pc = "check"
  /\ pc' = IF running THEN "listen" ELSE "closed"
  /\ msg' = Undecoded
  /\ j' = 0
  /\ out' = <<>>
  /\ UNCHANGED <<running, i, buf, it>>

\* The buffer cannot be allocated: the error ends main's loop.
AllocFails ==
  /\ pc = "listen"
  /\ pc' = "closed"
  /\ UNCHANGED <<running, msg, j, i, buf, it, out>>

\* Nothing arrived within 100 ms, or receive failed.
Timeout ==
  /\ pc = "listen"
  /\ pc' = "check"
  /\ UNCHANGED <<running, msg, j, i, buf, it, out>>

\* The type and the payload header are checked before the first DataSet.
Receive(m) ==
  /\ pc = "listen"
  /\ msg' = m
  /\ pc' = IF ~ m.dataset \/ (m.header /\ m.sets = <<>>) THEN "check" ELSE "sets"
  /\ UNCHANGED <<running, j, i, buf, it, out>>

\* One turn of the loop over DataSetMessages; only key frames are printed.
NextSet ==
  /\ pc = "sets"
  /\ IF j = count THEN pc' = "check" /\ UNCHANGED <<j, i>>
     ELSE IF msg.sets[j + 1].key THEN pc' = "fields" /\ i' = 0 /\ j' = j
     ELSE pc' = pc /\ i' = i /\ j' = j + 1
  /\ UNCHANGED <<running, msg, buf, it, out>>

\* Fields are reported by their index, 1 for the first.
Single(set, k, field) == [set |-> set, at |-> k, as |-> field.type, value |-> <<field.value>>]
Text(set, k, chars) == [set |-> set, at |-> k, as |-> "string", value |-> chars]

\* Mutant: the i++ after the first character is missing.
NextFieldAgain ==
  /\ pc = "fields"
  /\ IF i >= fieldCount
     THEN pc' = "sets" /\ j' = j + 1 /\ i' = 0 /\ UNCHANGED <<buf, it, out>>
     ELSE IF IsByte(i) /\ IsByte(i + 1)
     THEN /\ pc' = "string"
          /\ buf' = [k \in 0 .. fieldCount + 1 |-> IF k = 0 THEN fields[i + 1].value ELSE 0]
          /\ it' = 1
          /\ UNCHANGED <<i, j, out>>
     ELSE /\ out' = IF fields[i + 1].type \in WellKnown
                    THEN Append(out, Single(j + 1, i + 1, fields[i + 1])) ELSE out
          /\ i' = i + 1
          /\ UNCHANGED <<pc, j, buf, it>>
  /\ UNCHANGED <<running, msg>>

\* One turn of the loop over fields.
NextField ==
  /\ pc = "fields"
  /\ IF i >= fieldCount
     THEN pc' = "sets" /\ j' = j + 1 /\ i' = 0 /\ UNCHANGED <<buf, it, out>>
     ELSE IF IsByte(i) /\ IsByte(i + 1)
     THEN /\ pc' = "string"
          /\ buf' = [k \in 0 .. fieldCount |-> IF k = 0 THEN fields[i + 1].value ELSE 0]
          /\ it' = 1
          /\ i' = i + 1
          /\ UNCHANGED <<j, out>>
     ELSE /\ out' = IF fields[i + 1].type \in WellKnown
                    THEN Append(out, Single(j + 1, i + 1, fields[i + 1])) ELSE out
          /\ i' = i + 1
          /\ UNCHANGED <<pc, j, buf, it>>
  /\ UNCHANGED <<running, msg>>

(* One test of the inner while and its body.  The type of fields[i] is read *)
(* before i is compared with fieldCount; whatever lies behind the last      *)
(* field, the comparison then ends the loop.                                *)
NextChar ==
  /\ pc = "string" /\ IsByte(i)
  /\ buf' = [buf EXCEPT ![it] = fields[i + 1].value]
  /\ it' = (it + 1) % UByte
  /\ i' = i + 1
  /\ UNCHANGED <<running, pc, msg, j, out>>

\* "%s" stops at the first zero of s.
CString(s) ==
  LET end == CHOOSE k \in DOMAIN s : s[k] = 0 /\ \A l \in 0 .. k - 1 : s[l] # 0
  IN  [k \in 1 .. end |-> s[k - 1]]

\* Mutant: one more i++ behind the string.
EndStringFurther ==
  /\ pc = "string" /\ ~ IsByte(i)
  /\ out' = Append(out, Text(j + 1, i - it + 1, CString([buf EXCEPT ![it] = 0])))
  /\ i' = i + 2
  /\ pc' = "fields"
  /\ buf' = <<>> /\ it' = 0
  /\ UNCHANGED <<running, msg, j>>

\* The string ends at it; the loop's own i++ follows.
EndString ==
  /\ pc = "string" /\ ~ IsByte(i)
  /\ out' = Append(out, Text(j + 1, i - it + 1, CString([buf EXCEPT ![it] = 0])))
  /\ i' = i + 1
  /\ pc' = "fields"
  /\ buf' = <<>> /\ it' = 0
  /\ UNCHANGED <<running, msg, j>>

Signal ==
  /\ running
  /\ running' = FALSE
  /\ UNCHANGED <<pc, msg, j, i, buf, it, out>>

Step == Check \/ Timeout \/ NextSet \/ NextField \/ NextChar \/ EndString

Next == Step \/ AllocFails \/ (\E m \in Messages \cup {Undecoded} : Receive(m)) \/ Signal

\* receive returns after 100 ms at the latest and the thread keeps running.
Spec == Init /\ [][Next]_vars /\ WF_vars(Step)

-----------------------------------------------------------------------------
(* Type of the subscriber's variables; it never wraps around.               *)
SubscriberTypeOK ==
  /\ running \in BOOLEAN
  /\ pc \in {"check", "listen", "sets", "fields", "string", "closed"}
  /\ msg \in Messages \cup {Undecoded}
  /\ j \in 0 .. Len(msg.sets)
  /\ i \in 0 .. MaxFields + 1
  /\ it \in 0 .. MaxFields
  /\ pc \in {"fields", "string"} => j < Len(msg.sets) /\ i <= fieldCount + 1

(* What a message should look like on the screen, given only its fields:    *)
(* the maximal runs of Bytes of length two or more are strings, all other   *)
(* well-known fields are printed for themselves.                            *)
RunEnd(fs, k) == CHOOSE e \in k .. Len(fs) :
  (\A l \in k .. e : fs[l].type = Byte) /\ (e = Len(fs) \/ fs[e + 1].type # Byte)

IsRun(fs, k) == k < Len(fs) /\ fs[k].type = Byte /\ fs[k + 1].type = Byte
Inside(fs, k) == k > 1 /\ fs[k].type = Byte /\ fs[k - 1].type = Byte
\* The field that follows a string is skipped.
Skipped(fs, k) == k > 2 /\ fs[k].type # Byte /\ fs[k - 1].type = Byte /\ fs[k - 2].type = Byte

Chars(fs, k) == [l \in 1 .. RunEnd(fs, k) - k + 1 |-> fs[k + l - 1].value]
UpToZero(s) == [l \in {l \in DOMAIN s : \A m \in 1 .. l : s[m] # 0} |-> s[l]]

\* The fields of a DataSet that have an entry of their own, and what it says.
Due(m, set) ==
  IF ~ m.dataset \/ ~ m.header \/ ~ m.sets[set].key THEN {}
  ELSE LET fs == m.sets[set].fields
       IN  {k \in DOMAIN fs : fs[k].type \in WellKnown /\ ~ Inside(fs, k) /\ ~ Skipped(fs, k)}

Entry(m, set, k) ==
  LET fs == m.sets[set].fields
  IN  IF IsRun(fs, k) THEN Text(set, k, UpToZero(Chars(fs, k))) ELSE Single(set, k, fs[k])

Precedes(d, e) == d.set < e.set \/ (d.set = e.set /\ d.at < e.at)

\* What was printed is what was due,
PrintedAsDue ==
  \A n \in DOMAIN out : /\ out[n].set \in DOMAIN msg.sets /\ out[n].at \in Due(msg, out[n].set)
                        /\ out[n] = Entry(msg, out[n].set, out[n].at)

\* in its order and once,
PrintedInOrder == \A m, n \in DOMAIN out : m < n => Precedes(out[m], out[n])

\* and only what comes after all of it can be missing.
Reported(set, k) == \E n \in DOMAIN out : out[n].set = set /\ out[n].at = k
NothingLeftOut ==
  \A set \in DOMAIN msg.sets : \A k \in Due(msg, set) :
    \/ Reported(set, k)
    \/ pc # "check" /\ \A n \in DOMAIN out : Precedes(out[n], [set |-> set, at |-> k])

(* At every moment the output is a beginning of the report, and the whole   *)
(* of it once the message is done: strings are printed whole and once,      *)
(* other fields in order, nothing of one DataSet is mixed with another.     *)
ReportedFaithfully == PrintedAsDue /\ PrintedInOrder /\ NothingLeftOut

(* "Loop over the fields and print well-known content types": every such    *)
(* field of a key frame is printed, alone or as part of a string.           *)
EveryFieldPrinted ==
  pc = "check" /\ msg.dataset /\ msg.header =>
    \A s \in 1 .. Len(msg.sets) : msg.sets[s].key =>
      \A k \in 1 .. Len(msg.sets[s].fields) :
        msg.sets[s].fields[k].type \in WellKnown \ {Byte} =>
          \E n \in DOMAIN out : out[n].set = s /\ out[n].at = k

(* A signal ends the subscriber, whatever it is doing and whatever keeps    *)
(* arriving.                                                                *)
StopsOnSignal == ~ running ~> pc = "closed"
=============================================================================
