------------------------------- MODULE Export -------------------------------
(***************************************************************************)
(* export, which prints the tree as a file of commands, and load, which     *)
(* decodes the lines of a file in the middle of the line being decoded: the *)
(* Console's interpreter run by itself on a stack of open files, and the    *)
(* values of the Fields, which are part of what is exported.                *)
(*                                                                         *)
(* A string is abstracted to its length, as in Console, and the file's words*)
(* are tokens as the user's are.  wrt also writes the character in a string's*)
(* Field: a quote, a 0 or a line end written there makes other lines of the *)
(* string's line, so a file exported from then on may have any there.       *)
(***************************************************************************)
EXTENDS Console, FieldValue

CONSTANTS
  Scripts,    \* files the user wrote: name |-> lines
  Exported,   \* the name the user exports to
  Numeral,    \* number |-> the token it is printed as
  QuotedOf,   \* length |-> the token of a string of that length
  Leftover,   \* tokens strtok may find in a line that was freed
  Behind,     \* values of the byte behind a Byte's variable
  Misprinted  \* what a string with characters written by hand may be printed as: sequences of lines

ASSUME FilesOK ==
  /\ Exported \notin DOMAIN Scripts
  /\ \A n \in DOMAIN Scripts : Scripts[n] \in Seq(Seq(DOMAIN Number))
  /\ Misprinted \subseteq Seq(Seq(DOMAIN Number))
  /\ Leftover \subseteq DOMAIN Number /\ Behind \subseteq Value("byte")
  /\ {Byte, "bool", "date"} \subseteq DataType /\ DataType \subseteq IntType \cup {"bool", "date"}
  /\ IntType \cap {"bool", "date"} = {}

\* What export prints: the words, and the numbers of ports, intervals and values.
PrintedWords == {"add", "ch", "wg", "ds", "string", "intv", "off", "wrt"} \cup DataType
PrintedNumbers ==
  Port \cup Interval \cup {0, 1} \cup UNION {{Shown(t, v, g) : v \in Value(t), g \in Behind} : t \in DataType \cap IntType}

\* Numbers and strings are read as what they were, a word is no number, no
\* amount and no string, and what is printed for a type is its name.
ASSUME PrintedOK ==
  /\ PrintedWords \subseteq DOMAIN Number
  /\ PrintedNumbers \subseteq DOMAIN Numeral
  /\ \A n \in DOMAIN Numeral : Numeral[n] \in DOMAIN Number /\ Number[Numeral[n]] = n
  /\ 0 .. MaxString \subseteq DOMAIN QuotedOf
  /\ \A n \in DOMAIN QuotedOf : QuotedOf[n] \in DOMAIN Number \cap DOMAIN Quoted /\ Quoted[QuotedOf[n]] = n

\* What add takes for a port and a type, and intv for an interval.
ASSUME CommandsOK ==
  /\ \A w \in PrintedWords : Number[w] = 0 /\ w \notin DOMAIN Amount \cup DOMAIN Quoted
  /\ \A t \in DataType : t \in DOMAIN TypeOf /\ TypeOf[t] = t
  /\ {"", "add", "ch", "wg", "ds", "string", "intv", "off", "wrt"} \cap DOMAIN TypeOf = {}
  /\ Numeral[0] = "0" /\ Numeral[1] = "1" /\ \A n \in DOMAIN Numeral : Numeral[n] # "all"
  /\ Port \subseteq PortNumbers /\ Interval \subseteq Key

VARIABLES
  val,       \* Field |-> the value of its variable; 0 for a date or as written with a string
  lastBool,  \* the static value in writeValue
  byHand,    \* Fields of strings whose character wrt has written
  file,      \* name |-> lines
  open,      \* files being loaded, the innermost first
  shape,     \* history: what the exported file stands for
  exact      \* history: it had no characters written by hand

exportVars == <<val, lastBool, byHand, file, open, shape, exact>>
allVars == <<vars, exportVars>>

-----------------------------------------------------------------------------
(* The tree without its keys, in the order of std::map: what an export has  *)
(* to bring back.                                                           *)
ChildKeys(level, path) == {x[Len(path) + 1] : x \in {y \in DOMAIN level : SubSeq(y, 1, Len(path)) = path}}

Rank(x, K) == Cardinality({y \in K : y <= x})
InOrder(K, Of(_)) ==
  LET node == [x \in K |-> Of(x)]
  IN  [k \in 1 .. Cardinality(K) |-> node[CHOOSE x \in K : Rank(x, K) = k]]
Below(level, path, Of(_)) == LET Child(x) == Of(Append(path, x)) IN InOrder(ChildKeys(level, path), Child)

FieldShape(q) == [type |-> fields[q], value |-> val[q]]
DataSetShape(p) == [isString |-> dts[p].isString,
                    fields |-> IF dts[p].isString THEN <<>> ELSE Below(fields, p, FieldShape),
                    length |-> IF dts[p].isString THEN Cardinality(FieldKeys(p)) ELSE 0]
GroupShape(g) == [interval |-> wgs[g].interval, enabled |-> wgs[g].enabled, dts |-> Below(dts, g, DataSetShape)]
ChannelShape(c) == [port |-> conns[c].port, wgs |-> Below(wgs, <<c>>, GroupShape)]
TreeShape(C) == InOrder(C, ChannelShape)

\* printToFile: a node's line, then those of its children.
FieldLine(f, g) ==
  IF f.type = "date" THEN <<"add", "date">>
  ELSE <<"add", f.type, "wrt", Numeral[Shown(f.type, f.value, g)]>>
DataSetLines(d, g) ==
  IF d.isString THEN << <<"add", "string", QuotedOf[d.length]>> >>
  ELSE << <<"add", "ds">> >> \o [k \in DOMAIN d.fields |-> FieldLine(d.fields[k], g)]

\* Mutant: every WriterGroup is switched off.
GroupLineOffAll(w) ==
  <<"add", "wg">> \o (IF w.interval = DefaultInterval THEN <<>> ELSE <<"intv", Numeral[w.interval]>>)
                 \o (IF w.enabled THEN <<>> ELSE <<"off", "all">>)

GroupLine(w) ==
  <<"add", "wg">> \o (IF w.interval = DefaultInterval THEN <<>> ELSE <<"intv", Numeral[w.interval]>>)
                 \o (IF w.enabled THEN <<>> ELSE <<"off">>)
GroupLines(w, g) == <<GroupLine(w)>> \o FlattenSeq([k \in DOMAIN w.dts |-> DataSetLines(w.dts[k], g)])
ChannelLines(c, g) ==
  << <<"add", "ch", Numeral[c.port]>> >> \o FlattenSeq([k \in DOMAIN c.wgs |-> GroupLines(c.wgs[k], g)])
PrintToFile(t, g) == FlattenSeq([k \in DOMAIN t |-> ChannelLines(t[k], g)])

\* The file for the lines ls: once a character was written by hand, those of
\* strings may be others.
StringLines(ls) == {k \in DOMAIN ls : Len(ls[k]) = 3 /\ ls[k][2] = "string"}
Misprints(ls) ==
  {FlattenSeq([k \in DOMAIN ls |-> IF k \in StringLines(ls) THEN m[k] ELSE <<ls[k]>>]) :
     m \in [StringLines(ls) -> Misprinted]}
AsPrinted(ls) == IF byHand = {} THEN {ls} ELSE Misprints(ls)

-----------------------------------------------------------------------------
ExportInit ==
  /\ Init
  /\ val = <<>> /\ lastBool = 0 /\ byHand = {}
  /\ file = Scripts /\ open = <<>> /\ shape = <<>> /\ exact = FALSE

(* The values: a new variable is 0, and wrt converts its word to the type.  *)
(* A word that is no Boolean writes the last one written to any Field.      *)
Target ==
  LET r == Resolve(Tail(toks), 4)
  IN  IF At("wrt") /\ toks # <<>> /\ ~ r.missing /\ NodeExists(r.path) THEN {r.path} ELSE {}

BoolOf(t) == IF t \in {"true", "1"} THEN 1 ELSE IF t \in {"false", "0"} THEN 0 ELSE lastBool

WriteValue(q, t) ==
  CASE fields[q] = "bool" -> BoolOf(t)
    [] fields[q] = "date" -> 0
    [] OTHER -> Written(fields[q], Number[t])

\* The string DataSet that wrtstr, or a string alone, writes all characters of.
Rewritten ==
  LET r == Resolve(toks, 3)
  IN  IF At("str") /\ ~ r.missing /\ NodeExists(r.path) /\ dts[r.path].isString THEN {r.path} ELSE {}

Values ==
  IF Target = {}
  THEN /\ val' = [q \in DOMAIN fields' |-> IF q \in DOMAIN val THEN val[q] ELSE 0] /\ UNCHANGED lastBool
       /\ byHand' = {q \in byHand \cap DOMAIN fields' : DataSetOf(q) \notin Rewritten}
  ELSE \E q \in Target :
         /\ val' = [val EXCEPT ![q] = WriteValue(q, Head(toks))]
         /\ lastBool' = IF fields[q] = "bool" THEN BoolOf(Head(toks)) ELSE lastBool
         /\ byHand' = IF dts[DataSetOf(q)].isString THEN byHand \cup {q} ELSE byHand

-----------------------------------------------------------------------------
\* ofstream file(ptr): what was in the file is gone.
ExportFile ==
  /\ Command("export")
  /\ IF Len(toks) = 1 THEN UNCHANGED <<file, shape, exact>>
     ELSE LET t == TreeShape(DOMAIN conns)
          IN  /\ toks[2] = Exported
              /\ shape' = t /\ exact' = (byHand = {})
              /\ \E g \in Behind : \E lines \in {PrintToFile(t, g)} : \E ls \in AsPrinted(lines) :
                   file' = [n \in DOMAIN file \cup {Exported} |-> IF n = Exported THEN ls ELSE file[n]]
  /\ Continue("decode", From(toks, 3))
  /\ UNCHANGED <<treeVars, b, arg, job, said, typed, val, lastBool, byHand, open>>

(* The file is opened before the token behind its name is fetched.  When it *)
(* cannot be opened that token is dropped with the name.  The kind of an    *)
(* open file, and the tree at its opening, are history.                     *)
Load ==
  LET name == IF Len(toks) = 1 THEN "pubsub.txt" ELSE toks[2]
  IN  /\ Command("load")
      /\ IF name \in DOMAIN file
         THEN /\ open' = <<[kind |-> IF name = Exported /\ exact THEN "printed" ELSE "other",
                            lines |-> file[name], rest |-> From(toks, 3), decoded |-> FALSE,
                            conns |-> conns, wgs |-> wgs, dts |-> dts, fields |-> fields, val |-> val]>> \o open
              /\ Continue("decode", <<>>)
         ELSE Continue("decode", From(toks, 4)) /\ UNCHANGED open
      /\ UNCHANGED <<treeVars, b, arg, job, said, typed, val, lastBool, byHand, file, shape, exact>>

Comment(line) == line # <<>> /\ Head(line) = "//"

\* Mutant: the line is read again.
SameLine ==
  /\ At("decode") /\ toks = <<>> /\ open # <<>> /\ Head(open).lines # <<>>
  /\ Continue("decode", Head(Head(open).lines))
  /\ UNCHANGED <<treeVars, b, arg, job, said, typed, exportVars>>

\* decode(script) for the next line of the innermost file.
NextLine ==
  /\ At("decode") /\ toks = <<>> /\ open # <<>> /\ Head(open).lines # <<>>
  /\ LET f == Head(open)
         line == Head(f.lines)
     IN  /\ open' = <<[f EXCEPT !.lines = Tail(@), !.decoded = @ \/ ~ Comment(line)]>> \o Tail(open)
         /\ Continue("decode", IF Comment(line) THEN <<>> ELSE line)
  /\ UNCHANGED <<treeVars, b, arg, job, said, typed, val, lastBool, byHand, file, shape, exact>>

(* Back in the line of load: ptr is on the token behind the file's name,    *)
(* and strtok goes on where it was left, in the last line decoded, which    *)
(* was freed.  It finds the end of that line, or what is there by now.      *)
EndFile ==
  /\ At("decode") /\ toks = <<>> /\ open # <<>> /\ Head(open).lines = <<>>
  /\ LET f == Head(open)
     IN  \/ /\ f.rest = <<>> \/ ~ f.decoded
            /\ Continue("decode", f.rest)
         \/ /\ f.rest # <<>> /\ f.decoded
            /\ \E more \in {<<>>} \cup {<<t>> : t \in Leftover} : Continue("decode", <<Head(f.rest)>> \o more)
  /\ open' = Tail(open)
  /\ UNCHANGED <<treeVars, b, arg, job, said, typed, val, lastBool, byHand, file, shape, exact>>

ExportStep ==
  \/ /\ Step
     /\ (At("decode") /\ toks = <<>>) => open = <<>>
     /\ Values
     /\ UNCHANGED <<file, open, shape, exact>>
  \/ ExportFile \/ Load \/ NextLine \/ EndFile

ExportNext ==
  \/ ExportStep
  \/ \E line \in Lines : (EnterLine(line) \/ EndThread(line)) /\ Values /\ UNCHANGED <<file, open, shape, exact>>

ExportSpec == ExportInit /\ [][ExportNext]_allVars /\ WF_allVars(ExportStep)

-----------------------------------------------------------------------------
(* The values of the Fields, each in the range of its type; a date has none *)
(* but the time it is read.                                                 *)
ExportTypeOK ==
  /\ DOMAIN val = DOMAIN fields
  /\ \A q \in DOMAIN val :
       val[q] \in IF fields[q] \in IntType THEN Value(fields[q]) ELSE IF fields[q] = "date" THEN {0} ELSE {0, 1}
  /\ lastBool \in {0, 1} /\ byHand \subseteq DOMAIN fields

\* UInt64 values that atoi cannot read are written, but not read again.
Readable(t) ==
  \A c \in Range(t) : \A w \in Range(c.wgs) : \A d \in Range(w.dts) : \A f \in Range(d.fields) :
    f.type = "uint64" => f.value < Modulus["int"] \div 2

(* "Exporting commands from current setup into text file" and "Loading      *)
(* input commands from text file" (README): whatever was set up, loading    *)
(* the exported file adds a copy of it, Channel by Channel, with its ports, *)
(* intervals, WriterGroups switched off, types, strings and values, and     *)
(* leaves the nodes that were there alone.  A tree with characters written  *)
(* by hand in a string is left out: quotes are not escaped, and the file    *)
(* may be read as another string and other commands.                        *)
LoadRebuilds ==
  At("decode") /\ toks = <<>> /\ Len(open) = 1 /\ open[1].kind = "printed" /\ open[1].lines = <<>> /\ Readable(shape) =>
    LET old == open[1]
    IN  /\ TreeShape(DOMAIN conns \ DOMAIN old.conns) = shape
        /\ Extends(old.conns, conns) /\ Extends(old.wgs, wgs) /\ Extends(old.dts, dts)
        /\ Extends(old.fields, fields) /\ Extends(old.val, val)
        /\ \A x \in DOMAIN wgs \cup DOMAIN dts \cup DOMAIN fields :
             x[1] \in DOMAIN old.conns => x \in DOMAIN old.wgs \cup DOMAIN old.dts \cup DOMAIN old.fields
=============================================================================
