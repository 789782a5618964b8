------------------------------ MODULE Console -------------------------------
(***************************************************************************)
(* The input thread's command interpreter (UserInput::decode and the        *)
(* handlers it calls) on top of NodeTree: the tokens of the line still to   *)
(* be read, the selection b, and which loop of the source is running.       *)
(*                                                                         *)
(* strtok is "drop the head of toks"; ptr is the head, NULL the empty       *)
(* sequence.  Every handler names its node by a path whose inner keys come  *)
(* from the line and whose outer keys come from the selection; Resolve is   *)
(* the one definition of what the source repeats in eleven handlers.  A     *)
(* step is one turn of a handler's do-while loop, or one node added; tokens *)
(* are members of a set with their atoi value, a quoted string is one token *)
(* of known length.  The values the Fields hold, load and export are in     *)
(* Export, the characters of a string in StringDataSet, the commands of the *)
(* old examples in Examples.                                                *)
(***************************************************************************)
EXTENDS NodeTree, SequencesExt

CONSTANTS
  Lines,     \* the lines the user may type: sequences of tokens
  Number,    \* token |-> atoi of it, 0 for a word
  Amount,    \* "-n=<amount>" token |-> amount (getN)
  Quoted,    \* quoted token |-> length of the string
  TypeOf,    \* name of a Field type |-> UA_DataType
  MaxLines   \* bound: lines typed in one behaviour

ASSUME TokensOK ==
  /\ Lines \subseteq Seq(DOMAIN Number)
  /\ Number \in [DOMAIN Number -> Int]
  /\ Amount \in [DOMAIN Amount -> Key]
  /\ Quoted \in [DOMAIN Quoted -> 0 .. MaxString]
  /\ TypeOf \in [DOMAIN TypeOf -> DataType]
  /\ MaxLines \in Nat

VARIABLES
  b,      \* UserInput::b, the selected keys, 0 where nothing is selected
  toks,   \* the tokens from ptr on
  loop,   \* the loop that runs: "idle" waits for a line, "decode" for a command
  arg,    \* what the loop was given: op, a number n, a Field type
  job,    \* nodes still to be added by the handler's inner loop
  said,   \* "invalid" after "'...' is an invalid command"
  typed   \* lines typed so far

consoleVars == <<b, toks, loop, arg, job, said, typed>>
vars == <<treeVars, consoleVars>>

NoSelection == <<0, 0, 0, 0>>
NoJob == [op |-> "none", path |-> <<>>, count |-> 0]
NoArg == [op |-> "none", n |-> 0, type |-> Byte]

-----------------------------------------------------------------------------
(* Tokens.                                                                  *)
IsKey(t) == Number[t] # 0
KeyOf(t) == Number[t] % UInt16

\* "ptr != NULL && atoi(ptr) != 0"
AtKey(ts) == ts # <<>> /\ IsKey(Head(ts))

Next1(ts) == IF ts = <<>> THEN <<>> ELSE Tail(ts)
From(ts, i) == SubSeq(ts, i, Len(ts))

\* Mutant: the amount stays a UInt16.
SignedAsItIs(n) == n

\* UA_Int16 n = getN(ptr): a conversion from UInt16
Signed(n) == IF n >= UInt16 \div 2 THEN n - UInt16 ELSE n

(* The path of a node k levels deep.  Tokens give the keys from the         *)
(* innermost on, up to the first that is no number; the selection gives the *)
(* rest, and a selection that is missing there ends the handler.  With all  *)
(* keys given ptr stays on the last of them, otherwise it is on the token   *)
(* that was no key.                                                         *)
Given(ts, k) ==
  CHOOSE g \in 0 .. k :
    /\ g <= Len(ts)
    /\ \A i \in 1 .. g : IsKey(ts[i])
    /\ g = k \/ ~ AtKey(From(ts, g + 1))

Resolve(ts, k) ==
  LET g == Given(ts, k)
  IN  [given |-> g,
       full |-> g = k,
       missing |-> \E l \in 1 .. k - g : b[l] = 0,
       path |-> [l \in 1 .. k |-> IF l <= k - g THEN b[l] ELSE KeyOf(ts[k - l + 1])],
       rest |-> From(ts, IF g = k THEN k ELSE g + 1),
       after |-> From(ts, g + 1)]

\* Mutant: the levels below are kept.
SelectUpTo(path) == [l \in 1 .. 4 |-> IF l <= Len(path) THEN path[l] ELSE b[l]]

\* Selecting a path clears the levels below it.
Select(path) == [l \in 1 .. 4 |-> IF l <= Len(path) THEN path[l] ELSE 0]

NodeExists(path) ==
  CASE Len(path) = 1 -> path[1] \in DOMAIN conns
    [] Len(path) = 2 -> path \in DOMAIN wgs
    [] Len(path) = 3 -> path \in DOMAIN dts
    [] OTHER -> path \in DOMAIN fields

-----------------------------------------------------------------------------
Init ==
  /\ TreeInit
  /\ b = NoSelection
  /\ toks = <<>>
  /\ loop = "idle"
  /\ arg = NoArg
  /\ job = NoJob
  /\ said = "nothing"
  /\ typed = 0

\* Go on in loop l with ptr at ts.
Continue(l, ts) == loop' = l /\ toks' = ts

(* A line is read and decoded, except for the two that end the thread; the  *)
(* thread of the next run starts with nothing selected on the same tree.    *)
Ending == {<<"exit">>, <<"restart">>}

EnterLine(line) ==
  /\ loop = "idle" /\ typed < MaxLines
  /\ line \notin Ending
  /\ typed' = typed + 1
  /\ said' = "nothing"
  /\ Continue("decode", line)
  /\ UNCHANGED <<treeVars, b, arg, job>>

EndThread(line) ==
  /\ loop = "idle" /\ typed < MaxLines
  /\ line \in Ending
  /\ typed' = typed + 1
  /\ said' = "nothing"
  /\ DeleteAllConnections
  /\ b' = NoSelection
  /\ loop' = IF line = <<"exit">> THEN "stopped" ELSE "idle"
  /\ UNCHANGED <<toks, arg, job>>

At(l) == loop = l /\ job = NoJob
Command(word) == At("decode") /\ toks # <<>> /\ Head(toks) = word

LineDone ==
  /\ At("decode") /\ toks = <<>>
  /\ Continue("idle", <<>>)
  /\ UNCHANGED <<treeVars, b, arg, job, said, typed>>

-----------------------------------------------------------------------------
(* ch, wg, ds and fd select an existing node; lower levels are cleared, and *)
(* a level whose node is not there is cleared too.                          *)
LevelOf == [ch |-> 1, wg |-> 2, ds |-> 3, fd |-> 4]

SelectNode(word) ==
  LET l == LevelOf[word]
      path == [i \in 1 .. l |-> IF i = l THEN KeyOf(toks[2]) ELSE b[i]]
      found == (\A i \in 1 .. l : path[i] # 0) /\ NodeExists(path)
  IN  /\ Command(word)
      /\ b' = IF Len(toks) = 1 THEN b
              ELSE Select(IF found THEN path ELSE SubSeq(path, 1, l - 1))
      /\ Continue("decode", From(toks, 3))
      /\ UNCHANGED <<treeVars, arg, job, said, typed>>

\* Anything that is no command and no string is reported and skipped; load and
\* export are in Export.
ShowWords == {"help", "clear", "show", "cb"}
CommandWords ==
  {"add", "rm", "wrt", "wrtstr", "on", "off", "intv", "load", "export"} \cup ShowWords \cup DOMAIN LevelOf

\* help, clear, show and cb print something.
Show ==
  /\ At("decode") /\ toks # <<>> /\ Head(toks) \in ShowWords
  /\ Continue("decode", Tail(toks))
  /\ UNCHANGED <<treeVars, b, arg, job, said, typed>>

Invalid ==
  /\ At("decode") /\ toks # <<>>
  /\ Head(toks) \notin CommandWords \cup DOMAIN Quoted
  /\ said' = "invalid"
  /\ Continue("decode", Tail(toks))
  /\ UNCHANGED <<treeVars, b, arg, job, typed>>

-----------------------------------------------------------------------------
(* add and rm: a loop over subjects.  A number a handler stops at is        *)
(* skipped, and a word that is no subject goes back to decode.              *)
Subjects(word) ==
  /\ Command(word)
  /\ Continue(word, Tail(toks))
  /\ UNCHANGED <<treeVars, b, arg, job, said, typed>>

BackTo(word, ts) == Continue(word, IF AtKey(ts) THEN Tail(ts) ELSE ts)

\* The optional "-n=<amount>", and the tokens behind it.
HasAmount(ts) == ts # <<>> /\ Head(ts) \in DOMAIN Amount
Times(ts) == IF HasAmount(ts) THEN Signed(Amount[Head(ts)]) ELSE 1
Counted(l, type, ts) ==
  /\ arg' = [NoArg EXCEPT !.n = Times(ts), !.type = type]
  /\ Continue(l, IF HasAmount(ts) THEN Tail(ts) ELSE ts)

AddSubject ==
  /\ At("add")
  /\ LET subject == IF toks = <<>> THEN "" ELSE Head(toks)
         rest == Next1(toks)
     IN  CASE subject = "ch" -> arg' = NoArg /\ Continue("addCh", rest)
           [] subject = "wg" -> Counted("addWg", Byte, rest)
           [] subject = "ds" -> Counted("addDs", Byte, rest)
           [] subject \in DOMAIN TypeOf -> Counted("addFd", TypeOf[subject], rest)
           [] subject = "string" ->
                IF rest # <<>> /\ Head(rest) \in DOMAIN Quoted
                THEN arg' = [NoArg EXCEPT !.n = Quoted[Head(rest)]] /\ Continue("addString", Tail(rest))
                ELSE arg' = NoArg /\ BackTo("add", rest)
           [] OTHER -> arg' = NoArg /\ Continue("decode", toks)
  /\ UNCHANGED <<treeVars, b, job, said, typed>>

\* Ports are read until a token is no number; invalid ports are skipped.
PortNumbers == 1000 .. 9999
NextPort == IF toks = <<>> THEN 0 ELSE KeyOf(Head(toks))

AddChannel ==
  /\ At("addCh")
  /\ \/ NextPort = 0 /\ BackTo("add", toks) /\ UNCHANGED <<treeVars, b>>
     \/ /\ NextPort \in PortNumbers
        /\ CreateConnection(NextPort)
        /\ b' = IF connKeyInc' \in DOMAIN conns THEN b ELSE Select(<<connKeyInc'>>)
        /\ Continue("addCh", Tail(toks))
     \/ /\ NextPort \notin {0} \cup PortNumbers
        /\ Continue("addCh", Tail(toks))
        /\ UNCHANGED <<treeVars, b>>
  /\ UNCHANGED <<arg, job, said, typed>>

(* One turn of a do-while that takes a path of k keys: when all k were      *)
(* given and another number follows, the loop goes on with it; otherwise    *)
(* the handler returns to the loop that called it.                          *)
NextPath(l, caller, r) ==
  IF r.full /\ AtKey(r.after) THEN Continue(l, r.after)
  ELSE BackTo(caller, IF r.full THEN r.after ELSE r.rest)

(* The nodes of the turn are added one by one, by the actions of NodeAdded. *)
AddTurn(l, k, op, Allowed(_)) ==
  LET r == Resolve(toks, k)
  IN  /\ At(l)
      /\ NextPath(l, "add", r)
      /\ job' = IF ~ r.missing /\ NodeExists(r.path) /\ Allowed(r.path) /\ arg.n > 0
                THEN [op |-> op, path |-> r.path, count |-> arg.n] ELSE NoJob
      /\ UNCHANGED <<treeVars, b, arg, said, typed>>

Always(path) == TRUE
\* Mutant: the test of isString is left out.
EvenAString(path) == TRUE

\* "Forbidden to directly manipulate String DataSet"
NotAString(path) == ~ dts[path].isString

AddGroups == AddTurn("addWg", 1, "wg", Always)
AddDataSets == AddTurn("addDs", 2, "ds", Always)
AddFields == AddTurn("addFd", 3, "fd", NotAString)

(* add string: after a path that lacks a key, or one whose keys were all    *)
(* given, the token at ptr is dropped and the loop goes on with whatever    *)
(* comes next.                                                              *)
AddString ==
  LET r == Resolve(toks, 2)
      again == r.full \/ r.missing
      left == IF r.full THEN r.after ELSE IF r.missing THEN Next1(r.rest) ELSE r.rest
  IN  /\ At("addString")
      /\ IF again /\ left # <<>> THEN Continue("addString", left) ELSE BackTo("add", left)
      /\ job' = IF ~ r.missing /\ NodeExists(r.path)
                THEN [op |-> "string", path |-> r.path, count |-> 1] ELSE NoJob
      /\ UNCHANGED <<treeVars, b, arg, said, typed>>

\* Mutant: of several nodes only the last one is selected.
LastNodeAdded(path, used) ==
  /\ b' = IF used \/ job.count > 1 THEN b ELSE Select(path)
  /\ job' = IF used \/ job.count = 1 THEN NoJob ELSE [job EXCEPT !.count = @ - 1]
  /\ UNCHANGED <<toks, loop, arg, said, typed>>

(* The inner loop over n.  path is the node just added; a key that was in   *)
(* use ends the loop.                                                       *)
NodeAdded(path, used) ==
  /\ IF used THEN b' = b /\ job' = NoJob
     ELSE /\ b' = Select(path)
          /\ job' = IF job.count = 1 THEN NoJob ELSE [job EXCEPT !.count = @ - 1]
  /\ UNCHANGED <<toks, loop, arg, said, typed>>

AddGroup ==
  /\ job.op = "wg" /\ AddWritergroup(job.path[1])
  /\ LET g == Append(job.path, conns'[job.path[1]].wgKeyInc)
     IN  NodeAdded(g, g \in DOMAIN wgs)

AddDataSet ==
  /\ job.op = "ds" /\ AddDataset(job.path, FALSE)
  /\ LET p == Append(job.path, wgs'[job.path].dtsKeyInc)
     IN  NodeAdded(p, p \in DOMAIN dts)

AddOneField ==
  /\ job.op = "fd" /\ AddData(job.path, arg.type)
  /\ LET q == Append(job.path, dts'[job.path].varKeyInc)
     IN  NodeAdded(q, q \in DOMAIN fields)

\* addDataSetString selects the DataSet but leaves b[B_VAR] as it is.
AddStringDataSet ==
  /\ job.op = "string" /\ AddDataset(job.path, TRUE)
  /\ LET p == Append(job.path, wgs'[job.path].dtsKeyInc)
     IN  IF p \in DOMAIN dts THEN b' = b /\ job' = NoJob
         ELSE /\ b' = [Select(p) EXCEPT ![4] = b[4]]
              /\ job' = [op |-> "text", path |-> p, count |-> 1]
  /\ UNCHANGED <<toks, loop, arg, said, typed>>

WriteNewString ==
  /\ job.op = "text" /\ WriteString(job.path, arg.n)
  /\ job' = NoJob
  /\ UNCHANGED <<b, toks, loop, arg, said, typed>>

-----------------------------------------------------------------------------
(* rm: a turn asks for confirmation once it found what the node hangs on;   *)
(* y is the answer.  Removed(path) is the removal of a node that is there,  *)
(* after which its parent is selected.                                      *)
RemoveTurn(l, k, Removed(_), y) ==
  LET r == Resolve(toks, k)
      found == ~ r.missing /\ NodeExists(r.path)
  IN  /\ At(l)
      /\ NextPath(l, "rm", r)
      /\ IF found /\ y THEN Removed(r.path) /\ b' = Select(Front(r.path))
         ELSE UNCHANGED <<treeVars, b>>
      /\ UNCHANGED <<arg, job, said, typed>>

RemoveChannelAt(path) == DeleteConnection(path[1])
RemoveFieldAt(path) == RemoveField(DataSetOf(path), path[4])

RemoveChannels(y) == RemoveTurn("rmCh", 1, RemoveChannelAt, y)
RemoveGroups(y) == RemoveTurn("rmWg", 2, RemoveWritergroup, y)
RemoveDataSets(y) == RemoveTurn("rmDs", 3, RemoveDataset, y)
\* Fields of a string are refused before the question.
RemoveFields(y) ==
  /\ At("rmFd")
  /\ LET r == Resolve(toks, 4)
         string == ~ r.missing /\ DataSetOf(r.path) \in DOMAIN dts /\ dts[DataSetOf(r.path)].isString
     IN  RemoveTurn("rmFd", 4, RemoveFieldAt, y /\ ~ string)

RemoveLoop == [ch |-> "rmCh", wg |-> "rmWg", ds |-> "rmDs", fd |-> "rmFd"]

\* A confirmed rm all ends the loop over subjects, a refused one does not.
RemoveSubject(y) ==
  /\ At("rm")
  /\ LET subject == IF toks = <<>> THEN "" ELSE Head(toks)
     IN  IF subject = "all"
         THEN IF y THEN DeleteAllConnections /\ b' = NoSelection /\ Continue("decode", Tail(toks))
              ELSE UNCHANGED <<treeVars, b>> /\ BackTo("rm", Tail(toks))
         ELSE /\ IF subject \in DOMAIN RemoveLoop THEN Continue(RemoveLoop[subject], Tail(toks))
                 ELSE Continue("decode", toks)
              /\ UNCHANGED <<treeVars, b>>
  /\ UNCHANGED <<arg, job, said, typed>>

-----------------------------------------------------------------------------
\* Mutant: the loop goes on without strtok.
ActAgain(l, r, acted) ==
  IF r.full \/ acted \/ Len(r.rest) <= 1
  THEN Continue("decode", IF r.full \/ acted THEN r.rest ELSE <<>>)
  ELSE Continue(l, r.rest)

(* wrt, on, off and intv act on one node and then look at the token ptr was *)
(* left on: with all keys given that is the last key, which decode reads    *)
(* as a command; a word after a node that was not found is dropped and the  *)
(* loop goes on; and after a selected node decode takes over.               *)
ActOnce(l, r, acted) ==
  IF r.full \/ acted \/ Len(r.rest) <= 1
  THEN Continue("decode", IF r.full \/ acted THEN r.rest ELSE <<>>)
  ELSE Continue(l, Tail(r.rest))

\* wrt: the head of toks is the value, the path follows it.
WriteVariable ==
  LET r == Resolve(Tail(toks), 4)
  IN  /\ At("wrt")
      /\ IF toks = <<>> THEN Continue("decode", <<>>)
         ELSE ActOnce("wrt", r, ~ r.missing /\ NodeExists(r.path))
      /\ UNCHANGED <<treeVars, b, arg, job, said, typed>>

\* What on, off and intv do to a set of WriterGroups.
Apply(a, S) == IF a.op = "intv" THEN UpdateInterval(S, a.n) ELSE SetEnabled(S, a.op = "on")

(* The tokens after the command: "all", "ch" or "port" and numbers, or      *)
(* paths; intv takes the interval before them, or after "all".              *)
Configure(word) ==
  LET all == Len(toks) > 1 /\ toks[2] = "all"
      at == IF word = "intv" /\ all THEN 3 ELSE 2
      ts == From(toks, IF word = "intv" THEN 3 ELSE 2)
      target == IF ts = <<>> THEN "" ELSE Head(ts)
      a == [NoArg EXCEPT !.op = word, !.n = IF Len(toks) < at THEN 0 ELSE KeyOf(toks[at])]
  IN  /\ Command(word)
      /\ IF word = "intv" /\ Len(toks) < at
         THEN UNCHANGED treeVars /\ arg' = NoArg /\ Continue("decode", <<>>)
         ELSE /\ arg' = a
              /\ IF all THEN Apply(a, DOMAIN wgs) /\ Continue("decode", From(toks, at + 1))
                 ELSE /\ UNCHANGED treeVars
                      /\ CASE target = "ch" -> Continue("confCh", Tail(ts))
                           [] target = "port" -> Continue("confPort", Tail(ts))
                           [] OTHER -> Continue("confWg", ts)
      /\ UNCHANGED <<b, job, said, typed>>

ConfigureGroup ==
  LET r == Resolve(toks, 2)
      found == ~ r.missing /\ NodeExists(r.path)
  IN  /\ At("confWg")
      /\ ActOnce("confWg", r, found)
      /\ IF found THEN Apply(arg, {r.path}) ELSE UNCHANGED treeVars
      /\ UNCHANGED <<b, arg, job, said, typed>>

\* One number of "on ch <ID> ..." or "on port <port> ...".
ConfigureMany(l, Valid(_), Groups(_)) ==
  /\ At(l)
  /\ IF toks # <<>> /\ Valid(Head(toks))
     THEN Apply(arg, Groups(KeyOf(Head(toks)))) /\ Continue(l, Tail(toks))
     ELSE UNCHANGED treeVars /\ Continue("decode", toks)
  /\ UNCHANGED <<b, arg, job, said, typed>>

ValidPort(t) == KeyOf(t) \in PortNumbers
\* intv tests the number after the conversion to UInt16, on and off before.
ValidChannel(t) == IF arg.op = "intv" THEN KeyOf(t) # 0 ELSE IsKey(t)
ConfigureChannel == ConfigureMany("confCh", ValidChannel, GroupsOfChannel)
ConfigurePort == ConfigureMany("confPort", ValidPort, GroupsOfPort)

-----------------------------------------------------------------------------
(* wrtstr, and a string alone: the string is written to each DataSet of the *)
(* paths that follow; a DataSet that is no string refuses it.               *)
WriteCommand ==
  /\ At("decode") /\ toks # <<>>
  /\ LET ts == IF Head(toks) = "wrtstr" THEN Tail(toks) ELSE toks
     IN  /\ Head(toks) \in {"wrtstr"} \cup DOMAIN Quoted
         /\ IF ts # <<>> /\ Head(ts) \in DOMAIN Quoted
            THEN arg' = [NoArg EXCEPT !.n = Quoted[Head(ts)]] /\ Continue("str", Tail(ts))
            ELSE arg' = NoArg /\ Continue("decode", ts)
  /\ UNCHANGED <<treeVars, b, job, said, typed>>

WriteStrings ==
  LET r == Resolve(toks, 3)
      left == IF r.full THEN r.after ELSE IF r.missing THEN Next1(r.rest) ELSE r.rest
      again == (r.full \/ r.missing) /\ AtKey(left)
  IN  /\ At("str")
      /\ Continue(IF again THEN "str" ELSE "decode", left)
      /\ IF ~ r.missing /\ NodeExists(r.path) /\ dts[r.path].isString
         THEN WriteString(r.path, arg.n) ELSE UNCHANGED treeVars
      /\ UNCHANGED <<b, arg, job, said, typed>>

-----------------------------------------------------------------------------
\* One step of decoding the line.
Step ==
  \/ LineDone
  \/ \E word \in DOMAIN LevelOf : SelectNode(word)
  \/ Invalid \/ Show
  \/ \E word \in {"add", "rm", "wrt"} : Subjects(word)
  \/ AddSubject \/ AddChannel \/ AddGroups \/ AddDataSets \/ AddFields \/ AddString
  \/ AddGroup \/ AddDataSet \/ AddOneField \/ AddStringDataSet \/ WriteNewString
  \/ \E y \in BOOLEAN :
       RemoveSubject(y) \/ RemoveChannels(y) \/ RemoveGroups(y) \/ RemoveDataSets(y) \/ RemoveFields(y)
  \/ WriteVariable
  \/ \E word \in {"on", "off", "intv"} : Configure(word)
  \/ ConfigureGroup \/ ConfigureChannel \/ ConfigurePort
  \/ WriteCommand \/ WriteStrings

Next == Step \/ \E line \in Lines : EnterLine(line) \/ EndThread(line)

\* A thread that decodes a line is scheduled again and again; nobody has to type.
Spec == Init /\ [][Next]_vars /\ WF_vars(Step)

-----------------------------------------------------------------------------
(* Type of the interpreter's variables.                                     *)
Loops == {"idle", "stopped", "decode", "add", "addCh", "addWg", "addDs", "addFd", "addString", "rm",
          "rmCh", "rmWg", "rmDs", "rmFd", "wrt", "confWg", "confCh", "confPort", "str"}

ConsoleTypeOK ==
  /\ b \in [1 .. 4 -> Key]
  /\ toks \in Seq(DOMAIN Number)
  /\ loop \in Loops
  /\ arg \in [op : {"none", "on", "off", "intv"}, n : -(UInt16 \div 2) .. UInt16 - 1, type : DataType]
  /\ job.op \in {"none", "wg", "ds", "fd", "string", "text"}
  /\ job.path \in Seq(Key) /\ job.count \in 0 .. UInt16 \div 2 - 1
  /\ said \in {"nothing", "invalid"}
  /\ typed \in 0 .. MaxLines

(* What the prompt shows as selected is there, whatever was added, removed, *)
(* written or selected before.  The Field of a string DataSet is left out:  *)
(* addDataSetString does not clear it and a shorter string removes it.      *)
SelectionExists ==
  /\ \A l \in 2 .. 4 : b[l] # 0 => b[l - 1] # 0
  /\ \A l \in 1 .. 3 : b[l] # 0 => NodeExists(SubSeq(b, 1, l))
  /\ b[4] # 0 => dts[SubSeq(b, 1, 3)].isString \/ NodeExists(b)

(* Adding a node selects it, so that a chain as "add ch 4840 wg ds bool"    *)
(* builds one branch; a Field a string adds for a character is not selected.*)
AddedNodeSelected ==
  [][/\ \A c \in DOMAIN conns' \ DOMAIN conns : b' = Select(<<c>>)
     /\ \A g \in DOMAIN wgs' \ DOMAIN wgs : b' = Select(g)
     /\ \A p \in DOMAIN dts' \ DOMAIN dts : SubSeq(b', 1, 3) = p
     /\ \A q \in DOMAIN fields' \ DOMAIN fields : dts[DataSetOf(q)].isString \/ b' = q]_vars

(* Adding, writing and publishing commands never lose a node; only rm does, *)
(* a line that ends the thread, and a shorter string with its last Fields.  *)
OnlyRemoveRemoves ==
  [][loop \notin {"idle", "rm", "rmCh", "rmWg", "rmDs", "rmFd"} =>
       /\ DOMAIN conns \subseteq DOMAIN conns'
       /\ DOMAIN wgs \subseteq DOMAIN wgs'
       /\ DOMAIN dts \subseteq DOMAIN dts'
       /\ \A q \in DOMAIN fields \ DOMAIN fields' : dts[DataSetOf(q)].isString]_vars

(* Every line comes to its end: no combination of the nested loops around   *)
(* strtok spins on a token.                                                 *)
LineEventuallyDone == loop # "idle" ~> loop \in {"idle", "stopped"}

(* The help's "on <wg ID> <ch ID>", in a line of several commands or alone: *)
(* no line of valid commands is answered with "is an invalid command".  It  *)
(* is, when decode takes the last key of on, off, intv or wrt for a command.*)
NothingInvalid == said # "invalid"
=============================================================================
