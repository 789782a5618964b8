------------------------------ MODULE Examples ------------------------------
(***************************************************************************)
(* The commands of the old examples: "example on/off/hello", and disable,   *)
(* enable, interval and set on the groups getOldExample makes, one per data *)
(* type.  Connection, groups and variables of the examples live in static   *)
(* arrays of UserInput beside the tree, on the same server.  The tree is    *)
(* kept as one Channel with one WriterGroup, which the user adds and        *)
(* removes; the rest of it is in NodeMirror and Console.                    *)
(*                                                                         *)
(* The server's tables are the library's (external), as in NodeMirror.  A   *)
(* published data set and its writer are made together with the variable    *)
(* and the group and are left out.  owner is no state of the program: it    *)
(* says which command made an object.                                       *)
(***************************************************************************)
EXTENDS Integers, FiniteSets, Functions, SequencesExt

\* The commands the old examples have.
CommandWords == {"disable", "enable", "interval", "set", "example"}

CONSTANTS
  Index,        \* the INDEX_ numbers of Defines_and_Structures.h, but the Boolean's
  Name,         \* selection as typed |-> Index; "int" and "int32" are the same
  Number,       \* token |-> atoi of it
  Lines,        \* the lines the user may type
  Ports,        \* the ports of the tree's Channels
  DefaultPort,  \* the port of the address at the start of a run
  NodeId,       \* the ids a server gives out
  Given(_, _),  \* Given(Q, S): the ways a server may give each element of Q an id of S
  MaxLines      \* bound: lines typed, Channels added and removed

ASSUME ExampleConstantsOK ==
  \* set writes a Boolean through a conversion of its own, which is Export's BoolOf
  /\ {"date", "byte"} \subseteq Index /\ "bool" \notin Index
  /\ Name \in [DOMAIN Name -> Index] /\ "all" \notin DOMAIN Name
  /\ DOMAIN Name \cap CommandWords = {}
  /\ Lines \subseteq Seq(DOMAIN Number)
  /\ 0 \notin NodeId
  \* an id of its own for each object, and none that is in use
  /\ \A S \in SUBSET NodeId : \A Q \in {{"one"}, Index, Index \ {"date"}} : Given(Q, S) \subseteq Injection(Q, S)
  /\ MaxLines \in Nat

VARIABLES
  connId, wg, wgConfig, varNode,  \* UserInput's static members
  srv,      \* the server's connections, groups and variables
  port,     \* the port in Publisher's networkAddressUrl
  tree,     \* the ids of the tree's Channel and WriterGroup, or NoTree
  toks,     \* the tokens from ptr on
  loop,     \* "idle", "decode" or the command whose selections are read
  val,      \* the value of interval and set
  typed,    \* lines typed so far
  asked,    \* history: what the lines typed asked of each example
  live      \* history: the examples are on; off, hello, restart or an rm that
            \* takes their objects for the tree's ended that

statics == <<connId, wg, wgConfig, varNode>>
line == <<toks, loop, val, typed>>
vars == <<statics, srv, port, tree, line, asked, live>>

Null == 0
NoTree == [conn |-> Null, group |-> Null]
NewServer == [conn |-> <<>>, group |-> <<>>, var |-> <<>>]
NewExample == [interval |-> 1000, on |-> TRUE, value |-> 0, sure |-> TRUE]
Valued == Index \ {"date"}

-----------------------------------------------------------------------------
(* The server (external).                                                   *)
Put(f, Q, v) == [x \in DOMAIN f \cup Q |-> IF x \in Q THEN v ELSE f[x]]
FreshFor(Q, used) == Given(Q, NodeId \ used)
Fresh(used) == {f["one"] : f \in FreshFor({"one"}, used)}

\* A connection on port p, with groups G that publish every n milliseconds.
AddConnection(s, c, p, G, n, who) ==
  [s EXCEPT !.conn = Put(@, {c}, [port |-> p, owner |-> who]),
            !.group = Put(@, G, [conn |-> c, interval |-> n, on |-> TRUE, owner |-> who])]

\* A group refers to its connection and goes with it.
RemoveConnection(s, c) ==
  [s EXCEPT !.conn = Restrict(@, DOMAIN @ \ {c}),
            !.group = Restrict(@, {g \in DOMAIN @ : @[g].conn # c})]

\* Removing a group that is not there does nothing.
RemoveGroup(s, g) == [s EXCEPT !.group = Restrict(@, DOMAIN @ \ {g})]

\* Setting the state or the interval of a group that is not there does nothing.
WithState(s, S, on) ==
  [s EXCEPT !.group = [g \in DOMAIN @ |-> IF g \in S THEN [@[g] EXCEPT !.on = on] ELSE @[g]]]
WithInterval(s, S, n) ==
  [s EXCEPT !.group = [g \in DOMAIN @ |-> IF g \in S THEN [@[g] EXCEPT !.interval = n] ELSE @[g]]]

-----------------------------------------------------------------------------
Init ==
  /\ connId = Null
  /\ wg = [i \in Index |-> Null] /\ wgConfig = [i \in Index |-> 0]
  /\ varNode = [i \in Valued |-> Null]
  /\ srv = NewServer /\ port = DefaultPort /\ tree = NoTree
  /\ toks = <<>> /\ loop = "idle" /\ val = "0" /\ typed = 0
  /\ asked = [i \in Index |-> NewExample] /\ live = FALSE

(* What a line asks for, read as the help puts it: enable, disable,         *)
(* interval and set apply to every selection behind them, up to the next    *)
(* command or a word that is no selection of theirs; "all" stands for every *)
(* example, except after set.  Two selections are misread, and what becomes *)
(* of the examples they name is left open (~ sure): "interval <n> sbyte"    *)
(* sets the interval of byte, and nothing is enabled behind "double".       *)
Wish(old, cmd, v) ==
  CASE cmd = "disable" -> [old EXCEPT !.on = FALSE]
    [] cmd = "enable" -> [old EXCEPT !.on = TRUE]
    [] cmd = "interval" -> [old EXCEPT !.interval = Number[v]]
    [] cmd = "set" -> [old EXCEPT !.value = Number[v]]
    [] OTHER -> old

Selected(t) == IF t = "all" THEN Index ELSE IF t \in DOMAIN Name THEN {Name[t]} ELSE {}
Takes(cmd, i) == cmd # "set" \/ i \in Valued
Chosen(cmd, t) == IF cmd = "set" /\ t = "all" THEN {} ELSE {i \in Selected(t) : Takes(cmd, i)}

Misread(cmd, t) ==
  IF cmd = "behind double" THEN Selected(t)
  ELSE IF cmd = "interval" /\ Selected(t) = {"sbyte"} THEN {"sbyte", "byte"} ELSE {}

\* The token behind example, or the value of interval and set.
ReadOperand(r, t) ==
  IF r.cmd = "example"
  THEN [r EXCEPT !.waits = FALSE, !.cmd = "none",
                 !.asked = IF t = "on" THEN [i \in Index |-> NewExample] ELSE @]
  ELSE [r EXCEPT !.waits = FALSE, !.val = t]

Told(old, i, r, t) ==
  [(IF i \in Chosen(r.cmd, t) THEN Wish(old, r.cmd, r.val) ELSE old) EXCEPT !.sure = @ /\ i \notin Misread(r.cmd, t)]

Behind(cmd, t) ==
  IF Chosen(cmd, t) = {} /\ ~ (cmd = "set" /\ t = "all") THEN "none"
  ELSE IF cmd = "enable" /\ Selected(t) = {"double"} THEN "behind double" ELSE cmd

ReadSelection(r, t) ==
  [r EXCEPT !.asked = [i \in Index |-> Told(@[i], i, r, t)], !.cmd = Behind(@, t)]

Read(r, t) ==
  IF r.waits THEN ReadOperand(r, t)
  ELSE IF t \in CommandWords THEN [r EXCEPT !.cmd = t, !.waits = t \in {"interval", "set", "example"}]
  ELSE ReadSelection(r, t)

Unread == [cmd |-> "none", val |-> "none", waits |-> FALSE, asked |-> asked]
AskedBy(l) == FoldLeft(Read, Unread, l).asked

-----------------------------------------------------------------------------
Continue(l, ts) == loop' = l /\ toks' = ts
From(ts, i) == SubSeq(ts, i, Len(ts))

EnterLine(l) ==
  /\ loop = "idle" /\ typed < MaxLines
  /\ l # <<"restart">>
  /\ typed' = typed + 1
  /\ Continue("decode", l)
  /\ asked' = AskedBy(l)
  /\ UNCHANGED <<statics, srv, port, tree, val, live>>

(* restart empties the tree and makes main start over with a new Publisher, *)
(* whose server may give the same ids out again.  The statics stay.         *)
Restart(l) ==
  /\ loop = "idle" /\ typed < MaxLines
  /\ l = <<"restart">>
  /\ typed' = typed + 1
  /\ srv' = NewServer /\ port' = DefaultPort /\ tree' = NoTree
  /\ live' = FALSE
  /\ UNCHANGED <<statics, toks, loop, val, asked>>

\* "add ch <p> wg" and "rm all", on a tree that has room for one Channel.
AddTree(p) ==
  /\ loop = "idle" /\ typed < MaxLines /\ tree = NoTree
  /\ \E c \in Fresh(DOMAIN srv.conn), g \in Fresh(DOMAIN srv.group) :
       /\ tree' = [conn |-> c, group |-> g]
       /\ srv' = AddConnection(srv, c, p, {g}, 100, "tree")
  /\ port' = p /\ typed' = typed + 1
  /\ UNCHANGED <<statics, toks, loop, val, asked, live>>

(* deleteConnection removes the connection, then the groups by the ids the  *)
(* tree kept of them.  Either id may be the examples' by now: an off of     *)
(* examples from before a restart may have removed what the tree had, and   *)
(* an on been given the ids.  rm then takes the examples' own objects away. *)
RemoveTree ==
  /\ loop = "idle" /\ typed < MaxLines /\ tree # NoTree
  /\ srv' = RemoveGroup(RemoveConnection(srv, tree.conn), tree.group)
  /\ tree' = NoTree /\ typed' = typed + 1
  /\ live' = (live /\ tree.conn # connId /\ tree.group \notin Range(wg))
  /\ UNCHANGED <<statics, port, toks, loop, val, asked>>

-----------------------------------------------------------------------------
At(l) == loop = l
Command(word) == At("decode") /\ toks # <<>> /\ Head(toks) = word

LineDone ==
  /\ At("decode") /\ toks = <<>>
  /\ Continue("idle", <<>>)
  /\ UNCHANGED <<statics, srv, port, tree, val, typed, asked, live>>

Invalid ==
  /\ At("decode") /\ toks # <<>> /\ Head(toks) \notin CommandWords
  /\ Continue("decode", Tail(toks))
  /\ UNCHANGED <<statics, srv, port, tree, val, typed, asked, live>>

\* Mutant: ids that are set already, be it by an earlier run, are kept.
GetOldExampleOnce ==
  \E c \in Fresh(DOMAIN srv.conn), g \in FreshFor(Index, DOMAIN srv.group), v \in FreshFor(Valued, DOMAIN srv.var) :
    /\ connId' = c /\ wg' = [i \in Index |-> IF wg[i] = Null THEN g[i] ELSE wg[i]] /\ varNode' = v
    /\ wgConfig' = [i \in Index |-> IF i = "date" THEN wgConfig[i] ELSE 1000]
    /\ srv' = [AddConnection(srv, c, 4840, Range(g), 1000, "example") EXCEPT !.var = Put(@, Range(v), 0)]
    /\ port' = 4840 /\ live' = TRUE

(* getOldExample: a connection on port 4840 with a group per index, and a   *)
(* variable per index but the clock's.  The ids of examples that are on     *)
(* already are overwritten.  wgConfig of the clock's group is never read    *)
(* back from the server.                                                    *)
GetOldExample ==
  \E c \in Fresh(DOMAIN srv.conn), g \in FreshFor(Index, DOMAIN srv.group), v \in FreshFor(Valued, DOMAIN srv.var) :
    /\ connId' = c /\ wg' = g /\ varNode' = v
    /\ wgConfig' = [i \in Index |-> IF i = "date" THEN wgConfig[i] ELSE 1000]
    /\ srv' = [AddConnection(srv, c, 4840, Range(g), 1000, "example") EXCEPT !.var = Put(@, Range(v), 0)]
    /\ port' = 4840 /\ live' = TRUE

\* removePubSubConnection(connId), whatever connId names by now.
ExampleOff ==
  /\ srv' = RemoveConnection(srv, connId)
  /\ live' = FALSE
  /\ UNCHANGED <<statics, port>>

\* publishHelloWorld overwrites connId; its group is kept nowhere.
PublishHelloWorld ==
  \E c \in Fresh(DOMAIN srv.conn), g \in Fresh(DOMAIN srv.group) :
    /\ connId' = c
    /\ srv' = AddConnection(srv, c, port, {g}, 1000, "hello")
    /\ live' = FALSE
    /\ UNCHANGED <<wg, wgConfig, varNode, port>>

Example ==
  LET what == IF Len(toks) = 1 THEN "none" ELSE toks[2] IN
  /\ Command("example")
  /\ Continue("decode", From(toks, 3))
  /\ CASE what = "on" -> GetOldExample
       [] what = "off" -> ExampleOff
       [] what = "hello" -> PublishHelloWorld
       [] OTHER -> UNCHANGED <<statics, srv, port, live>>
  /\ UNCHANGED <<tree, val, typed, asked>>

-----------------------------------------------------------------------------
(* The four commands read selections until their function does not return 0 *)
(* and leave ptr on the token where that was.                               *)
Plain(word) ==
  /\ Command(word) /\ word \in {"disable", "enable"}
  /\ Continue(IF Len(toks) = 1 THEN "decode" ELSE word, Tail(toks))
  /\ UNCHANGED <<statics, srv, port, tree, val, typed, asked, live>>

WithValue(word) ==
  /\ Command(word) /\ word \in {"interval", "set"}
  /\ IF Len(toks) < 3 THEN Continue("decode", <<>>) /\ UNCHANGED val
     ELSE Continue(word, From(toks, 3)) /\ val' = toks[2]
  /\ UNCHANGED <<statics, srv, port, tree, typed, asked, live>>

\* "return 0"; enable does not for "double", and none of them does for "all" but set.
GoesOn(cmd, t) ==
  \/ t \in DOMAIN Name /\ Takes(cmd, Name[t]) /\ ~ (cmd = "enable" /\ Name[t] = "double")
  \/ cmd = "set" /\ t = "all"

Next1(cmd) == IF GoesOn(cmd, Head(toks)) THEN Continue(cmd, Tail(toks)) ELSE Continue("decode", toks)

NoMoreSelections ==
  /\ loop \in CommandWords /\ toks = <<>>
  /\ Continue("decode", <<>>)
  /\ UNCHANGED <<statics, srv, port, tree, val, typed, asked, live>>

\* Mutant: the loop over all groups ends at VARIABLE_NUMBER.
GroupsButDate(t) == {wg[i] : i \in IF t = "all" THEN Valued ELSE Selected(t)}

GroupsOf(t) == {wg[i] : i \in Selected(t)}

Switch(cmd) ==
  /\ At(cmd) /\ cmd \in {"disable", "enable"} /\ toks # <<>>
  /\ srv' = WithState(srv, GroupsOf(Head(toks)), cmd = "enable")
  /\ Next1(cmd)
  /\ UNCHANGED <<statics, port, tree, val, typed, asked, live>>

\* The group the interval of a selection goes to: for "sbyte" that of "byte".
Updated(t) == IF t = "all" THEN Range(wg)
              ELSE {wg[IF i = "sbyte" THEN "byte" ELSE i] : i \in Selected(t)}

SetInterval ==
  /\ At("interval") /\ toks # <<>>
  /\ wgConfig' = [i \in Index |-> IF i \in Selected(Head(toks)) THEN Number[val] ELSE wgConfig[i]]
  /\ srv' = WithInterval(srv, Updated(Head(toks)), Number[val])
  /\ Next1("interval")
  /\ UNCHANGED <<connId, wg, varNode, port, tree, val, typed, asked, live>>

\* The values are written as they are read; their widths are in FieldValue.
Set ==
  LET S == IF Head(toks) = "all" THEN {} ELSE Selected(Head(toks)) \cap Valued IN
  /\ At("set") /\ toks # <<>>
  /\ srv' = [srv EXCEPT !.var = [v \in DOMAIN @ |-> IF v \in {varNode[i] : i \in S} THEN Number[val] ELSE @[v]]]
  /\ Next1("set")
  /\ UNCHANGED <<statics, port, tree, val, typed, asked, live>>

Step ==
  \/ LineDone \/ Invalid \/ Example \/ NoMoreSelections \/ SetInterval \/ Set
  \/ \E word \in CommandWords : Plain(word) \/ WithValue(word) \/ Switch(word)

Next ==
  \/ Step
  \/ \E l \in Lines : EnterLine(l) \/ Restart(l)
  \/ \E p \in Ports : AddTree(p)
  \/ RemoveTree

Spec == Init /\ [][Next]_vars

-----------------------------------------------------------------------------
(* While the examples are on, each of them has, at the end of a line, the   *)
(* publishing state, the interval and the value the lines asked for: several*)
(* selections, several commands in a line, "all", and examples switched on  *)
(* twice or after a restart included, and the two misread selections left   *)
(* out.  They are on until off, hello, restart, or an rm of the tree that   *)
(* removes an object of theirs by an id the tree remembers (RemoveTree).    *)
SelectionsObeyed ==
  loop = "idle" /\ live =>
    \A i \in {j \in Index : asked[j].sure} :
      /\ wg[i] \in DOMAIN srv.group
      /\ srv.group[wg[i]].interval = asked[i].interval /\ srv.group[wg[i]].on = asked[i].on
      /\ i \in Valued => srv.var[varNode[i]] = asked[i].value

OwnedBy(who) == [conn |-> {c \in DOMAIN srv.conn : srv.conn[c].owner = who},
                 group |-> {<<g, srv.group[g]>> : g \in {x \in DOMAIN srv.group : srv.group[x].owner = who}}]

(* The commands of the examples reach the examples only: from switching     *)
(* them on to switching them off, or to an rm that takes one of their       *)
(* objects for the tree's, the groups of the tree stay as they are.         *)
TreeUntouchedWhileOn == [][Step /\ live => OwnedBy("tree")' = OwnedBy("tree")]_vars

(* printHelpForExamples heads these commands "Examples publishing on port   *)
(* 4840": they never reach the tree.  They do, with the ids of examples     *)
(* that were switched off or belonged to the server before a restart.       *)
TreeUntouched == [][Step => OwnedBy("tree")' = OwnedBy("tree")]_vars
=============================================================================
