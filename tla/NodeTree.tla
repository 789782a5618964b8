------------------------------ MODULE NodeTree ------------------------------
(***************************************************************************)
(* The tree of nodes the console builds: Channels (TreeTrunk::conns), the   *)
(* WriterGroups of a Channel (BranchConnection::wg), the DataSets of a      *)
(* WriterGroup (BranchWriterGroup::dts) and the Fields of a DataSet         *)
(* (BranchDataSet::fields).  The source nests four std::maps, one per       *)
(* level; here each level is one function from the path of the node (the    *)
(* Channel key first) to its data, so "no parent, no child" is a property   *)
(* to check and not a consequence of the representation.                    *)
(*                                                                         *)
(* Every key is a UInt16 taken from the counter of the parent (connKeyInc,  *)
(* wgKeyInc, dtsKeyInc, varKeyInc), which only a removal of everything      *)
(* below it resets.  The server objects behind the nodes are in NodeMirror. *)
(***************************************************************************)
EXTENDS Integers, FiniteSets, Functions

CONSTANTS
  Port,             \* the UDP ports a Channel may be opened on
  Interval,         \* the publishing intervals the user may set
  DefaultInterval,  \* DEFAULT_PUBLISH_INTERVAL
  DataType,         \* the UA_DataTypes a Field may have
  Byte,             \* VAR_TYPE_BYTE, the type of one character of a string
  MaxString,        \* STRING_SIZE - 1, the longest string
  KeyBound,         \* bound of TreeNext: keys a counter gives out before it is reset
  MaxNodes          \* bound of TreeNext: nodes the tree may hold at a time

\* Keys and counters are UInt16.
UInt16 == 65536
Key == 0 .. UInt16 - 1

ASSUME ConstantsOK ==
  /\ DefaultInterval \in Interval
  /\ Byte \in DataType
  /\ MaxString \in Nat /\ MaxString < UInt16
  \* The loops "for(UA_UInt16 i = 1; i <= keyInc; i++)" do not end at 65535.
  /\ KeyBound \in Nat /\ KeyBound < UInt16 - 1
  /\ MaxNodes \in Nat

VARIABLES
  connKeyInc,  \* TreeTrunk::connKeyInc
  conns,       \* <<c>>-level: key |-> [port, wgKeyInc]
  wgs,         \* <<c, w>> |-> [enabled, interval, dtsKeyInc]
  dts,         \* <<c, w, d>> |-> [isString, varKeyInc]
  fields       \* <<c, w, d, f>> |-> type

treeVars == <<connKeyInc, conns, wgs, dts, fields>>

-----------------------------------------------------------------------------
\* "keyInc++" on a UInt16
Inc(k) == (k + 1) % UInt16

\* std::map::insert of a key that is not there
Put(f, k, v) == [x \in DOMAIN f \cup {k} |-> IF x = k THEN v ELSE f[x]]

\* Mutant: the map is started anew.
PutAlone(f, k, v) == [x \in {k} |-> v]

\* insert guarded by the "Exists" test all four add functions start with
PutNew(f, k, v) == IF k \in DOMAIN f THEN f ELSE Put(f, k, v)

GroupOf(p) == <<p[1], p[2]>>
DataSetOf(p) == <<p[1], p[2], p[3]>>

FieldKeys(p) == {q[4] : q \in {r \in DOMAIN fields : DataSetOf(r) = p}}

NewConnection(port) == [port |-> port, wgKeyInc |-> 0]
\* Mutant: the interval is not initialised.
NewGroupUnset == [enabled |-> TRUE, interval |-> 0, dtsKeyInc |-> 0]

NewGroup == [enabled |-> TRUE, interval |-> DefaultInterval, dtsKeyInc |-> 0]
NewDataSet(isString) == [isString |-> isString, varKeyInc |-> 0]

-----------------------------------------------------------------------------
TreeInit ==
  /\ connKeyInc = 0
  /\ conns = <<>>
  /\ wgs = <<>>
  /\ dts = <<>>
  /\ fields = <<>>

(* Adding one node: the counter of the parent is advanced even when the key *)
(* turns out to be in use.                                                  *)
CreateConnection(port) ==
  LET c == Inc(connKeyInc) IN
  /\ connKeyInc' = c
  /\ conns' = PutNew(conns, c, NewConnection(port))
  /\ UNCHANGED <<wgs, dts, fields>>

AddWritergroup(c) ==
  LET w == Inc(conns[c].wgKeyInc) IN
  /\ c \in DOMAIN conns
  /\ conns' = [conns EXCEPT ![c].wgKeyInc = w]
  /\ wgs' = PutNew(wgs, <<c, w>>, NewGroup)
  /\ UNCHANGED <<connKeyInc, dts, fields>>

\* Mutant: the counter stays behind.
AddDatasetKeepingCounter(g, isString) ==
  /\ g \in DOMAIN wgs
  /\ dts' = PutNew(dts, <<g[1], g[2], Inc(wgs[g].dtsKeyInc)>>, NewDataSet(isString))
  /\ UNCHANGED <<connKeyInc, conns, wgs, fields>>

AddDataset(g, isString) ==
  LET d == Inc(wgs[g].dtsKeyInc) IN
  /\ g \in DOMAIN wgs
  /\ wgs' = [wgs EXCEPT ![g].dtsKeyInc = d]
  /\ dts' = PutNew(dts, <<g[1], g[2], d>>, NewDataSet(isString))
  /\ UNCHANGED <<connKeyInc, conns, fields>>

AddData(p, type) ==
  LET f == Inc(dts[p].varKeyInc) IN
  /\ p \in DOMAIN dts
  /\ dts' = [dts EXCEPT ![p].varKeyInc = f]
  /\ fields' = PutNew(fields, <<p[1], p[2], p[3], f>>, type)
  /\ UNCHANGED <<connKeyInc, conns, wgs>>

-----------------------------------------------------------------------------
(* Removing one node and everything below it.                               *)
RemoveData(p, f) ==
  LET q == <<p[1], p[2], p[3], f>> IN
  /\ q \in DOMAIN fields
  /\ fields' = Restrict(fields, DOMAIN fields \ {q})
  /\ UNCHANGED <<connKeyInc, conns, wgs, dts>>

\* Mutant: the counter is taken back.
RemoveDatasetCounting(p) ==
  /\ p \in DOMAIN dts
  /\ fields' = Restrict(fields, {q \in DOMAIN fields : DataSetOf(q) # p})
  /\ dts' = Restrict(dts, DOMAIN dts \ {p})
  /\ wgs' = [wgs EXCEPT ![GroupOf(p)].dtsKeyInc = @ - 1]
  /\ UNCHANGED <<connKeyInc, conns>>

RemoveDataset(p) ==
  /\ p \in DOMAIN dts
  /\ fields' = Restrict(fields, {q \in DOMAIN fields : DataSetOf(q) # p})
  /\ dts' = Restrict(dts, DOMAIN dts \ {p})
  /\ UNCHANGED <<connKeyInc, conns, wgs>>

\* Mutant: the Fields of the DataSets stay.
RemoveWritergroupNotFields(g) ==
  /\ g \in DOMAIN wgs
  /\ dts' = Restrict(dts, {q \in DOMAIN dts : GroupOf(q) # g})
  /\ wgs' = Restrict(wgs, DOMAIN wgs \ {g})
  /\ UNCHANGED <<connKeyInc, conns, fields>>

RemoveWritergroup(g) ==
  /\ g \in DOMAIN wgs
  /\ fields' = Restrict(fields, {q \in DOMAIN fields : GroupOf(q) # g})
  /\ dts' = Restrict(dts, {q \in DOMAIN dts : GroupOf(q) # g})
  /\ wgs' = Restrict(wgs, DOMAIN wgs \ {g})
  /\ UNCHANGED <<connKeyInc, conns>>

DeleteConnection(c) ==
  /\ c \in DOMAIN conns
  /\ fields' = Restrict(fields, {q \in DOMAIN fields : q[1] # c})
  /\ dts' = Restrict(dts, {q \in DOMAIN dts : q[1] # c})
  /\ wgs' = Restrict(wgs, {q \in DOMAIN wgs : q[1] # c})
  /\ conns' = Restrict(conns, DOMAIN conns \ {c})
  /\ UNCHANGED connKeyInc

\* The only place where connKeyInc starts again.
DeleteAllConnections ==
  /\ connKeyInc' = 0
  /\ conns' = <<>>
  /\ wgs' = <<>>
  /\ dts' = <<>>
  /\ fields' = <<>>

-----------------------------------------------------------------------------
(* BranchDataSet::writeString of a string of n characters: the fields that  *)
(* are there are overwritten, missing ones are added behind the counter,    *)
(* and the fields from the counter down to n + 1 are removed one by one.    *)
(* The characters themselves are in StringDataSet.                          *)
Longer(p, n) ==
  LET size == Cardinality(FieldKeys(p))
  IN  dts[p].varKeyInc + (IF n > size THEN n - size ELSE 0)

Shorter(p, n) == IF Longer(p, n) > n THEN n ELSE Longer(p, n)

WriteString(p, n) ==
  LET last == Shorter(p, n)
      keys == {f \in FieldKeys(p) \cup (dts[p].varKeyInc + 1 .. Longer(p, n)) : f <= last}
      other == {q \in DOMAIN fields : DataSetOf(q) # p}
  IN  /\ p \in DOMAIN dts
      /\ dts[p].isString
      /\ dts' = [dts EXCEPT ![p].varKeyInc = last]
      /\ fields' = [q \in other \cup {<<p[1], p[2], p[3], f>> : f \in keys} |->
                      IF q \in DOMAIN fields THEN fields[q] ELSE Byte]
      /\ UNCHANGED <<connKeyInc, conns, wgs>>

-----------------------------------------------------------------------------
(* on, off and intv on one WriterGroup, on those of a Channel, on those of  *)
(* every Channel of a port, or on all of them.                              *)
GroupsOfChannel(c) == {g \in DOMAIN wgs : g[1] = c}
GroupsOfPort(port) == {g \in DOMAIN wgs : conns[g[1]].port = port}

GroupSelection ==
  {{g} : g \in DOMAIN wgs} \cup {GroupsOfChannel(c) : c \in DOMAIN conns}
    \cup {GroupsOfPort(port) : port \in Port} \cup {DOMAIN wgs}

SetEnabled(S, on) ==
  /\ wgs' = [g \in DOMAIN wgs |->
               IF g \in S THEN [wgs[g] EXCEPT !.enabled = on] ELSE wgs[g]]
  /\ UNCHANGED <<connKeyInc, conns, dts, fields>>

UpdateInterval(S, interval) ==
  /\ wgs' = [g \in DOMAIN wgs |->
               IF g \in S THEN [wgs[g] EXCEPT !.interval = interval] ELSE wgs[g]]
  /\ UNCHANGED <<connKeyInc, conns, dts, fields>>

-----------------------------------------------------------------------------
\* Mutant: a Field of a string may be removed.
RemoveAnyField(p, f) == p \in DOMAIN dts /\ RemoveData(p, f)

(* The calls the console makes.  It adds and removes single Fields only in  *)
(* DataSets that are not strings.                                           *)
AddField(p, type) == p \in DOMAIN dts /\ ~ dts[p].isString /\ AddData(p, type)
RemoveField(p, f) == p \in DOMAIN dts /\ ~ dts[p].isString /\ RemoveData(p, f)

Size == Cardinality(DOMAIN conns) + Cardinality(DOMAIN wgs)
          + Cardinality(DOMAIN dts) + Cardinality(DOMAIN fields)

\* n more nodes fit below a counter that stands at inc.
Room(inc, n) == inc + n <= KeyBound /\ Size + n <= MaxNodes

RoomForString(p, n) ==
  Longer(p, n) <= KeyBound /\ Size + (Longer(p, n) - dts[p].varKeyInc) <= MaxNodes

TreeNext ==
  \/ Room(connKeyInc, 1) /\ \E port \in Port : CreateConnection(port)
  \/ \E c \in DOMAIN conns :
       \/ Room(conns[c].wgKeyInc, 1) /\ AddWritergroup(c)
       \/ DeleteConnection(c)
  \/ \E g \in DOMAIN wgs :
       \/ Room(wgs[g].dtsKeyInc, 1) /\ \E isString \in BOOLEAN : AddDataset(g, isString)
       \/ RemoveWritergroup(g)
  \/ \E p \in DOMAIN dts :
       \/ Room(dts[p].varKeyInc, 1) /\ \E type \in DataType : AddField(p, type)
       \/ \E f \in FieldKeys(p) : RemoveField(p, f)
       \/ \E n \in 0 .. MaxString : RoomForString(p, n) /\ WriteString(p, n)
       \/ RemoveDataset(p)
  \/ DeleteAllConnections
  \/ \E S \in GroupSelection : \/ \E on \in BOOLEAN : SetEnabled(S, on)
                               \/ \E i \in Interval : UpdateInterval(S, i)

TreeSpec == TreeInit /\ [][TreeNext]_treeVars

-----------------------------------------------------------------------------
(* Type of the tree's variables.                                            *)
TreeTypeOK ==
  /\ connKeyInc \in Key
  /\ DOMAIN conns \subseteq Key
  /\ conns \in [DOMAIN conns -> [port : Port, wgKeyInc : Key]]
  /\ DOMAIN wgs \subseteq Key \X Key
  /\ wgs \in [DOMAIN wgs -> [enabled : BOOLEAN, interval : Interval, dtsKeyInc : Key]]
  /\ DOMAIN dts \subseteq Key \X Key \X Key
  /\ dts \in [DOMAIN dts -> [isString : BOOLEAN, varKeyInc : Key]]
  /\ DOMAIN fields \subseteq Key \X Key \X Key \X Key
  /\ fields \in [DOMAIN fields -> DataType]

(* No node outlives its parent: what the cascades of deleteConnection,      *)
(* removeWritergroup and removeDataset have to achieve level by level.      *)
ParentsExist ==
  /\ \A g \in DOMAIN wgs : g[1] \in DOMAIN conns
  /\ \A p \in DOMAIN dts : GroupOf(p) \in DOMAIN wgs
  /\ \A q \in DOMAIN fields : DataSetOf(q) \in DOMAIN dts

(* No key is ahead of its counter: the next key an add takes is free, so    *)
(* "already exists" is never reported, and the loops of deleteAllConnections*)
(* and removeAll* (1 up to the counter) visit every node.                   *)
KeysBelowCounter ==
  /\ \A c \in DOMAIN conns : c <= connKeyInc
  /\ \A g \in DOMAIN wgs : g[2] <= conns[g[1]].wgKeyInc
  /\ \A p \in DOMAIN dts : p[3] <= wgs[GroupOf(p)].dtsKeyInc
  /\ \A q \in DOMAIN fields : q[4] <= dts[DataSetOf(q)].varKeyInc

(* The Fields of a string are the Bytes 1..varKeyInc without a gap, which   *)
(* is what writeString relies on: it overwrites in map order, appends at    *)
(* the counter, and its last loop ends only if every key it removes is      *)
(* there.  Removing one Field of a string by hand would make it spin.       *)
StringsContiguous ==
  \A p \in DOMAIN dts : dts[p].isString =>
    /\ FieldKeys(p) = 1 .. dts[p].varKeyInc
    /\ \A f \in FieldKeys(p) : fields[<<p[1], p[2], p[3], f>>] = Byte

\* What was there is still there, as it was.
Extends(f, g) == \A x \in DOMAIN f : x \in DOMAIN g /\ g[x] = f[x]

(* While a parent lives, its counter does not go back (a string gives up    *)
(* its last Fields, a removal of all Channels starts over), and new children*)
(* get keys above it.                                                       *)
NewKeysAbove ==
  /\ \A c \in DOMAIN conns' \ DOMAIN conns : c > connKeyInc
  /\ \A g \in DOMAIN wgs' \ DOMAIN wgs :
       g[1] \in DOMAIN conns => g[2] > conns[g[1]].wgKeyInc
  /\ \A p \in DOMAIN dts' \ DOMAIN dts :
       GroupOf(p) \in DOMAIN wgs => p[3] > wgs[GroupOf(p)].dtsKeyInc
  /\ \A q \in DOMAIN fields' \ DOMAIN fields :
       DataSetOf(q) \in DOMAIN dts => q[4] > dts[DataSetOf(q)].varKeyInc

CountersKept ==
  /\ connKeyInc <= connKeyInc' \/ conns' = <<>>
  /\ \A c \in DOMAIN conns \cap DOMAIN conns' :
       conns[c].wgKeyInc <= conns'[c].wgKeyInc
  /\ \A g \in DOMAIN wgs \cap DOMAIN wgs' :
       wgs[g].dtsKeyInc <= wgs'[g].dtsKeyInc
  /\ \A p \in DOMAIN dts \cap DOMAIN dts' :
       ~ dts[p].isString => dts[p].varKeyInc <= dts'[p].varKeyInc

(* A key the user knows never comes to denote another node.                 *)
KeysNotReissued == [][NewKeysAbove /\ CountersKept]_treeVars
=============================================================================
