# TLA+ models of PubSub-open62541

The program publishes values over OPC UA PubSub. A user builds a tree of
Channels, WriterGroups, DataSets and Fields on a console; every node of the
tree owns objects of an open62541 server, which publishes them over UDP. A
second program subscribes and prints what it receives. This directory holds
TLA+ modules that model the program, TLC configurations that check them on
small instances, and proofs for TLAPS.

    tlc -config MCConsole.cfg MCConsole        (and so on, table below)
    tlapm NodeTreeProofs.tla          (and the other ...Proofs modules)

Paths below are relative to `src/PubSub/`.

## 1. The system

| component | state | operations | talks to |
|---|---|---|---|
| **Node tree** (`TreeTrunk`, `BranchConnection`, `BranchWriterGroup`, `BranchDataSet`, `BranchField`) | four nested `std::map`s, a UInt16 key counter per parent, `enabled`, interval, `isString` | add and remove a node on each level, remove all, write a string, enable, disable, set the interval | calls `Publisher` through the static `pub` |
| **Publisher** (`Publisher.cpp`) | the server, the static `running`, the address whose port digits are rewritten | create and delete PubSub objects, write a variable, run, stop | the open62541 library |
| **Console** (`UserInput.cpp`) | the static tree, the selection `b[4]`, the state of `strtok`, `cmdLength` | the commands of `decode`, eleven handlers with loops of their own | the tree; `main` through `*restart` |
| **Life cycle** (`main.cpp`, `Publisher::run`, `handlingUserInput`) | `restart`, `running`, the pointers to the Publisher | run, restart, exit, signals | two threads and a signal handler |
| **Subscriber** (`Subscribe_standalone.cpp`) | `running`, the received message, two loop indices | listen, decode, print | UDP |
| **Arguments** (`InputArguments.cpp`) | two malloc'ed strings, `inputSpecified`, the configuration files, `argv` itself | parse the arguments, read or write the default file, free | `main`, `Publisher` through the address |
| **Export, load** (`TreeTrunk::printToFile`, `UserInput.cpp` 205-257) | files, and one `ifstream` per nested `load` | write the tree as commands; decode the lines of a file | tree, console |
| **Field values** (`BranchField::writeValue`, `print`) | a variable per Field, one static Boolean | convert a text to the type and back | console, export |
| **Old examples** (`UserInput.cpp` 157-199, 1980-2408, `publishHelloWorld`, `getOldExample`) | static ids of a connection, twelve groups and eleven variables | on, off, hello, enable, disable, set, interval | the same server as the tree |

What is hard here:

* *Cascades.* Removing a node runs through up to four classes, each deleting
  its own server objects, in an order in which the connection goes before its
  groups. A server may give out an id again. To be correct: no orphan in the
  tree, nothing left on the server, nothing taken from a node that stays.
* *Keys.* Keys come from counters; the removal loops run from 1 to the
  counter; strings take and give back keys at the counter. To be correct: no key
  above its counter, none given out twice, no gap in a string.
* *The console's loops.* `decode`, the loops over subjects and the loops over
  keys share one `strtok` position and the selection. To be correct: the
  selection names nodes that exist, an added node is selected, every line ends,
  nothing is changed that the command must not change.
* *Interleaving.* The server publishes while a string is written character by
  character; the input thread is detached and shares `running`, `restart`,
  `tree` and `pub` with `main` and the signal handler. To be correct: a reader
  never sees more than one tear, calls reach a live server, nodes of a deleted
  server do not survive a restart, and exit, restart and signals take effect.
* *What outlives a run.* `restart` makes a new Publisher, but the statics of
  `InputArguments` and `UserInput`, `argv` (in which addresses are rewritten) and
  the generated default file stay. To be correct: a restart has the configuration
  of the first run, nothing is freed twice or used after `cleanup`, and ids of
  the old server are not used on the new one.
* *Scripts.* What `export` prints is a program for `decode`, whose commands
  depend on what the ones before selected; `load` runs it in the middle of
  another line, on the one `strtok`. To be correct: loading rebuilds what was
  exported, leaves the rest alone, and comes to an end.
* *The subscriber's nested loops* share their index and guess strings from runs
  of Byte fields. To be correct: the fields of a message are printed, once, in
  order.

The hazards are listed line by line in `PROJECT.json`, with the properties
that cover them.

## 2. Modules and how they correspond to the code

    NodeTree ---- NodeMirror    (tree + server objects)        MCNodeMirror
        |    \--- StringDataSet (writeString implements one step of the tree)
        |    \--- Console       (commands on the tree)         MCConsole
        |            \--- Export (files, load, values)         MCExport
        |    FieldValue --/     (conversions)
    Lifecycle                   (main, input threads, signals)
    Arguments                   (command line, files, address)  MCArguments
    Examples                    (example commands, same server) MCExamples
    Subscriber                  (the other process)            MCSubscriber

    NodeTreeProofs --- NodeMirrorProofs, StringDataSetProofs, ConsoleProofs
    LifecycleProofs; SubscriberProofs; ArgumentsProofs; ExamplesProofs

**NodeTree.** The nested maps become one function per level, from the path of
a node to its data: `conns[c]`, `wgs[<<c, w>>]`, `dts[<<c, w, d>>]`,
`fields[<<c, w, d, f>>]`, so that "a child has a parent" can be false and is
checked. Each method of the Branch classes that changes the tree is an action
that includes its cascade (`DeleteConnection`, `RemoveWritergroup`, ...).
`WriteString` is the whole of `writeString`, as far as keys go. `TreeSpec` is the
abstract specification: any sequence of calls the console may make.

**NodeMirror** adds the NodeIds every node keeps and the server's tables.
Each `Mirror...` action is the tree's action together with the server calls the
method makes, in their order. The server itself is the library; its six
operators are modelled from the way the code uses it, among others that
removing an absent id does nothing (`deleteConnection` depends on that). The
"already exists" branch of the adds is not mirrored: `KeysBelowCounter` shows it
is never taken. For a DateTime Field `var` holds `CurrentTime`, the node it
publishes, where the code passes that node without storing it.

**Console** interprets tokens. `toks` is what `strtok` has still to give, its head
is `ptr`; `loop` says which loop of the source runs; one step is one turn of that
loop, or one node added by an inner `while(count-- > 0)`. What the source
repeats in eleven handlers (keys from the line, outer keys from the selection,
return if one is missing) is the one operator `Resolve`. A token has its `atoi`
value and nothing else; keys are cut to UInt16, the amount of `-n=` to Int16 as
in the code. A quoted string is one token of known length: the code cuts it at
blanks and skips the words it counted, and in `add` it shortens `cmdLength`
before it looks for the closing quote, so that a string at the end of a line can
come out empty. That splitting is not modelled; the lines of the runs hold
strings as `getStringFromCmd` returns them.

**StringDataSet** is one string DataSet with its characters: `writeString` one
server call at a time, the publishing callback at any time between, `wrt` by
hand, and a network that loses, repeats and reorders key frames. Its
`INSTANCE NodeTree` maps the DataSet of the last finished call to the tree's:
`WritesAsOneStep` says that the loops together are the action
`NodeTree!WriteString`, so `NodeTree` may treat it as one step.

**Lifecycle** has `main` statement by statement, one input thread per run,
signals at any moment after the handlers are installed, and a tree whose nodes
remember which run's server holds their objects.

**Export** runs the Console's interpreter on a stack of open files. `load` pushes
a file; `NextLine` is the recursive `decode` of its next line; `EndFile` returns
to the line `load` stood in. The tree without its keys (`TreeShape`, in map order)
is what `PrintToFile` turns into lines of tokens. Three things of the source are in
it that one would not expect: once a line of the file was decoded, `strtok`
points into that line, which was freed, so that of the line of `load` one more
token is processed and then what is found in the freed memory (`Leftover`); a
file that cannot be opened takes the token behind its name with it; and a
`load` without a name reads `pubsub.txt`. Scripts do not load themselves: the
code would open files without end.

A string is its length here too, and `printToFile` prints its characters between
quotes as they are. That makes no difference until `wrt` writes one of them by
hand (`byHand`; `wrtstr` on the DataSet takes it back): a quote, a 0 or a line end makes the
line be read as another string, with other commands behind it. From then on the lines of
strings in an exported file are any of `Misprinted` (`AsPrinted`), which is more than the code
can print, since it lets the lines of all strings be others; `exact` remembers whether the last
export was without such characters.

**FieldValue** has the conversions with the widths as parameters. An `int` of 4
bits and a `long` of 6 are enough for every wrap of the real ones. `printToFile` and
`print` read a Byte as a UInt16 and an SByte as an Int16, so the byte behind the
variable (`Behind`) is printed with it; `atoi` and the conversion to the type take
it away again. Every integer type but Int64 is read with `atoi`, UInt64 too. An
invalid word for a Boolean writes the last Boolean written to any Field
(`lastBool`, the static of `writeValue`).

**Examples** has the commands of the old examples, with the loop over
selections in each (which goes on only where a branch returns 0), the static
ids, and beside them one Channel with one WriterGroup of the tree, on a server
that gives ids out again. In the code there are twelve groups; `Index` has four,
one for each way a branch can behave: the clock, which has no variable, `double`,
which ends a list after `enable`, `byte` and `sbyte`, whose intervals are one. `live`
says that the examples are on and nothing else has taken them away: `off`, `hello` (which
overwrites `connId`) and `restart` end it, and so does an `rm` of the tree that takes an object
of theirs away: `deleteConnection` removes the connection and then the group by the ids the
tree remembers (`RemoveTree`), and either may be the examples' by then (section 4). The Boolean's
index is not in `Index`: `set` converts its word as `writeValue` does, which is in Export.

**Arguments** goes through the command line option by option. Where the address is
(`main`'s local array, `argv`, the heap) matters as much as what it is, because it
is rewritten in place by `-cp` and by each new Channel; `heap` remembers what
`cleanup` has freed. Of a file only the lines about the address and the server's
port are kept, and whether a line begins with blanks: of such a line
`stripWhitespace` keeps the blanks and nothing else (`Blanks`). Ports are numbers
modulo 2^16, on the command line as in a file; a `Server port:` line without a digit, at which
`findNumber` throws and the program ends, is left out. A word too short for `strncpy` of four characters has no
`FirstFour`.

**Subscriber** is `main`'s loop and `subscriberListen` with both field loops
index by index; messages come from a set, any number of times, in any order.

Definitions headed by the comment *Mutant* are plausible bugs (a dropped
guard, a counter not advanced, a loop one short, a missing reset). No action uses them: put
in place of the definition after them, each makes the property named in
`PROJECT.json` fail, which shows that the property depends on that code.

## 3. Runs

| run | cfg | result | bounds |
|---|---|---|---|
| node_mirror | `MCNodeMirror.cfg` | holds, 271 000 states | ids {1, 2}, 5 nodes, 2 keys per counter, strings up to 2 |
| console | `MCConsole.cfg` | holds, 11 100 states | 3 lines out of 32, two ports |
| export | `MCExport.cfg` | holds, 17 100 states | 3 lines out of 17, two scripts, 4-bit `int` |
| string_data_set | `StringDataSet.cfg` | holds, 96 000 states | strings up to 3 of 2 characters, 1 frame under way |
| life_cycle | `Lifecycle.cfg` | holds, 15 300 states | 3 runs, 2 nodes, 2 signals |
| arguments | `MCArguments.cfg` | holds, 628 000 states | up to 3 options out of 12, 7 contents of 2 files, 3 runs, 1 edit |
| examples | `MCExamples.cfg` | holds, 2 040 000 states | 8 lines out of 6, Channels added and removed between |
| subscriber | `MCSubscriber.cfg` | holds, 9 700 states | one DataSet of up to 5 fields in every mix, two of up to 2, a run of 255 Bytes |
| fields_printed | `MCSubscriberFields.cfg` | violated | |
| usage | `MCConsoleUsage.cfg` | violated | |
| examples_after_restart | `MCExamplesRestart.cfg` | violated | |
| no_slash | `MCArgumentsSlash.cfg` | violated | |

*node_mirror.* `ParentsExist`, `KeysBelowCounter`, `StringsContiguous`,
`KeysNotReissued` on the tree; `IdsDistinct`, `NothingLeftBehind`,
`NodesPublished` relate it to the server. Two ids and five nodes are enough for
two siblings on a level, for a branch with all four levels, and for an id that
is given out again (the server offers the lowest free ids, so it comes back at
once), which is when a removal could hit the object of another node. Variable nodes are
never removed from the server, so a behaviour of this instance makes two of them at
most; DateTime Fields, which need none, come and go without limit. Deadlock is checked.

*console.* Every command occurs in `MCLines` with all keys given, with keys from
the selection, with missing keys and for nodes that are not there, and so do
numbers and words where a loop does not expect them. `SelectionExists` and
`AddedNodeSelected` are about the selection over several lines,
`OnlyRemoveRemoves` about the tree, `TreeSpec` is the refinement (every step of
the console is a step of the abstract tree or none), `LineEventuallyDone` the
termination of the loops. `load`, `export` and the examples are in Export and
Examples. The bounds `KeyBound` and `MaxNodes` are 100 here, more than
three lines can use up. After `exit`, or the last line, nothing happens any more, so
deadlock is not checked; the same holds of the ended programs in *life_cycle*
and *subscriber*.

*export.* `LoadRebuilds` compares, when the exported file has been read to its end,
what came with it against what was exported, Channel by Channel without keys, and
demands that the nodes that were there before are as they were. The
exceptions are a UInt64 above the largest `int` (`Readable`) and a file exported while a string had
characters written by hand, which need not be read as that string (finding 13): the run has such
files too, and `LineEventuallyDone` and `ExportTypeOK` are about them. The lines build trees
with every kind of node, change them, export them again and load them on top of
themselves, also behind other commands and before them; `in.txt` is loaded by
`pubsub.txt`. `LineEventuallyDone` says that a line ends through all the files it
loads. After the third line nothing happens any more, so deadlock is not checked.

*arguments.* `LastOptionWins` says what the configuration must be by looking at the
options as a whole: the last one that says something about the server's port or the
address, with the digits of the last `-cp` behind that address, and what the default
file says if it has the last word (`PortSet`, `UrlSet`). It is about ends of the arguments at
which no default file is generated. `RestartReproduces` compares each run with the first.
`AddressAlive` and `NothingFreedTwice` are about the heap. Edits of a file while the
program runs are allowed; the two properties that do not survive them say so. Two
options behind each other, with `-df` before them, are enough for every pair to
override the other; three runs are enough for what the second leaves to the third.
The program may end, so deadlock is not checked.

*examples.* `SelectionsObeyed` reads a line the way the help describes it (`AskedBy`)
and compares at the end of the line with what the server has. Two selections are
misread by the code (7 and 8 in section 3); what a line with one of them asks of the examples it
names is left open until the next `example on` (`sure`), and every other
example and every other line is compared;
`TreeUntouchedWhileOn` says that until the examples are switched off their
commands leave the tree's objects alone. The server gives the lowest free
ids, so an id comes back as soon as its object is gone, and chooses between the two lowest for an object made
alone when nothing else is there, so that the ids of a connection and of its groups can come apart. Eight lines are enough to switch the
examples on twice, with a restart and two Channels of the tree in between, and to see the following: on, restart, add, off,
on, `rm`. The Channel's connection has gone with the old examples' by then, and the group the tree still
remembers is one of the new ones, which `rm` removes while their connection stays; another add can be given its
id, and `interval 250 all` would reach it. The properties hold because `live` ends at the `rm`; with a `live` that looks at
the connection only this run finds both violated.

*string_data_set.* `TornAtOnePlace` says what a sampled DataSet may look like
while one string replaces another: the new string up to some place and the old
one behind it. `NothingBehindZero` says that the 0 of a character still to be
written is the last one of a frame, so a subscriber prints all that is there. A 0 written by hand is left
out, and what a frame shows of a string changed by hand is judged again after the next string only
(`Settled`).
Strings of length 0 to 3 in every order give each of the three loops zero, one
and several turns.

*life_cycle.* As long as no signal interferes and the server can be started, commands run on a live server
(`CallsReachServer`) and the tree holds nodes of that server only
(`NodesOfThisServer`). Otherwise the code promises neither: the input thread
may be blocked in `getline` while the server is deleted, and executes what is
typed then. `OneReader`, `ExitEnds` and `SignalEnds` hold with signals too.
`SignalEnds` and `RestartRuns` except each other: a signal that falls between the
return of `run` and `resetRunning` is lost (no property catches that: it does happen), and one that hits an old input thread's
restart may stop the new run; a server that does not start ends the program as well.
That `run` returns at once because `isServerConfigured` is false cannot happen:
`initServerConfig` always ends by setting it.

*subscriber.* `ReportedFaithfully` compares the loops with a definition by
maximal runs of Bytes: every entry on the screen is `Due` and says what `Entry` says
(`PrintedAsDue`), entries come once and in order (`PrintedInOrder`), and one that is due and
not there comes behind all that are, or the message is done and it is there (`NothingLeftOut`).
`Due` leaves out the skipped field of the first finding
(`Skipped`), so the run says that the loops do that and nothing else. The result of decoding the
header is not looked at (line 70): that the library leaves no DataSets counted and
missing when it fails (`Undecoded`) is assumed of it.

### Disagreements found

With a run that shows them:

1. `Subscribe_standalone.cpp` 88-104: the field behind a run of Bytes is not
   printed, since the inner loop leaves `i` on it and the `for` adds one.
   Comment at line 88: "Loop over the fields and print well-known content types".
   (fields_printed)
2. `UserInput.cpp` 435: `on 1 1` acts, leaves `ptr` on the last `1`, and `decode`
   answers "'1' is an invalid command". The help gives `on <wg ID> <ch ID>`
   and promises several commands in one line. The same for `off`, `intv`, `wrt`.
   (usage)
3. `UserInput.cpp` 21: the ids of the examples are static and never cleared. After
   a restart, or `example off`, the commands on the examples reach whatever has the
   same id by then, a WriterGroup of the tree for instance. (examples_after_restart)
4. `Publisher.cpp` 346: `setChannelPort` writes the port to the four places before the
   last one, as if the address ended with `/`. With `opc.udp://224.0.0.22:4840`
   and port 5000 it makes `opc.udp://224.0.0.2250000`; `-cp` does look for
   the `/`. (no_slash)

Seen while modelling; the models have what the code does:

5. `UserInput.cpp` 1749: `wrt` changes characters of a string DataSet, which `add`
   and `rm` refuse with "Forbidden to directly manipulate String DataSet".
6. `UserInput.cpp` 1027: `add string` keeps the Field selected before, so the prompt
   may show a Field that does not exist.
7. `UserInput.cpp` 2246: `interval <ms> sbyte` sets the interval of the group of `byte`.
8. `UserInput.cpp` 2059-2062: `enable double` does not return 0, so the selections
   behind it are taken for commands; `all` is obeyed and then called an invalid
   command by `enable`, `disable` and `interval`.
9. `UserInput.cpp` 182: `connId` is overwritten by `example on` and `hello`; `off`
   removes the last one, and the connections before it publish until the server ends.
10. `UserInput.cpp` 205-257: behind `load <file>` one more token is processed; then
   `strtok` goes on in a line that was freed.
11. `BranchField.cpp` 107-108: a UInt64 is read with `atoi`. 58-70: a word that is no
   Boolean writes the Boolean written last, to whatever Field.
12. `InputArguments.cpp` 30: when a file was edited between two runs so that the second sets no
   address, the second `cleanup` frees the string of the first once more.
13. `TreeTrunk.cpp` 250-257: the characters of a string are exported as they are. A quote or a 0
   written into one with `wrt` ends the string when the file is loaded, and what is
   behind a quote is read as commands.
14. `TreeTrunk.cpp` 50-52: `rm` of a Channel whose connection was taken by `example off`
   (finding 3) removes the connection and the groups that have its ids by then, the examples' own
   for instance.

### Fairness

`Console` and `Export`: weak fairness of the steps that decode a line or a file; the input thread
computes and answers of the user are taken to come. Typing a line is not fair.
`StringDataSet`: weak fairness of `writeString`. `Lifecycle`: weak fairness of
`main` and of each input thread, except where it waits for the user; no signal
has to come. `UA_Server_run` returns when `running` is cleared, which is what the
library documents. `Subscriber`: `receive` returns after 100 ms, so a turn of the
loop always completes. None of the specifications uses strong fairness.

## 4. Proofs

All theorems are for every value of the constants that satisfies the assumptions
of the modules; each rests on one inductive invariant, a lemma for every action,
and lemmas about the operators.

`NodeTreeProofs` (any ports, intervals, types and bounds, `ConstantsOK`):
`TypeCorrect`, `NoOrphans`, `CountersAhead` and `StringsWhole` are the four
invariants of `TreeSpec`, `NoReissue` is `TreeSpec => KeysNotReissued`.
The inductive invariant `IInv` is the conjunction of the four. None is
inductive alone: a new WriterGroup takes the key behind the counter of its
Channel, and that it has no children of an earlier node with that key follows
from `ParentsExist` together with `KeysBelowCounter`; a string's new length comes
out right only if its Fields are exactly 1 to the counter
(`StringsContiguous`), which in turn `RemoveField` keeps because it refuses
strings. The proof has a lemma per action (`Inv...`) on top of lemmas about the
operators (`Put`, `PutNew`, `Restrict`, `Inc`) and one for all removals
(`InvRestricted`); `StringSize` and `StringKeys` compute what `writeString` leaves
behind. `NoReissue` then shows for each action that counters do not go back
(`Keys...`). The assumption `KeyBound < UInt16 - 1` keeps counters below 65535; at
that value the loops `for(UA_UInt16 i = 1; i <= keyInc; i++)` do not end.
`TreeNext` adds nodes only below `KeyBound`, so the theorems speak of at most
65533 nodes added under one parent.

`NodeMirrorProofs` (any way to give ids out, again or not, as long as they are
free when they are given): `MirrorTypes`, `NoSharedIds`, `CascadesComplete`,
`NodesStayPublished`, and `MirrorImplementsTree`, which is `Spec => TreeSpec` and
carries the theorems about the tree over. The inductive invariant `MInv` adds to `IInv` that
keys start from 1 (`KeysFromOne`, kept by every step of the tree: `KeysStart` in
`NodeTreeProofs`) and, for each of the tables of the server, that it
*mirrors* a level of the tree: each node has an id of its own, and the table holds under that id
what the node shows, and nothing else (`Mirrors`). That is stronger than the
checked invariants, which only say that what is there has an owner and that nodes have
what they need. The argument for the cascades: keys from 1 to the counter
(`KeysBelowCounter`) make the loops visit each child (`ChildrenVisited`); what the
server removes by itself with a connection or a group are, because references
are mirrored and ids not shared, the objects of the node's own descendants
(`LeftConnections`, `LeftGroups`, ...); so whatever is asked for afterwards
is gone already or the node's own, and what is left is the mirror of what is left of
the tree (`MirrorRemoved`).

`ConsoleProofs` (any tokens, lines and number of lines): `ConsoleTypes`,
`SelectionAlwaysExists`, `AddedSelected`, `OnlyRemovals`, and `ConsoleImplementsTree`,
which is `TreeSpec` and so carries the theorems about the tree over to whatever is
typed. The inductive invariant `CInv` adds to `IInv` and `KeysFromOne` that the
handlers' loops, the tokens left and the argument decoded have their types
(`Decoding`, `Argument`), that an `add` with rounds left works under a node that exists
(`Waiting`), and that each key of `b` that is not 0 leads, with those before it, to a node
(`Selected`). `Waiting` is what lets a round of `add wg 3` call the tree without looking
whether the Channel is still there; `KeysFromOne` is why the 0 that stands for "nothing
selected" is never a node's key. One lemma per action (`Good...`) shows that the
step is one of the tree's and keeps the four parts.

The second part is about `Export`, the same interpreter with files: `ValuesInRange`
(`ExportTypeOK`) and `LoadImplementsTree` (`TreeSpec` again). Its invariant (`FInv`) adds to `CInv` that all
files and the lines still to be decoded of each open one are lines of tokens (`Files`), and that no
string is longer than `STRING_SIZE - 1` (`StringsFit`). For a file that `export` writes, that means to type the tree it
prints (`ShapeTyped`): the nodes of a level are taken in the order of their keys, and that there is a k-th
one is a count (`NthIs`: the rank is one-to-one into 1 .. n, so it is onto); then the
printing (`LinesTyped`), with `FlattenSeq` by induction (`FlattenIs`). That the values stay in range needs that a Field that
stays keeps its type (`TypesKept`), that only `wrt` writes a value, and never in a step that changes the tree
(`WrtLeavesTree`), and that each conversion ends in the range of the type, for any widths
(`WrittenIn`).

The third part proves `LoadedIsExported`: `LoadRebuilds`, for every tree and every history of commands,
with other files loaded in between. As in `LoadRebuilds` itself, the file is one that was exported while no
string had a character written by hand; before and after, files with such characters (`Misprinted`) may be exported
and loaded. `LoadRebuilds` speaks only of the moment at which the file has been read
to its end; the invariant, `LInv`, has to say how far a load has come at every step of the interpreter. It adds to `FInv`
that an `exact` file holds what was printed for `shape` (`Printed`), that such a file is loaded by itself or inside other files
(`LastOpen`), and that in the first case there is a position in `shape` (Channel i, its
WriterGroup j, the DataSet k of that, its Field l, 0 where there is none yet) at which the load stands (`Loaded`):

* `Built`: the nodes of `shape` up to the position are there, under the Channels `c + 1`, `c + 2`, ... where
  `c` is the Channels' counter at the start of the load, with keys from 1 and counters to match, and with
  their settings and values, but for the node added last, whose `intv`, `off` or `wrt` may still have to come;
* `Chosen`: the nodes of the position are selected, which is what the lines, which name no keys, rely on;
* `LeftOver`: the lines not yet read are those printed for what follows the position. `FlattenSeq` is taken apart for that one
  line at a time (`FlattenHead`, `FlattenNext`);
* `Stage`: where in the line the interpreter is, between two lines (`AtRest`), in the line of the next node (`Starting`,
  `Turning`, `Adding`), writing a string (`TextWaits`), in a WriterGroup's settings (`Setting`) or before a Field's value (`Writing`);
* `Kept`: the nodes of Channels up to `c` are the ones that were there at the start, with their values. No key is
  given out twice (`KeysBelowCounter`), so the nodes added are never confused with them.

Without the selection and the tokens left the lines could change any node; without
the counters the next node might get another key than the one its children are going to use. There is one lemma for each
stage (`RestGoes` to `WriteGoes`), and `DecodesPrinted` for the lines. At the end of the file the position is the
last node of `shape`, and what is there then is compared with it from the Fields up (`LInvRebuilds`): where keys follow
each other, the k-th in their order is the first plus k - 1 (`OrderedIs`). That a value is read back as it was printed is, for each
type and any widths, `ReadsWhatIsShown`; the UInt64 values `atoi` cannot read are left out (`Readable`), as in the run.

All but `OnlyRemovals` have the hypothesis `[]InBounds`: at every point there is room
below `KeyBound` for one more node or a longer string under each parent, and the ports and
intervals typed are among the constants. The code has no such bound, and the theorems say nothing about
a counter at 65535: it wraps, the next key is 0, which `b` takes for nothing selected, and the ones
after it are those of nodes that may still be there, which `createConnection` refuses. `InBounds` holds in
every state of *console*, whose bounds are chosen for that, and of *export*, so there the hypothesis
leaves no behaviour out. `OnlyRemovals` is `Spec => OnlyRemoveRemoves`.

`StringDataSetProofs` (any alphabet, longest string, sequence of strings):
`StringTypes`, `SettledAlways`, `NothingBehindZeroAlways`, `OneTear`, and
`StringIsWrittenInOneStep`, the refinement `WritesAsOneStep`. The invariant is
`Typed /\ Lengths /\ Written /\ Complete /\ ZeroLast`: where the loops are
determines the counter and the length of what is there (`Lengths`), which characters are those of
the new string, which are still those of the old, and where the 0 of a Field just made is
(`Written`), and that at the end all are those of the string (`Complete`);
`ZeroLast` says of the frames under way that a 0 is the last of them. `OneTear` follows because these two parts meet at one place in each
of the three loops.

`LifecycleProofs` (any number of restarts, signals and nodes): `LifecycleTypes`,
`OneReaderAtATime`, `ServerReached`, `NodesKnown`. The invariant has a part for all
behaviours (`Base`: threads of earlier runs are past their last `getline`,
`restart` is set only by the thread of this run on its way out, `pub` is set before a
thread works) and one for those without signals and failures (`TakingTurns`: `main` goes
on only when the thread is done, and until then the server is there and the tree its own).

`SubscriberProofs` (any messages, as long as their Fields fit the buffer):
`SubscriberTypes`, `StringIsARun`, `InOrder`, `Faithfulness`. The two nested loops share `i`, so what
holds of it depends on where the inner loop began, at `i - it`: the invariant says that the `it`
fields from there on are Bytes and that their values are in the buffer (`RunInBuffer`),
that `it <= i <= fieldCount`, which is why the Byte counter cannot wrap and the
terminating zero fits, and that all that was printed is of fields in front of
`i - it` (`Behind`). `Faithfulness` is `ReportedFaithfully`. It needs that every entry that is due and
passed has been printed (`PassedReported`), that a string under way begins where a maximal
run does, that the loop over the fields is never inside a run or at a field
it skips (`Standing`), and that nothing is printed that is not due (`PrintedAsDue`). It also needs that a string, cut at its first 0, is the same function as the
buffer cut there.

`ArgumentsProofs` (any command line, any contents of the files, any number of runs and
Channels): `AddressStaysAlive`, `FreedOnce`, `OptionsObeyed`, `RestartObeysAgain`. `cleanup` leaves `transport_profile` and `address_url` pointing to what it
freed, and no variable says so: that the next `cleanup` is right depends on the next run setting again
whatever this one has set. So the invariant has to say what a run will still
do, in terms of the words of the command line. `Turns` are the places of `argv` at which the
loop of `interpretArguments` turns (`-sp`, `-cp` and `-f` take a word with them),
`MakesProfile` and `MakesAddress` say which turns make a new string, and `MadeAgain`
that while a pointer is stale such a turn is still to come, or that the
default file will be read at the end and has an address in it. Whether it will be read depends on
`inputSpecified`, a static too: `SpecifiedByLast` ties it to the last turn that sets it, which is
where a `-f` whose file is not there matters. `OneTurn` shows this once for a turn with any effect of
that kind, and each option is then shown to be one (`...Turn`). The generated default
file is `Missing` before and has no address after, so that generating it changes none of it.
For `FreedOnce` all that is under the hypothesis that no file was edited (finding 12);
`AddressStaysAlive` needs none.

`OptionsObeyed` and `RestartObeysAgain` are `LastOptionWins` and `RestartReproduces`. What an
option says of the port and the address are sets of one value or none, functions over `Turns`
(`SaidPorts`, `SaidAddresses`, `SaidDigits`); `IsOptionDef` shows that the recursive
`IsOption` is membership in `Turns`. Each option's step is then *heard* (`Heard`): as an address, as digits
put into the address there is, or as nothing; `HeardKeeps` shows once what that does to the last
word, and `FileObeyed`, an induction over the lines, that reading a file is heard as what the file says.
That gives the invariant `Configured`: port and address are, at every turn, what the options so
far say. At the end the default file either has the last word, or says what had been said already
(`DefaultSaid`), since between a `-f` of the default file and the end only `-df` can say
anything; `SpecifiedByLast` tells the two apart.

For a restart nothing of the run before is remembered except in `argv`, the files and the
statics. `FirstKept` says that from the first run on its port and address are what the command
line and the files say *now*. A `-cp` writes its digits into an address in `argv`, which changes what that
address says; but the run that did it puts the last digits in again, and digits replace digits
(`LastDigits`, `DigitsAgain`). A default file generated at the end of the
arguments says the port and the address that were obeyed (`WrittenObeyed`), and one generated by a `-df` in
the middle is there before the first run is complete. That the run *has* the same configuration, and not one of several, is
that all these sets have one element at most (`SetsSingle`). The hypotheses are in the property: no file was edited,
and no Channel was added on an address in `argv`.

The first proof of `LastOptionWins` could not be made because it was wrong beyond the words and files
of the run: a port of a file above 65535 was not taken modulo 2^16, the parameter of an option
that reads like an option (`-f -df`) was taken for one, and an empty file behind the last `-f` was taken for
a missing one. The property and the run now have these cases. Also the address
of an indented line is blanks, and a default file generated from it has no address in it.

`ExamplesProofs` (any lines, names, ports and ids, however the server chooses them):
`ExamplesReachExamples`, which is `Spec => TreeUntouchedWhileOn`. The invariant is about
owners: a group is owned by whoever owns its connection (`IsServer`), and while the examples are on, `connId`
names a connection of theirs and every entry of `wg` a group on it (`ExamplesThere`). Every command of the examples
adds objects, removes a connection with its groups, or tunes groups (`Added`, `Removed`,
`Tuned`), and each of the three leaves what another owns as it is, as long as the ids it is given
are the examples'. An `rm` of the tree drops a connection and groups (`Dropped`), none of them the
examples' as long as `live` goes on (`RemoveTreeKeeps`). The first attempt failed at `RemoveTree`, and rightly: the property was false behind the
bound the run had. With an `off` of examples from before a restart the tree's connection can go, unnoticed by
`TreeTrunk`; the next `example on` can be given its id; an `rm` of that Channel then removes
the *examples'* connection, and the next Channel can get an id that `wg` still holds. The same can happen to
one of their groups alone, which `deleteConnection` removes by its own id. `live` ends at both, as it does with `off`, and *examples* now has the lines that show the second.

`SelectionsReached` is `Spec => []SelectionsObeyed`. `AskedBy` is a fold that reads one token after
the other; a loop of the source looks at one token or two and takes one, two or none, and what it does not
take goes back to `decode`, which may skip it or read it as a command. The invariant (`OInv`) ties
them together: there is something read so far (`Stands`) that the examples have on the
server (`Has`), from which the tokens that are left end in what the whole line asks for
(`Ends`). It goes with the loop that runs, and where `decode` skips a token, either it is no
selection of the last command or it asks for what is there already
(`Skippable`), because each wish is a state, an interval or a value and is fulfilled
twice like once. That a command reaches the examples it names and no other (`Reached`) needs that every example
has a group of its own and every value a variable of its own (`OwnIds`), whatever ids were free.

Here too the first statement was true of the run's lines only. It read the token behind
`example` as a selection of the last command, let a command be the value of
`interval` or `set` end the loop, and took `date`, which has no value to set, for a selection of `set` that keeps the list
going. The reading is now one token at a time, as `decode` does it; the run has a line with these
mixtures.

Induction over a recursive definition or a fold is done by hand in `ArgumentsProofs`, `ExamplesProofs` and `ConsoleProofs`: the library's
induction theorems take an operator, but that the natural numbers are
well-founded (`NatLessThanWellFounded`, `WFMin`) is about sets, and gives the least number of a set
(`LeastNumber`), from which induction over a set of numbers follows (`Induct`). `FoldExists`
and `FoldSteps` show with it that the function `FoldLeft` chooses exists and does what its
equations say, and `LinesRead` what reading a file line by line makes of the heap and the address.

The constants have the assumptions the modules name. What is not about types: in
`Arguments` no word for an address is also one of an option; in
`Examples` an id the server gives out is not in use, objects made together get
different ones, no selection is named like a command, and the Boolean is not among the examples (`ExampleConstantsOK`); in `Export` what
is printed for a number or a string is a token that is read as that (`PrintedOK`), a word of the console is neither
number nor string, the types are named as `printToFile` writes them, and ports and intervals are ones `add` and `intv` take (`CommandsOK`); in `Subscriber` the Fields of a message fit the buffer.

Only model-checked: the liveness properties (`LineEventuallyDone`, `StopsOnSignal` and the
others of the run table), since TLAPS has no ENABLED. Every invariant and every action property
of a run is a theorem.

## 5. Not modelled, and the plan

Not modelled:

* Counters at the UInt16 limit: `NodeTree` has the addition modulo 2^16, but the runs and
  proofs stay below, and the removal loops that do not end at 65535 are one step.
* Server calls that fail and leave an id unset (`Publisher.cpp` 63-70): the
  return values are printed and nothing else.
* `getStringFromCmd`, which puts a quoted string together from the words `strtok`
  cut it into.
* Float and Double: `atof` and `%f` lose digits, and no property here says how many.
* `initServerConfig`, which fills a structure of the library; the library itself,
  beyond what the code uses of it; the key frame as bytes.
* What a compiler may make of the data race on `running`.
* What `printToFile` prints of characters written by hand, beyond that the lines may be any others.
* Files that cannot be written, running out of memory, directories in paths.
* The demos in `Publisher.cpp` that nothing calls.

What is left to do, in order: the removal loops at the limit of the counters; failing
calls in `NodeMirror`; `StringDataSet` composed with `Subscriber`; quoted strings.
