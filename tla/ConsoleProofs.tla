--------------------------- MODULE ConsoleProofs ----------------------------
(***************************************************************************)
(* The command interpreter for every set of lines and tokens: each of its   *)
(* steps is a step of the tree or leaves the tree alone, what is selected   *)
(* exists, and only removals remove.                                        *)
(*                                                                         *)
(* The second part is about the same interpreter reading files (Export):    *)
(* the values of the Fields stay in their types, and what export prints are *)
(* lines of tokens, so that loading them makes only steps of the tree, too. *)
(*                                                                         *)
(* The third part is the round trip: while an exported file is loaded by    *)
(* itself, the nodes that were added are the exported ones up to the line   *)
(* that is read, and the lines that are left are those of the others.       *)
(***************************************************************************)
EXTENDS Export, NodeTreeProofs

Token == DOMAIN Number
Half == UInt16 \div 2

-----------------------------------------------------------------------------
(* Tokens and paths.                                                        *)
LEMMA HalfWidth == Half \in Nat /\ Half >= 1 /\ Half + Half = UInt16
  BY DEF Half, UInt16

LEMMA KeyOfType ==
  ASSUME NEW t \in Token
  PROVE  KeyOf(t) \in Key
  BY TokensOK, Width, SMT DEF TokensOK, Token, KeyOf, Key

LEMMA FromType ==
  ASSUME NEW ts \in Seq(Token), NEW n \in Nat, n >= 1
  PROVE  /\ From(ts, n) \in Seq(Token)
         /\ n <= Len(ts) => From(ts, n) # <<>> /\ Head(From(ts, n)) = ts[n]
         /\ n > Len(ts) => From(ts, n) = <<>>
  <1>1. Len(ts) \in Nat /\ \A m \in n .. Len(ts) : ts[m] \in Token
    <2>1. Len(ts) \in Nat /\ \A m \in 1 .. Len(ts) : ts[m] \in Token
      BY LenProperties, ElementOfSeq
    <2> QED
      BY <2>1
  <1>2. /\ From(ts, n) \in Seq(Token)
        /\ Len(From(ts, n)) = IF n <= Len(ts) THEN Len(ts) - n + 1 ELSE 0
        /\ \A m \in 1 .. Len(ts) - n + 1 : From(ts, n)[m] = ts[n + m - 1]
    BY <1>1, SubSeqProperties DEF From
  <1>3. ASSUME n <= Len(ts)
        PROVE  From(ts, n) # <<>> /\ Head(From(ts, n)) = ts[n]
    <2>1. Len(From(ts, n)) = Len(ts) - n + 1 /\ Len(ts) - n + 1 >= 1
      BY <1>1, <1>2, <1>3
    <2>2. From(ts, n)[1] = ts[n]
      BY <1>1, <1>2, <1>3
    <2>3. From(ts, n) # <<>>
      BY <2>1, <1>1, EmptySeq
    <2> QED
      BY <2>2, <2>3, <1>2
  <1>4. ASSUME n > Len(ts)
        PROVE  From(ts, n) = <<>>
    BY <1>1, <1>4, SubSeqEmpty DEF From
  <1> QED
    BY <1>2, <1>3, <1>4

LEMMA TailType ==
  ASSUME NEW ts \in Seq(Token)
  PROVE  /\ ts # <<>> => Head(ts) \in Token /\ Tail(ts) \in Seq(Token)
         /\ Next1(ts) \in Seq(Token)
  BY HeadTailProperties, EmptySeq DEF Next1

\* The i-th token gives a key.
Gives(ts, n) == n <= Len(ts) /\ IsKey(ts[n])

LEMMA AtKeyFrom ==
  ASSUME NEW ts \in Seq(Token), NEW n \in Nat, n >= 1
  PROVE  AtKey(From(ts, n)) <=> Gives(ts, n)
  <1>1. Len(ts) \in Nat
    BY LenProperties
  <1>2. CASE n <= Len(ts)
    BY <1>2, FromType DEF AtKey, Gives
  <1>3. CASE n > Len(ts)
    <2>1. From(ts, n) = <<>> /\ ~ (n <= Len(ts))
      BY <1>1, <1>3, FromType
    <2> QED
      BY <2>1 DEF AtKey, Gives
  <1> QED
    BY <1>1, <1>2, <1>3

\* A path has at most four keys, so some number of them is given.
LEMMA GivenType ==
  ASSUME NEW ts \in Seq(Token), NEW k \in 1 .. 4
  PROVE  /\ Given(ts, k) \in 0 .. k /\ Given(ts, k) <= Len(ts)
         /\ \A i \in 1 .. Given(ts, k) : Gives(ts, i)
  <1> DEFINE P(g) == /\ g <= Len(ts)
                     /\ \A i \in 1 .. g : IsKey(ts[i])
                     /\ g = k \/ ~ AtKey(From(ts, g + 1))
  <1>1. Len(ts) \in Nat
    BY LenProperties
  <1>2. ASSUME NEW g \in 0 .. 4, g <= Len(ts), \A i \in 1 .. g : Gives(ts, i), g = k \/ ~ Gives(ts, g + 1)
        PROVE  P(g)
    <2>1. g + 1 \in Nat /\ g + 1 >= 1
      OBVIOUS
    <2> QED
      BY <1>2, <2>1, AtKeyFrom DEF Gives
  <1>3. \E g \in 0 .. k : P(g)
    <2> HIDE DEF P
    <2>1. CASE ~ Gives(ts, 1)
      <3>1. P(0)
        BY <1>1, <1>2, <2>1
      <3> QED
        BY <3>1
    <2>2. CASE Gives(ts, 1) /\ (k = 1 \/ ~ Gives(ts, 2))
      <3>1. P(1)
        BY <1>1, <1>2, <2>2 DEF Gives
      <3> QED
        BY <3>1
    <2>3. CASE Gives(ts, 1) /\ Gives(ts, 2) /\ k # 1 /\ (k = 2 \/ ~ Gives(ts, 3))
      <3>1. P(2)
        BY <1>1, <1>2, <2>3 DEF Gives
      <3> QED
        BY <3>1, <2>3
    <2>4. CASE Gives(ts, 1) /\ Gives(ts, 2) /\ Gives(ts, 3) /\ k \notin {1, 2} /\ (k = 3 \/ ~ Gives(ts, 4))
      <3>1. P(3)
        BY <1>1, <1>2, <2>4 DEF Gives
      <3> QED
        BY <3>1, <2>4
    <2>5. CASE Gives(ts, 1) /\ Gives(ts, 2) /\ Gives(ts, 3) /\ Gives(ts, 4) /\ k = 4
      <3>1. P(4)
        BY <1>1, <1>2, <2>5 DEF Gives
      <3> QED
        BY <3>1, <2>5
    <2> QED
      BY <2>1, <2>2, <2>3, <2>4, <2>5
  <1>4. Given(ts, k) = CHOOSE g \in 0 .. k : P(g)
    BY DEF Given
  <1>5. Given(ts, k) \in 0 .. k /\ P(Given(ts, k))
    <2> HIDE DEF P
    <2> QED
      BY <1>3, <1>4
  <1>6. ASSUME NEW i \in 1 .. Given(ts, k) PROVE Gives(ts, i)
    BY <1>1, <1>5, <1>6 DEF Gives
  <1> QED
    BY <1>5, <1>6

(* What Resolve returns, for the selection of typed keys.                   *)
LEMMA Resolved ==
  ASSUME NEW ts \in Seq(Token), NEW k \in 1 .. 4, b \in [1 .. 4 -> Key]
  PROVE  /\ Resolve(ts, k).path \in [1 .. k -> Key]
         /\ Resolve(ts, k).rest \in Seq(Token) /\ Resolve(ts, k).after \in Seq(Token)
  <1> DEFINE g == Given(ts, k)
             path == [l \in 1 .. k |-> IF l <= k - g THEN b[l] ELSE KeyOf(ts[k - l + 1])]
  <1>1. g \in 0 .. k /\ g <= Len(ts) /\ Len(ts) \in Nat
    BY GivenType, LenProperties
  <1>2. /\ Resolve(ts, k).path = path
        /\ Resolve(ts, k).rest = From(ts, IF g = k THEN k ELSE g + 1)
        /\ Resolve(ts, k).after = From(ts, g + 1)
    BY DEF Resolve
  <1> HIDE DEF g
  <1>3. ASSUME NEW l \in 1 .. k
        PROVE  (IF l <= k - g THEN b[l] ELSE KeyOf(ts[k - l + 1])) \in Key
    <2>1. CASE l <= k - g
      BY <2>1
    <2>2. CASE ~ (l <= k - g)
      <3>1. k - l + 1 \in 1 .. Len(ts)
        BY <2>2, <1>1
      <3>2. ts[k - l + 1] \in Token
        BY <3>1, ElementOfSeq
      <3> QED
        BY <2>2, <3>2, KeyOfType
    <2> QED
      BY <2>1, <2>2
  <1>4. path \in [1 .. k -> Key]
    BY <1>3
  <1>5. g + 1 \in Nat /\ g + 1 >= 1 /\ k \in Nat /\ k >= 1
    BY <1>1
  <1> QED
    BY <1>2, <1>4, <1>5, FromType

-----------------------------------------------------------------------------
(* What a selection s has to satisfy, given the Channels, WriterGroups,     *)
(* DataSets and Fields there are and which of the DataSets are strings.     *)
Selects(s, C, G, P, T, Q) ==
  /\ s[1] # 0 => s[1] \in C
  /\ s[2] # 0 => s[1] # 0 /\ <<s[1], s[2]>> \in G
  /\ s[3] # 0 => s[2] # 0 /\ <<s[1], s[2], s[3]>> \in P
  /\ s[4] # 0 => s[3] # 0 /\ (<<s[1], s[2], s[3]>> \in T \/ <<s[1], s[2], s[3], s[4]>> \in Q)

Strings == {p \in DOMAIN dts : dts[p].isString}
Selected == Selects(b, DOMAIN conns, DOMAIN wgs, DOMAIN dts, Strings, DOMAIN fields)

\* The keys of a selection.
Keys(s, c, w, d, f) == s[1] = c /\ s[2] = w /\ s[3] = d /\ s[4] = f

LEMMA SelectPath ==
  ASSUME NEW c, NEW w, NEW d, NEW f
  PROVE  /\ Keys(Select(<<>>), 0, 0, 0, 0)
         /\ Keys(Select(<<c>>), c, 0, 0, 0)
         /\ Keys(Select(<<c, w>>), c, w, 0, 0)
         /\ Keys(Select(<<c, w, d>>), c, w, d, 0)
         /\ Keys(Select(<<c, w, d, f>>), c, w, d, f)
  BY DEF Select, Keys

LEMMA SelectsKeys ==
  ASSUME NEW s, NEW c, NEW w, NEW d, NEW f, Keys(s, c, w, d, f),
         NEW C, NEW G, NEW P, NEW T, NEW Q,
         c # 0 => c \in C,
         w # 0 => c # 0 /\ <<c, w>> \in G,
         d # 0 => w # 0 /\ <<c, w, d>> \in P,
         f # 0 => d # 0 /\ (<<c, w, d>> \in T \/ <<c, w, d, f>> \in Q)
  PROVE  Selects(s, C, G, P, T, Q)
  BY DEF Keys, Selects

LEMMA SelectType ==
  ASSUME NEW c \in Key, NEW w \in Key, NEW d \in Key, NEW f \in Key
  PROVE  /\ Select(<<>>) \in [1 .. 4 -> Key] /\ Select(<<c>>) \in [1 .. 4 -> Key]
         /\ Select(<<c, w>>) \in [1 .. 4 -> Key] /\ Select(<<c, w, d>>) \in [1 .. 4 -> Key]
         /\ Select(<<c, w, d, f>>) \in [1 .. 4 -> Key]
  <1>1. 0 \in Key
    BY Width DEF Key
  <1> QED
    BY <1>1 DEF Select

(* Nodes appear; a Field goes only where its DataSet is a string.           *)
LEMMA StillSelects ==
  ASSUME NEW s, NEW C, NEW G, NEW P, NEW T, NEW Q, Selects(s, C, G, P, T, Q),
         NEW C1, NEW G1, NEW P1, NEW T1, NEW Q1,
         C \subseteq C1, G \subseteq G1, P \subseteq P1, T \subseteq T1,
         \A q \in Q : q \in Q1 \/ DataSetOf(q) \in T1
  PROVE  Selects(s, C1, G1, P1, T1, Q1)
  <1>1. ASSUME s[4] # 0, <<s[1], s[2], s[3], s[4]>> \in Q
        PROVE  <<s[1], s[2], s[3]>> \in T1 \/ <<s[1], s[2], s[3], s[4]>> \in Q1
    BY <1>1 DEF DataSetOf
  <1> QED
    BY <1>1 DEF Selects

\* The ancestors of a node are there, and their keys are not 0.
LEMMA Ancestors ==
  ASSUME IInv, KeysFromOne
  PROVE  /\ \A c \in DOMAIN conns : c \in Key /\ c # 0
         /\ \A g \in DOMAIN wgs : /\ g = <<g[1], g[2]>> /\ g[1] \in Key /\ g[2] \in Key
                                 /\ g[1] \in DOMAIN conns /\ g[2] # 0
         /\ \A p \in DOMAIN dts : /\ p = <<p[1], p[2], p[3]>>
                                 /\ p[1] \in Key /\ p[2] \in Key /\ p[3] \in Key
                                 /\ <<p[1], p[2]>> \in DOMAIN wgs /\ p[3] # 0
         /\ \A q \in DOMAIN fields : /\ q = <<q[1], q[2], q[3], q[4]>>
                                    /\ q[1] \in Key /\ q[2] \in Key /\ q[3] \in Key /\ q[4] \in Key
                                    /\ <<q[1], q[2], q[3]>> \in DOMAIN dts /\ q[4] # 0
  BY DEF IInv, TreeTypeOK, ParentsExist, KeysFromOne, GroupOf, DataSetOf

LEMMA SelectsNode ==
  ASSUME IInv, KeysFromOne
  PROVE  /\ Selects(Select(<<>>), DOMAIN conns, DOMAIN wgs, DOMAIN dts, Strings, DOMAIN fields)
         /\ \A c \in DOMAIN conns :
              Selects(Select(<<c>>), DOMAIN conns, DOMAIN wgs, DOMAIN dts, Strings, DOMAIN fields)
         /\ \A g \in DOMAIN wgs :
              Selects(Select(g), DOMAIN conns, DOMAIN wgs, DOMAIN dts, Strings, DOMAIN fields)
         /\ \A p \in DOMAIN dts :
              Selects(Select(p), DOMAIN conns, DOMAIN wgs, DOMAIN dts, Strings, DOMAIN fields)
         /\ \A q \in DOMAIN fields :
              Selects(Select(q), DOMAIN conns, DOMAIN wgs, DOMAIN dts, Strings, DOMAIN fields)
  <1> DEFINE Ok(s) == Selects(s, DOMAIN conns, DOMAIN wgs, DOMAIN dts, Strings, DOMAIN fields)
  <1> HIDE DEF Ok
  <1>9. ASSUME NEW s, NEW c, NEW w, NEW d, NEW f, Keys(s, c, w, d, f),
               c # 0 => c \in DOMAIN conns,
               w # 0 => c # 0 /\ <<c, w>> \in DOMAIN wgs,
               d # 0 => w # 0 /\ <<c, w, d>> \in DOMAIN dts,
               f # 0 => d # 0 /\ <<c, w, d, f>> \in DOMAIN fields
        PROVE  Ok(s)
    BY <1>9, SelectsKeys DEF Ok
  <1>1. Ok(Select(<<>>))
    <2>1. Keys(Select(<<>>), 0, 0, 0, 0)
      BY SelectPath
    <2> QED
      BY <2>1, <1>9
  <1>2. ASSUME NEW c \in DOMAIN conns
        PROVE  Ok(Select(<<c>>))
    <2>1. Keys(Select(<<c>>), c, 0, 0, 0)
      BY SelectPath
    <2> QED
      BY <2>1, <1>9
  <1>3. ASSUME NEW g \in DOMAIN wgs
        PROVE  Ok(Select(g))
    <2>1. PICK c, w : g = <<c, w>> /\ c \in DOMAIN conns /\ c # 0
      BY Ancestors
    <2>2. Keys(Select(<<c, w>>), c, w, 0, 0)
      BY SelectPath
    <2>3. Ok(Select(<<c, w>>))
      BY <2>1, <2>2, <1>9
    <2> QED
      BY <2>1, <2>3
  <1>4. ASSUME NEW p \in DOMAIN dts
        PROVE  Ok(Select(p))
    <2>1. PICK c, w, d : p = <<c, w, d>> /\ <<c, w>> \in DOMAIN wgs
      BY Ancestors
    <2>2. c \in DOMAIN conns /\ c # 0 /\ w # 0
      BY <2>1, Ancestors
    <2>3. Keys(Select(<<c, w, d>>), c, w, d, 0)
      BY SelectPath
    <2>4. Ok(Select(<<c, w, d>>))
      BY <2>1, <2>2, <2>3, <1>9
    <2> QED
      BY <2>1, <2>4
  <1>5. ASSUME NEW q \in DOMAIN fields
        PROVE  Ok(Select(q))
    <2>1. PICK c, w, d, f : q = <<c, w, d, f>> /\ <<c, w, d>> \in DOMAIN dts
      <3>1. q = <<q[1], q[2], q[3], q[4]>> /\ <<q[1], q[2], q[3]>> \in DOMAIN dts
        BY Ancestors
      <3> QED
        BY <3>1
    <2>2. <<c, w>> \in DOMAIN wgs /\ d # 0
      BY <2>1, Ancestors
    <2>3. c \in DOMAIN conns /\ c # 0 /\ w # 0
      BY <2>2, Ancestors
    <2>4. Keys(Select(<<c, w, d, f>>), c, w, d, f)
      BY SelectPath
    <2>5. PICK s : s = Select(<<c, w, d, f>>)
      OBVIOUS
    <2>6. <<c, w, d, f>> \in DOMAIN fields
      BY <2>1
    <2>7. Keys(s, c, w, d, f)
      BY <2>4, <2>5
    <2>8. Ok(s)
      BY <2>1, <2>2, <2>3, <2>6, <2>7, <1>9
    <2> QED
      BY <2>1, <2>5, <2>8
  <1> QED
    BY <1>1, <1>2, <1>3, <1>4, <1>5 DEF Ok

LEMMA NodeExistsAt ==
  /\ \A f \in [1 .. 1 -> Key] : NodeExists(f) <=> f[1] \in DOMAIN conns
  /\ \A f \in [1 .. 2 -> Key] : NodeExists(f) <=> f \in DOMAIN wgs
  /\ \A f \in [1 .. 3 -> Key] : NodeExists(f) <=> f \in DOMAIN dts
  /\ \A f \in [1 .. 4 -> Key] : NodeExists(f) <=> f \in DOMAIN fields
  <1>1. \A n \in Nat : \A f \in [1 .. n -> Key] : f \in Seq(Key) /\ Len(f) = n
    <2> SUFFICES ASSUME NEW n \in Nat, NEW f \in [1 .. n -> Key]
                 PROVE  f \in Seq(Key) /\ Len(f) = n
      OBVIOUS
    <2>1. f \in Seq(Key)
      BY SeqDef
    <2>2. DOMAIN f = 1 .. Len(f) /\ Len(f) \in Nat
      BY <2>1, LenProperties
    <2>3. 1 .. n = 1 .. Len(f)
      BY <2>2
    <2> QED
      BY <2>1, <2>2, <2>3
  <1>2. /\ \A f \in [1 .. 1 -> Key] : Len(f) = 1
        /\ \A f \in [1 .. 2 -> Key] : Len(f) = 2
        /\ \A f \in [1 .. 3 -> Key] : Len(f) = 3
        /\ \A f \in [1 .. 4 -> Key] : Len(f) = 4
    BY <1>1
  <1> QED
    BY <1>2 DEF NodeExists

-----------------------------------------------------------------------------
(* The inductive invariant of the interpreter, next to that of the tree.    *)
(* A job waits only while add is decoded; the node its nodes go under is    *)
(* there, and is a string or not as the job needs it.                       *)
Decoding ==
  /\ b \in [1 .. 4 -> Key]
  /\ toks \in Seq(Token)
  /\ loop \in Loops
  /\ said \in {"nothing", "invalid"}
  /\ typed \in 0 .. MaxLines

Arg == [op : {"none", "on", "off", "intv"}, n : -(UInt16 \div 2) .. UInt16 - 1, type : DataType]
Job == [op : {"none", "wg", "ds", "fd", "string", "text"}, path : Seq(Key), count : 0 .. Half - 1]

Argument ==
  /\ arg \in Arg
  /\ loop \in {"addWg", "addDs", "addFd"} => arg.n < Half
  /\ loop \in {"addString", "str"} \/ job.op \in {"string", "text"} => arg.n \in 0 .. MaxString

Under(j) ==
  \/ j.op = "wg" /\ Len(j.path) = 1 /\ j.path[1] \in DOMAIN conns
  \/ j.op \in {"ds", "string"} /\ j.path \in DOMAIN wgs
  \/ j.op = "fd" /\ j.path \in DOMAIN dts /\ ~ dts[j.path].isString
  \/ j.op = "text" /\ j.path \in DOMAIN dts /\ dts[j.path].isString

Waiting ==
  /\ job \in Job
  /\ job # NoJob => /\ loop \in {"add", "addWg", "addDs", "addFd", "addString"}
                    /\ job.count > 0 /\ Under(job)

CInv == IInv /\ KeysFromOne /\ Decoding /\ Argument /\ Waiting /\ Selected

(* What the bounds of TreeNext leave out: there is room for one more node   *)
(* or a longer string everywhere, and ports and intervals are those of the  *)
(* constants.                                                               *)
InBounds ==
  /\ \A t \in Token : KeyOf(t) \in PortNumbers => KeyOf(t) \in Port
  /\ arg.op = "intv" => arg.n \in Interval
  /\ Room(connKeyInc, 1)
  /\ \A c \in DOMAIN conns : Room(conns[c].wgKeyInc, 1)
  /\ \A g \in DOMAIN wgs : Room(wgs[g].dtsKeyInc, 1)
  /\ \A p \in DOMAIN dts : /\ Room(dts[p].varKeyInc, 1)
                           /\ \A n \in 0 .. MaxString : RoomForString(p, n)

NodesSelected ==
  /\ \A c \in DOMAIN conns' \ DOMAIN conns : b' = Select(<<c>>)
  /\ \A g \in DOMAIN wgs' \ DOMAIN wgs : b' = Select(g)
  /\ \A p \in DOMAIN dts' \ DOMAIN dts : SubSeq(b', 1, 3) = p
  /\ \A q \in DOMAIN fields' \ DOMAIN fields : dts[DataSetOf(q)].isString \/ b' = q

\* What every step has to do.
Good == [TreeNext]_treeVars /\ Decoding' /\ Argument' /\ Waiting' /\ Selected' /\ NodesSelected

-----------------------------------------------------------------------------
(* Steps that leave the tree alone.                                         *)
LEMMA Defaults ==
  /\ NoJob \in Job /\ NoJob.op = "none" /\ NoArg \in Arg /\ NoArg.n = 0 /\ NoArg.op = "none"
  /\ NoArg.n < Half /\ NoArg.n \in 0 .. MaxString
  <1>1. 0 \in 0 .. Half - 1 /\ 0 \in -(UInt16 \div 2) .. UInt16 - 1
    BY HalfWidth, Width DEF Half
  <1>2. <<>> \in Seq(Key)
    BY EmptySeq
  <1> QED
    BY <1>1, <1>2, ConstantsOK, HalfWidth DEF NoJob, NoArg, Job, Arg, ConstantsOK

LEMMA TreeStays ==
  ASSUME CInv, UNCHANGED treeVars
  PROVE  /\ [TreeNext]_treeVars /\ NodesSelected
         /\ b' = b => Selected'
  BY DEF CInv, treeVars, Selected, Strings, NodesSelected

LEMMA NothingWaits ==
  ASSUME job' = NoJob
  PROVE  Waiting'
  BY Defaults DEF Waiting

(* No node, no argument and no job: the line is read on.                    *)
LEMMA ReadsOn ==
  ASSUME CInv, UNCHANGED <<treeVars, b, job>>, job = NoJob,
         toks' \in Seq(Token), loop' \in Loops, said' \in {"nothing", "invalid"}, typed' \in 0 .. MaxLines,
         arg' = arg \/ arg' = NoArg,
         \/ loop' \notin {"addWg", "addDs", "addFd", "addString", "str"}
         \/ loop' = loop
         \/ arg' = NoArg
  PROVE  Good
  <1>1. [TreeNext]_treeVars /\ NodesSelected /\ Selected'
    BY TreeStays
  <1>2. Waiting'
    BY NothingWaits
  <1>3. Decoding'
    BY DEF CInv, Decoding
  <1>4. Argument'
    <2>1. job' = NoJob /\ ~ (job'.op \in {"string", "text"})
      BY Defaults
    <2> QED
      BY <2>1, Defaults DEF CInv, Argument
  <1> QED
    BY <1>1, <1>2, <1>3, <1>4 DEF Good

LEMMA ResolvedIs ==
  ASSUME CInv, NEW ts \in Seq(Token), NEW k \in 1 .. 4, NEW r, r = Resolve(ts, k)
  PROVE  r.path \in [1 .. k -> Key] /\ r.rest \in Seq(Token) /\ r.after \in Seq(Token)
  <1>1. b \in [1 .. 4 -> Key]
    BY DEF CInv, Decoding
  <1>2. /\ Resolve(ts, k).path \in [1 .. k -> Key]
        /\ Resolve(ts, k).rest \in Seq(Token) /\ Resolve(ts, k).after \in Seq(Token)
    BY <1>1, Resolved
  <1> QED
    BY <1>2, Zenon

\* Where the helpers of the loops leave the line.
LEMMA BackToType ==
  ASSUME NEW word, NEW ts \in Seq(Token), BackTo(word, ts)
  PROVE  loop' = word /\ toks' \in Seq(Token)
  BY TailType DEF BackTo, Continue, AtKey

LEMMA NextPathType ==
  ASSUME NEW l, NEW caller, NEW r, r.rest \in Seq(Token), r.after \in Seq(Token), NextPath(l, caller, r)
  PROVE  loop' \in {l, caller} /\ toks' \in Seq(Token)
  BY BackToType DEF NextPath, Continue

LEMMA ActOnceType ==
  ASSUME NEW l, NEW r, NEW acted, r.rest \in Seq(Token), r.after \in Seq(Token), ActOnce(l, r, acted)
  PROVE  loop' \in {l, "decode"} /\ toks' \in Seq(Token)
  <1>1. <<>> \in Seq(Token) /\ Len(<<>>) = 0
    BY EmptySeq
  <1>2. CASE r.full \/ acted \/ Len(r.rest) <= 1
    BY <1>1, <1>2 DEF ActOnce, Continue
  <1>3. CASE ~ (r.full \/ acted \/ Len(r.rest) <= 1)
    <2>1. r.rest # <<>>
      BY <1>1, <1>3
    <2>2. Tail(r.rest) \in Seq(Token)
      BY <2>1, TailType
    <2> QED
      BY <2>2, <1>3 DEF ActOnce, Continue
  <1> QED
    BY <1>2, <1>3

LEMMA GoodEnterLine ==
  ASSUME CInv, NEW line \in Lines, EnterLine(line)
  PROVE  Good
  <1>1. loop' = "decode" /\ toks' = line /\ said' = "nothing" /\ UNCHANGED <<treeVars, b, arg, job>>
    BY DEF EnterLine, Continue
  <1>2. line \in Seq(Token)
    BY TokensOK DEF TokensOK, Token
  <1>3. typed' \in 0 .. MaxLines
    BY TokensOK DEF EnterLine, CInv, Decoding, TokensOK
  <1>4. job = NoJob
    BY DEF EnterLine, CInv, Waiting
  <1> QED
    BY <1>1, <1>2, <1>3, <1>4, ReadsOn DEF Loops

LEMMA GoodReading ==
  ASSUME CInv, LineDone \/ Show \/ Invalid \/ (\E word \in {"add", "rm", "wrt"} : Subjects(word))
  PROVE  Good
  <1>1. /\ UNCHANGED <<treeVars, b, arg, job, typed>> /\ job = NoJob
        /\ said' \in {said, "invalid"}
        /\ loop' \in {"idle", "decode", "add", "rm", "wrt"}
        /\ toks' = <<>> \/ (toks # <<>> /\ toks' = Tail(toks))
    BY DEF LineDone, Show, Invalid, Subjects, Command, At, Continue
  <1>2. toks' \in Seq(Token)
    BY <1>1, TailType, EmptySeq DEF CInv, Decoding
  <1>3. said' \in {"nothing", "invalid"} /\ typed' \in 0 .. MaxLines
    BY <1>1 DEF CInv, Decoding
  <1>4. loop' \in Loops /\ loop' \notin {"addWg", "addDs", "addFd", "addString", "str"}
    BY <1>1 DEF Loops
  <1> QED
    BY <1>1, <1>2, <1>3, <1>4, ReadsOn

LEMMA GoodWriteVariable ==
  ASSUME CInv, WriteVariable
  PROVE  Good
  <1>1. /\ UNCHANGED <<treeVars, b, arg, job, said, typed>> /\ job = NoJob
        /\ toks \in Seq(Token) /\ b \in [1 .. 4 -> Key]
    BY DEF WriteVariable, At, CInv, Decoding
  <1>2. loop' \in {"wrt", "decode"} /\ toks' \in Seq(Token)
    <2>1. CASE toks = <<>>
      BY <2>1, EmptySeq DEF WriteVariable, Continue
    <2>2. CASE toks # <<>>
      <3>1. Tail(toks) \in Seq(Token)
        BY <1>1, <2>2, TailType
      <3>2. PICK r : r = Resolve(Tail(toks), 4)
        OBVIOUS
      <3>3. r.rest \in Seq(Token) /\ r.after \in Seq(Token)
        <4>1. 4 \in 1 .. 4
          OBVIOUS
        <4> QED
          BY <3>1, <3>2, <4>1, ResolvedIs
      <3>4. PICK acted : acted = (~ r.missing /\ NodeExists(r.path))
        OBVIOUS
      <3>5. ActOnce("wrt", r, acted)
        BY <2>2, <3>2, <3>4 DEF WriteVariable
      <3> QED
        BY <3>3, <3>5, ActOnceType
    <2> QED
      BY <2>1, <2>2
  <1>3. said' \in {"nothing", "invalid"} /\ typed' \in 0 .. MaxLines
    BY <1>1 DEF CInv, Decoding
  <1> QED
    BY <1>1, <1>2, <1>3, ReadsOn DEF Loops

-----------------------------------------------------------------------------
(* Steps that give a loop its argument.                                     *)
LEMMA ReadsArgument ==
  ASSUME CInv, UNCHANGED <<treeVars, b, job, said, typed>>, job = NoJob,
         toks' \in Seq(Token), loop' \in Loops, arg' \in Arg,
         loop' \in {"addWg", "addDs", "addFd"} => arg'.n < Half,
         loop' \in {"addString", "str"} => arg'.n \in 0 .. MaxString
  PROVE  Good
  <1>1. [TreeNext]_treeVars /\ NodesSelected /\ Selected'
    BY TreeStays
  <1>2. Waiting'
    BY NothingWaits
  <1>3. Decoding'
    BY DEF CInv, Decoding
  <1>4. Argument'
    <2>1. job' = NoJob /\ ~ (job'.op \in {"string", "text"})
      BY Defaults
    <2> QED
      BY <2>1 DEF Argument
  <1> QED
    BY <1>1, <1>2, <1>3, <1>4 DEF Good

LEMMA TimesType ==
  ASSUME NEW ts \in Seq(Token)
  PROVE  Times(ts) \in -(UInt16 \div 2) .. UInt16 - 1 /\ Times(ts) < Half
  <1>1. \A n \in Key : Signed(n) \in -(UInt16 \div 2) .. UInt16 - 1 /\ Signed(n) < Half
    <2> SUFFICES ASSUME NEW n \in Nat, n <= UInt16 - 1
                 PROVE  Signed(n) \in -(UInt16 \div 2) .. UInt16 - 1 /\ Signed(n) < Half
      BY Width DEF Key
    <2>1. CASE n >= UInt16 \div 2
      BY <2>1, HalfWidth DEF Signed, Half
    <2>2. CASE n < UInt16 \div 2
      BY <2>2, HalfWidth DEF Signed, Half
    <2> QED
      BY <2>1, <2>2, HalfWidth DEF Half
  <1>2. 1 \in -(UInt16 \div 2) .. UInt16 - 1 /\ 1 < Half
    BY SMT DEF Half, UInt16
  <1>3. HasAmount(ts) => Amount[Head(ts)] \in Key
    BY TokensOK DEF TokensOK, HasAmount
  <1> QED
    BY <1>1, <1>2, <1>3 DEF Times

LEMMA ArgumentOf ==
  ASSUME NEW n \in -(UInt16 \div 2) .. UInt16 - 1, NEW type \in DataType
  PROVE  /\ [NoArg EXCEPT !.n = n, !.type = type] \in Arg
         /\ [NoArg EXCEPT !.n = n, !.type = type].n = n
         /\ [NoArg EXCEPT !.n = n] \in Arg /\ [NoArg EXCEPT !.n = n].n = n
  BY ConstantsOK DEF NoArg, Arg, ConstantsOK

LEMMA CountedType ==
  ASSUME NEW l, NEW type \in DataType, NEW ts \in Seq(Token), Counted(l, type, ts)
  PROVE  arg' \in Arg /\ arg'.n < Half /\ loop' = l /\ toks' \in Seq(Token)
  <1>1. PICK n : n = Times(ts)
    OBVIOUS
  <1>2. n \in -(UInt16 \div 2) .. UInt16 - 1 /\ n < Half
    BY <1>1, TimesType
  <1>3. arg' = [NoArg EXCEPT !.n = n, !.type = type]
    BY <1>1 DEF Counted
  <1>4. loop' = l /\ toks' \in Seq(Token)
    BY TailType DEF Counted, Continue, HasAmount
  <1> QED
    BY <1>2, <1>3, <1>4, ArgumentOf

LEMMA QuotedLength ==
  ASSUME NEW t \in DOMAIN Quoted
  PROVE  Quoted[t] \in 0 .. MaxString /\ Quoted[t] \in -(UInt16 \div 2) .. UInt16 - 1
  <1>1. Quoted[t] \in 0 .. MaxString
    BY TokensOK DEF TokensOK
  <1>2. 0 .. MaxString \subseteq -(UInt16 \div 2) .. UInt16 - 1
    BY ConstantsOK, HalfWidth DEF ConstantsOK, Half
  <1> QED
    BY <1>1, <1>2

LEMMA GoodAddSubject ==
  ASSUME CInv, AddSubject
  PROVE  Good
  <1>1. /\ UNCHANGED <<treeVars, b, job, said, typed>> /\ job = NoJob
        /\ toks \in Seq(Token) /\ Next1(toks) \in Seq(Token)
    BY TailType DEF AddSubject, At, CInv, Decoding
  <1>2. PICK subject, rest : /\ subject = (IF toks = <<>> THEN "" ELSE Head(toks))
                             /\ rest = Next1(toks)
    OBVIOUS
  <1>3. \/ arg' = NoArg /\ Continue("addCh", rest)
        \/ Counted("addWg", Byte, rest)
        \/ Counted("addDs", Byte, rest)
        \/ subject \in DOMAIN TypeOf /\ Counted("addFd", TypeOf[subject], rest)
        \/ /\ rest # <<>> /\ Head(rest) \in DOMAIN Quoted
           /\ arg' = [NoArg EXCEPT !.n = Quoted[Head(rest)]] /\ Continue("addString", Tail(rest))
        \/ arg' = NoArg /\ BackTo("add", rest)
        \/ arg' = NoArg /\ Continue("decode", toks)
    BY <1>2 DEF AddSubject
  <1>4. rest \in Seq(Token)
    BY <1>1, <1>2
  <1>5. /\ toks' \in Seq(Token) /\ arg' \in Arg
        /\ loop' \in {"addCh", "addWg", "addDs", "addFd", "addString", "add", "decode"}
        /\ loop' \in {"addWg", "addDs", "addFd"} => arg'.n < Half
        /\ loop' \in {"addString", "str"} => arg'.n \in 0 .. MaxString
    <2>1. CASE arg' = NoArg /\ Continue("addCh", rest)
      BY <2>1, <1>4, Defaults DEF Continue
    <2>2. CASE Counted("addWg", Byte, rest) \/ Counted("addDs", Byte, rest)
      <3>1. Byte \in DataType
        BY ConstantsOK DEF ConstantsOK
      <3> QED
        BY <2>2, <3>1, <1>4, CountedType
    <2>3. CASE subject \in DOMAIN TypeOf /\ Counted("addFd", TypeOf[subject], rest)
      <3>1. TypeOf[subject] \in DataType
        BY <2>3, TokensOK DEF TokensOK
      <3> QED
        BY <2>3, <3>1, <1>4, CountedType
    <2>4. CASE /\ rest # <<>> /\ Head(rest) \in DOMAIN Quoted
               /\ arg' = [NoArg EXCEPT !.n = Quoted[Head(rest)]] /\ Continue("addString", Tail(rest))
      <3>1. PICK n : n = Quoted[Head(rest)]
        OBVIOUS
      <3>2. n \in 0 .. MaxString /\ n \in -(UInt16 \div 2) .. UInt16 - 1
        BY <2>4, <3>1, QuotedLength
      <3>3. arg' = [NoArg EXCEPT !.n = n]
        BY <2>4, <3>1
      <3>4. arg' \in Arg /\ arg'.n = n
        BY <3>2, <3>3, ArgumentOf, ConstantsOK DEF ConstantsOK
      <3>5. Tail(rest) \in Seq(Token)
        BY <2>4, <1>4, TailType
      <3> QED
        BY <2>4, <3>2, <3>4, <3>5 DEF Continue
    <2>5. CASE arg' = NoArg /\ BackTo("add", rest)
      BY <2>5, <1>4, Defaults, BackToType
    <2>6. CASE arg' = NoArg /\ Continue("decode", toks)
      BY <2>6, <1>1, Defaults DEF Continue
    <2> QED
      BY <1>3, <2>1, <2>2, <2>3, <2>4, <2>5, <2>6
  <1>6. loop' \in Loops
    BY <1>5 DEF Loops
  <1> QED
    BY <1>1, <1>5, <1>6, ReadsArgument

LEMMA GoodWriteCommand ==
  ASSUME CInv, WriteCommand
  PROVE  Good
  <1>1. /\ UNCHANGED <<treeVars, b, job, said, typed>> /\ job = NoJob
        /\ toks \in Seq(Token) /\ toks # <<>>
    BY DEF WriteCommand, At, CInv, Decoding
  <1>2. PICK ts : ts = (IF Head(toks) = "wrtstr" THEN Tail(toks) ELSE toks)
    OBVIOUS
  <1>3. ts \in Seq(Token)
    BY <1>1, <1>2, TailType
  <1>4. CASE ts # <<>> /\ Head(ts) \in DOMAIN Quoted
    <2>1. PICK n : n = Quoted[Head(ts)]
      OBVIOUS
    <2>2. n \in 0 .. MaxString /\ n \in -(UInt16 \div 2) .. UInt16 - 1
      BY <1>4, <2>1, QuotedLength
    <2>3. arg' = [NoArg EXCEPT !.n = n] /\ loop' = "str" /\ toks' = Tail(ts)
      BY <1>2, <1>4, <2>1 DEF WriteCommand, Continue
    <2>4. arg' \in Arg /\ arg'.n = n
      BY <2>2, <2>3, ArgumentOf, ConstantsOK DEF ConstantsOK
    <2>5. toks' \in Seq(Token)
      BY <1>3, <1>4, <2>3, TailType
    <2> QED
      BY <1>1, <2>2, <2>3, <2>4, <2>5, ReadsArgument DEF Loops
  <1>5. CASE ~ (ts # <<>> /\ Head(ts) \in DOMAIN Quoted)
    <2>1. arg' = NoArg /\ loop' = "decode" /\ toks' = ts
      BY <1>2, <1>5 DEF WriteCommand, Continue
    <2> QED
      BY <1>1, <1>3, <2>1, Defaults, ReadsArgument DEF Loops
  <1> QED
    BY <1>4, <1>5

-----------------------------------------------------------------------------
(* Steps that give the inner loop over n its job.                           *)
LEMMA GivesJob ==
  ASSUME CInv, UNCHANGED <<treeVars, b, arg, said, typed>>,
         toks' \in Seq(Token), loop' \in {loop, "add"}, job' \in Job,
         loop \in {"addWg", "addDs", "addFd", "addString"},
         NEW j, j = job', j # NoJob => j.count > 0 /\ Under(j),
         j.op \in {"string", "text"} => loop = "addString"
  PROVE  Good
  <1>1. [TreeNext]_treeVars /\ NodesSelected /\ Selected'
    BY TreeStays
  <1>2. Under(j) => Under(j)'
    BY DEF Under, treeVars
  <1>3. Waiting'
    BY <1>2 DEF Waiting
  <1>4. Decoding'
    BY DEF CInv, Decoding, Loops
  <1>5. Argument'
    BY DEF CInv, Argument
  <1> QED
    BY <1>1, <1>3, <1>4, <1>5 DEF Good

LEMMA JobType ==
  ASSUME NEW op \in {"wg", "ds", "fd", "string", "text"}, NEW path \in Seq(Key),
         NEW n \in Nat, n < Half, n > 0
  PROVE  LET j == [op |-> op, path |-> path, count |-> n]
         IN  j \in Job /\ j # NoJob /\ j.op = op /\ j.path = path /\ j.count = n
  <1>1. n \in 0 .. Half - 1
    BY HalfWidth
  <1> QED
    BY <1>1 DEF Job, NoJob

LEMMA GoodAddGroups ==
  ASSUME CInv, AddGroups
  PROVE  Good
  <1>1. PICK r : r = Resolve(toks, 1)
    OBVIOUS
  <1>2. /\ UNCHANGED <<treeVars, b, arg, said, typed>> /\ loop = "addWg"
        /\ NextPath("addWg", "add", r)
        /\ job' = NoJob \/ (NodeExists(r.path) /\ arg.n > 0
                             /\ job' = [op |-> "wg", path |-> r.path, count |-> arg.n])
    BY <1>1 DEF AddGroups, AddTurn, At
  <1>3. toks \in Seq(Token) /\ 1 \in 1 .. 4
    BY DEF CInv, Decoding
  <1>4. r.path \in [1 .. 1 -> Key] /\ r.rest \in Seq(Token) /\ r.after \in Seq(Token)
    BY <1>1, <1>3, ResolvedIs
  <1>5. loop' \in {loop, "add"} /\ toks' \in Seq(Token)
    BY <1>2, <1>4, NextPathType
  <1>6. CASE job' = NoJob
    BY <1>2, <1>5, <1>6, Defaults, GivesJob
  <1>7. CASE job' = [op |-> "wg", path |-> r.path, count |-> arg.n] /\ NodeExists(r.path) /\ arg.n > 0
    <2>1. arg.n \in Nat /\ arg.n < Half
      BY <1>2, <1>7 DEF CInv, Argument, Arg
    <2>2. PICK j : j = job'
      OBVIOUS
    <2>3. r.path \in Seq(Key) /\ Len(r.path) = 1
      BY <1>3, <1>4, PathIsSeq
    <2>4. j \in Job /\ j.op = "wg" /\ j.path = r.path /\ j.count = arg.n
      BY <1>7, <2>1, <2>2, <2>3, JobType
    <2>5. r.path[1] \in DOMAIN conns
      BY <1>4, <1>7, NodeExistsAt
    <2>6. Under(j) /\ j.count > 0
      BY <1>7, <2>3, <2>4, <2>5 DEF Under
    <2> QED
      BY <1>2, <1>5, <2>2, <2>4, <2>6, GivesJob
  <1> QED
    BY <1>2, <1>6, <1>7

LEMMA GoodAddDataSets ==
  ASSUME CInv, AddDataSets
  PROVE  Good
  <1>1. PICK r : r = Resolve(toks, 2)
    OBVIOUS
  <1>2. /\ UNCHANGED <<treeVars, b, arg, said, typed>> /\ loop = "addDs"
        /\ NextPath("addDs", "add", r)
        /\ job' = NoJob \/ (NodeExists(r.path) /\ arg.n > 0
                             /\ job' = [op |-> "ds", path |-> r.path, count |-> arg.n])
    BY <1>1 DEF AddDataSets, AddTurn, At
  <1>3. toks \in Seq(Token) /\ 2 \in 1 .. 4
    BY DEF CInv, Decoding
  <1>4. r.path \in [1 .. 2 -> Key] /\ r.rest \in Seq(Token) /\ r.after \in Seq(Token)
    BY <1>1, <1>3, ResolvedIs
  <1>5. loop' \in {loop, "add"} /\ toks' \in Seq(Token)
    BY <1>2, <1>4, NextPathType
  <1>6. CASE job' = NoJob
    BY <1>2, <1>5, <1>6, Defaults, GivesJob
  <1>7. CASE job' = [op |-> "ds", path |-> r.path, count |-> arg.n] /\ NodeExists(r.path) /\ arg.n > 0
    <2>1. arg.n \in Nat /\ arg.n < Half
      BY <1>2, <1>7 DEF CInv, Argument, Arg
    <2>2. PICK j : j = job'
      OBVIOUS
    <2>3. r.path \in Seq(Key)
      BY <1>3, <1>4, PathIsSeq
    <2>4. j \in Job /\ j.op = "ds" /\ j.path = r.path /\ j.count = arg.n
      BY <1>7, <2>1, <2>2, <2>3, JobType
    <2>5. r.path \in DOMAIN wgs
      BY <1>4, <1>7, NodeExistsAt
    <2>6. Under(j) /\ j.count > 0
      BY <1>7, <2>4, <2>5 DEF Under
    <2> QED
      BY <1>2, <1>5, <2>2, <2>4, <2>6, GivesJob
  <1> QED
    BY <1>2, <1>6, <1>7

LEMMA GoodAddFields ==
  ASSUME CInv, AddFields
  PROVE  Good
  <1>1. PICK r : r = Resolve(toks, 3)
    OBVIOUS
  <1>2. /\ UNCHANGED <<treeVars, b, arg, said, typed>> /\ loop = "addFd"
        /\ NextPath("addFd", "add", r)
        /\ job' = NoJob \/ (NodeExists(r.path) /\ ~ dts[r.path].isString /\ arg.n > 0
                             /\ job' = [op |-> "fd", path |-> r.path, count |-> arg.n])
    BY <1>1 DEF AddFields, AddTurn, At, NotAString
  <1>3. toks \in Seq(Token) /\ 3 \in 1 .. 4
    BY DEF CInv, Decoding
  <1>4. r.path \in [1 .. 3 -> Key] /\ r.rest \in Seq(Token) /\ r.after \in Seq(Token)
    BY <1>1, <1>3, ResolvedIs
  <1>5. loop' \in {loop, "add"} /\ toks' \in Seq(Token)
    BY <1>2, <1>4, NextPathType
  <1>6. CASE job' = NoJob
    BY <1>2, <1>5, <1>6, Defaults, GivesJob
  <1>7. CASE /\ job' = [op |-> "fd", path |-> r.path, count |-> arg.n]
             /\ NodeExists(r.path) /\ ~ dts[r.path].isString /\ arg.n > 0
    <2>1. arg.n \in Nat /\ arg.n < Half
      BY <1>2, <1>7 DEF CInv, Argument, Arg
    <2>2. PICK j : j = job'
      OBVIOUS
    <2>3. r.path \in Seq(Key)
      BY <1>3, <1>4, PathIsSeq
    <2>4. j \in Job /\ j.op = "fd" /\ j.path = r.path /\ j.count = arg.n
      BY <1>7, <2>1, <2>2, <2>3, JobType
    <2>5. r.path \in DOMAIN dts
      BY <1>4, <1>7, NodeExistsAt
    <2>6. Under(j) /\ j.count > 0
      BY <1>7, <2>4, <2>5 DEF Under
    <2> QED
      BY <1>2, <1>5, <2>2, <2>4, <2>6, GivesJob
  <1> QED
    BY <1>2, <1>6, <1>7

LEMMA GoodAddString ==
  ASSUME CInv, AddString
  PROVE  Good
  <1>1. PICK r : r = Resolve(toks, 2)
    OBVIOUS
  <1>2. PICK again, left :
          /\ again = (r.full \/ r.missing)
          /\ left = (IF r.full THEN r.after ELSE IF r.missing THEN Next1(r.rest) ELSE r.rest)
    OBVIOUS
  <1>3. /\ UNCHANGED <<treeVars, b, arg, said, typed>> /\ loop = "addString"
        /\ Continue("addString", left) \/ BackTo("add", left)
        /\ job' = NoJob \/ (NodeExists(r.path)
                             /\ job' = [op |-> "string", path |-> r.path, count |-> 1])
    BY <1>1, <1>2 DEF AddString, At
  <1>4. toks \in Seq(Token) /\ 2 \in 1 .. 4
    BY DEF CInv, Decoding
  <1>5. r.path \in [1 .. 2 -> Key] /\ r.rest \in Seq(Token) /\ r.after \in Seq(Token)
    BY <1>1, <1>4, ResolvedIs
  <1>6. left \in Seq(Token)
    BY <1>2, <1>5, TailType
  <1>7. loop' \in {loop, "add"} /\ toks' \in Seq(Token)
    BY <1>3, <1>6, BackToType DEF Continue
  <1>8. CASE job' = NoJob
    BY <1>3, <1>7, <1>8, Defaults, GivesJob
  <1>9. CASE job' = [op |-> "string", path |-> r.path, count |-> 1] /\ NodeExists(r.path)
    <2>1. 1 \in Nat /\ 1 < Half /\ 1 > 0
      BY SMT DEF Half, UInt16
    <2>2. PICK j : j = job'
      OBVIOUS
    <2>3. r.path \in Seq(Key)
      BY <1>4, <1>5, PathIsSeq
    <2>4. j \in Job /\ j.op = "string" /\ j.path = r.path /\ j.count = 1
      BY <1>9, <2>1, <2>2, <2>3, JobType
    <2>5. r.path \in DOMAIN wgs
      BY <1>5, <1>9, NodeExistsAt
    <2>6. Under(j) /\ j.count > 0
      BY <2>4, <2>5 DEF Under
    <2> QED
      BY <1>3, <1>7, <2>2, <2>4, <2>6, GivesJob
  <1> QED
    BY <1>3, <1>8, <1>9

-----------------------------------------------------------------------------
(* Selecting, and the removals.                                             *)
LEMMA Settled ==
  ASSUME CInv, [TreeNext]_treeVars, Selected', NodesSelected,
         b' \in [1 .. 4 -> Key], toks' \in Seq(Token), loop' \in Loops,
         said' \in {"nothing", "invalid"}, typed' \in 0 .. MaxLines, arg' = arg, job' = NoJob,
         loop' = loop \/ loop' \notin {"addWg", "addDs", "addFd", "addString", "str"}
  PROVE  Good
  <1>1. Waiting'
    BY NothingWaits
  <1>2. Decoding'
    BY DEF Decoding
  <1>3. Argument'
    <2>1. ~ (job'.op \in {"string", "text"})
      BY Defaults
    <2> QED
      BY <2>1 DEF CInv, Argument
  <1> QED
    BY <1>1, <1>2, <1>3 DEF Good

LEMMA NothingNew ==
  ASSUME DOMAIN conns' \subseteq DOMAIN conns, DOMAIN wgs' \subseteq DOMAIN wgs,
         DOMAIN dts' \subseteq DOMAIN dts, DOMAIN fields' \subseteq DOMAIN fields
  PROVE  NodesSelected
  BY DEF NodesSelected

\* A beginning of the selection is a selection.
LEMMA SelectsBeginning ==
  ASSUME CInv
  PROVE  /\ b[1] \in Key /\ b[2] \in Key /\ b[3] \in Key /\ b[4] \in Key
         /\ \A s : \/ Keys(s, 0, 0, 0, 0)
                  \/ Keys(s, b[1], 0, 0, 0)
                  \/ Keys(s, b[1], b[2], 0, 0)
                  \/ Keys(s, b[1], b[2], b[3], 0)
              => Selects(s, DOMAIN conns, DOMAIN wgs, DOMAIN dts, Strings, DOMAIN fields)
  <1>1. /\ b[1] # 0 => b[1] \in DOMAIN conns
        /\ b[2] # 0 => b[1] # 0 /\ <<b[1], b[2]>> \in DOMAIN wgs
        /\ b[3] # 0 => b[2] # 0 /\ <<b[1], b[2], b[3]>> \in DOMAIN dts
    BY DEF CInv, Selected, Selects
  <1>2. b[1] \in Key /\ b[2] \in Key /\ b[3] \in Key /\ b[4] \in Key
    BY DEF CInv, Decoding
  <1> QED
    BY <1>1, <1>2, SelectsKeys

LEMMA GoodSelectNode ==
  ASSUME CInv, NEW word \in DOMAIN LevelOf, SelectNode(word)
  PROVE  Good
  <1> DEFINE l == LevelOf[word]
             p == [i \in 1 .. l |-> IF i = l THEN KeyOf(toks[2]) ELSE b[i]]
             found == (\A i \in 1 .. l : p[i] # 0) /\ NodeExists(p)
             Ok(s) == s \in [1 .. 4 -> Key]
                        /\ Selects(s, DOMAIN conns, DOMAIN wgs, DOMAIN dts, Strings, DOMAIN fields)
  <1>1. /\ UNCHANGED <<treeVars, arg, job, said, typed>> /\ job = NoJob
        /\ loop' = "decode" /\ toks' = From(toks, 3) /\ toks # <<>>
    BY DEF SelectNode, Command, At, Continue
  <1>2. b' = IF Len(toks) = 1 THEN b ELSE Select(IF found THEN p ELSE SubSeq(p, 1, l - 1))
    BY DEF SelectNode
  <1>3. l = 1 \/ l = 2 \/ l = 3 \/ l = 4
    BY DEF LevelOf
  <1>4. toks \in Seq(Token) /\ b \in [1 .. 4 -> Key] /\ IInv /\ KeysFromOne
    BY DEF CInv, Decoding
  <1>5. ASSUME Len(toks) # 1
        PROVE  p \in [1 .. l -> Key] /\ \A i \in 1 .. l - 1 : p[i] = b[i]
    <2>1. Len(toks) \in Nat /\ Len(toks) # 0
      BY <1>1, <1>4, EmptySeq, LenProperties
    <2>2. 2 \in 1 .. Len(toks)
      <3>1. \A n \in Nat : n # 0 /\ n # 1 => 2 \in 1 .. n
        OBVIOUS
      <3> QED
        BY <2>1, <1>5, <3>1, Zenon
    <2>3. KeyOf(toks[2]) \in Key
      BY <2>2, <1>4, ElementOfSeq, KeyOfType
    <2> QED
      BY <2>3, <1>3, <1>4
  <1> HIDE DEF p, l, Ok
  <1>6. Ok(b)
    BY <1>4 DEF Ok, CInv, Selected
  <1>7. ASSUME Len(toks) # 1, found
        PROVE  Ok(Select(p))
    <2>1. CASE l = 1
      <3>1. p = <<p[1]>> /\ p[1] \in Key /\ p[1] \in DOMAIN conns
        BY <1>5, <1>7, <2>1, PathTuple, NodeExistsAt
      <3>2. Ok(Select(<<p[1]>>))
        BY <3>1, <1>4, SelectsNode, SelectType DEF Ok
      <3> QED
        BY <3>1, <3>2
    <2>2. CASE l = 2
      <3>1. p = <<p[1], p[2]>> /\ p[1] \in Key /\ p[2] \in Key /\ p \in DOMAIN wgs
        BY <1>5, <1>7, <2>2, PathTuple, NodeExistsAt
      <3>2. Select(<<p[1], p[2]>>) \in [1 .. 4 -> Key]
        BY <3>1, SelectType
      <3> QED
        BY <3>1, <3>2, <1>4, SelectsNode DEF Ok
    <2>3. CASE l = 3
      <3>1. p = <<p[1], p[2], p[3]>> /\ p[1] \in Key /\ p[2] \in Key /\ p[3] \in Key /\ p \in DOMAIN dts
        BY <1>5, <1>7, <2>3, PathTuple, NodeExistsAt
      <3>2. Select(<<p[1], p[2], p[3]>>) \in [1 .. 4 -> Key]
        BY <3>1, SelectType
      <3> QED
        BY <3>1, <3>2, <1>4, SelectsNode DEF Ok
    <2>4. CASE l = 4
      <3>1. /\ p = <<p[1], p[2], p[3], p[4]>> /\ p \in DOMAIN fields
            /\ p[1] \in Key /\ p[2] \in Key /\ p[3] \in Key /\ p[4] \in Key
        BY <1>5, <1>7, <2>4, PathTuple, NodeExistsAt
      <3>2. Select(<<p[1], p[2], p[3], p[4]>>) \in [1 .. 4 -> Key]
        BY <3>1, SelectType
      <3> QED
        BY <3>1, <3>2, <1>4, SelectsNode DEF Ok
    <2> QED
      BY <1>3, <2>1, <2>2, <2>3, <2>4
  <1>8. ASSUME Len(toks) # 1
        PROVE  Ok(Select(SubSeq(p, 1, l - 1)))
    <2>1. b[1] \in Key /\ b[2] \in Key /\ b[3] \in Key /\ b[4] \in Key
      BY SelectsBeginning
    <2>2. CASE l = 1
      <3>1. SubSeq(p, 1, l - 1) = <<>>
        BY <1>5, <1>8, <2>2, Beginnings
      <3>2. Ok(Select(<<>>))
        BY <2>1, SelectPath, SelectType, SelectsBeginning DEF Ok
      <3> QED
        BY <3>1, <3>2
    <2>3. CASE l = 2
      <3>1. SubSeq(p, 1, l - 1) = <<b[1]>>
        BY <1>5, <1>8, <2>3, Beginnings
      <3>2. Ok(Select(<<b[1]>>))
        BY <2>1, SelectPath, SelectType, SelectsBeginning DEF Ok
      <3> QED
        BY <3>1, <3>2
    <2>4. CASE l = 3
      <3>1. SubSeq(p, 1, l - 1) = <<b[1], b[2]>>
        BY <1>5, <1>8, <2>4, Beginnings
      <3>2. Ok(Select(<<b[1], b[2]>>))
        BY <2>1, SelectPath, SelectType, SelectsBeginning DEF Ok
      <3> QED
        BY <3>1, <3>2
    <2>5. CASE l = 4
      <3>1. SubSeq(p, 1, l - 1) = <<b[1], b[2], b[3]>>
        BY <1>5, <1>8, <2>5, Beginnings
      <3>2. Ok(Select(<<b[1], b[2], b[3]>>))
        BY <2>1, SelectPath, SelectType, SelectsBeginning DEF Ok
      <3> QED
        BY <3>1, <3>2
    <2> QED
      BY <1>3, <2>2, <2>3, <2>4, <2>5
  <1>9. Ok(b')
    <2> HIDE DEF found
    <2> QED
      BY <1>2, <1>6, <1>7, <1>8
  <1>10. [TreeNext]_treeVars /\ NodesSelected
    BY <1>1, TreeStays
  <1>11. Selected' /\ b' \in [1 .. 4 -> Key]
    BY <1>1, <1>9 DEF Ok, Selected, Strings, treeVars
  <1>12. toks' \in Seq(Token)
    <2>1. 3 \in Nat /\ 3 >= 1
      OBVIOUS
    <2> QED
      BY <1>1, <1>4, <2>1, FromType
  <1>13. said' \in {"nothing", "invalid"} /\ typed' \in 0 .. MaxLines
    BY <1>1 DEF CInv, Decoding
  <1> QED
    BY <1>1, <1>10, <1>11, <1>12, <1>13, Settled DEF Loops

LEMMA TreeSteps ==
  ASSUME CInv
  PROVE  /\ \A c \in DOMAIN conns : DeleteConnection(c) => TreeNext
         /\ \A g \in DOMAIN wgs : RemoveWritergroup(g) => TreeNext
         /\ \A p \in DOMAIN dts : RemoveDataset(p) => TreeNext
         /\ \A p : \A f : RemoveField(p, f) => TreeNext
         /\ DeleteAllConnections => TreeNext
  <1>1. ASSUME NEW p, NEW f, RemoveField(p, f)
        PROVE  p \in DOMAIN dts /\ f \in FieldKeys(p)
    BY <1>1, PathField DEF RemoveField, RemoveData, CInv, IInv
  <1> QED
    BY <1>1 DEF TreeNext

LEMMA GoodDeleteAll ==
  ASSUME CInv, DeleteAllConnections, b' = NoSelection, UNCHANGED <<arg, job>>, job = NoJob,
         toks' \in Seq(Token), loop' \in {"idle", "stopped", "decode"},
         said' \in {"nothing", "invalid"}, typed' \in 0 .. MaxLines
  PROVE  Good
  <1>1. [TreeNext]_treeVars
    BY TreeSteps
  <1>2. NodesSelected
    BY NothingNew DEF DeleteAllConnections
  <1>3. Keys(b', 0, 0, 0, 0) /\ b' \in [1 .. 4 -> Key]
    <2>1. 0 \in Key
      BY Width DEF Key
    <2> QED
      BY <2>1 DEF Keys, NoSelection
  <1>4. Selected'
    BY <1>3, SelectsKeys DEF Selected
  <1> QED
    BY <1>1, <1>2, <1>3, <1>4, Settled DEF Loops

LEMMA GoodEndThread ==
  ASSUME CInv, NEW line, EndThread(line)
  PROVE  Good
  <1>1. typed' \in 0 .. MaxLines /\ toks' \in Seq(Token)
    BY TokensOK DEF EndThread, CInv, Decoding, TokensOK
  <1>2. job = NoJob /\ loop' \in {"idle", "stopped"}
    BY DEF EndThread, CInv, Waiting
  <1> QED
    BY <1>1, <1>2, GoodDeleteAll DEF EndThread

LEMMA GoodRemoveSubject ==
  ASSUME CInv, NEW y \in BOOLEAN, RemoveSubject(y)
  PROVE  Good
  <1>1. /\ UNCHANGED <<arg, job, said, typed>> /\ job = NoJob /\ toks \in Seq(Token)
        /\ said' \in {"nothing", "invalid"} /\ typed' \in 0 .. MaxLines
    BY DEF RemoveSubject, At, CInv, Decoding
  <1>2. PICK subject : subject = (IF toks = <<>> THEN "" ELSE Head(toks))
    OBVIOUS
  <1>3. CASE subject = "all" /\ y
    <2>1. toks # <<>> /\ DeleteAllConnections /\ b' = NoSelection /\ Continue("decode", Tail(toks))
      BY <1>2, <1>3 DEF RemoveSubject
    <2>2. toks' \in Seq(Token) /\ loop' = "decode"
      BY <1>1, <2>1, TailType DEF Continue
    <2> QED
      BY <1>1, <2>1, <2>2, GoodDeleteAll
  <1>4. CASE ~ (subject = "all" /\ y)
    <2>1. UNCHANGED <<treeVars, b>>
      BY <1>2, <1>4 DEF RemoveSubject
    <2>2. toks' \in Seq(Token) /\ loop' \in {"rm", "decode", "rmCh", "rmWg", "rmDs", "rmFd"}
      <3>1. CASE subject = "all"
        <4>1. toks # <<>> /\ BackTo("rm", Tail(toks))
          BY <1>2, <1>4, <3>1 DEF RemoveSubject
        <4> QED
          BY <1>1, <4>1, TailType, BackToType
      <3>2. CASE subject # "all" /\ subject \in DOMAIN RemoveLoop
        <4>1. Continue(RemoveLoop[subject], Tail(toks))
          BY <1>2, <3>2 DEF RemoveSubject
        <4>2. toks # <<>>
          BY <1>2, <3>2 DEF RemoveLoop
        <4> QED
          BY <1>1, <3>2, <4>1, <4>2, TailType DEF Continue, RemoveLoop
      <3>3. CASE subject # "all" /\ subject \notin DOMAIN RemoveLoop
        <4>1. Continue("decode", toks)
          BY <1>2, <3>3 DEF RemoveSubject
        <4> QED
          BY <1>1, <4>1 DEF Continue
      <3> QED
        BY <3>1, <3>2, <3>3
    <2> QED
      BY <1>1, <2>1, <2>2, ReadsOn DEF Loops
  <1> QED
    BY <1>3, <1>4

(* One turn of rm: nothing was removed, or a node was and its parent, the   *)
(* path s, is selected.                                                     *)
LEMMA GoodRemoveTurn ==
  ASSUME CInv, NEW l \in {"rmCh", "rmWg", "rmDs", "rmFd"}, NEW r,
         r.rest \in Seq(Token), r.after \in Seq(Token),
         NextPath(l, "rm", r), UNCHANGED <<arg, job, said, typed>>, job = NoJob,
         \/ UNCHANGED <<treeVars, b>>
         \/ /\ TreeNext /\ NodesSelected /\ b' \in [1 .. 4 -> Key] /\ Selected'
  PROVE  Good
  <1>1. loop' \in {l, "rm"} /\ toks' \in Seq(Token)
    BY NextPathType
  <1>2. said' \in {"nothing", "invalid"} /\ typed' \in 0 .. MaxLines
    BY DEF CInv, Decoding
  <1>3. CASE UNCHANGED <<treeVars, b>>
    BY <1>1, <1>2, <1>3, ReadsOn DEF Loops
  <1>4. CASE TreeNext /\ NodesSelected /\ b' \in [1 .. 4 -> Key] /\ Selected'
    BY <1>1, <1>2, <1>4, Settled DEF Loops
  <1> QED
    BY <1>3, <1>4

LEMMA FrontOf ==
  ASSUME NEW k \in 1 .. 4, NEW f \in [1 .. k -> Key]
  PROVE  /\ k = 1 => Front(f) = <<>>
         /\ k = 2 => Front(f) = <<f[1]>>
         /\ k = 3 => Front(f) = <<f[1], f[2]>>
         /\ k = 4 => Front(f) = <<f[1], f[2], f[3]>>
  <1>1. Front(f) = SubSeq(f, 1, k - 1)
    BY PathIsSeq DEF Front
  <1>2. /\ SubSeq(f, 1, 0) = <<>>
        /\ k >= 1 => SubSeq(f, 1, 1) = <<f[1]>>
        /\ k >= 2 => SubSeq(f, 1, 2) = <<f[1], f[2]>>
        /\ k >= 3 => SubSeq(f, 1, 3) = <<f[1], f[2], f[3]>>
    BY Beginnings
  <1>3. CASE k = 1
    BY <1>1, <1>2, <1>3
  <1>4. CASE k = 2
    BY <1>1, <1>2, <1>4
  <1>5. CASE k = 3
    BY <1>1, <1>2, <1>5
  <1>6. CASE k = 4
    BY <1>1, <1>2, <1>6
  <1> QED
    BY <1>3, <1>4, <1>5, <1>6

LEMMA GoodRemoveChannels ==
  ASSUME CInv, NEW y, RemoveChannels(y)
  PROVE  Good
  <1>1. PICK r : r = Resolve(toks, 1)
    OBVIOUS
  <1>2. /\ loop = "rmCh" /\ job = NoJob /\ NextPath("rmCh", "rm", r) /\ UNCHANGED <<arg, job, said, typed>>
        /\ \/ UNCHANGED <<treeVars, b>>
           \/ NodeExists(r.path) /\ DeleteConnection(r.path[1]) /\ b' = Select(Front(r.path))
    BY <1>1 DEF RemoveChannels, RemoveTurn, RemoveChannelAt, At
  <1>3. toks \in Seq(Token) /\ 1 \in 1 .. 4
    BY DEF CInv, Decoding
  <1>4. r.path \in [1 .. 1 -> Key] /\ r.rest \in Seq(Token) /\ r.after \in Seq(Token)
    BY <1>1, <1>3, ResolvedIs
  <1>5. ASSUME NodeExists(r.path), DeleteConnection(r.path[1]), b' = Select(Front(r.path))
        PROVE  TreeNext /\ NodesSelected /\ b' \in [1 .. 4 -> Key] /\ Selected'
    <2>1. TreeNext
      BY <1>5, TreeSteps DEF DeleteConnection
    <2>2. NodesSelected
      BY <1>5, NothingNew DEF DeleteConnection, Restrict
    <2>3. b' = Select(<<>>)
      BY <1>3, <1>4, <1>5, FrontOf
    <2>4. b' \in [1 .. 4 -> Key] /\ Keys(b', 0, 0, 0, 0)
      <3>1. 0 \in Key
        BY Width DEF Key
      <3>2. Select(<<>>) \in [1 .. 4 -> Key] /\ Keys(Select(<<>>), 0, 0, 0, 0)
        BY <3>1, SelectPath, SelectType
      <3> QED
        BY <2>3, <3>2
    <2>5. Selected'
      BY <2>4, SelectsKeys DEF Selected
    <2> QED
      BY <2>1, <2>2, <2>4, <2>5
  <1> QED
    BY <1>2, <1>4, <1>5, GoodRemoveTurn

LEMMA GoodRemoveGroups ==
  ASSUME CInv, NEW y, RemoveGroups(y)
  PROVE  Good
  <1>1. PICK r : r = Resolve(toks, 2)
    OBVIOUS
  <1>2. /\ loop = "rmWg" /\ job = NoJob /\ NextPath("rmWg", "rm", r) /\ UNCHANGED <<arg, job, said, typed>>
        /\ \/ UNCHANGED <<treeVars, b>>
           \/ NodeExists(r.path) /\ RemoveWritergroup(r.path) /\ b' = Select(Front(r.path))
    BY <1>1 DEF RemoveGroups, RemoveTurn, At
  <1>3. toks \in Seq(Token) /\ 2 \in 1 .. 4
    BY DEF CInv, Decoding
  <1>4. r.path \in [1 .. 2 -> Key] /\ r.rest \in Seq(Token) /\ r.after \in Seq(Token)
    BY <1>1, <1>3, ResolvedIs
  <1>5. ASSUME NodeExists(r.path), RemoveWritergroup(r.path), b' = Select(Front(r.path))
        PROVE  TreeNext /\ NodesSelected /\ b' \in [1 .. 4 -> Key] /\ Selected'
    <2>1. r.path \in DOMAIN wgs
      BY <1>5 DEF RemoveWritergroup
    <2>2. TreeNext
      BY <1>5, <2>1, TreeSteps
    <2>3. NodesSelected
      BY <1>5, NothingNew DEF RemoveWritergroup, Restrict
    <2>4. r.path[1] \in Key /\ r.path[1] \in DOMAIN conns /\ conns' = conns
      BY <1>5, <2>1, Ancestors DEF CInv, RemoveWritergroup
    <2>5. b' = Select(<<r.path[1]>>)
      BY <1>3, <1>4, <1>5, FrontOf
    <2>6. b' \in [1 .. 4 -> Key] /\ Keys(b', r.path[1], 0, 0, 0)
      BY <2>4, <2>5, SelectPath, SelectType
    <2>7. Selected'
      BY <2>4, <2>6, SelectsKeys DEF Selected
    <2> QED
      BY <2>2, <2>3, <2>6, <2>7
  <1> QED
    BY <1>2, <1>4, <1>5, GoodRemoveTurn

LEMMA GoodRemoveDataSets ==
  ASSUME CInv, NEW y, RemoveDataSets(y)
  PROVE  Good
  <1>1. PICK r : r = Resolve(toks, 3)
    OBVIOUS
  <1>2. /\ loop = "rmDs" /\ job = NoJob /\ NextPath("rmDs", "rm", r) /\ UNCHANGED <<arg, job, said, typed>>
        /\ \/ UNCHANGED <<treeVars, b>>
           \/ NodeExists(r.path) /\ RemoveDataset(r.path) /\ b' = Select(Front(r.path))
    BY <1>1 DEF RemoveDataSets, RemoveTurn, At
  <1>3. toks \in Seq(Token) /\ 3 \in 1 .. 4
    BY DEF CInv, Decoding
  <1>4. r.path \in [1 .. 3 -> Key] /\ r.rest \in Seq(Token) /\ r.after \in Seq(Token)
    BY <1>1, <1>3, ResolvedIs
  <1>5. ASSUME NodeExists(r.path), RemoveDataset(r.path), b' = Select(Front(r.path))
        PROVE  TreeNext /\ NodesSelected /\ b' \in [1 .. 4 -> Key] /\ Selected'
    <2>1. r.path \in DOMAIN dts
      BY <1>5 DEF RemoveDataset
    <2>2. TreeNext
      BY <1>5, <2>1, TreeSteps
    <2>3. NodesSelected
      BY <1>5, NothingNew DEF RemoveDataset, Restrict
    <2>4. PICK c, w : c = r.path[1] /\ w = r.path[2]
      OBVIOUS
    <2>5. c \in Key /\ w \in Key /\ <<c, w>> \in DOMAIN wgs
      BY <2>1, <2>4, Ancestors DEF CInv
    <2>6. c \in DOMAIN conns /\ c # 0 /\ UNCHANGED <<conns, wgs>>
      BY <1>5, <2>5, Ancestors DEF CInv, RemoveDataset
    <2>7. b' = Select(<<c, w>>)
      BY <1>3, <1>4, <1>5, <2>4, FrontOf
    <2>8. b' \in [1 .. 4 -> Key] /\ Keys(b', c, w, 0, 0)
      BY <2>5, <2>7, SelectPath, SelectType
    <2>9. Selected'
      BY <2>5, <2>6, <2>8, SelectsKeys DEF Selected
    <2> QED
      BY <2>2, <2>3, <2>8, <2>9
  <1> QED
    BY <1>2, <1>4, <1>5, GoodRemoveTurn

LEMMA GoodRemoveFields ==
  ASSUME CInv, NEW y, RemoveFields(y)
  PROVE  Good
  <1>1. PICK r : r = Resolve(toks, 4)
    OBVIOUS
  <1>2. /\ loop = "rmFd" /\ job = NoJob /\ NextPath("rmFd", "rm", r) /\ UNCHANGED <<arg, job, said, typed>>
        /\ \/ UNCHANGED <<treeVars, b>>
           \/ NodeExists(r.path) /\ RemoveFieldAt(r.path) /\ b' = Select(Front(r.path))
    BY <1>1 DEF RemoveFields, RemoveTurn, At
  <1>3. toks \in Seq(Token) /\ 4 \in 1 .. 4
    BY DEF CInv, Decoding
  <1>4. r.path \in [1 .. 4 -> Key] /\ r.rest \in Seq(Token) /\ r.after \in Seq(Token)
    BY <1>1, <1>3, ResolvedIs
  <1>5. ASSUME NodeExists(r.path), RemoveFieldAt(r.path), b' = Select(Front(r.path))
        PROVE  TreeNext /\ NodesSelected /\ b' \in [1 .. 4 -> Key] /\ Selected'
    <2>1. PICK c, w, d : c = r.path[1] /\ w = r.path[2] /\ d = r.path[3]
      OBVIOUS
    <2>2. RemoveField(<<c, w, d>>, r.path[4])
      BY <1>5, <2>1 DEF RemoveFieldAt, DataSetOf
    <2>3. TreeNext
      BY <2>2, TreeSteps
    <2>4. NodesSelected
      BY <2>2, NothingNew DEF RemoveField, RemoveData, Restrict
    <2>5. <<c, w, d>> \in DOMAIN dts /\ UNCHANGED <<conns, wgs, dts>>
      BY <2>2 DEF RemoveField, RemoveData
    <2>6. c \in Key /\ w \in Key /\ d \in Key /\ <<c, w>> \in DOMAIN wgs
      BY <2>5, Ancestors DEF CInv
    <2>7. c \in DOMAIN conns /\ c # 0 /\ w # 0
      BY <2>6, Ancestors DEF CInv
    <2>8. b' = Select(<<c, w, d>>)
      BY <1>3, <1>4, <1>5, <2>1, FrontOf
    <2>9. b' \in [1 .. 4 -> Key] /\ Keys(b', c, w, d, 0)
      BY <2>6, <2>8, SelectPath, SelectType
    <2>10. Selected'
      BY <2>5, <2>6, <2>7, <2>9, SelectsKeys DEF Selected
    <2> QED
      BY <2>3, <2>4, <2>9, <2>10
  <1> QED
    BY <1>2, <1>4, <1>5, GoodRemoveTurn

-----------------------------------------------------------------------------
(* Adding nodes.                                                            *)
LEMMA GoodAddChannel ==
  ASSUME CInv, InBounds, AddChannel
  PROVE  Good
  <1>1. /\ UNCHANGED <<arg, job, said, typed>> /\ job = NoJob /\ loop = "addCh"
        /\ toks \in Seq(Token) /\ said' \in {"nothing", "invalid"} /\ typed' \in 0 .. MaxLines
    BY DEF AddChannel, At, CInv, Decoding
  <1>2. PICK port : port = NextPort
    OBVIOUS
  <1>3. \/ port = 0 /\ BackTo("add", toks) /\ UNCHANGED <<treeVars, b>>
        \/ /\ port \in PortNumbers /\ CreateConnection(port) /\ Continue("addCh", Tail(toks))
           /\ b' = IF connKeyInc' \in DOMAIN conns THEN b ELSE Select(<<connKeyInc'>>)
        \/ port \notin {0} \cup PortNumbers /\ Continue("addCh", Tail(toks)) /\ UNCHANGED <<treeVars, b>>
    BY <1>2 DEF AddChannel
  <1>4. 0 \notin PortNumbers
    BY DEF PortNumbers
  <1>5. port # 0 => port = KeyOf(Head(toks)) /\ Head(toks) \in Token /\ Tail(toks) \in Seq(Token)
    <2>1. port # 0 => toks # <<>> /\ port = KeyOf(Head(toks))
      BY <1>2 DEF NextPort
    <2>2. toks # <<>> => Head(toks) \in Token /\ Tail(toks) \in Seq(Token)
      BY <1>1, TailType
    <2> QED
      BY <2>1, <2>2
  <1>6. CASE port = 0
    <2>1. BackTo("add", toks) /\ UNCHANGED <<treeVars, b>>
      BY <1>3, <1>4, <1>6
    <2>2. loop' = "add" /\ toks' \in Seq(Token)
      BY <1>1, <2>1, BackToType
    <2> QED
      BY <1>1, <2>1, <2>2, ReadsOn DEF Loops
  <1>7. CASE port # 0 /\ port \notin PortNumbers
    <2>1. Continue("addCh", Tail(toks)) /\ UNCHANGED <<treeVars, b>>
      BY <1>3, <1>7
    <2>2. loop' = "addCh" /\ toks' \in Seq(Token)
      BY <1>5, <1>7, <2>1 DEF Continue
    <2> QED
      BY <1>1, <2>1, <2>2, ReadsOn DEF Loops
  <1>8. CASE port # 0 /\ port \in PortNumbers
    <2>1. /\ CreateConnection(port) /\ Continue("addCh", Tail(toks))
          /\ b' = IF connKeyInc' \in DOMAIN conns THEN b ELSE Select(<<connKeyInc'>>)
      BY <1>3, <1>8
    <2>2. loop' = "addCh" /\ toks' \in Seq(Token)
      BY <1>5, <1>8, <2>1 DEF Continue
    <2>3. port \in Port
      BY <1>5, <1>8 DEF InBounds
    <2>4. TreeNext
      BY <2>1, <2>3 DEF TreeNext, InBounds
    <2>5. PICK c : c = Inc(connKeyInc)
      OBVIOUS
    <2>6. c \in Key /\ c # 0 /\ c \notin DOMAIN conns
      BY <2>5, FreeKeys DEF CInv, InBounds
    <2>7. connKeyInc' = c /\ DOMAIN conns' = DOMAIN conns \cup {c} /\ UNCHANGED <<wgs, dts, fields>>
      <3>1. DOMAIN PutNew(conns, c, NewConnection(port)) = DOMAIN conns \cup {c}
        BY PutNewDomain
      <3>2. /\ connKeyInc' = c /\ conns' = PutNew(conns, c, NewConnection(port))
            /\ UNCHANGED <<wgs, dts, fields>>
        BY <2>1, <2>5 DEF CreateConnection
      <3> QED
        BY <3>1, <3>2
    <2>8. b' = Select(<<c>>)
      BY <2>1, <2>6, <2>7
    <2>9. b' \in [1 .. 4 -> Key] /\ Keys(b', c, 0, 0, 0)
      BY <2>6, <2>8, SelectPath, SelectType
    <2>10. Selected'
      BY <2>7, <2>9, SelectsKeys DEF Selected
    <2>11. NodesSelected
      BY <2>7, <2>8 DEF NodesSelected
    <2> QED
      BY <1>1, <2>2, <2>4, <2>9, <2>10, <2>11, Settled DEF Loops
  <1> QED
    BY <1>6, <1>7, <1>8

(* What is left of the job once the node s of one round was added.          *)
LEMMA GoodRound ==
  ASSUME CInv, job # NoJob, TreeNext, Selected', NodesSelected, b' \in [1 .. 4 -> Key],
         NEW j, j = job, j.op \in {"wg", "ds", "fd"}, Under(j)',
         job' = IF job.count = 1 THEN NoJob ELSE [job EXCEPT !.count = @ - 1],
         UNCHANGED <<toks, loop, arg, said, typed>>
  PROVE  Good
  <1>2. j \in Job /\ j.count > 0
    BY DEF CInv, Waiting
  <1>3. PICK i : i = job'
    OBVIOUS
  <1>4. i = NoJob \/ (i \in Job /\ i.count > 0 /\ i.op = j.op /\ i.path = j.path)
    <2>1. i = IF j.count = 1 THEN NoJob ELSE [j EXCEPT !.count = @ - 1]
      BY <1>3
    <2>2. CASE j.count = 1
      BY <2>1, <2>2
    <2>3. CASE j.count # 1
      <3>1. j.count \in 0 .. Half - 1 /\ Half \in Nat
        BY <1>2, HalfWidth DEF Job
      <3>2. j.count - 1 \in 0 .. Half - 1 /\ j.count - 1 > 0
        BY <1>2, <2>3, <3>1
      <3>3. i = [j EXCEPT !.count = j.count - 1]
        BY <2>1, <2>3
      <3> QED
        BY <1>2, <3>2, <3>3 DEF Job
    <2> QED
      BY <2>2, <2>3
  <1>5. i.op \notin {"string", "text"} /\ i \in Job
    BY <1>4, Defaults
  <1>6. i # NoJob => i.count > 0 /\ Under(i)'
    BY <1>4 DEF Under
  <1>7. Waiting'
    BY <1>3, <1>5, <1>6 DEF CInv, Waiting
  <1>8. Decoding'
    BY DEF CInv, Decoding
  <1>9. Argument'
    BY <1>3, <1>5 DEF CInv, Argument
  <1> QED
    BY <1>7, <1>8, <1>9 DEF Good

LEMMA GoodAddGroup ==
  ASSUME CInv, InBounds, AddGroup
  PROVE  Good
  <1>1. PICK j : j = job
    OBVIOUS
  <1>2. j # NoJob /\ j.op = "wg" /\ j.path \in Seq(Key) /\ Len(j.path) = 1 /\ j.path[1] \in DOMAIN conns
    <2>1. j.op = "wg" /\ j # NoJob
      BY <1>1, Defaults DEF AddGroup
    <2>2. Under(j) /\ j \in Job
      BY <1>1, <2>1 DEF CInv, Waiting
    <2> QED
      BY <2>1, <2>2 DEF Under, Job
  <1>3. PICK c, w : c = j.path[1] /\ w = Inc(conns[c].wgKeyInc)
    OBVIOUS
  <1>4. c \in DOMAIN conns /\ c \in Key /\ c # 0 /\ j.path = <<c>>
    <2>1. c \in DOMAIN conns /\ c \in Key /\ c # 0
      BY <1>2, <1>3, Ancestors DEF CInv
    <2>2. j.path \in [1 .. 1 -> Key]
      BY <1>2, LenProperties
    <2> QED
      BY <1>3, <2>1, <2>2, PathTuple
  <1>5. w \in Key /\ w # 0 /\ <<c, w>> \notin DOMAIN wgs /\ Room(conns[c].wgKeyInc, 1)
    BY <1>3, <1>4, FreeKeys DEF CInv, InBounds
  <1>6. AddWritergroup(c)
    BY <1>1, <1>3 DEF AddGroup
  <1>7. TreeNext
    BY <1>4, <1>5, <1>6 DEF TreeNext
  <1>8. /\ DOMAIN conns' = DOMAIN conns /\ conns'[c].wgKeyInc = w
        /\ DOMAIN wgs' = DOMAIN wgs \cup {<<c, w>>} /\ UNCHANGED <<dts, fields>>
    <2>1. conns' = [conns EXCEPT ![c].wgKeyInc = w] /\ wgs' = PutNew(wgs, <<c, w>>, NewGroup)
          /\ UNCHANGED <<dts, fields>>
      BY <1>3, <1>6 DEF AddWritergroup
    <2>2. conns[c] \in [port : Port, wgKeyInc : Key]
      BY <1>4 DEF CInv, IInv, TreeTypeOK
    <2>3. DOMAIN conns' = DOMAIN conns /\ conns'[c].wgKeyInc = w
      BY <1>4, <2>1, <2>2
    <2> QED
      BY <2>1, <2>3, PutNewDomain
  <1>9. PICK g : g = Append(j.path, conns'[c].wgKeyInc)
    OBVIOUS
  <1>10. g = <<c, w>>
    BY <1>4, <1>5, <1>8, <1>9, Appended
  <1>11. NodeAdded(g, g \in DOMAIN wgs)
    BY <1>1, <1>3, <1>9 DEF AddGroup
  <1>12. /\ b' = Select(g) /\ UNCHANGED <<toks, loop, arg, said, typed>>
         /\ job' = IF job.count = 1 THEN NoJob ELSE [job EXCEPT !.count = @ - 1]
    BY <1>5, <1>10, <1>11 DEF NodeAdded
  <1>13. b' \in [1 .. 4 -> Key] /\ Keys(b', c, w, 0, 0)
    BY <1>4, <1>5, <1>10, <1>12, SelectPath, SelectType
  <1>14. Selected'
    <2>1. c \in DOMAIN conns' /\ c # 0 /\ <<c, w>> \in DOMAIN wgs'
      BY <1>4, <1>8
    <2> QED
      BY <1>13, <2>1, SelectsKeys DEF Selected
  <1>15. NodesSelected
    BY <1>8, <1>10, <1>12 DEF NodesSelected
  <1>16. Under(j)'
    BY <1>2, <1>8 DEF Under
  <1> QED
    BY <1>1, <1>2, <1>7, <1>12, <1>13, <1>14, <1>15, <1>16, GoodRound

LEMMA GoodAddDataSet ==
  ASSUME CInv, InBounds, AddDataSet
  PROVE  Good
  <1>1. PICK j : j = job
    OBVIOUS
  <1>2. j # NoJob /\ j.op = "ds" /\ j.path \in DOMAIN wgs
    <2>1. j.op = "ds" /\ j # NoJob
      BY <1>1, Defaults DEF AddDataSet
    <2>2. Under(j)
      BY <1>1, <2>1 DEF CInv, Waiting
    <2> QED
      BY <2>1, <2>2 DEF Under
  <1>3. PICK c, w, d : c = j.path[1] /\ w = j.path[2] /\ d = Inc(wgs[j.path].dtsKeyInc)
    OBVIOUS
  <1>4. /\ c \in DOMAIN conns /\ c \in Key /\ c # 0 /\ w \in Key /\ w # 0
        /\ j.path = <<c, w>> /\ <<c, w>> \in DOMAIN wgs
    BY <1>2, <1>3, Ancestors DEF CInv
  <1>5. d \in Key /\ d # 0 /\ <<c, w, d>> \notin DOMAIN dts /\ Room(wgs[j.path].dtsKeyInc, 1)
    BY <1>2, <1>3, FreeKeys DEF CInv, InBounds
  <1>6. AddDataset(j.path, FALSE)
    BY <1>1 DEF AddDataSet
  <1>7. TreeNext
    BY <1>2, <1>5, <1>6 DEF TreeNext
  <1>8. /\ DOMAIN wgs' = DOMAIN wgs /\ wgs'[j.path].dtsKeyInc = d
        /\ DOMAIN dts' = DOMAIN dts \cup {<<c, w, d>>} /\ UNCHANGED <<conns, fields>>
    <2>1. /\ wgs' = [wgs EXCEPT ![j.path].dtsKeyInc = d]
          /\ dts' = PutNew(dts, <<c, w, d>>, NewDataSet(FALSE)) /\ UNCHANGED <<conns, fields>>
      BY <1>3, <1>6 DEF AddDataset
    <2>2. wgs[j.path] \in [enabled : BOOLEAN, interval : Interval, dtsKeyInc : Key]
      BY <1>2 DEF CInv, IInv, TreeTypeOK
    <2>3. DOMAIN wgs' = DOMAIN wgs /\ wgs'[j.path].dtsKeyInc = d
      BY <1>2, <2>1, <2>2
    <2> QED
      BY <2>1, <2>3, PutNewDomain
  <1>9. PICK p : p = Append(j.path, wgs'[j.path].dtsKeyInc)
    OBVIOUS
  <1>10. p = <<c, w, d>>
    BY <1>4, <1>5, <1>8, <1>9, Appended
  <1>11. NodeAdded(p, p \in DOMAIN dts)
    BY <1>1, <1>9 DEF AddDataSet
  <1>12. /\ b' = Select(p) /\ UNCHANGED <<toks, loop, arg, said, typed>>
         /\ job' = IF job.count = 1 THEN NoJob ELSE [job EXCEPT !.count = @ - 1]
    BY <1>5, <1>10, <1>11 DEF NodeAdded
  <1>13. b' \in [1 .. 4 -> Key] /\ Keys(b', c, w, d, 0)
    BY <1>4, <1>5, <1>10, <1>12, SelectPath, SelectType
  <1>14. Selected'
    <2>1. /\ c \in DOMAIN conns' /\ c # 0 /\ w # 0
          /\ <<c, w>> \in DOMAIN wgs' /\ <<c, w, d>> \in DOMAIN dts'
      BY <1>4, <1>8
    <2> QED
      BY <1>13, <2>1, SelectsKeys DEF Selected
  <1>15. NodesSelected
    <2>1. SubSeq(b', 1, 3) = p
      BY <1>10, <1>13, Beginnings DEF Keys
    <2> QED
      BY <1>8, <1>10, <2>1 DEF NodesSelected
  <1>16. Under(j)'
    BY <1>2, <1>8 DEF Under
  <1> QED
    BY <1>1, <1>2, <1>7, <1>12, <1>13, <1>14, <1>15, <1>16, GoodRound

LEMMA GoodAddOneField ==
  ASSUME CInv, InBounds, AddOneField
  PROVE  Good
  <1>1. PICK j : j = job
    OBVIOUS
  <1>2. j # NoJob /\ j.op = "fd" /\ j.path \in DOMAIN dts /\ ~ dts[j.path].isString
    <2>1. j.op = "fd" /\ j # NoJob
      BY <1>1, Defaults DEF AddOneField
    <2>2. Under(j)
      BY <1>1, <2>1 DEF CInv, Waiting
    <2> QED
      BY <2>1, <2>2 DEF Under
  <1>3. PICK c, w, d, f : c = j.path[1] /\ w = j.path[2] /\ d = j.path[3] /\ f = Inc(dts[j.path].varKeyInc)
    OBVIOUS
  <1>4. /\ c \in Key /\ w \in Key /\ d \in Key /\ d # 0
        /\ j.path = <<c, w, d>> /\ <<c, w>> \in DOMAIN wgs /\ <<c, w, d>> \in DOMAIN dts
    BY <1>2, <1>3, Ancestors DEF CInv
  <1>5. c \in DOMAIN conns /\ c # 0 /\ w # 0
    BY <1>4, Ancestors DEF CInv
  <1>6. f \in Key /\ f # 0 /\ <<c, w, d, f>> \notin DOMAIN fields /\ Room(dts[j.path].varKeyInc, 1)
    BY <1>2, <1>3, FreeKeys DEF CInv, InBounds
  <1>7. AddData(j.path, arg.type)
    BY <1>1 DEF AddOneField
  <1>8. TreeNext
    <2>1. arg.type \in DataType
      BY DEF CInv, Argument, Arg
    <2> QED
      BY <1>2, <1>6, <1>7, <2>1 DEF TreeNext, AddField
  <1>9. /\ DOMAIN dts' = DOMAIN dts /\ dts'[j.path].varKeyInc = f /\ Strings' = Strings
        /\ dts'[j.path].isString = dts[j.path].isString
        /\ DOMAIN fields' = DOMAIN fields \cup {<<c, w, d, f>>} /\ UNCHANGED <<conns, wgs>>
    <2>1. /\ dts' = [dts EXCEPT ![j.path].varKeyInc = f]
          /\ fields' = PutNew(fields, <<c, w, d, f>>, arg.type) /\ UNCHANGED <<conns, wgs>>
      BY <1>3, <1>7 DEF AddData
    <2>2. \A p \in DOMAIN dts : dts[p] \in [isString : BOOLEAN, varKeyInc : Key]
      BY DEF CInv, IInv, TreeTypeOK
    <2>3. /\ DOMAIN dts' = DOMAIN dts /\ dts'[j.path].varKeyInc = f
          /\ \A p \in DOMAIN dts : dts'[p].isString = dts[p].isString
      BY <1>2, <2>1, <2>2
    <2>4. Strings' = Strings
      BY <2>3 DEF Strings
    <2>5. PICK type : type = arg.type
      OBVIOUS
    <2>6. DOMAIN fields' = DOMAIN fields \cup {<<c, w, d, f>>}
      BY <2>1, <2>5, PutNewDomain
    <2> QED
      BY <1>2, <2>1, <2>3, <2>4, <2>6
  <1>10. PICK q : q = Append(j.path, dts'[j.path].varKeyInc)
    OBVIOUS
  <1>11. q = <<c, w, d, f>>
    BY <1>4, <1>6, <1>9, <1>10, Appended
  <1>12. NodeAdded(q, q \in DOMAIN fields)
    BY <1>1, <1>10 DEF AddOneField
  <1>13. /\ b' = Select(q) /\ UNCHANGED <<toks, loop, arg, said, typed>>
         /\ job' = IF job.count = 1 THEN NoJob ELSE [job EXCEPT !.count = @ - 1]
    BY <1>6, <1>11, <1>12 DEF NodeAdded
  <1>14. b' \in [1 .. 4 -> Key] /\ Keys(b', c, w, d, f)
    BY <1>4, <1>6, <1>11, <1>13, SelectPath, SelectType
  <1>15. Selected'
    <2>1. /\ c \in DOMAIN conns' /\ c # 0 /\ w # 0 /\ d # 0
          /\ <<c, w>> \in DOMAIN wgs' /\ <<c, w, d>> \in DOMAIN dts'
          /\ <<c, w, d, f>> \in DOMAIN fields'
      BY <1>4, <1>5, <1>9
    <2> QED
      BY <1>14, <2>1, SelectsKeys DEF Selected
  <1>16. NodesSelected
    <2>1. b' = q
      BY <1>11, <1>14, PathTuple DEF Keys
    <2> QED
      BY <1>9, <1>11, <2>1 DEF NodesSelected
  <1>17. Under(j)'
    BY <1>2, <1>9 DEF Under
  <1> QED
    BY <1>1, <1>2, <1>8, <1>13, <1>14, <1>15, <1>16, <1>17, GoodRound

LEMMA GoodAddStringDataSet ==
  ASSUME CInv, InBounds, AddStringDataSet
  PROVE  Good
  <1>1. PICK j : j = job
    OBVIOUS
  <1>2. /\ j # NoJob /\ j.op = "string" /\ j.path \in DOMAIN wgs
        /\ loop \in {"add", "addWg", "addDs", "addFd", "addString"}
    <2>1. j.op = "string" /\ j # NoJob
      BY <1>1, Defaults DEF AddStringDataSet
    <2>2. Under(j) /\ loop \in {"add", "addWg", "addDs", "addFd", "addString"}
      BY <1>1, <2>1 DEF CInv, Waiting
    <2> QED
      BY <2>1, <2>2 DEF Under
  <1>3. PICK c, w, d : c = j.path[1] /\ w = j.path[2] /\ d = Inc(wgs[j.path].dtsKeyInc)
    OBVIOUS
  <1>4. /\ c \in DOMAIN conns /\ c \in Key /\ c # 0 /\ w \in Key /\ w # 0
        /\ j.path = <<c, w>> /\ <<c, w>> \in DOMAIN wgs
    BY <1>2, <1>3, Ancestors DEF CInv
  <1>5. d \in Key /\ d # 0 /\ <<c, w, d>> \notin DOMAIN dts /\ Room(wgs[j.path].dtsKeyInc, 1)
    BY <1>2, <1>3, FreeKeys DEF CInv, InBounds
  <1>6. AddDataset(j.path, TRUE) /\ UNCHANGED <<toks, loop, arg, said, typed>>
    BY <1>1 DEF AddStringDataSet
  <1>7. TreeNext
    BY <1>2, <1>5, <1>6 DEF TreeNext
  <1>8. /\ wgs'[j.path].dtsKeyInc = d /\ DOMAIN wgs' = DOMAIN wgs
        /\ DOMAIN dts' = DOMAIN dts \cup {<<c, w, d>>} /\ dts'[<<c, w, d>>].isString
        /\ UNCHANGED <<conns, fields>>
    <2>1. /\ wgs' = [wgs EXCEPT ![j.path].dtsKeyInc = d]
          /\ dts' = PutNew(dts, <<c, w, d>>, NewDataSet(TRUE)) /\ UNCHANGED <<conns, fields>>
      BY <1>3, <1>6 DEF AddDataset
    <2>2. wgs[j.path] \in [enabled : BOOLEAN, interval : Interval, dtsKeyInc : Key]
      BY <1>2 DEF CInv, IInv, TreeTypeOK
    <2>3. DOMAIN wgs' = DOMAIN wgs /\ wgs'[j.path].dtsKeyInc = d
      BY <1>2, <2>1, <2>2
    <2>4. NewDataSet(TRUE).isString
      BY DEF NewDataSet
    <2>5. dts'[<<c, w, d>>] = NewDataSet(TRUE)
      BY <1>5, <2>1 DEF PutNew, Put
    <2> QED
      <3>1. DOMAIN dts' = DOMAIN dts \cup {<<c, w, d>>}
        BY <2>1, PutNewDomain
      <3>2. dts'[<<c, w, d>>].isString
        BY <2>4, <2>5
      <3> QED
        BY <2>1, <2>3, <3>1, <3>2
  <1>9. PICK p : p = Append(j.path, wgs'[j.path].dtsKeyInc)
    OBVIOUS
  <1>10. p = <<c, w, d>>
    BY <1>4, <1>5, <1>8, <1>9, Appended
  <1>11. /\ b' = [Select(p) EXCEPT ![4] = b[4]]
         /\ job' = [op |-> "text", path |-> p, count |-> 1]
    BY <1>1, <1>5, <1>9, <1>10 DEF AddStringDataSet
  <1>12. b' \in [1 .. 4 -> Key] /\ Keys(b', c, w, d, b[4])
    <2>1. b[4] \in Key
      BY SelectsBeginning
    <2>2. PICK s : s = Select(p)
      OBVIOUS
    <2>3. s \in [1 .. 4 -> Key] /\ Keys(s, c, w, d, 0)
      BY <1>4, <1>5, <1>10, <2>2, SelectPath, SelectType
    <2> QED
      BY <1>11, <2>1, <2>2, <2>3 DEF Keys
  <1>13. Selected'
    <2>1. <<c, w, d>> \in Strings'
      BY <1>8 DEF Strings
    <2>2. PICK f : f = b[4]
      OBVIOUS
    <2>3. Keys(b', c, w, d, f)
      BY <1>12, <2>2
    <2>4. /\ c \in DOMAIN conns' /\ c # 0 /\ w # 0 /\ d # 0
          /\ <<c, w>> \in DOMAIN wgs' /\ <<c, w, d>> \in DOMAIN dts'
      BY <1>4, <1>5, <1>8
    <2> QED
      BY <2>1, <2>3, <2>4, SelectsKeys DEF Selected
  <1>14. NodesSelected
    <2>1. SubSeq(b', 1, 3) = p
      BY <1>10, <1>12, Beginnings DEF Keys
    <2> QED
      BY <1>8, <1>10, <2>1 DEF NodesSelected
  <1>15. PICK i : i = job'
    OBVIOUS
  <1>16. i \in Job /\ i # NoJob /\ i.op = "text" /\ i.path = p /\ i.count = 1
    <2>1. 1 \in Nat /\ 1 < Half /\ 1 > 0
      BY SMT DEF Half, UInt16
    <2>2. p \in Seq(Key)
      BY <1>4, <1>5, <1>10
    <2> QED
      BY <1>11, <1>15, <2>1, <2>2, JobType
  <1>17. Under(i)'
    BY <1>8, <1>10, <1>16 DEF Under
  <1>18. Waiting'
    BY <1>2, <1>6, <1>15, <1>16, <1>17 DEF Waiting
  <1>19. Argument'
    BY <1>1, <1>2, <1>6 DEF CInv, Argument
  <1>20. Decoding'
    BY <1>6, <1>12 DEF CInv, Decoding
  <1> QED
    BY <1>7, <1>13, <1>14, <1>18, <1>19, <1>20 DEF Good

(* A string that is written leaves the nodes as they are, but for its own   *)
(* Fields.                                                                  *)
LEMMA StringWritten ==
  ASSUME CInv, InBounds, NEW p, NEW n \in 0 .. MaxString, WriteString(p, n), b' = b
  PROVE  TreeNext /\ Selected' /\ NodesSelected
  <1>1. p \in DOMAIN dts /\ dts[p].isString /\ p = <<p[1], p[2], p[3]>>
    BY Ancestors DEF WriteString, CInv
  <1>2. TreeNext
    BY <1>1 DEF TreeNext, InBounds
  <1>3. UNCHANGED <<conns, wgs>> /\ DOMAIN dts' = DOMAIN dts /\ Strings' = Strings
    <2>1. PICK last : dts' = [dts EXCEPT ![p].varKeyInc = last]
      BY DEF WriteString
    <2>2. \A q \in DOMAIN dts : dts[q] \in [isString : BOOLEAN, varKeyInc : Key]
      BY DEF CInv, IInv, TreeTypeOK
    <2>3. \A q \in DOMAIN dts : dts'[q].isString = dts[q].isString
      BY <1>1, <2>1, <2>2
    <2> QED
      BY <2>1, <2>3 DEF WriteString, Strings
  <1>4. /\ \A q \in DOMAIN fields : q \in DOMAIN fields' \/ DataSetOf(q) = p
        /\ \A q \in DOMAIN fields' : q \in DOMAIN fields \/ DataSetOf(q) = p
    BY <1>1 DEF WriteString, DataSetOf
  <1>5. p \in Strings'
    BY <1>1, <1>3 DEF Strings
  <1>6. Selected'
    BY <1>3, <1>4, <1>5, StillSelects DEF CInv, Selected
  <1>7. NodesSelected
    BY <1>1, <1>3, <1>4 DEF NodesSelected
  <1> QED
    BY <1>2, <1>6, <1>7

LEMMA GoodWriteNewString ==
  ASSUME CInv, InBounds, WriteNewString
  PROVE  Good
  <1>1. /\ job.op = "text" /\ WriteString(job.path, arg.n) /\ job' = NoJob
        /\ UNCHANGED <<b, toks, loop, arg, said, typed>>
    BY DEF WriteNewString
  <1>2. arg.n \in 0 .. MaxString
    BY <1>1 DEF CInv, Argument
  <1>3. TreeNext /\ Selected' /\ NodesSelected
    BY <1>1, <1>2, StringWritten
  <1> QED
    BY <1>1, <1>3, Settled DEF CInv, Decoding

-----------------------------------------------------------------------------
(* on, off and intv.                                                        *)
LEMMA Applied ==
  ASSUME CInv, NEW a, NEW S \in GroupSelection \cup {{}}, Apply(a, S), b' = b,
         a.op = "intv" => a.n \in Interval
  PROVE  [TreeNext]_treeVars /\ Selected' /\ NodesSelected
  <1>1. PICK on : on = (a.op = "on")
    OBVIOUS
  <1>2. on \in BOOLEAN /\ (SetEnabled(S, on) \/ (a.n \in Interval /\ UpdateInterval(S, a.n)))
    BY <1>1 DEF Apply
  <1>3. UNCHANGED <<connKeyInc, conns, dts, fields>> /\ DOMAIN wgs' = DOMAIN wgs
    BY <1>2 DEF SetEnabled, UpdateInterval
  <1>4. [TreeNext]_treeVars
    <2>1. CASE S \in GroupSelection
      BY <1>2, <2>1 DEF TreeNext
    <2>2. CASE S = {}
      <3>1. wgs' = [g \in DOMAIN wgs |-> wgs[g]]
        BY <1>2, <2>2 DEF SetEnabled, UpdateInterval
      <3>2. wgs' = wgs
        BY <3>1 DEF CInv, IInv, TreeTypeOK
      <3> QED
        BY <1>3, <3>2 DEF treeVars
    <2> QED
      BY <2>1, <2>2
  <1>5. Strings' = Strings
    BY <1>3 DEF Strings
  <1> QED
    BY <1>3, <1>4, <1>5 DEF CInv, Selected, NodesSelected

LEMMA GoodConfigure ==
  ASSUME CInv, InBounds', NEW word \in {"on", "off", "intv"}, Configure(word)
  PROVE  Good
  <1> DEFINE all == Len(toks) > 1 /\ toks[2] = "all"
             at == IF word = "intv" /\ all THEN 3 ELSE 2
             ts == From(toks, IF word = "intv" THEN 3 ELSE 2)
             target == IF ts = <<>> THEN "" ELSE Head(ts)
             n == IF Len(toks) < at THEN 0 ELSE KeyOf(toks[at])
             a == [NoArg EXCEPT !.op = word, !.n = n]
  <1>1. /\ UNCHANGED <<b, job, said, typed>> /\ job = NoJob /\ b \in [1 .. 4 -> Key]
        /\ toks \in Seq(Token) /\ Len(toks) \in Nat
        /\ said' \in {"nothing", "invalid"} /\ typed' \in 0 .. MaxLines
    BY LenProperties DEF Configure, Command, At, CInv, Decoding
  <1>2. \/ UNCHANGED treeVars /\ arg' = NoArg /\ Continue("decode", <<>>)
        \/ /\ arg' = a
           /\ \/ Apply(a, DOMAIN wgs) /\ Continue("decode", From(toks, at + 1))
              \/ /\ UNCHANGED treeVars
                 /\ \/ target = "ch" /\ Continue("confCh", Tail(ts))
                    \/ target = "port" /\ Continue("confPort", Tail(ts))
                    \/ Continue("confWg", ts)
    BY DEF Configure
  <1>3. at \in {2, 3} /\ at \in Nat /\ at >= 1 /\ at + 1 \in Nat /\ at + 1 >= 1
    OBVIOUS
  <1>4. n \in -(UInt16 \div 2) .. UInt16 - 1
    <2>1. n \in Key
      <3>1. CASE Len(toks) < at
        BY <3>1, Width DEF Key
      <3>2. CASE ~ (Len(toks) < at)
        <4>1. at \in 1 .. Len(toks)
          BY <1>1, <1>3, <3>2
        <4>2. toks[at] \in Token
          BY <1>1, <4>1, ElementOfSeq
        <4> QED
          BY <3>2, <4>2, KeyOfType
      <3> QED
        BY <3>1, <3>2
    <2>2. Key \subseteq -(UInt16 \div 2) .. UInt16 - 1
      BY HalfWidth DEF Half, Key
    <2> QED
      BY <2>1, <2>2
  <1>5. ts \in Seq(Token) /\ From(toks, at + 1) \in Seq(Token)
    <2>1. ASSUME NEW m \in Nat, m >= 1
          PROVE  From(toks, m) \in Seq(Token)
      BY <1>1, <2>1, FromType
    <2>2. From(toks, at + 1) \in Seq(Token)
      <3> HIDE DEF at
      <3> QED
        BY <1>3, <2>1
    <2>3. From(toks, 2) \in Seq(Token) /\ From(toks, 3) \in Seq(Token)
      BY <2>1
    <2> QED
      BY <2>2, <2>3
  <1> HIDE DEF n, at, ts
  <1>6. a \in Arg /\ a.op = word
    BY <1>4, ConstantsOK DEF NoArg, Arg, ConstantsOK
  <1> HIDE DEF a
  <1>7. arg' \in Arg
    BY <1>2, <1>6, Defaults
  <1>8. loop' \in {"decode", "confCh", "confPort", "confWg"} /\ toks' \in Seq(Token)
    <2>1. <<>> \in Seq(Token)
      BY EmptySeq
    <2>2. target \in {"ch", "port"} => Tail(ts) \in Seq(Token)
      BY <1>5, TailType
    <2> HIDE DEF target
    <2> QED
      BY <1>2, <1>5, <2>1, <2>2 DEF Continue
  <1>9. CASE UNCHANGED treeVars
    BY <1>1, <1>7, <1>8, <1>9, ReadsArgument DEF Loops
  <1>10. CASE arg' = a /\ Apply(a, DOMAIN wgs)
    <2>1. a.op = "intv" => a.n \in Interval
      BY <1>10 DEF InBounds
    <2>2. [TreeNext]_treeVars /\ Selected' /\ NodesSelected
      BY <1>1, <1>10, <2>1, Applied DEF GroupSelection
    <2>3. Waiting' /\ job' = NoJob
      BY <1>1, NothingWaits
    <2>4. Decoding'
      BY <1>1, <1>8 DEF Decoding, Loops
    <2>5. Argument'
      BY <1>7, <1>8, <2>3, Defaults DEF Argument
    <2> QED
      BY <2>2, <2>3, <2>4, <2>5 DEF Good
  <1> QED
    BY <1>2, <1>9, <1>10

LEMMA GoodConfigureGroup ==
  ASSUME CInv, InBounds, ConfigureGroup
  PROVE  Good
  <1>1. PICK r : r = Resolve(toks, 2)
    OBVIOUS
  <1>2. PICK found : found = (~ r.missing /\ NodeExists(r.path))
    OBVIOUS
  <1>3. /\ UNCHANGED <<b, arg, job, said, typed>> /\ loop = "confWg" /\ job = NoJob
        /\ ActOnce("confWg", r, found)
        /\ UNCHANGED treeVars \/ (found /\ Apply(arg, {r.path}))
    BY <1>1, <1>2 DEF ConfigureGroup, At
  <1>4. toks \in Seq(Token) /\ 2 \in 1 .. 4
    BY DEF CInv, Decoding
  <1>5. r.path \in [1 .. 2 -> Key] /\ r.rest \in Seq(Token) /\ r.after \in Seq(Token)
    BY <1>1, <1>4, ResolvedIs
  <1>6. loop' \in {"confWg", "decode"} /\ toks' \in Seq(Token)
    BY <1>3, <1>5, ActOnceType
  <1>7. said' \in {"nothing", "invalid"} /\ typed' \in 0 .. MaxLines /\ b' \in [1 .. 4 -> Key]
    BY <1>3 DEF CInv, Decoding
  <1>8. [TreeNext]_treeVars /\ Selected' /\ NodesSelected
    <2>1. CASE UNCHANGED treeVars
      BY <1>3, <2>1, TreeStays
    <2>2. CASE found /\ Apply(arg, {r.path})
      <3>1. {r.path} \in GroupSelection
        BY <1>2, <1>5, <2>2, NodeExistsAt DEF GroupSelection
      <3>2. PICK a, S : a = arg /\ S = {r.path}
        OBVIOUS
      <3>3. a.op = "intv" => a.n \in Interval
        BY <3>2 DEF InBounds
      <3> QED
        BY <1>3, <2>2, <3>1, <3>2, <3>3, Applied
    <2> QED
      BY <1>3, <2>1, <2>2
  <1> QED
    BY <1>3, <1>6, <1>7, <1>8, Settled DEF Loops

(* One number of "on ch ..." or "on port ...": nothing, or the WriterGroups *)
(* S.                                                                       *)
LEMMA GoodConfigureNumber ==
  ASSUME CInv, InBounds, NEW l \in {"confCh", "confPort"}, loop = l, job = NoJob,
         UNCHANGED <<b, arg, job, said, typed>>,
         NEW S \in GroupSelection \cup {{}},
         \/ UNCHANGED treeVars /\ Continue("decode", toks)
         \/ toks # <<>> /\ Apply(arg, S) /\ Continue(l, Tail(toks))
  PROVE  Good
  <1>1. loop' \in {l, "decode"} /\ toks' \in Seq(Token)
    BY TailType DEF CInv, Decoding, Continue
  <1>2. said' \in {"nothing", "invalid"} /\ typed' \in 0 .. MaxLines /\ b' \in [1 .. 4 -> Key]
    BY DEF CInv, Decoding
  <1>3. [TreeNext]_treeVars /\ Selected' /\ NodesSelected
    <2>1. CASE UNCHANGED treeVars
      BY <2>1, TreeStays
    <2>2. CASE Apply(arg, S)
      <3>1. PICK a : a = arg
        OBVIOUS
      <3>2. a.op = "intv" => a.n \in Interval
        BY <3>1 DEF InBounds
      <3> QED
        BY <2>2, <3>1, <3>2, Applied
    <2> QED
      BY <2>1, <2>2
  <1> QED
    BY <1>1, <1>2, <1>3, Settled DEF Loops

LEMMA GoodConfigureChannel ==
  ASSUME CInv, InBounds, ConfigureChannel
  PROVE  Good
  <1>1. PICK S : S = GroupsOfChannel(KeyOf(Head(toks)))
    OBVIOUS
  <1>2. S \in GroupSelection \cup {{}}
    <2>1. PICK c : c = KeyOf(Head(toks))
      OBVIOUS
    <2>2. CASE c \in DOMAIN conns
      BY <1>1, <2>1, <2>2 DEF GroupSelection
    <2>3. CASE c \notin DOMAIN conns
      BY <1>1, <2>1, <2>3 DEF GroupsOfChannel, CInv, IInv, ParentsExist
    <2> QED
      BY <2>2, <2>3
  <1>3. /\ loop = "confCh" /\ job = NoJob /\ UNCHANGED <<b, arg, job, said, typed>>
        /\ \/ UNCHANGED treeVars /\ Continue("decode", toks)
           \/ toks # <<>> /\ Apply(arg, S) /\ Continue("confCh", Tail(toks))
    BY <1>1 DEF ConfigureChannel, ConfigureMany, At
  <1> QED
    BY <1>2, <1>3, GoodConfigureNumber

LEMMA GoodConfigurePort ==
  ASSUME CInv, InBounds, ConfigurePort
  PROVE  Good
  <1>1. PICK S, t : t = Head(toks) /\ S = GroupsOfPort(KeyOf(t))
    OBVIOUS
  <1>2. /\ loop = "confPort" /\ job = NoJob /\ UNCHANGED <<b, arg, job, said, typed>>
        /\ \/ UNCHANGED treeVars /\ Continue("decode", toks)
           \/ toks # <<>> /\ ValidPort(t) /\ Apply(arg, S) /\ Continue("confPort", Tail(toks))
    BY <1>1 DEF ConfigurePort, ConfigureMany, At
  <1>3. CASE toks # <<>> /\ ValidPort(t)
    <2>1. t \in Token
      BY <1>1, <1>3, TailType DEF CInv, Decoding
    <2>2. KeyOf(t) \in Port
      BY <1>3, <2>1 DEF ValidPort, InBounds
    <2>3. S \in GroupSelection
      BY <1>1, <2>2 DEF GroupSelection
    <2> QED
      BY <1>2, <1>3, <2>3, GoodConfigureNumber
  <1>4. CASE ~ (toks # <<>> /\ ValidPort(t))
    BY <1>2, <1>4, GoodConfigureNumber
  <1> QED
    BY <1>3, <1>4

LEMMA GoodWriteStrings ==
  ASSUME CInv, InBounds, WriteStrings
  PROVE  Good
  <1>1. PICK r : r = Resolve(toks, 3)
    OBVIOUS
  <1>2. PICK left : left = IF r.full THEN r.after ELSE IF r.missing THEN Next1(r.rest) ELSE r.rest
    OBVIOUS
  <1>3. /\ UNCHANGED <<b, arg, job, said, typed>> /\ loop = "str" /\ job = NoJob
        /\ Continue("str", left) \/ Continue("decode", left)
        /\ UNCHANGED treeVars \/ WriteString(r.path, arg.n)
    BY <1>1, <1>2 DEF WriteStrings, At
  <1>4. toks \in Seq(Token) /\ 3 \in 1 .. 4
    BY DEF CInv, Decoding
  <1>5. r.rest \in Seq(Token) /\ r.after \in Seq(Token)
    BY <1>1, <1>4, ResolvedIs
  <1>6. left \in Seq(Token)
    BY <1>2, <1>5, TailType
  <1>7. loop' \in {"str", "decode"} /\ toks' \in Seq(Token)
    BY <1>3, <1>6 DEF Continue
  <1>8. said' \in {"nothing", "invalid"} /\ typed' \in 0 .. MaxLines /\ b' \in [1 .. 4 -> Key]
    BY <1>3 DEF CInv, Decoding
  <1>9. [TreeNext]_treeVars /\ Selected' /\ NodesSelected
    <2>1. CASE UNCHANGED treeVars
      BY <1>3, <2>1, TreeStays
    <2>2. CASE WriteString(r.path, arg.n)
      <3>1. PICK p, n : p = r.path /\ n = arg.n
        OBVIOUS
      <3>2. n \in 0 .. MaxString
        BY <1>3, <3>1 DEF CInv, Argument
      <3> QED
        BY <1>3, <2>2, <3>1, <3>2, StringWritten
    <2> QED
      BY <1>3, <2>1, <2>2
  <1> QED
    BY <1>3, <1>7, <1>8, <1>9, Settled DEF Loops

-----------------------------------------------------------------------------
(* The invariant.                                                           *)
LEMMA GoodNext == CInv /\ InBounds /\ InBounds' /\ [Next]_vars => Good
  <1> SUFFICES ASSUME CInv, InBounds, InBounds', [Next]_vars
               PROVE  Good
    OBVIOUS
  <1>1. CASE UNCHANGED vars
    <2>1. UNCHANGED <<treeVars, b, toks, loop, arg, job, said, typed>>
      BY <1>1 DEF vars, consoleVars
    <2>2. [TreeNext]_treeVars /\ NodesSelected /\ Selected'
      BY <2>1, TreeStays
    <2>3. Decoding' /\ Argument'
      BY <2>1 DEF CInv, Decoding, Argument
    <2>4. Waiting'
      BY <2>1 DEF CInv, Waiting, Under, treeVars
    <2> QED
      BY <2>2, <2>3, <2>4 DEF Good
  <1>2. CASE Step
    <2>1. ASSUME NEW word \in DOMAIN LevelOf, SelectNode(word)
          PROVE  Good
      BY <2>1, GoodSelectNode
    <2>2. CASE LineDone \/ Show \/ Invalid \/ (\E word \in {"add", "rm", "wrt"} : Subjects(word))
      BY <2>2, GoodReading
    <2>3. CASE AddSubject
      BY <2>3, GoodAddSubject
    <2>4. CASE AddChannel \/ AddGroups \/ AddDataSets \/ AddFields \/ AddString
      BY <2>4, GoodAddChannel, GoodAddGroups, GoodAddDataSets, GoodAddFields, GoodAddString
    <2>5. CASE AddGroup \/ AddDataSet \/ AddOneField \/ AddStringDataSet \/ WriteNewString
      BY <2>5, GoodAddGroup, GoodAddDataSet, GoodAddOneField, GoodAddStringDataSet, GoodWriteNewString
    <2>6. ASSUME NEW y \in BOOLEAN,
                 RemoveSubject(y) \/ RemoveChannels(y) \/ RemoveGroups(y) \/ RemoveDataSets(y) \/ RemoveFields(y)
          PROVE  Good
      BY <2>6, GoodRemoveSubject, GoodRemoveChannels, GoodRemoveGroups, GoodRemoveDataSets, GoodRemoveFields
    <2>7. CASE WriteVariable
      BY <2>7, GoodWriteVariable
    <2>8. ASSUME NEW word \in {"on", "off", "intv"}, Configure(word)
          PROVE  Good
      BY <2>8, GoodConfigure
    <2>9. CASE ConfigureGroup \/ ConfigureChannel \/ ConfigurePort
      BY <2>9, GoodConfigureGroup, GoodConfigureChannel, GoodConfigurePort
    <2>10. CASE WriteCommand \/ WriteStrings
      BY <2>10, GoodWriteCommand, GoodWriteStrings
    <2> QED
      BY <1>2, <2>1, <2>2, <2>3, <2>4, <2>5, <2>6, <2>7, <2>8, <2>9, <2>10 DEF Step
  <1>3. ASSUME NEW line \in Lines, EnterLine(line) \/ EndThread(line)
        PROVE  Good
    BY <1>3, GoodEnterLine, GoodEndThread
  <1> QED
    BY <1>1, <1>2, <1>3 DEF Next

LEMMA CInvInit == Init => CInv
  <1> SUFFICES ASSUME Init
               PROVE  CInv
    OBVIOUS
  <1>1. IInv /\ KeysFromOne
    BY InvInit DEF Init, TreeInit, KeysFromOne
  <1>2. Decoding
    <2>1. 0 \in Key /\ <<>> \in Seq(Token) /\ 0 \in 0 .. MaxLines
      BY Width, EmptySeq, TokensOK DEF Key, TokensOK
    <2> QED
      BY <2>1 DEF Init, NoSelection, Decoding, Loops
  <1>3. Argument /\ Waiting
    BY Defaults DEF Init, Argument, Waiting
  <1>4. Selected
    <2>1. Keys(b, 0, 0, 0, 0)
      BY DEF Init, NoSelection, Keys
    <2> QED
      BY <2>1, SelectsKeys DEF Selected
  <1> QED
    BY <1>1, <1>2, <1>3, <1>4 DEF CInv

LEMMA CInvNext == CInv /\ InBounds /\ InBounds' /\ [Next]_vars => CInv'
  <1> SUFFICES ASSUME CInv, Good
               PROVE  CInv'
    BY GoodNext
  <1>1. IInv'
    BY InvNext DEF CInv, Good
  <1>2. KeysFromOne'
    BY <1>1, KeysStart DEF CInv, Good
  <1> QED
    BY <1>1, <1>2 DEF CInv, Good

LEMMA ConsoleInvariance == Spec /\ []InBounds => []CInv
  BY CInvInit, CInvNext, PTL DEF Spec

-----------------------------------------------------------------------------
(* The interpreter's state keeps its type: the loops around strtok are the  *)
(* ones of UserInput::decode and its handlers, the selection is four keys,  *)
(* and what a handler passes on to the tree has the type the tree takes.    *)
THEOREM ConsoleTypes == Spec /\ []InBounds => []ConsoleTypeOK
  <1>1. CInv => ConsoleTypeOK
    <2> SUFFICES ASSUME CInv
                 PROVE  ConsoleTypeOK
      OBVIOUS
    <2>1. /\ job.op \in {"none", "wg", "ds", "fd", "string", "text"}
          /\ job.path \in Seq(Key) /\ job.count \in 0 .. UInt16 \div 2 - 1
      BY DEF CInv, Waiting, Job, Half
    <2>2. arg \in [op : {"none", "on", "off", "intv"}, n : -(UInt16 \div 2) .. UInt16 - 1, type : DataType]
      BY DEF CInv, Argument, Arg
    <2> QED
      BY <2>1, <2>2 DEF CInv, Decoding, Token, ConsoleTypeOK
  <1> QED
    BY ConsoleInvariance, <1>1, PTL

(* What the prompt shows as selected exists: whatever decode adds, removes, *)
(* writes or selects, b never names a node that is gone, because every rm   *)
(* selects the parent of what it removed and every add what it added.       *)
THEOREM SelectionAlwaysExists == Spec /\ []InBounds => []SelectionExists
  <1>1. CInv => SelectionExists
    <2> SUFFICES ASSUME CInv
                 PROVE  SelectionExists
      OBVIOUS
    <2>1. /\ b[1] # 0 => b[1] \in DOMAIN conns
          /\ b[2] # 0 => b[1] # 0 /\ <<b[1], b[2]>> \in DOMAIN wgs
          /\ b[3] # 0 => b[2] # 0 /\ <<b[1], b[2], b[3]>> \in DOMAIN dts
          /\ b[4] # 0 => b[3] # 0 /\ (<<b[1], b[2], b[3]>> \in Strings \/ <<b[1], b[2], b[3], b[4]>> \in DOMAIN fields)
      BY DEF CInv, Selected, Selects
    <2>2. /\ b = <<b[1], b[2], b[3], b[4]>>
          /\ b[1] \in Key /\ b[2] \in Key /\ b[3] \in Key /\ b[4] \in Key /\ b \in [1 .. 4 -> Key]
      BY PathTuple DEF CInv, Decoding
    <2>3. PICK s : s = b
      OBVIOUS
    <2>4. /\ SubSeq(s, 1, 1) = <<s[1]>> /\ SubSeq(s, 1, 2) = <<s[1], s[2]>>
          /\ SubSeq(s, 1, 3) = <<s[1], s[2], s[3]>>
      BY <2>2, <2>3, Beginnings
    <2>5. /\ NodeExists(<<s[1]>>) <=> s[1] \in DOMAIN conns
          /\ NodeExists(<<s[1], s[2]>>) <=> <<s[1], s[2]>> \in DOMAIN wgs
          /\ NodeExists(<<s[1], s[2], s[3]>>) <=> <<s[1], s[2], s[3]>> \in DOMAIN dts
          /\ NodeExists(s) <=> s \in DOMAIN fields
      <3>1. /\ <<s[1]>> \in [1 .. 1 -> Key] /\ <<s[1], s[2]>> \in [1 .. 2 -> Key]
            /\ <<s[1], s[2], s[3]>> \in [1 .. 3 -> Key] /\ s \in [1 .. 4 -> Key]
            /\ <<s[1]>>[1] = s[1]
        BY <2>2, <2>3
      <3> QED
        BY <3>1, NodeExistsAt
    <2>6. \A l \in 2 .. 4 : b[l] # 0 => b[l - 1] # 0
      BY <2>1
    <2>7. \A l \in 1 .. 3 : b[l] # 0 => NodeExists(SubSeq(b, 1, l))
      <3>1. ASSUME NEW l \in 1 .. 3, s[l] # 0
            PROVE  NodeExists(SubSeq(s, 1, l))
        <4>1. CASE l = 1
          BY <2>1, <2>3, <2>4, <2>5, <3>1, <4>1
        <4>2. CASE l = 2
          BY <2>1, <2>3, <2>4, <2>5, <3>1, <4>2
        <4>3. CASE l = 3
          BY <2>1, <2>3, <2>4, <2>5, <3>1, <4>3
        <4> QED
          BY <4>1, <4>2, <4>3
      <3> QED
        BY <2>3, <3>1
    <2>8. b[4] # 0 => dts[SubSeq(b, 1, 3)].isString \/ NodeExists(b)
      BY <2>1, <2>2, <2>3, <2>4, <2>5 DEF Strings
    <2> QED
      BY <2>6, <2>7, <2>8 DEF SelectionExists
  <1> QED
    BY ConsoleInvariance, <1>1, PTL

(* Whatever is typed, the console only makes the calls of TreeNext: what    *)
(* NodeTree promises of the tree holds under the command interpreter.       *)
THEOREM ConsoleImplementsTree == Spec /\ []InBounds => TreeSpec
  <1>1. Init => TreeInit
    BY DEF Init
  <1>2. CInv /\ InBounds /\ InBounds' /\ [Next]_vars => [TreeNext]_treeVars
    BY GoodNext DEF Good
  <1> QED
    BY ConsoleInvariance, <1>1, <1>2, PTL DEF Spec, TreeSpec

(* The handlers of add leave what they added selected, which is what a line *)
(* as "add ch 4840 wg ds bool" relies on.                                   *)
THEOREM AddedSelected == Spec /\ []InBounds => AddedNodeSelected
  <1>1. CInv /\ InBounds /\ InBounds' /\ [Next]_vars => [NodesSelected]_vars
    BY GoodNext DEF Good
  <1> QED
    BY ConsoleInvariance, <1>1, PTL DEF Spec, AddedNodeSelected, NodesSelected

-----------------------------------------------------------------------------
(* Which steps lose nodes.                                                  *)
NothingLost ==
  /\ DOMAIN conns \subseteq DOMAIN conns'
  /\ DOMAIN wgs \subseteq DOMAIN wgs'
  /\ DOMAIN dts \subseteq DOMAIN dts'
  /\ \A q \in DOMAIN fields \ DOMAIN fields' : dts[DataSetOf(q)].isString

LEMMA KeepsNodes ==
  /\ UNCHANGED treeVars => NothingLost
  /\ \A port : CreateConnection(port) => NothingLost
  /\ \A c : AddWritergroup(c) => NothingLost
  /\ \A g, isString : AddDataset(g, isString) => NothingLost
  /\ \A p, type : AddData(p, type) => NothingLost
  /\ \A a, S : Apply(a, S) => NothingLost
  /\ \A p, n : WriteString(p, n) => NothingLost
  <1>1. UNCHANGED treeVars => NothingLost
    BY DEF treeVars, NothingLost
  <1>2. ASSUME NEW port, CreateConnection(port)
        PROVE  NothingLost
    BY <1>2 DEF CreateConnection, PutNew, Put, NothingLost
  <1>3. ASSUME NEW c, AddWritergroup(c)
        PROVE  NothingLost
    BY <1>3 DEF AddWritergroup, PutNew, Put, NothingLost
  <1>4. ASSUME NEW g, NEW isString, AddDataset(g, isString)
        PROVE  NothingLost
    BY <1>4 DEF AddDataset, PutNew, Put, NothingLost
  <1>5. ASSUME NEW p, NEW type, AddData(p, type)
        PROVE  NothingLost
    BY <1>5 DEF AddData, PutNew, Put, NothingLost
  <1>6. ASSUME NEW a, NEW S, Apply(a, S)
        PROVE  NothingLost
    BY <1>6 DEF Apply, SetEnabled, UpdateInterval, NothingLost
  <1>7. ASSUME NEW p, NEW n, WriteString(p, n)
        PROVE  NothingLost
    BY <1>7 DEF WriteString, NothingLost
  <1> QED
    BY <1>1, <1>2, <1>3, <1>4, <1>5, <1>6, <1>7

(* Only rm, a line that ends the thread and a shorter string remove nodes:  *)
(* no step of a handler of add, wrt, wrtstr, on, off or intv does.          *)
THEOREM OnlyRemovals == Spec => OnlyRemoveRemoves
  <1> DEFINE Removing == {"idle", "rm", "rmCh", "rmWg", "rmDs", "rmFd"}
  <1>1. [Next]_vars => [loop \notin Removing => NothingLost]_vars
    <2> SUFFICES ASSUME Next, loop \notin Removing
                 PROVE  NothingLost
      OBVIOUS
    <2>1. ASSUME NEW line, EnterLine(line) \/ EndThread(line)
          PROVE  FALSE
      BY <2>1 DEF EnterLine, EndThread
    <2>2. CASE LineDone \/ Show \/ Invalid \/ AddSubject \/ WriteVariable \/ WriteCommand
      BY <2>2, KeepsNodes DEF LineDone, Show, Invalid, AddSubject, WriteVariable, WriteCommand
    <2>3. ASSUME NEW word, SelectNode(word) \/ Subjects(word)
          PROVE  NothingLost
      BY <2>3, KeepsNodes DEF SelectNode, Subjects
    <2>4. CASE AddChannel \/ AddGroups \/ AddDataSets \/ AddFields \/ AddString
      BY <2>4, KeepsNodes DEF AddChannel, AddGroups, AddDataSets, AddFields, AddTurn, AddString
    <2>5. CASE AddGroup \/ AddDataSet \/ AddOneField \/ AddStringDataSet \/ WriteNewString
      BY <2>5, KeepsNodes DEF AddGroup, AddDataSet, AddOneField, AddStringDataSet, WriteNewString
    <2>6. ASSUME NEW y,
                 RemoveSubject(y) \/ RemoveChannels(y) \/ RemoveGroups(y) \/ RemoveDataSets(y) \/ RemoveFields(y)
          PROVE  FALSE
      BY <2>6 DEF RemoveSubject, RemoveChannels, RemoveGroups, RemoveDataSets, RemoveFields, RemoveTurn, At
    <2>7. ASSUME NEW word, Configure(word)
          PROVE  NothingLost
      BY <2>7, KeepsNodes DEF Configure
    <2>8. CASE ConfigureGroup \/ ConfigureChannel \/ ConfigurePort
      BY <2>8, KeepsNodes DEF ConfigureGroup, ConfigureChannel, ConfigurePort, ConfigureMany
    <2>9. CASE WriteStrings
      BY <2>9, KeepsNodes DEF WriteStrings
    <2> QED
      BY <2>1, <2>2, <2>3, <2>4, <2>5, <2>6, <2>7, <2>8, <2>9 DEF Next, Step
  <1> QED
    BY <1>1, PTL DEF Spec, OnlyRemoveRemoves, NothingLost

-----------------------------------------------------------------------------
(* The values of the Fields.                                                *)
InType(t, v) == v \in IF t \in IntType THEN Value(t) ELSE IF t = "date" THEN {0} ELSE {0, 1}

LEMMA Halves ==
  ASSUME NEW m \in Nat, m > 0, m % 2 = 0
  PROVE  m \div 2 \in Nat /\ m \div 2 >= 1 /\ m = 2 * (m \div 2)
  OBVIOUS

LEMMA ModulusIs ==
  ASSUME NEW t \in IntType \cup {"int", "long"}
  PROVE  /\ Modulus[t] \in Nat /\ Modulus[t] \div 2 \in Nat
         /\ Modulus[t] \div 2 >= 1 /\ Modulus[t] = 2 * (Modulus[t] \div 2)
  BY WidthsOK, Halves DEF WidthsOK

LEMMA SignedIn ==
  ASSUME NEW t \in IntType \cup {"int", "long"}, NEW n \in Int
  PROVE  ToSigned(n, Modulus[t]) \in SignedRange(Modulus[t]) /\ ToSigned(n, Modulus[t]) \in Int
  <1>1. PICK m, h : m = Modulus[t] /\ h = m \div 2
    OBVIOUS
  <1>2. m \in Nat /\ h \in Nat /\ h >= 1 /\ m = 2 * h
    BY <1>1, ModulusIs
  <1>3. (n + h) % m \in 0 .. m - 1
    BY <1>2, Remainder
  <1>4. ((n + h) % m) - h \in -h .. h - 1
    BY <1>2, <1>3
  <1> QED
    BY <1>1, <1>2, <1>4 DEF ToSigned, SignedRange

LEMMA ConvertedIn ==
  ASSUME NEW t \in IntType, NEW n \in Int
  PROVE  Converted(t, n) \in Value(t)
  <1>1. CASE t \in SignedType
    BY <1>1, SignedIn DEF Converted, Value
  <1>2. CASE t \notin SignedType
    <2>1. n % Modulus[t] \in 0 .. Modulus[t] - 1
      BY ModulusIs, Remainder
    <2> QED
      BY <1>2, <2>1 DEF Converted, Value, ToUnsigned, UnsignedRange
  <1> QED
    BY <1>1, <1>2

LEMMA WrittenIn ==
  ASSUME NEW t \in IntType, NEW n \in Int
  PROVE  Written(t, n) \in Value(t)
  <1>1. Atol(n) \in Int
    BY ModulusIs DEF Atol
  <1>2. Atoi(n) \in Int
    BY <1>1, SignedIn DEF Atoi
  <1> QED
    BY <1>1, <1>2, ConvertedIn DEF Written

\* A variable starts with 0.
LEMMA ZeroIn ==
  ASSUME NEW t \in DataType
  PROVE  InType(t, 0)
  <1>1. CASE t \in IntType
    <2>1. 0 \in SignedRange(Modulus[t]) /\ 0 \in UnsignedRange(Modulus[t])
      BY <1>1, ModulusIs DEF SignedRange, UnsignedRange
    <2> QED
      BY <1>1, <2>1 DEF InType, Value
  <1> QED
    BY <1>1 DEF InType

\* wrt is decoded by WriteVariable alone, which leaves the tree as it is.
LEMMA WrtLeavesTree == ASSUME Step, At("wrt") PROVE UNCHANGED treeVars
  <1>1. loop = "wrt" /\ job.op = "none"
    BY DEF At, NoJob
  <1>2. CASE AddGroup \/ AddDataSet \/ AddOneField \/ AddStringDataSet \/ WriteNewString
    BY <1>1, <1>2 DEF AddGroup, AddDataSet, AddOneField, AddStringDataSet, WriteNewString
  <1>3. CASE WriteVariable
    BY <1>3 DEF WriteVariable
  <1>4. CASE LineDone \/ Show \/ Invalid \/ AddSubject \/ AddChannel \/ AddGroups \/ AddDataSets \/ AddFields \/ AddString
    BY <1>1, <1>4 DEF LineDone, Show, Invalid, AddSubject, AddChannel, AddGroups, AddDataSets, AddFields, AddTurn, AddString, At
  <1>5. ASSUME NEW word, SelectNode(word) \/ Subjects(word) \/ Configure(word)
        PROVE  UNCHANGED treeVars
    BY <1>1, <1>5 DEF SelectNode, Subjects, Configure, Command, At
  <1>6. ASSUME NEW y, RemoveSubject(y) \/ RemoveChannels(y) \/ RemoveGroups(y) \/ RemoveDataSets(y) \/ RemoveFields(y)
        PROVE  UNCHANGED treeVars
    BY <1>1, <1>6 DEF RemoveSubject, RemoveChannels, RemoveGroups, RemoveDataSets, RemoveFields, RemoveTurn, At
  <1>7. CASE ConfigureGroup \/ ConfigureChannel \/ ConfigurePort \/ WriteCommand \/ WriteStrings
    BY <1>1, <1>7 DEF ConfigureGroup, ConfigureChannel, ConfigurePort, ConfigureMany, WriteCommand, WriteStrings, At
  <1> QED
    BY <1>2, <1>3, <1>4, <1>5, <1>6, <1>7 DEF Step

LEMMA TypedValue ==
  ASSUME CInv, lastBool \in {0, 1}, NEW q \in DOMAIN fields, NEW t \in Token
  PROVE  InType(fields[q], WriteValue(q, t)) /\ BoolOf(t) \in {0, 1}
  <1>1. BoolOf(t) \in {0, 1}
    BY DEF BoolOf
  <1>2. fields[q] \in DataType
    BY DEF CInv, IInv, TreeTypeOK
  <1>3. Number[t] \in Int
    BY TokensOK DEF TokensOK, Token
  <1>4. CASE fields[q] \in {"bool", "date"}
    BY <1>1, <1>4, FilesOK DEF FilesOK, WriteValue, InType
  <1>5. CASE fields[q] \notin {"bool", "date"}
    <2>1. fields[q] \in IntType
      BY <1>2, <1>5, FilesOK DEF FilesOK
    <2>2. WriteValue(q, t) = Written(fields[q], Number[t])
      BY <1>5 DEF WriteValue
    <2> QED
      BY <1>1, <1>3, <2>1, <2>2, WrittenIn DEF InType
  <1> QED
    BY <1>1, <1>4, <1>5

LEMMA ValuesTyped ==
  ASSUME CInv, CInv', ExportTypeOK, [TreeNext]_treeVars, Values, Target # {} => UNCHANGED treeVars
  PROVE  ExportTypeOK'
  <1>1. /\ DOMAIN val = DOMAIN fields /\ lastBool \in {0, 1} /\ \A q \in DOMAIN val : InType(fields[q], val[q])
        /\ byHand \subseteq DOMAIN fields
    BY DEF ExportTypeOK, InType
  <1>2. SUFFICES /\ DOMAIN val' = DOMAIN fields' /\ lastBool' \in {0, 1} /\ byHand' \subseteq DOMAIN fields'
                 /\ \A q \in DOMAIN fields' : InType(fields'[q], val'[q])
    BY DEF ExportTypeOK, InType
  <1>3. CASE Target = {}
    <2>1. /\ val' = [q \in DOMAIN fields' |-> IF q \in DOMAIN val THEN val[q] ELSE 0] /\ lastBool' = lastBool
          /\ byHand' \subseteq DOMAIN fields'
      BY <1>3 DEF Values
    <2>2. \A q \in DOMAIN fields' : fields'[q] \in DataType
      BY DEF CInv, IInv, TreeTypeOK
    <2>3. TypesStay
      BY TypesKept
    <2>4. ASSUME NEW q \in DOMAIN fields'
          PROVE  InType(fields'[q], val'[q])
      <3>1. CASE q \in DOMAIN val
        BY <1>1, <2>1, <2>3, <3>1 DEF TypesStay
      <3>2. CASE q \notin DOMAIN val
        <4>1. val'[q] = 0
          BY <2>1, <3>2
        <4> QED
          BY <2>2, <4>1, ZeroIn
      <3> QED
        BY <3>1, <3>2
    <2> QED
      BY <1>1, <2>1, <2>4
  <1>4. CASE Target # {}
    <2>1. PICK q \in Target : /\ val' = [val EXCEPT ![q] = WriteValue(q, Head(toks))]
                              /\ lastBool' = IF fields[q] = "bool" THEN BoolOf(Head(toks)) ELSE lastBool
                              /\ byHand' \subseteq byHand \cup {q}
      BY <1>4 DEF Values
    <2>2. fields' = fields
      BY <1>4 DEF treeVars
    <2>3. PICK r : r = Resolve(Tail(toks), 4)
      OBVIOUS
    <2>4. toks # <<>> /\ q = r.path /\ NodeExists(r.path)
      BY <2>1, <2>3, Zenon DEF Target
    <2>5. toks \in Seq(Token)
      BY DEF CInv, Decoding
    <2>6. Head(toks) \in Token /\ Tail(toks) \in Seq(Token)
      BY <2>4, <2>5, TailType
    <2>7. r.path \in [1 .. 4 -> Key]
      <3>1. 4 \in 1 .. 4
        OBVIOUS
      <3> QED
        BY <2>3, <2>6, <3>1, ResolvedIs
    <2>8. q \in DOMAIN fields
      BY <2>4, <2>7, NodeExistsAt
    <2>9. InType(fields[q], WriteValue(q, Head(toks))) /\ BoolOf(Head(toks)) \in {0, 1}
      BY <1>1, <2>6, <2>8, TypedValue
    <2>10. PICK v : v = WriteValue(q, Head(toks))
      OBVIOUS
    <2>11. val' = [val EXCEPT ![q] = v] /\ InType(fields[q], v)
      BY <2>1, <2>9, <2>10
    <2>12. DOMAIN val' = DOMAIN fields /\ \A x \in DOMAIN fields : val'[x] = IF x = q THEN v ELSE val[x]
      BY <1>1, <2>8, <2>11
    <2>13. \A x \in DOMAIN fields : InType(fields[x], val'[x])
      BY <1>1, <2>11, <2>12
    <2>14. lastBool' \in {0, 1}
      BY <1>1, <2>1, <2>9
    <2>15. byHand' \subseteq DOMAIN fields
      BY <1>1, <2>1, <2>8
    <2> QED
      BY <2>2, <2>12, <2>13, <2>14, <2>15
  <1> QED
    BY <1>3, <1>4

-----------------------------------------------------------------------------
(* The nodes of a level in the order of their keys.                         *)
Nth(K, k) == CHOOSE x \in K : Rank(x, K) = k
Ordered(K, node) == [k \in 1 .. Cardinality(K) |-> node[Nth(K, k)]]

\* The rank of a key is the number of keys up to it, and grows with the key.
LEMMA RankGrows ==
  ASSUME NEW K \in SUBSET Key, NEW x \in K
  PROVE  /\ Rank(x, K) \in 1 .. Cardinality(K)
         /\ \A y \in K : x < y => Rank(x, K) < Rank(y, K)
  <1> DEFINE UpTo(z) == {y \in K : y <= z}
  <1>1. ASSUME NEW z
        PROVE  /\ IsFiniteSet(UpTo(z)) /\ Cardinality(UpTo(z)) \in Nat
               /\ Cardinality(UpTo(z)) <= Cardinality(K)
    BY FiniteKeys, FS_Subset, FS_CardinalityType
  <1>2. Rank(x, K) = Cardinality(UpTo(x)) /\ \A y \in K : Rank(y, K) = Cardinality(UpTo(y))
    BY DEF Rank
  <1>3. x \in UpTo(x)
    BY DEF Key
  <1>4. Cardinality(UpTo(x)) # 0
    BY <1>1, <1>3, FS_EmptySet
  <1>5. ASSUME NEW y \in K, x < y
        PROVE  Cardinality(UpTo(x)) < Cardinality(UpTo(y))
    <2>1. UpTo(x) \in SUBSET UpTo(y) /\ y \in UpTo(y) /\ y \notin UpTo(x)
      <3>1. \A z \in K : z \in Int
        BY DEF Key
      <3>2. x \in Int /\ y \in Int /\ y <= y /\ ~ (y <= x) /\ \A z \in K : z <= x => z <= y
        BY <1>5, <3>1
      <3> QED
        BY <3>2
    <2>2. UpTo(x) # UpTo(y)
      BY <2>1
    <2> HIDE DEF UpTo
    <2>3. Cardinality(UpTo(x)) <= Cardinality(UpTo(y)) /\ Cardinality(UpTo(x)) # Cardinality(UpTo(y))
      BY <1>1, <2>1, <2>2, FS_Subset
    <2> QED
      BY <1>1, <2>3
  <1> HIDE DEF UpTo
  <1>6. Cardinality(K) \in Nat
    BY FiniteKeys
  <1> QED
    BY <1>1, <1>2, <1>4, <1>5, <1>6

LEMMA NthIs ==
  ASSUME NEW K \in SUBSET Key, NEW k \in 1 .. Cardinality(K)
  PROVE  Nth(K, k) \in K /\ Rank(Nth(K, k), K) = k
  <1> DEFINE n == Cardinality(K)
             f == [x \in K |-> Rank(x, K)]
  <1>1. n \in Nat /\ IsFiniteSet(1 .. n) /\ Cardinality(1 .. n) = n
    <2>1. n \in Nat
      BY FiniteKeys
    <2> QED
      BY <2>1, FS_Interval
  <1>2. f \in [K -> 1 .. n]
    BY RankGrows
  <1>3. \A x, y \in K : f[x] = f[y] => x = y
    <2>1. ASSUME NEW x \in K, NEW y \in K, f[x] = f[y]
          PROVE  x = y
      <3>1. Rank(x, K) = Rank(y, K) /\ Rank(x, K) \in 1 .. n
        BY <2>1, RankGrows
      <3>2. ~ (x < y) /\ ~ (y < x)
        BY <1>1, <3>1, RankGrows
      <3>3. x \in Int /\ y \in Int
        BY Width DEF Key
      <3> QED
        BY <3>2, <3>3
    <2> QED
      BY <2>1
  <1>4. f \in Injection(K, 1 .. n)
    BY <1>2, <1>3 DEF Injection, IsInjective
  <1>5. f \in Surjection(K, 1 .. n)
    BY <1>1, <1>4, FS_Injection
  <1>6. \E x \in K : f[x] = k
    BY <1>5 DEF Surjection
  <1>7. \E x \in K : Rank(x, K) = k
    BY <1>6
  <1> QED
    BY <1>7 DEF Nth

LEMMA OrderedTyped ==
  ASSUME NEW K \in SUBSET Key, NEW S, NEW node, \A x \in K : node[x] \in S
  PROVE  Ordered(K, node) \in Seq(S)
  <1>1. Cardinality(K) \in Nat
    BY FiniteKeys
  <1>2. \A k \in 1 .. Cardinality(K) : node[Nth(K, k)] \in S
    BY NthIs
  <1>3. Ordered(K, node) \in [1 .. Cardinality(K) -> S]
    BY <1>2 DEF Ordered
  <1> QED
    BY <1>1, <1>3, SeqDef

-----------------------------------------------------------------------------
(* Sequences of sequences, as the lines below the nodes of a level.         *)
LEMMA FlattenIs ==
  ASSUME NEW ss, Len(ss) \in Nat, Len(ss) > 0
  PROVE  \E g : Joins(g, ss, Len(ss)) /\ FlattenSeq(ss) = g[Len(ss)]
  <1> DEFINE n == Len(ss)
  <1>1. \E g : g = [i \in 1 .. n |-> IF i = 1 THEN ss[i] ELSE g[i - 1] \o ss[i]]
    BY JoinExists
  <1> DEFINE G == CHOOSE g : g = [i \in 1 .. n |-> IF i = 1 THEN ss[i] ELSE g[i - 1] \o ss[i]]
  <1>2. FlattenSeq(ss) = G[n]
    BY DEF FlattenSeq
  <1>3. G = [i \in 1 .. n |-> IF i = 1 THEN ss[i] ELSE G[i - 1] \o ss[i]]
    BY <1>1
  <1> HIDE DEF G
  <1>4. Joins(G, ss, n)
    BY <1>3 DEF Joins
  <1> QED
    BY <1>2, <1>4

LEMMA FlattenTyped ==
  ASSUME NEW S, NEW ss \in Seq(Seq(S))
  PROVE  FlattenSeq(ss) \in Seq(S)
  <1>1. Len(ss) \in Nat /\ \A i \in 1 .. Len(ss) : ss[i] \in Seq(S)
    BY LenProperties, ElementOfSeq
  <1>2. CASE Len(ss) = 0
    <2>1. ss = <<>>
      BY <1>2, EmptySeq
    <2> QED
      BY <1>2, <2>1, EmptySeq DEF FlattenSeq
  <1>3. CASE Len(ss) > 0
    <2> DEFINE n == Len(ss)
    <2>1. PICK g : Joins(g, ss, n) /\ FlattenSeq(ss) = g[n]
      BY <1>1, <1>3, FlattenIs
    <2> HIDE DEF n
    <2> DEFINE P == {m \in Nat : m \in 1 .. n => g[m] \in Seq(S)}
    <2>2. 0 \in P
      OBVIOUS
    <2>3. ASSUME NEW m \in P \cap Nat PROVE m + 1 \in P
      <3>1. SUFFICES ASSUME m + 1 \in 1 .. n PROVE g[m + 1] \in Seq(S)
        OBVIOUS
      <3>2. g[m + 1] = IF m + 1 = 1 THEN ss[m + 1] ELSE g[m + 1 - 1] \o ss[m + 1]
        BY <2>1, <3>1 DEF Joins
      <3>3. ss[m + 1] \in Seq(S)
        BY <1>1, <3>1 DEF n
      <3>4. CASE m = 0
        BY <3>2, <3>3, <3>4
      <3>5. CASE m # 0
        <4>1. m \in 1 .. n /\ m + 1 - 1 = m /\ m + 1 # 1
          BY <1>1, <3>1, <3>5 DEF n
        <4>2. g[m] \in Seq(S)
          BY <4>1
        <4> QED
          BY <3>2, <3>3, <4>1, <4>2, ConcatProperties
      <3> QED
        BY <3>4, <3>5
    <2>4. n \in P
      <3> HIDE DEF P
      <3> QED
        BY <1>1, <2>2, <2>3, Induct DEF n
    <2> QED
      BY <1>1, <1>3, <2>1, <2>4 DEF n
  <1> QED
    BY <1>1, <1>2, <1>3

-----------------------------------------------------------------------------
(* What an export stands for and what it prints.                            *)
FieldShapes == {f \in [type : DataType, value : Int] : InType(f.type, f.value)}
DataSetShapes ==
  {d \in [isString : BOOLEAN, fields : Seq(FieldShapes), length : 0 .. MaxString] :
     IF d.isString THEN d.fields = <<>> ELSE d.length = 0}
GroupShapes == [interval : Interval, enabled : BOOLEAN, dts : Seq(DataSetShapes)]
ChannelShapes == [port : Port, wgs : Seq(GroupShapes)]

LEMMA ChildrenOf ==
  ASSUME IInv
  PROVE  /\ \A c \in DOMAIN conns : ChildKeys(wgs, <<c>>) \in SUBSET Key /\
              \A x \in ChildKeys(wgs, <<c>>) : Append(<<c>>, x) \in DOMAIN wgs
         /\ \A g \in DOMAIN wgs : ChildKeys(dts, g) \in SUBSET Key /\
              \A x \in ChildKeys(dts, g) : Append(g, x) \in DOMAIN dts
         /\ \A p \in DOMAIN dts : ChildKeys(fields, p) \in SUBSET Key /\
              \A x \in ChildKeys(fields, p) : Append(p, x) \in DOMAIN fields
  <1>1. ASSUME NEW c \in DOMAIN conns, NEW x \in ChildKeys(wgs, <<c>>)
        PROVE  x \in Key /\ Append(<<c>>, x) \in DOMAIN wgs
    <2>1. PICK y \in DOMAIN wgs : SubSeq(y, 1, Len(<<c>>)) = <<c>> /\ x = y[Len(<<c>>) + 1]
      BY DEF ChildKeys
    <2>2. y = <<y[1], y[2]>> /\ y[1] \in Key /\ y[2] \in Key /\ y \in [1 .. 2 -> Key]
      BY DEF IInv, TreeTypeOK
    <2>3. SubSeq(y, 1, 1) = <<y[1]>>
      <3>1. 2 \in 1 .. 4
        OBVIOUS
      <3> QED
        BY <2>2, <3>1, Beginnings
    <2>4. Len(<<c>>) = 1
      OBVIOUS
    <2>5. y[1] = c /\ x = y[2]
      BY <2>1, <2>3, <2>4
    <2> QED
      BY <2>2, <2>5, Appended
  <1>2. ASSUME NEW g \in DOMAIN wgs, NEW x \in ChildKeys(dts, g)
        PROVE  x \in Key /\ Append(g, x) \in DOMAIN dts
    <2>1. PICK y \in DOMAIN dts : SubSeq(y, 1, Len(g)) = g /\ x = y[Len(g) + 1]
      BY DEF ChildKeys
    <2>2. y = <<y[1], y[2], y[3]>> /\ y[1] \in Key /\ y[2] \in Key /\ y[3] \in Key /\ y \in [1 .. 3 -> Key]
      BY DEF IInv, TreeTypeOK
    <2>3. SubSeq(y, 1, 2) = <<y[1], y[2]>>
      <3>1. 3 \in 1 .. 4
        OBVIOUS
      <3> QED
        BY <2>2, <3>1, Beginnings
    <2>4. Len(g) = 2
      BY DEF IInv, TreeTypeOK
    <2>5. g = <<y[1], y[2]>> /\ x = y[3]
      BY <2>1, <2>3, <2>4
    <2> QED
      BY <2>2, <2>5, Appended
  <1>3. ASSUME NEW p \in DOMAIN dts, NEW x \in ChildKeys(fields, p)
        PROVE  x \in Key /\ Append(p, x) \in DOMAIN fields
    <2>1. PICK y \in DOMAIN fields : SubSeq(y, 1, Len(p)) = p /\ x = y[Len(p) + 1]
      BY DEF ChildKeys
    <2>2. /\ y = <<y[1], y[2], y[3], y[4]>>
          /\ y[1] \in Key /\ y[2] \in Key /\ y[3] \in Key /\ y[4] \in Key /\ y \in [1 .. 4 -> Key]
      BY DEF IInv, TreeTypeOK
    <2>3. SubSeq(y, 1, 3) = <<y[1], y[2], y[3]>>
      <3>1. 4 \in 1 .. 4
        OBVIOUS
      <3> QED
        BY <2>2, <3>1, Beginnings
    <2>4. Len(p) = 3
      BY DEF IInv, TreeTypeOK
    <2>5. p = <<y[1], y[2], y[3]>> /\ x = y[4]
      BY <2>1, <2>3, <2>4
    <2>6. Append(<<y[1], y[2], y[3]>>, y[4]) = <<y[1], y[2], y[3], y[4]>>
      BY <2>2, Appended
    <2> QED
      BY <2>2, <2>5, <2>6
  <1> QED
    BY <1>1, <1>2, <1>3

LEMMA ShapeTyped ==
  ASSUME IInv, StringsFit, ExportTypeOK
  PROVE  TreeShape(DOMAIN conns) \in Seq(ChannelShapes)
  <1>1. ASSUME NEW q \in DOMAIN fields
        PROVE  FieldShape(q) \in FieldShapes
    <2>1. fields[q] \in DataType
      BY DEF IInv, TreeTypeOK
    <2>2. InType(fields[q], val[q])
      BY DEF ExportTypeOK, InType
    <2>3. val[q] \in Int
      <3>1. CASE fields[q] \in IntType
        BY <2>2, <3>1, ModulusIs DEF InType, Value, SignedRange, UnsignedRange
      <3>2. CASE fields[q] \notin IntType
        BY <2>2, <3>2 DEF InType
      <3> QED
        BY <3>1, <3>2
    <2> QED
      BY <2>1, <2>2, <2>3 DEF FieldShape, FieldShapes
  <1>2. ASSUME NEW p \in DOMAIN dts
        PROVE  DataSetShape(p) \in DataSetShapes
    <2> DEFINE K == ChildKeys(fields, p)
               node == [x \in K |-> FieldShape(Append(p, x))]
    <2>1. Below(fields, p, FieldShape) = Ordered(K, node)
      BY DEF Below, InOrder, Ordered, Nth
    <2>2. K \in SUBSET Key /\ \A x \in K : node[x] \in FieldShapes
      BY <1>1, ChildrenOf
    <2>3. Below(fields, p, FieldShape) \in Seq(FieldShapes)
      <3> HIDE DEF K, node
      <3> QED
        BY <2>1, <2>2, OrderedTyped
    <2>4. dts[p].isString \in BOOLEAN
      BY DEF IInv, TreeTypeOK
    <2>5. dts[p].isString => Cardinality(FieldKeys(p)) \in 0 .. MaxString
      BY StringSize, ConstantsOK DEF StringsFit
    <2>6. <<>> \in Seq(FieldShapes) /\ 0 \in 0 .. MaxString
      BY EmptySeq, ConstantsOK
    <2>7. (IF dts[p].isString THEN <<>> ELSE Below(fields, p, FieldShape)) \in Seq(FieldShapes)
      BY <2>3, <2>6
    <2>8. (IF dts[p].isString THEN Cardinality(FieldKeys(p)) ELSE 0) \in 0 .. MaxString
      BY <2>5, <2>6
    <2> QED
      BY <2>4, <2>7, <2>8 DEF DataSetShape, DataSetShapes
  <1>3. ASSUME NEW g \in DOMAIN wgs
        PROVE  GroupShape(g) \in GroupShapes
    <2> DEFINE K == ChildKeys(dts, g)
               node == [x \in K |-> DataSetShape(Append(g, x))]
    <2>1. Below(dts, g, DataSetShape) = Ordered(K, node)
      BY DEF Below, InOrder, Ordered, Nth
    <2>2. K \in SUBSET Key /\ \A x \in K : node[x] \in DataSetShapes
      BY <1>2, ChildrenOf
    <2>3. Below(dts, g, DataSetShape) \in Seq(DataSetShapes)
      <3> HIDE DEF K, node
      <3> QED
        BY <2>1, <2>2, OrderedTyped
    <2>4. wgs[g].interval \in Interval /\ wgs[g].enabled \in BOOLEAN
      BY DEF IInv, TreeTypeOK
    <2> QED
      BY <2>3, <2>4 DEF GroupShape, GroupShapes
  <1>4. ASSUME NEW c \in DOMAIN conns
        PROVE  ChannelShape(c) \in ChannelShapes
    <2> DEFINE K == ChildKeys(wgs, <<c>>)
               node == [x \in K |-> GroupShape(Append(<<c>>, x))]
    <2>1. Below(wgs, <<c>>, GroupShape) = Ordered(K, node)
      BY DEF Below, InOrder, Ordered, Nth
    <2>2. K \in SUBSET Key /\ \A x \in K : node[x] \in GroupShapes
      BY <1>3, ChildrenOf
    <2>3. Below(wgs, <<c>>, GroupShape) \in Seq(GroupShapes)
      <3> HIDE DEF K, node
      <3> QED
        BY <2>1, <2>2, OrderedTyped
    <2>4. conns[c].port \in Port
      BY DEF IInv, TreeTypeOK
    <2> QED
      BY <2>3, <2>4 DEF ChannelShape, ChannelShapes
  <1> DEFINE node == [c \in DOMAIN conns |-> ChannelShape(c)]
  <1>5. TreeShape(DOMAIN conns) = Ordered(DOMAIN conns, node)
    BY DEF TreeShape, InOrder, Ordered, Nth
  <1>6. DOMAIN conns \in SUBSET Key /\ \A c \in DOMAIN conns : node[c] \in ChannelShapes
    BY <1>4 DEF IInv, TreeTypeOK
  <1> HIDE DEF node
  <1> QED
    BY <1>5, <1>6, OrderedTyped

\* What is printed are lines of tokens.
Line == Seq(Token)

LEMMA Words ==
  /\ \A w \in PrintedWords : w \in Token
  /\ \A n \in PrintedNumbers : Numeral[n] \in Token
  /\ \A n \in 0 .. MaxString : QuotedOf[n] \in Token
  BY PrintedOK DEF PrintedOK, Token

LEMMA LinesTyped ==
  ASSUME NEW g \in Behind
  PROVE  /\ \A f \in FieldShapes : FieldLine(f, g) \in Line
         /\ \A d \in DataSetShapes : DataSetLines(d, g) \in Seq(Line)
         /\ \A w \in GroupShapes : GroupLines(w, g) \in Seq(Line)
         /\ \A c \in ChannelShapes : ChannelLines(c, g) \in Seq(Line)
  <1>1. ASSUME NEW f \in FieldShapes
        PROVE  FieldLine(f, g) \in Line
    <2>1. f.type \in DataType /\ f.value \in Int /\ InType(f.type, f.value)
      BY DEF FieldShapes
    <2>2. {"add", "wrt", "date", f.type} \subseteq Token
      BY <2>1, Words, FilesOK DEF PrintedWords, FilesOK
    <2>3. CASE f.type = "date"
      BY <2>2, <2>3 DEF FieldLine, Line
    <2>4. CASE f.type # "date"
      <3>1. Shown(f.type, f.value, g) \in PrintedNumbers
        <4>1. CASE f.type \in IntType
          BY <2>1, <4>1 DEF PrintedNumbers, InType
        <4>2. CASE f.type \notin IntType
          <5>1. f.type \notin {"byte", "sbyte"}
            BY <4>2, WidthsOK DEF WidthsOK, IntType
          <5>2. Shown(f.type, f.value, g) = f.value
            BY <5>1 DEF Shown
          <5> QED
            BY <2>1, <4>2, <5>2 DEF PrintedNumbers, InType
        <4> QED
          BY <4>1, <4>2
      <3>2. Numeral[Shown(f.type, f.value, g)] \in Token
        BY <3>1, Words
      <3> QED
        BY <2>2, <2>4, <3>2 DEF FieldLine, Line
    <2> QED
      BY <2>3, <2>4
  <1>2. ASSUME NEW d \in DataSetShapes
        PROVE  DataSetLines(d, g) \in Seq(Line)
    <2>1. d.isString \in BOOLEAN /\ d.fields \in Seq(FieldShapes) /\ d.length \in 0 .. MaxString
      BY DEF DataSetShapes
    <2>2. {"add", "string", "ds", QuotedOf[d.length]} \subseteq Token
      BY <2>1, Words DEF PrintedWords
    <2>3. CASE d.isString
      BY <2>2, <2>3 DEF DataSetLines, Line
    <2>4. CASE ~ d.isString
      <3> DEFINE f == [k \in DOMAIN d.fields |-> FieldLine(d.fields[k], g)]
      <3>1. \A k \in DOMAIN d.fields : f[k] \in Line
        BY <1>1, <2>1, ElementOfSeq, LenProperties
      <3>2. f \in Seq(Line)
        <4>1. PICK s : s = d.fields
          OBVIOUS
        <4>2. s \in Seq(FieldShapes) /\ f = [k \in DOMAIN s |-> f[k]]
          BY <2>1, <4>1
        <4> HIDE DEF f
        <4>3. \A k \in DOMAIN s : f[k] \in Line
          BY <3>1, <4>1
        <4> QED
          BY <4>2, <4>3, MappedLen, Zenon
      <3>3. << <<"add", "ds">> >> \in Seq(Line)
        BY <2>2 DEF Line
      <3>4. DataSetLines(d, g) = << <<"add", "ds">> >> \o f
        BY <2>4 DEF DataSetLines
      <3> HIDE DEF f
      <3> QED
        BY <3>2, <3>3, <3>4, ConcatProperties
    <2> QED
      BY <2>3, <2>4
  <1>3. ASSUME NEW w \in GroupShapes
        PROVE  GroupLines(w, g) \in Seq(Line)
    <2>1. w.interval \in Interval /\ w.dts \in Seq(DataSetShapes)
      BY DEF GroupShapes
    <2>2. {"add", "wg", "intv", "off", Numeral[w.interval]} \subseteq Token
      BY <2>1, Words DEF PrintedWords, PrintedNumbers
    <2>3. GroupLine(w) \in Line
      <3>1. /\ <<"add", "wg">> \in Line /\ <<>> \in Line
            /\ <<"intv", Numeral[w.interval]>> \in Line /\ <<"off">> \in Line
        BY <2>2 DEF Line
      <3>2. PICK x, y : /\ x = IF w.interval = DefaultInterval THEN <<>> ELSE <<"intv", Numeral[w.interval]>>
                        /\ y = IF w.enabled THEN <<>> ELSE <<"off">>
        OBVIOUS
      <3>3. x \in Line /\ y \in Line
        BY <3>1, <3>2
      <3>4. (<<"add", "wg">> \o x) \o y \in Line
        BY <3>1, <3>3, ConcatProperties DEF Line
      <3> QED
        BY <3>2, <3>4 DEF GroupLine
    <2> DEFINE f == [k \in DOMAIN w.dts |-> DataSetLines(w.dts[k], g)]
    <2>4. \A k \in DOMAIN w.dts : f[k] \in Seq(Line)
      BY <1>2, <2>1, ElementOfSeq, LenProperties
    <2>5. f \in Seq(Seq(Line))
      <3>1. f = [k \in DOMAIN w.dts |-> f[k]]
        OBVIOUS
      <3> HIDE DEF f
      <3> QED
        BY <2>1, <2>4, <3>1, MappedLen
    <2>6. GroupLines(w, g) = <<GroupLine(w)>> \o FlattenSeq(f)
      BY DEF GroupLines
    <2> HIDE DEF f
    <2>7. FlattenSeq(f) \in Seq(Line) /\ <<GroupLine(w)>> \in Seq(Line)
      BY <2>3, <2>5, FlattenTyped
    <2> QED
      BY <2>6, <2>7, ConcatProperties
  <1>4. ASSUME NEW c \in ChannelShapes
        PROVE  ChannelLines(c, g) \in Seq(Line)
    <2>1. c.port \in Port /\ c.wgs \in Seq(GroupShapes)
      BY DEF ChannelShapes
    <2>2. {"add", "ch", Numeral[c.port]} \subseteq Token
      BY <2>1, Words DEF PrintedWords, PrintedNumbers
    <2> DEFINE f == [k \in DOMAIN c.wgs |-> GroupLines(c.wgs[k], g)]
    <2>3. \A k \in DOMAIN c.wgs : f[k] \in Seq(Line)
      BY <1>3, <2>1, ElementOfSeq, LenProperties
    <2>4. f \in Seq(Seq(Line))
      <3>1. f = [k \in DOMAIN c.wgs |-> f[k]]
        OBVIOUS
      <3> HIDE DEF f
      <3> QED
        BY <2>1, <2>3, <3>1, MappedLen
    <2>5. ChannelLines(c, g) = << <<"add", "ch", Numeral[c.port]>> >> \o FlattenSeq(f)
      BY DEF ChannelLines
    <2> HIDE DEF f
    <2>6. FlattenSeq(f) \in Seq(Line) /\ << <<"add", "ch", Numeral[c.port]>> >> \in Seq(Line)
      BY <2>2, <2>4, FlattenTyped DEF Line
    <2> QED
      BY <2>5, <2>6, ConcatProperties
  <1> QED
    BY <1>1, <1>2, <1>3, <1>4

LEMMA PrintedTyped ==
  ASSUME NEW g \in Behind, NEW t \in Seq(ChannelShapes)
  PROVE  PrintToFile(t, g) \in Seq(Line)
  <1> DEFINE f == [k \in DOMAIN t |-> ChannelLines(t[k], g)]
  <1>1. \A k \in DOMAIN t : f[k] \in Seq(Line)
    BY LinesTyped, ElementOfSeq, LenProperties
  <1>2. f \in Seq(Seq(Line))
    <2>1. f = [k \in DOMAIN t |-> f[k]]
      OBVIOUS
    <2> HIDE DEF f
    <2> QED
      BY <1>1, <2>1, MappedLen
  <1>3. PrintToFile(t, g) = FlattenSeq(f)
    BY DEF PrintToFile
  <1> HIDE DEF f
  <1> QED
    BY <1>2, <1>3, FlattenTyped

\* Other lines in the place of a string's.
LEMMA MisprintsTyped ==
  ASSUME NEW ls \in Seq(Line), NEW x \in AsPrinted(ls)
  PROVE  x \in Seq(Line)
  <1>1. CASE byHand = {}
    BY <1>1 DEF AsPrinted
  <1>2. CASE byHand # {}
    <2> DEFINE f(m) == [k \in DOMAIN ls |-> IF k \in StringLines(ls) THEN m[k] ELSE <<ls[k]>>]
    <2>1. PICK m \in [StringLines(ls) -> Misprinted] : x = FlattenSeq(f(m))
      BY <1>2 DEF AsPrinted, Misprints
    <2>2. \A k \in DOMAIN ls : f(m)[k] \in Seq(Line)
      <3>1. \A k \in StringLines(ls) : m[k] \in Seq(Line)
        BY FilesOK DEF FilesOK, Line, Token
      <3>2. \A k \in DOMAIN ls : <<ls[k]>> \in Seq(Line)
        BY ElementOfSeq, LenProperties
      <3> QED
        BY <3>1, <3>2
    <2>3. PICK h : h = f(m)
      OBVIOUS
    <2>4. h = [k \in DOMAIN ls |-> h[k]] /\ \A k \in DOMAIN ls : h[k] \in Seq(Line)
      BY <2>2, <2>3
    <2>5. h \in Seq(Seq(Line))
      BY <2>4, MappedLen
    <2> QED
      BY <2>1, <2>3, <2>5, FlattenTyped
  <1> QED
    BY <1>1, <1>2

-----------------------------------------------------------------------------
(* The invariant: the interpreter's, and that whatever is read from a file  *)
(* are tokens.                                                              *)
IsOpen(f) ==
  /\ {"kind", "lines", "decoded", "rest", "conns", "wgs", "dts", "fields", "val"} \subseteq DOMAIN f
  /\ f.lines \in Seq(Line) /\ f.rest \in Seq(Token)

Files ==
  /\ \A n \in DOMAIN file : file[n] \in Seq(Line)
  /\ \E S : open \in Seq(S) /\ \A f \in S : IsOpen(f)

FInv == CInv /\ StringsFit /\ ExportTypeOK /\ Files

LEMMA FInvInit == ExportInit => FInv
  <1> SUFFICES ASSUME ExportInit
               PROVE  FInv
    OBVIOUS
  <1>1. CInv
    BY CInvInit DEF ExportInit
  <1>2. StringsFit /\ ExportTypeOK
    BY DEF ExportInit, Init, TreeInit, StringsFit, ExportTypeOK
  <1>3. \A n \in DOMAIN file : file[n] \in Seq(Line)
    BY FilesOK DEF FilesOK, ExportInit, Line, Token
  <1>4. open \in Seq({})
    BY EmptySeq DEF ExportInit
  <1> QED
    BY <1>1, <1>2, <1>3, <1>4 DEF FInv, Files

\* A step that leaves the tree alone and goes on decoding.
LEMMA DecodesOn ==
  ASSUME FInv, At("decode"), UNCHANGED <<treeVars, b, arg, job, said, typed, val, lastBool, byHand>>,
         loop' = "decode", toks' \in Seq(Token)
  PROVE  Good /\ CInv' /\ StringsFit' /\ ExportTypeOK'
  <1>1. CInv /\ job = NoJob /\ said' \in {"nothing", "invalid"} /\ typed' \in 0 .. MaxLines
    BY DEF FInv, At, CInv, Decoding
  <1>2. Good
    BY <1>1, ReadsOn DEF Loops
  <1>3. IInv'
    BY <1>1, <1>2, InvNext DEF CInv, Good
  <1>4. KeysFromOne'
    BY <1>1, <1>2, <1>3, KeysStart DEF CInv, Good
  <1>5. CInv'
    BY <1>2, <1>3, <1>4 DEF CInv, Good
  <1>6. StringsFit' /\ ExportTypeOK'
    BY DEF FInv, treeVars, StringsFit, ExportTypeOK
  <1> QED
    BY <1>2, <1>5, <1>6

LEMMA Headed ==
  ASSUME FInv, open # <<>>
  PROVE  /\ IsOpen(Head(open))
         /\ \E S : Tail(open) \in Seq(S) /\ (\A f \in S : IsOpen(f))
  <1>1. PICK S : open \in Seq(S) /\ \A f \in S : IsOpen(f)
    BY DEF FInv, Files
  <1>2. Head(open) \in S /\ Tail(open) \in Seq(S)
    BY <1>1, HeadTailProperties, EmptySeq
  <1> QED
    BY <1>1, <1>2

LEMMA Pushed ==
  ASSUME NEW s, NEW S, s \in Seq(S), \A f \in S : IsOpen(f), NEW x, IsOpen(x)
  PROVE  \E T : <<x>> \o s \in Seq(T) /\ \A f \in T : IsOpen(f)
  <1> DEFINE T == S \cup {x}
  <1>1. <<x>> \in Seq(T) /\ s \in Seq(T)
    BY SeqMonotonic
  <1>2. <<x>> \o s \in Seq(T)
    BY <1>1, ConcatProperties
  <1>3. \A f \in T : IsOpen(f)
    OBVIOUS
  <1> QED
    BY <1>2, <1>3

LEMMA DecodeTokens ==
  ASSUME FInv, NEW n \in Nat, n >= 1
  PROVE  toks \in Seq(Token) /\ From(toks, n) \in Seq(Token) /\ <<>> \in Seq(Token)
  BY FromType, EmptySeq DEF FInv, CInv, Decoding

FGood == Good /\ CInv' /\ StringsFit' /\ ExportTypeOK' /\ Files'

LEMMA GoodExportFile ==
  ASSUME FInv, ExportFile
  PROVE  FGood
  <1>1. At("decode") /\ UNCHANGED <<treeVars, b, arg, job, said, typed, val, lastBool, byHand, open>>
    BY DEF ExportFile, Command
  <1>2. loop' = "decode" /\ toks' \in Seq(Token)
    <2>1. toks' = From(toks, 3) /\ loop' = "decode"
      BY DEF ExportFile, Continue
    <2> QED
      BY <2>1, DecodeTokens
  <1>3. Files'
    <2>1. CASE Len(toks) = 1
      BY <1>1, <2>1 DEF ExportFile, FInv, Files
    <2>2. CASE Len(toks) # 1
      <3>1. PICK g \in Behind : \E ls \in AsPrinted(PrintToFile(TreeShape(DOMAIN conns), g)) :
              file' = [n \in DOMAIN file \cup {Exported} |-> IF n = Exported THEN ls ELSE file[n]]
        BY <2>2 DEF ExportFile
      <3>2. TreeShape(DOMAIN conns) \in Seq(ChannelShapes)
        BY ShapeTyped DEF FInv, CInv
      <3>3. PrintToFile(TreeShape(DOMAIN conns), g) \in Seq(Line)
        BY <3>2, PrintedTyped
      <3>4. PICK ls \in Seq(Line) :
              file' = [n \in DOMAIN file \cup {Exported} |-> IF n = Exported THEN ls ELSE file[n]]
        BY <3>1, <3>3, MisprintsTyped
      <3> QED
        BY <1>1, <3>4 DEF FInv, Files
    <2> QED
      BY <2>1, <2>2
  <1> QED
    BY <1>1, <1>2, <1>3, DecodesOn DEF FGood

LEMMA GoodLoad ==
  ASSUME FInv, Load
  PROVE  FGood
  <1>1. At("decode") /\ UNCHANGED <<treeVars, b, arg, job, said, typed, val, lastBool, byHand, file>>
    BY DEF Load, Command
  <1>2. PICK name : IF name \in DOMAIN file
         THEN /\ open' = <<[kind |-> IF name = Exported /\ exact THEN "printed" ELSE "other",
                            lines |-> file[name], rest |-> From(toks, 3), decoded |-> FALSE,
                            conns |-> conns, wgs |-> wgs, dts |-> dts, fields |-> fields, val |-> val]>> \o open
              /\ Continue("decode", <<>>)
         ELSE Continue("decode", From(toks, 4)) /\ UNCHANGED open
    BY DEF Load
  <1>3. loop' = "decode" /\ toks' \in Seq(Token)
    <2>1. loop' = "decode" /\ (toks' = <<>> \/ toks' = From(toks, 4))
      BY <1>2 DEF Continue
    <2>2. 4 \in Nat /\ 4 >= 1
      OBVIOUS
    <2>3. From(toks, 4) \in Seq(Token) /\ <<>> \in Seq(Token)
      BY <2>2, DecodeTokens
    <2> QED
      BY <2>1, <2>3
  <1>4. Files'
    <2>1. CASE name \notin DOMAIN file
      BY <1>1, <1>2, <2>1 DEF FInv, Files
    <2>2. CASE name \in DOMAIN file
      <3>1. PICK x : x = [kind |-> IF name = Exported /\ exact THEN "printed" ELSE "other",
                          lines |-> file[name], rest |-> From(toks, 3), decoded |-> FALSE,
                          conns |-> conns, wgs |-> wgs, dts |-> dts, fields |-> fields, val |-> val]
        OBVIOUS
      <3>2. file[name] \in Seq(Line) /\ From(toks, 3) \in Seq(Token)
        BY <2>2, DecodeTokens DEF FInv, Files
      <3>3. IsOpen(x)
        BY <3>1, <3>2 DEF IsOpen
      <3>4. PICK S : open \in Seq(S) /\ \A f \in S : IsOpen(f)
        BY DEF FInv, Files
      <3>5. PICK T : <<x>> \o open \in Seq(T) /\ \A f \in T : IsOpen(f)
        BY <3>3, <3>4, Pushed
      <3>6. open' = <<x>> \o open
        BY <1>2, <2>2, <3>1
      <3> QED
        BY <1>1, <3>5, <3>6 DEF FInv, Files
    <2> QED
      BY <2>1, <2>2
  <1> QED
    BY <1>1, <1>3, <1>4, DecodesOn DEF FGood

LEMMA GoodNextLine ==
  ASSUME FInv, NextLine
  PROVE  FGood
  <1>1. /\ At("decode") /\ UNCHANGED <<treeVars, b, arg, job, said, typed, val, lastBool, byHand, file>>
        /\ open # <<>> /\ Head(open).lines # <<>>
    BY DEF NextLine
  <1>2. PICK f, line : /\ f = Head(open) /\ line = Head(f.lines)
                       /\ open' = <<[f EXCEPT !.lines = Tail(@), !.decoded = @ \/ ~ Comment(line)]>> \o Tail(open)
                       /\ Continue("decode", IF Comment(line) THEN <<>> ELSE line)
    BY DEF NextLine
  <1>3. IsOpen(f) /\ f.lines # <<>>
    BY <1>1, <1>2, Headed
  <1>4. line \in Line /\ Tail(f.lines) \in Seq(Line)
    BY <1>2, <1>3, HeadTailProperties, EmptySeq DEF IsOpen
  <1>5. loop' = "decode" /\ toks' \in Seq(Token)
    BY <1>2, <1>4, DecodeTokens DEF Continue, Line
  <1>6. PICK x : x = [f EXCEPT !.lines = Tail(@), !.decoded = @ \/ ~ Comment(line)]
    OBVIOUS
  <1>7. IsOpen(x)
    BY <1>3, <1>4, <1>6 DEF IsOpen
  <1>8. PICK S : Tail(open) \in Seq(S) /\ \A y \in S : IsOpen(y)
    BY <1>1, Headed
  <1>9. \E T : <<x>> \o Tail(open) \in Seq(T) /\ \A y \in T : IsOpen(y)
    BY <1>7, <1>8, Pushed
  <1>10. Files'
    BY <1>1, <1>2, <1>6, <1>9 DEF FInv, Files
  <1> QED
    BY <1>1, <1>5, <1>10, DecodesOn DEF FGood

LEMMA GoodEndFile ==
  ASSUME FInv, EndFile
  PROVE  FGood
  <1>1. /\ At("decode") /\ UNCHANGED <<treeVars, b, arg, job, said, typed, val, lastBool, byHand, file>>
        /\ open # <<>> /\ open' = Tail(open)
    BY DEF EndFile
  <1>2. PICK f : /\ f = Head(open)
                 /\ \/ Continue("decode", f.rest)
                    \/ /\ f.rest # <<>>
                       /\ \E more \in {<<>>} \cup {<<t>> : t \in Leftover} : Continue("decode", <<Head(f.rest)>> \o more)
    BY DEF EndFile
  <1>3. f.rest \in Seq(Token)
    BY <1>1, <1>2, Headed DEF IsOpen
  <1>4. loop' = "decode" /\ toks' \in Seq(Token)
    <2>1. CASE Continue("decode", f.rest)
      BY <1>3, <2>1 DEF Continue
    <2>2. ASSUME NEW more \in {<<>>} \cup {<<t>> : t \in Leftover}, f.rest # <<>>, Continue("decode", <<Head(f.rest)>> \o more)
          PROVE  loop' = "decode" /\ toks' \in Seq(Token)
      <3>1. Head(f.rest) \in Token
        BY <1>3, <2>2, TailType
      <3>2. <<Head(f.rest)>> \in Seq(Token)
        BY <3>1
      <3>3. more \in Seq(Token)
        <4>1. CASE more = <<>>
          BY <4>1, EmptySeq
        <4>2. ASSUME NEW t \in Leftover, more = <<t>>
              PROVE  more \in Seq(Token)
          <5>1. t \in Token
            BY FilesOK DEF FilesOK, Token
          <5> QED
            BY <4>2, <5>1
        <4> QED
          BY <2>2, <4>1, <4>2
      <3> QED
        BY <2>2, <3>2, <3>3, ConcatProperties DEF Continue
    <2> QED
      BY <1>2, <2>1, <2>2
  <1>5. Files'
    BY <1>1, Headed DEF FInv, Files
  <1> QED
    BY <1>1, <1>4, <1>5, DecodesOn DEF FGood

\* A step of the interpreter with the values it writes.
LEMMA GoodConsoleStep ==
  ASSUME FInv, InBounds, InBounds', Next, Values, UNCHANGED <<file, open>>, Target # {} => UNCHANGED treeVars
  PROVE  FGood
  <1>1. Good /\ CInv'
    BY GoodNext, CInvNext DEF FInv
  <1>2. StringsFit'
    BY <1>1, StringsStayFit DEF FInv, CInv, Good
  <1>3. ExportTypeOK'
    BY <1>1, ValuesTyped DEF FInv, Good
  <1>4. Files'
    BY DEF FInv, Files
  <1> QED
    BY <1>1, <1>2, <1>3, <1>4 DEF FGood

LEMMA GoodExportNext == FInv /\ InBounds /\ InBounds' /\ [ExportNext]_allVars => FGood
  <1> SUFFICES ASSUME FInv, InBounds, InBounds', [ExportNext]_allVars
               PROVE  FGood
    OBVIOUS
  <1>1. CASE UNCHANGED allVars
    <2>1. UNCHANGED vars /\ UNCHANGED <<val, lastBool, byHand, file, open>>
      BY <1>1 DEF allVars, exportVars
    <2>2. Good /\ CInv'
      BY <2>1, GoodNext, CInvNext DEF FInv
    <2>3. StringsFit'
      BY <2>2, StringsStayFit DEF FInv, CInv, Good
    <2>4. ExportTypeOK' /\ Files'
      BY <2>1 DEF vars, treeVars, FInv, ExportTypeOK, Files
    <2> QED
      BY <2>2, <2>3, <2>4 DEF FGood
  <1>2. CASE Step /\ Values /\ UNCHANGED <<file, open>>
    <2>1. Target # {} => UNCHANGED treeVars
      BY <1>2, WrtLeavesTree DEF Target
    <2> QED
      BY <1>2, <2>1, GoodConsoleStep DEF Next
  <1>3. ASSUME NEW line \in Lines, EnterLine(line) \/ EndThread(line), Values, UNCHANGED <<file, open>>
        PROVE  FGood
    <2>1. Target = {}
      BY <1>3 DEF EnterLine, EndThread, Target, At
    <2> QED
      BY <1>3, <2>1, GoodConsoleStep DEF Next
  <1> QED
    BY <1>1, <1>2, <1>3, GoodExportFile, GoodLoad, GoodNextLine, GoodEndFile DEF ExportNext, ExportStep

LEMMA ExportInvariance == ExportSpec /\ []InBounds => []FInv
  <1>1. FInv /\ InBounds /\ InBounds' /\ [ExportNext]_allVars => FInv'
    BY GoodExportNext DEF FGood, FInv
  <1> QED
    BY FInvInit, <1>1, PTL DEF ExportSpec

(* A variable has a value of its Field's type, whatever words are written   *)
(* to it by hand or from a file, and every Field has one: no value is left  *)
(* of a Field that was removed.                                             *)
THEOREM ValuesInRange == ExportSpec /\ []InBounds => []ExportTypeOK
  <1>1. FInv => ExportTypeOK
    BY DEF FInv
  <1> QED
    BY ExportInvariance, <1>1, PTL

(* Files are decoded by the interpreter that decodes what is typed: with    *)
(* load and export, too, only the calls of TreeNext are made, though a file *)
(* may be any file, loaded in the middle of a line or of another file.      *)
THEOREM LoadImplementsTree == ExportSpec /\ []InBounds => TreeSpec
  <1>1. ExportInit => TreeInit
    BY DEF ExportInit, Init
  <1>2. FInv /\ InBounds /\ InBounds' /\ [ExportNext]_allVars => [TreeNext]_treeVars
    BY GoodExportNext DEF FGood, Good
  <1> QED
    BY ExportInvariance, <1>1, <1>2, PTL DEF ExportSpec, TreeSpec

-----------------------------------------------------------------------------
(* The value that is printed is the one that is read again.                *)
\* A signed type takes what differs from one of its values by a multiple.
LEMMA SignedIs ==
  ASSUME NEW t \in IntType \cup {"int", "long"}, NEW v \in SignedRange(Modulus[t]), NEW q \in Int
  PROVE  ToSigned(v + Modulus[t] * q, Modulus[t]) = v
  <1>1. PICK m, h : m = Modulus[t] /\ h = m \div 2
    OBVIOUS
  <1>2. m \in Nat /\ m > 0 /\ h \in Nat /\ h >= 1 /\ m = 2 * h
    BY <1>1, ModulusIs
  <1>3. v \in Int /\ v + h \in 0 .. m - 1
    BY <1>1, <1>2 DEF SignedRange
  <1>4. m * q \in Int
    BY <1>2
  <1>5. (m * q + (v + h)) % m = v + h
    BY <1>2, <1>3, RemainderIs
  <1>6. v + m * q + h = m * q + (v + h)
    BY <1>2, <1>3, <1>4
  <1> QED
    BY <1>1, <1>2, <1>3, <1>5, <1>6 DEF ToSigned

LEMMA SignedSame ==
  ASSUME NEW t \in IntType \cup {"int", "long"}, NEW v \in SignedRange(Modulus[t])
  PROVE  ToSigned(v, Modulus[t]) = v
  <1>1. Modulus[t] \in Nat /\ v \in Int
    BY ModulusIs DEF SignedRange
  <1>2. v + Modulus[t] * 0 = v
    BY <1>1
  <1> QED
    BY <1>2, SignedIs

LEMMA IntWidth ==
  /\ Modulus["int"] \in Nat /\ Modulus["int"] > 0 /\ Modulus["int"] \div 2 \in Nat
  /\ Modulus["int"] = 2 * (Modulus["int"] \div 2)
  /\ Modulus["long"] \in Nat /\ Modulus["long"] = 2 * (Modulus["long"] \div 2)
  /\ Modulus["long"] \div 2 \in Nat /\ Modulus["int"] <= Modulus["long"] \div 2
  <1>1. 2 * Modulus["int"] <= Modulus["long"]
    BY WidthsOK DEF WidthsOK
  <1> QED
    BY <1>1, ModulusIs

\* What atoi makes of a number that is not far beyond an int.
LEMMA AtoiIs ==
  ASSUME NEW n \in Int, n >= -(Modulus["int"] \div 2), n < Modulus["int"]
  PROVE  /\ Atol(n) = n
         /\ n < Modulus["int"] \div 2 => Atoi(n) = n
         /\ n >= Modulus["int"] \div 2 => Atoi(n) = n - Modulus["int"]
  <1>1. PICK m, h, k : m = Modulus["int"] /\ h = m \div 2 /\ k = Modulus["long"] \div 2
    OBVIOUS
  <1>2. m \in Nat /\ m > 0 /\ h \in Nat /\ m = 2 * h /\ k \in Nat /\ m <= k
    BY <1>1, IntWidth
  <1>3. n >= -h /\ n < m
    BY <1>1
  <1>4. n >= -k /\ n <= k - 1
    BY <1>2, <1>3
  <1>5. Atol(n) = IF n < -k THEN -k ELSE IF n > k - 1 THEN k - 1 ELSE n
    BY <1>1 DEF Atol
  <1>6. Atol(n) = n
    BY <1>2, <1>4, <1>5
  <1>7. ASSUME n < h PROVE Atoi(n) = n
    <2>1. n \in SignedRange(m)
      BY <1>1, <1>2, <1>3, <1>7 DEF SignedRange
    <2> QED
      BY <1>1, <1>6, <2>1, SignedSame DEF Atoi
  <1>8. ASSUME n >= h PROVE Atoi(n) = n - m
    <2>1. n - m \in SignedRange(m)
      BY <1>1, <1>2, <1>3, <1>8 DEF SignedRange
    <2>2. (n - m) + m * 1 = n /\ 1 \in Int
      BY <1>2
    <2>3. ToSigned((n - m) + m * 1, m) = n - m
      BY <1>1, <2>1, SignedIs
    <2> QED
      BY <1>1, <1>6, <2>2, <2>3 DEF Atoi
  <1> QED
    BY <1>1, <1>6, <1>7, <1>8

\* v is the value the type keeps of n: they differ by a multiple of its width.
LEMMA Keeps ==
  ASSUME NEW t \in IntType, NEW v \in Value(t), NEW q \in Int
  PROVE  Converted(t, v + Modulus[t] * q) = v
  <1>1. CASE t \in SignedType
    BY <1>1, SignedIs DEF Converted, Value
  <1>2. CASE t \notin SignedType
    <2>1. PICK m : m = Modulus[t] /\ m \in Nat /\ m > 0
      BY ModulusIs
    <2>2. v \in 0 .. m - 1
      BY <1>2, <2>1 DEF Value, UnsignedRange
    <2>3. m * q \in Int /\ m * q + v = v + m * q
      BY <2>1, <2>2
    <2>4. (m * q + v) % m = v
      BY <2>1, <2>2, RemainderIs
    <2> QED
      BY <1>2, <2>1, <2>3, <2>4 DEF Converted, ToUnsigned
  <1> QED
    BY <1>1, <1>2

\* So does what atoi makes of it.
LEMMA KeepsInt ==
  ASSUME NEW t \in IntType \ {"int64", "uint64"}, NEW v \in Value(t), NEW q \in Int,
         NEW n, n = v + Modulus[t] * q, n >= -(Modulus["int"] \div 2), n < Modulus["int"]
  PROVE  Written(t, n) = v
  <1>1. PICK m, w : m = Modulus[t] /\ w = Modulus["int"]
    OBVIOUS
  <1>2. m \in Nat /\ m > 0 /\ w \in Nat /\ v \in Int /\ m * q \in Int
    <2>1. m \in Nat /\ m > 0 /\ w \in Nat
      BY <1>1, ModulusIs, IntWidth
    <2>2. v \in Int
      BY <1>1, <2>1, ModulusIs DEF Value, SignedRange, UnsignedRange
    <2> QED
      BY <2>1, <2>2
  <1>3. n \in Int
    BY <1>1, <1>2
  <1>4. CASE n < Modulus["int"] \div 2
    <2>1. Atoi(n) = n
      BY <1>3, <1>4, AtoiIs
    <2> QED
      BY <2>1, Keeps DEF Written
  <1>5. CASE ~ (n < Modulus["int"] \div 2)
    <2>1. Atoi(n) = n - w
      BY <1>1, <1>3, <1>5, AtoiIs, IntWidth
    <2>2. w % m = 0
      BY <1>1, WidthsOK DEF WidthsOK
    <2>3. PICK p \in Int : w = m * p
      BY <1>2, <2>2, Quotient
    <2>4. q - p \in Int /\ m * (q - p) = m * q - m * p
      BY <1>2, <2>3
    <2>5. n - w = v + m * (q - p)
      BY <1>1, <1>2, <2>3, <2>4
    <2> QED
      BY <1>1, <2>1, <2>4, <2>5, Keeps DEF Written
  <1> QED
    BY <1>4, <1>5

LEMMA IntTypes ==
  /\ "byte" \in IntType \ {"int64", "uint64"} /\ "byte" \notin SignedType
  /\ "sbyte" \in IntType \ {"int64", "uint64"} /\ "sbyte" \in SignedType
  /\ Modulus["sbyte"] = Modulus["byte"] /\ Modulus["byte"] * Modulus["byte"] <= Modulus["int"]
  /\ "int64" \in SignedType /\ "uint64" \notin SignedType
  /\ Modulus["int64"] = Modulus["long"] /\ Modulus["uint64"] = Modulus["long"]
  BY WidthsOK DEF WidthsOK, IntType

LEMMA ShownByte ==
  ASSUME NEW v \in Value("byte"), NEW g \in Value("byte")
  PROVE  Written("byte", Shown("byte", v, g)) = v
  <1>1. PICK m, w : m = Modulus["byte"] /\ w = Modulus["int"]
    OBVIOUS
  <1>2. m \in Nat /\ m > 0 /\ w \in Nat /\ w \div 2 \in Nat /\ m * m <= w /\ m * m \in Nat
    <2>1. m \in Nat /\ m > 0
      BY <1>1, IntTypes, ModulusIs
    <2>2. m * m \in Nat
      BY <2>1
    <2> QED
      BY <1>1, <2>1, <2>2, IntTypes, IntWidth
  <1>3. v \in 0 .. m - 1 /\ g \in 0 .. m - 1
    BY <1>1, IntTypes DEF Value, UnsignedRange
  <1>4. m * g \in Nat /\ m * g <= m * m - m
    <2>1. m * g \in Nat
      BY <1>2, <1>3
    <2>2. m * (m - g) >= m
      <3>1. m - g \in Int /\ m - g >= 1
        BY <1>2, <1>3
      <3> QED
        BY <1>2, <3>1, Multiples
    <2>3. m * (m - g) = m * m - m * g
      BY <1>2, <1>3
    <2> QED
      BY <1>2, <2>1, <2>2, <2>3
  <1>5. Shown("byte", v, g) = v + m * g
    BY <1>1 DEF Shown
  <1>6. v + m * g >= -(w \div 2) /\ v + m * g < w
    BY <1>2, <1>3, <1>4
  <1> QED
    BY <1>1, <1>3, <1>5, <1>6, IntTypes, KeepsInt

LEMMA ShownSByte ==
  ASSUME NEW v \in Value("sbyte"), NEW g \in Value("byte")
  PROVE  Written("sbyte", Shown("sbyte", v, g)) = v
  <1>1. PICK m, h, w : m = Modulus["byte"] /\ h = m \div 2 /\ w = Modulus["int"]
    OBVIOUS
  <1>2. /\ m \in Nat /\ m > 0 /\ w \in Nat /\ w \div 2 \in Nat /\ w = 2 * (w \div 2)
        /\ m * m <= w /\ m * m \in Nat /\ h \in Nat /\ m = 2 * h /\ h >= 1
    <2>1. m \in Nat /\ m > 0 /\ h \in Nat /\ m = 2 * h /\ h >= 1
      BY <1>1, IntTypes, ModulusIs
    <2>2. m * m \in Nat
      BY <2>1
    <2> QED
      BY <1>1, <2>1, <2>2, IntTypes, IntWidth
  <1>3. v \in -h .. h - 1 /\ g \in 0 .. m - 1
    BY <1>1, IntTypes DEF Value, SignedRange, UnsignedRange
  <1>4. PICK q \in Int : v % m = v + m * q
    <2>1. CASE v >= 0
      <3>1. v \in 0 .. m - 1
        BY <1>2, <1>3, <2>1
      <3>2. v % m = v + m * 0
        BY <1>2, <3>1, SmallRemainder
      <3> QED
        BY <3>2
    <2>2. CASE v < 0
      <3>1. v + m \in 0 .. m - 1 /\ (v + m) - m = v
        BY <1>2, <1>3, <2>2
      <3>2. v % m = v + m
        BY <1>2, <3>1, SmallRemainder
      <3>3. v + m = v + m * 1
        BY <1>2
      <3> QED
        BY <3>2, <3>3
    <2> QED
      BY <1>3, <2>1, <2>2
  <1>5. v % m \in 0 .. m - 1
    BY <1>2, <1>3, Remainder
  <1>6. m * g \in Nat /\ m * g <= m * m - m
    <2>1. m * g \in Nat
      BY <1>2, <1>3
    <2>2. m * (m - g) >= m
      <3>1. m - g \in Int /\ m - g >= 1
        BY <1>2, <1>3
      <3> QED
        BY <1>2, <3>1, Multiples
    <2>3. m * (m - g) = m * m - m * g
      BY <1>2, <1>3
    <2> QED
      BY <1>2, <2>1, <2>2, <2>3
  <1>7. PICK x : x = (v % m) + m * g
    OBVIOUS
  <1>8. x \in 0 .. m * m - 1
    BY <1>2, <1>5, <1>6, <1>7
  <1>9. PICK k : k = (m * m) \div 2
    OBVIOUS
  <1>10. k \in Nat /\ m * m = 2 * k
    <2>1. PICK n : n = h * m
      OBVIOUS
    <2>2. n \in Nat /\ m * m = 2 * n
      BY <1>2, <2>1
    <2> QED
      BY <1>9, <2>2
  <1>11. PICK n : n = Shown("sbyte", v, g)
    OBVIOUS
  <1>12. n = ((x + k) % (m * m)) - k
    BY <1>1, <1>7, <1>9, <1>11 DEF Shown, ToSigned
  <1>13. n = x \/ n = x - m * m
    <2>1. PICK mm : mm = m * m
      OBVIOUS
    <2>2. mm \in Nat /\ mm > 0 /\ mm = 2 * k
      BY <1>2, <1>8, <1>10, <2>1
    <2>3. CASE x + k < mm
      <3>1. x + k \in 0 .. mm - 1
        BY <1>8, <1>10, <2>1, <2>3
      <3>2. (x + k) % mm = x + k
        BY <2>2, <3>1, SmallRemainder
      <3> QED
        BY <1>8, <1>10, <1>12, <2>1, <3>2
    <2>4. CASE ~ (x + k < mm)
      <3>1. x + k - mm \in 0 .. mm - 1
        BY <1>8, <1>10, <2>1, <2>2, <2>4
      <3>2. mm * 1 + (x + k - mm) = x + k
        BY <1>8, <1>10, <2>2
      <3>3. (mm * 1 + (x + k - mm)) % mm = x + k - mm
        BY <2>2, <3>1, RemainderIs
      <3>4. (x + k) % mm = x + k - mm
        BY <3>2, <3>3
      <3> QED
        BY <1>8, <1>10, <1>12, <2>1, <2>2, <3>4
    <2> QED
      BY <2>3, <2>4
  <1>14. n >= -k /\ n <= k - 1
    <2>1. n \in Int /\ (x + k) % (m * m) \in 0 .. m * m - 1
      <3>1. x + k \in Int /\ m * m > 0
        BY <1>2, <1>8, <1>10
      <3>2. (x + k) % (m * m) \in 0 .. m * m - 1
        BY <1>2, <3>1, Remainder
      <3> QED
        BY <1>8, <1>10, <1>13, <1>2, <3>2
    <2> QED
      BY <1>10, <1>12, <2>1
  <1>15. n >= -(w \div 2) /\ n < w
    BY <1>2, <1>8, <1>10, <1>13, <1>14
  <1>16. \E p \in Int : n = v + m * p
    <2>1. CASE n = x
      <3>1. q + g \in Int /\ m * (q + g) = m * q + m * g /\ m * q \in Int
        BY <1>2, <1>3, <1>4
      <3>2. n = v + m * (q + g)
        BY <1>3, <1>4, <1>6, <1>7, <2>1, <3>1
      <3> QED
        BY <3>1, <3>2
    <2>2. CASE n = x - m * m
      <3>1. q + g - m \in Int /\ m * (q + g - m) = m * q + m * g - m * m /\ m * q \in Int
        BY <1>2, <1>3, <1>4
      <3>2. n = v + m * (q + g - m)
        BY <1>2, <1>3, <1>4, <1>6, <1>7, <2>2, <3>1
      <3> QED
        BY <3>1, <3>2
    <2> QED
      BY <1>13, <2>1, <2>2
  <1> QED
    BY <1>1, <1>11, <1>15, <1>16, IntTypes, KeepsInt

LEMMA ReadsWhatIsShown ==
  ASSUME NEW t \in IntType, NEW v \in Value(t), NEW g \in Value("byte"),
         t = "uint64" => v < Modulus["int"] \div 2
  PROVE  Written(t, Shown(t, v, g)) = v
  <1>1. v \in Int
    BY ModulusIs DEF Value, SignedRange, UnsignedRange
  <1>2. CASE t \in {"byte", "sbyte"}
    BY <1>2, ShownByte, ShownSByte
  <1>3. CASE t \notin {"byte", "sbyte"}
    <2>1. Shown(t, v, g) = v
      BY <1>3 DEF Shown
    <2>2. v + Modulus[t] * 0 = v
      BY <1>1, ModulusIs
    <2>3. CASE t = "int64"
      <3>1. PICK k : k = Modulus["long"] \div 2 /\ k \in Nat
        BY IntWidth
      <3>2. v >= -k /\ v <= k - 1
        BY <2>3, <3>1, IntTypes DEF Value, SignedRange
      <3>3. Atol(v) = v
        BY <1>1, <3>1, <3>2 DEF Atol
      <3>4. Converted(t, v) = v
        BY <2>2, Keeps
      <3> QED
        BY <2>1, <2>3, <3>3, <3>4 DEF Written
    <2>4. CASE t = "uint64"
      <3>1. v >= 0
        BY <1>1, <2>4, IntTypes, ModulusIs DEF Value, UnsignedRange
      <3>2. Atoi(v) = v
        BY <1>1, <2>4, <3>1, AtoiIs, IntWidth
      <3>3. Converted(t, v) = v
        BY <2>2, Keeps
      <3> QED
        BY <2>1, <2>4, <3>2, <3>3 DEF Written
    <2>5. CASE t \notin {"int64", "uint64"}
      <3>1. PICK m, w : m = Modulus[t] /\ w = Modulus["int"]
        OBVIOUS
      <3>2. m \in Nat /\ m > 0 /\ m = 2 * (m \div 2) /\ m \div 2 \in Nat
        BY <3>1, ModulusIs
      <3>3. w \in Nat /\ w > 0 /\ w = 2 * (w \div 2) /\ w \div 2 \in Nat
        BY <3>1, IntWidth
      <3>4. w % m = 0
        <4>0. t \in IntType \ {"int64", "uint64"}
          BY <2>5
        <4>1. Modulus["int"] % Modulus[t] = 0
          BY <4>0, WidthsOK, Zenon DEF WidthsOK
        <4> QED
          BY <3>1, <4>1
      <3>5. m <= w
        <4>1. CASE w < m
          <5>1. w \in 0 .. m - 1
            BY <3>2, <3>3, <4>1
          <5>2. w % m = w
            BY <3>2, <5>1, SmallRemainder
          <5> QED
            BY <3>3, <3>4, <5>2
        <4> QED
          BY <3>2, <3>3, <4>1
      <3>6. v >= -(w \div 2) /\ v < w
        BY <1>1, <3>1, <3>2, <3>3, <3>5 DEF Value, SignedRange, UnsignedRange
      <3>7. 0 \in Int
        OBVIOUS
      <3> QED
        BY <2>1, <2>2, <2>5, <3>1, <3>6, <3>7, KeepsInt
    <2> QED
      BY <2>3, <2>4, <2>5
  <1> QED
    BY <1>2, <1>3

-----------------------------------------------------------------------------
(* The lines of a file that are left behind a node.                         *)

(* The first m of ts and the first m + 1 of ss.                             *)
OneMore(g, h, s, S, m) == h[m] \in Seq(S) /\ g[m + 1] = s \o h[m]

Associative(S) == \A x \in Seq(S), y \in Seq(S), z \in Seq(S) : (x \o y) \o z = x \o (y \o z)
LEMMA IsAssociative ==
  ASSUME NEW S
  PROVE  Associative(S)
  BY ConcatAssociative DEF Associative

LEMMA LinesInFront ==
  /\ \A x \in Line, u \in Seq(Line), v \in Seq(Line) : (<<x>> \o u) \o v = <<x>> \o (u \o v) /\ u \o v \in Seq(Line)
  /\ \A u \in Seq(Line), v \in Seq(Line), w \in Seq(Line) : (u \o v) \o w = u \o (v \o w)
  <1>1. Associative(Line)
    BY IsAssociative
  <1>2. \A u \in Seq(Line), v \in Seq(Line) : u \o v \in Seq(Line)
    BY ConcatProperties
  <1>3. \A x \in Line : <<x>> \in Seq(Line)
    OBVIOUS
  <1> QED
    BY <1>1, <1>2, <1>3 DEF Associative

LEMMA FlattenHead ==
  ASSUME NEW S, NEW ss \in Seq(Seq(S)), ss # <<>>
  PROVE  FlattenSeq(ss) = Head(ss) \o FlattenSeq(Tail(ss))
  <1> DEFINE n == Len(ss)
             ts == Tail(ss)
  <1>1. n \in Nat /\ n >= 1 /\ \A i \in 1 .. n : ss[i] \in Seq(S)
    BY EmptySeq, ElementOfSeq
  <1>2. ts \in Seq(Seq(S)) /\ Len(ts) = n - 1 /\ \A i \in 1 .. n - 1 : ts[i] = ss[i + 1]
    BY HeadTailProperties
  <1>3. Head(ss) = ss[1]
    OBVIOUS
  <1>4. PICK g : Joins(g, ss, n) /\ FlattenSeq(ss) = g[n]
    BY <1>1, FlattenIs
  <1> HIDE DEF n, ts
  <1>5. CASE n = 1
    <2>1. ts = <<>>
      BY <1>2, <1>5, EmptySeq
    <2>2. FlattenSeq(ts) = <<>>
      BY <2>1 DEF FlattenSeq
    <2>3. g[1] = ss[1] /\ ss[1] \in Seq(S)
      BY <1>1, <1>4, <1>5 DEF Joins
    <2>4. ss[1] \o <<>> = ss[1]
      BY <2>3, ConcatEmptySeq
    <2> QED
      BY <1>3, <1>4, <1>5, <2>2, <2>3, <2>4 DEF ts
  <1>6. CASE n # 1
    <2>1. n - 1 \in Nat /\ n - 1 > 0
      BY <1>1, <1>6
    <2>2. PICK h : Joins(h, ts, n - 1) /\ FlattenSeq(ts) = h[n - 1]
      BY <1>2, <2>1, FlattenIs
    <2> DEFINE P == {m \in Nat : m \in 1 .. n - 1 => OneMore(g, h, ss[1], S, m)}
    <2>3. 0 \in P
      BY <1>1
    <2>4. ASSUME NEW m \in P \cap Nat PROVE m + 1 \in P
      <3>1. SUFFICES ASSUME m + 1 \in 1 .. n - 1 PROVE OneMore(g, h, ss[1], S, m + 1)
        OBVIOUS
      <3>2. m \in Nat /\ n \in Nat /\ n - 1 \in Nat
        BY <1>1, <2>1
      <3>3. m + 1 \in 1 .. n /\ (m + 1) + 1 \in 1 .. n /\ 1 \in 1 .. n /\ m + 1 \in Nat /\ m + 1 # 0
        BY <3>1, <3>2
      <3>4. ts[m + 1] = ss[(m + 1) + 1] /\ ss[(m + 1) + 1] \in Seq(S) /\ ss[1] \in Seq(S)
        BY <1>1, <1>2, <3>1, <3>3
      <3>5. g[(m + 1) + 1] = g[m + 1] \o ss[(m + 1) + 1]
        BY <1>4, <3>2, <3>3, JoinsStep
      <3>8. h[m + 1] = IF m = 0 THEN ts[m + 1] ELSE h[m] \o ts[m + 1]
        <4>1. PICK ms : ms = n - 1
          OBVIOUS
        <4>2. ms \in Nat /\ Joins(h, ts, ms) /\ m + 1 \in 1 .. ms
          BY <2>2, <3>1, <3>2, <4>1
        <4> QED
          BY <3>2, <4>2, JoinsStep
      <3>9. g[m + 1] = IF m = 0 THEN ss[m + 1] ELSE g[m] \o ss[m + 1]
        BY <1>4, <3>2, <3>3, JoinsStep
      <3>6. CASE m = 0
        <4>1. h[m + 1] = ts[m + 1] /\ g[m + 1] = ss[m + 1]
          BY <3>6, <3>8, <3>9
        <4>2. ss[m + 1] = ss[1]
          BY <3>6
        <4> QED
          BY <3>4, <3>5, <4>1, <4>2 DEF OneMore
      <3>7. CASE m # 0
        <4>1. m \in 1 .. n - 1
          BY <3>1, <3>2, <3>7
        <4>2. h[m] \in Seq(S) /\ g[m + 1] = ss[1] \o h[m]
          BY <4>1 DEF OneMore
        <4>3. h[m + 1] = h[m] \o ts[m + 1]
          BY <3>7, <3>8
        <4>4. h[m + 1] \in Seq(S)
          BY <3>4, <4>2, <4>3, ConcatProperties
        <4>5. (ss[1] \o h[m]) \o ss[(m + 1) + 1] = ss[1] \o (h[m] \o ss[(m + 1) + 1])
          <5>1. PICK x, y, z : x = ss[1] /\ y = h[m] /\ z = ss[(m + 1) + 1]
            OBVIOUS
          <5>2. x \in Seq(S) /\ y \in Seq(S) /\ z \in Seq(S)
            BY <3>4, <4>2, <5>1
          <5>3. Associative(S)
            BY IsAssociative
          <5>4. (x \o y) \o z = x \o (y \o z)
            BY <5>2, <5>3 DEF Associative
          <5> QED
            BY <5>1, <5>4
        <4> QED
          BY <3>4, <3>5, <4>2, <4>3, <4>4, <4>5 DEF OneMore
      <3> QED
        BY <3>6, <3>7
    <2>5. n - 1 \in P
      <3> HIDE DEF P
      <3> QED
        BY <2>1, <2>3, <2>4, Induct
    <2>6. g[n] = ss[1] \o h[n - 1]
      <3>1. n - 1 \in 1 .. n - 1 /\ n - 1 + 1 = n
        BY <1>1, <2>1
      <3> QED
        BY <2>5, <3>1 DEF OneMore
    <2> QED
      BY <1>3, <1>4, <2>2, <2>6 DEF ts
  <1> QED
    BY <1>5, <1>6

LEMMA FromNext ==
  ASSUME NEW S, NEW s \in Seq(S), NEW i \in 0 .. Len(s)
  PROVE  /\ From(s, i + 1) \in Seq(S)
         /\ i < Len(s) => From(s, i + 1) = <<s[i + 1]>> \o From(s, i + 1 + 1) /\ s[i + 1] \in S
         /\ i = Len(s) => From(s, i + 1) = <<>>
         /\ From(s, 0 + 1) = s
  <1>1. Len(s) \in Nat /\ i \in Nat /\ \A m \in 1 .. Len(s) : s[m] \in S
    BY LenProperties, ElementOfSeq
  <1>2. From(s, i + 1) \in Seq(S)
    <2>1. \A m \in i + 1 .. Len(s) : s[m] \in S
      BY <1>1
    <2> QED
      BY <1>1, <2>1, SubSeqProperties DEF From
  <1>3. ASSUME i < Len(s) PROVE From(s, i + 1) = <<s[i + 1]>> \o From(s, i + 1 + 1) /\ s[i + 1] \in S
    <2>1. i + 1 \in 1 .. Len(s) /\ Len(s) \in i + 1 .. Len(s)
      BY <1>1, <1>3
    <2> QED
      BY <1>1, <2>1, SubSeqRecursiveFirst DEF From
  <1>4. ASSUME i = Len(s) PROVE From(s, i + 1) = <<>>
    BY <1>1, <1>4, SubSeqEmpty DEF From
  <1>5. From(s, 0 + 1) = s
    BY SubSeqFull DEF From
  <1> QED
    BY <1>2, <1>3, <1>4, <1>5

LEMMA FlattenNext ==
  ASSUME NEW S, NEW ss \in Seq(Seq(S)), NEW i \in 0 .. Len(ss)
  PROVE  /\ FlattenSeq(From(ss, i + 1)) \in Seq(S)
         /\ i < Len(ss) => FlattenSeq(From(ss, i + 1)) = ss[i + 1] \o FlattenSeq(From(ss, i + 1 + 1))
         /\ i = Len(ss) => FlattenSeq(From(ss, i + 1)) = <<>>
         /\ FlattenSeq(From(ss, 0 + 1)) = FlattenSeq(ss)
  <1>1. FlattenSeq(From(ss, i + 1)) \in Seq(S)
    BY FromNext, FlattenTyped
  <1>2. ASSUME i < Len(ss) PROVE FlattenSeq(From(ss, i + 1)) = ss[i + 1] \o FlattenSeq(From(ss, i + 1 + 1))
    <2>1. Len(ss) \in Nat /\ i \in Nat
      BY LenProperties
    <2>2. i + 1 \in 1 .. Len(ss) /\ Len(ss) \in i + 1 .. Len(ss)
      BY <1>2, <2>1
    <2>3. Head(From(ss, i + 1)) = ss[i + 1] /\ Tail(From(ss, i + 1)) = From(ss, i + 1 + 1)
      BY <2>2, HeadTailOfSubSeq DEF From
    <2>4. From(ss, i + 1) # <<>>
      <3>1. Len(From(ss, i + 1)) = Len(ss) - (i + 1) + 1
        <4>1. \A m \in i + 1 .. Len(ss) : ss[m] \in Seq(S)
          BY <2>1, ElementOfSeq
        <4>2. i + 1 <= Len(ss) /\ i + 1 \in Int /\ Len(ss) \in Int
          BY <2>1, <2>2
        <4> QED
          BY <4>1, <4>2, SubSeqProperties DEF From
      <3>2. Len(From(ss, i + 1)) >= 1
        BY <2>1, <2>2, <3>1
      <3> QED
        BY <3>2, EmptySeq
    <2>5. From(ss, i + 1) \in Seq(Seq(S))
      BY FromNext
    <2> QED
      BY <2>3, <2>4, <2>5, FlattenHead
  <1>3. ASSUME i = Len(ss) PROVE FlattenSeq(From(ss, i + 1)) = <<>>
    <2>1. Len(ss) \in Nat /\ i + 1 \in Int /\ Len(ss) < i + 1
      BY <1>3, LenProperties
    <2>2. From(ss, i + 1) = <<>>
      BY <2>1, SubSeqEmpty DEF From
    <2> QED
      BY <2>2 DEF FlattenSeq
  <1>4. FlattenSeq(From(ss, 0 + 1)) = FlattenSeq(ss)
    BY FromNext
  <1> QED
    BY <1>1, <1>2, <1>3, <1>4

(* A shape's nodes, and how many children they have.                        *)
Wg(t, a, e) == t[a].wgs[e]
Ds(t, a, e, d) == Wg(t, a, e).dts[d]
Fd(t, a, e, d, f) == Ds(t, a, e, d).fields[f]
Wgs(t, a) == Len(t[a].wgs)
Dss(t, a, e) == Len(Wg(t, a, e).dts)
Fds(t, a, e, d) == IF Ds(t, a, e, d).isString THEN Ds(t, a, e, d).length ELSE Len(Ds(t, a, e, d).fields)

LEMMA ShapeParts ==
  ASSUME NEW t \in Seq(ChannelShapes)
  PROVE  /\ Len(t) \in Nat /\ DOMAIN t = 1 .. Len(t)
         /\ \A a \in 1 .. Len(t) : /\ t[a] \in ChannelShapes /\ t[a].port \in Port
                                   /\ t[a].wgs \in Seq(GroupShapes) /\ Wgs(t, a) \in Nat
         /\ \A a \in 1 .. Len(t) : \A e \in 1 .. Wgs(t, a) :
              /\ Wg(t, a, e) \in GroupShapes /\ Wg(t, a, e).interval \in Interval /\ Wg(t, a, e).enabled \in BOOLEAN
              /\ Wg(t, a, e).dts \in Seq(DataSetShapes) /\ Dss(t, a, e) \in Nat
         /\ \A a \in 1 .. Len(t) : \A e \in 1 .. Wgs(t, a) : \A d \in 1 .. Dss(t, a, e) :
              /\ Ds(t, a, e, d) \in DataSetShapes /\ Ds(t, a, e, d).isString \in BOOLEAN
              /\ Ds(t, a, e, d).fields \in Seq(FieldShapes) /\ Ds(t, a, e, d).length \in 0 .. MaxString
              /\ Fds(t, a, e, d) \in Nat
         /\ \A a \in 1 .. Len(t) : \A e \in 1 .. Wgs(t, a) : \A d \in 1 .. Dss(t, a, e) : \A f \in 1 .. Fds(t, a, e, d) :
              ~ Ds(t, a, e, d).isString => Fd(t, a, e, d, f) \in FieldShapes
  <1>1. Len(t) \in Nat /\ DOMAIN t = 1 .. Len(t)
    BY LenProperties
  <1>2. ASSUME NEW a \in 1 .. Len(t)
        PROVE  /\ t[a] \in ChannelShapes /\ t[a].port \in Port
               /\ t[a].wgs \in Seq(GroupShapes) /\ Wgs(t, a) \in Nat
    <2>1. t[a] \in ChannelShapes
      BY ElementOfSeq
    <2>2. t[a].port \in Port /\ t[a].wgs \in Seq(GroupShapes)
      BY <2>1 DEF ChannelShapes
    <2> QED
      BY <2>1, <2>2, LenProperties DEF Wgs
  <1>3. ASSUME NEW a \in 1 .. Len(t), NEW e \in 1 .. Wgs(t, a)
        PROVE  /\ Wg(t, a, e) \in GroupShapes /\ Wg(t, a, e).interval \in Interval /\ Wg(t, a, e).enabled \in BOOLEAN
               /\ Wg(t, a, e).dts \in Seq(DataSetShapes) /\ Dss(t, a, e) \in Nat
    <2>1. Wg(t, a, e) \in GroupShapes
      BY <1>2, ElementOfSeq DEF Wg, Wgs
    <2>2. /\ Wg(t, a, e).interval \in Interval /\ Wg(t, a, e).enabled \in BOOLEAN
          /\ Wg(t, a, e).dts \in Seq(DataSetShapes)
      BY <2>1 DEF GroupShapes
    <2> QED
      BY <2>1, <2>2, LenProperties DEF Dss
  <1>4. ASSUME NEW a \in 1 .. Len(t), NEW e \in 1 .. Wgs(t, a), NEW d \in 1 .. Dss(t, a, e)
        PROVE  /\ Ds(t, a, e, d) \in DataSetShapes /\ Ds(t, a, e, d).isString \in BOOLEAN
               /\ Ds(t, a, e, d).fields \in Seq(FieldShapes) /\ Ds(t, a, e, d).length \in 0 .. MaxString
               /\ Fds(t, a, e, d) \in Nat
    <2>1. Ds(t, a, e, d) \in DataSetShapes
      BY <1>3, ElementOfSeq DEF Ds, Dss
    <2>2. /\ Ds(t, a, e, d).isString \in BOOLEAN
          /\ Ds(t, a, e, d).fields \in Seq(FieldShapes) /\ Ds(t, a, e, d).length \in 0 .. MaxString
      BY <2>1 DEF DataSetShapes
    <2>3. Len(Ds(t, a, e, d).fields) \in Nat /\ Ds(t, a, e, d).length \in Nat
      BY <2>2, LenProperties, ConstantsOK DEF ConstantsOK
    <2> QED
      BY <2>1, <2>2, <2>3 DEF Fds
  <1>5. ASSUME NEW a \in 1 .. Len(t), NEW e \in 1 .. Wgs(t, a), NEW d \in 1 .. Dss(t, a, e), NEW f \in 1 .. Fds(t, a, e, d),
               ~ Ds(t, a, e, d).isString
        PROVE  Fd(t, a, e, d, f) \in FieldShapes
    BY <1>4, <1>5, ElementOfSeq DEF Fd, Fds
  <1> QED
    BY <1>1, <1>2, <1>3, <1>4, <1>5

(* The lines left behind the l-th Field of a DataSet, the k-th DataSet of a *)
(* WriterGroup, the j-th WriterGroup of a Channel and the i-th Channel.     *)
DataSetLine(d) == IF d.isString THEN <<"add", "string", QuotedOf[d.length]>> ELSE <<"add", "ds">>
FieldLines(d, g) == IF d.isString THEN <<>> ELSE [x \in DOMAIN d.fields |-> FieldLine(d.fields[x], g)]
FieldsLeft(d, l, g) == From(FieldLines(d, g), l + 1)
DataSetsLeft(w, k, g) == FlattenSeq(From([x \in DOMAIN w.dts |-> DataSetLines(w.dts[x], g)], k + 1))
GroupsLeft(h, j, g) == FlattenSeq(From([x \in DOMAIN h.wgs |-> GroupLines(h.wgs[x], g)], j + 1))
ChannelsLeft(t, i, g) == FlattenSeq(From([x \in DOMAIN t |-> ChannelLines(t[x], g)], i + 1))

ChannelLine(h) == <<"add", "ch", Numeral[h.port]>>

LEMMA LinesAre ==
  ASSUME NEW g \in Behind
  PROVE  /\ \A h \in ChannelShapes : ChannelLine(h) \in Line
         /\ \A w \in GroupShapes : GroupLine(w) \in Line
         /\ \A d \in DataSetShapes : DataSetLine(d) \in Line
  <1>1. ASSUME NEW h \in ChannelShapes PROVE ChannelLine(h) \in Line
    <2>1. h.port \in Port
      BY DEF ChannelShapes
    <2>2. {"add", "ch", Numeral[h.port]} \subseteq Token
      BY <2>1, Words DEF PrintedWords, PrintedNumbers
    <2> QED
      BY <2>2 DEF ChannelLine, Line
  <1>2. ASSUME NEW w \in GroupShapes PROVE GroupLine(w) \in Line
    <2>1. w.interval \in Interval
      BY DEF GroupShapes
    <2>2. {"add", "wg", "intv", "off", Numeral[w.interval]} \subseteq Token
      BY <2>1, Words DEF PrintedWords, PrintedNumbers
    <2>3. /\ <<"add", "wg">> \in Line /\ <<>> \in Line
          /\ <<"intv", Numeral[w.interval]>> \in Line /\ <<"off">> \in Line
      BY <2>2 DEF Line
    <2>4. PICK x, y : /\ x = IF w.interval = DefaultInterval THEN <<>> ELSE <<"intv", Numeral[w.interval]>>
                      /\ y = IF w.enabled THEN <<>> ELSE <<"off">>
      OBVIOUS
    <2>5. x \in Line /\ y \in Line
      BY <2>3, <2>4
    <2>6. (<<"add", "wg">> \o x) \o y \in Line
      BY <2>3, <2>5, ConcatProperties DEF Line
    <2> QED
      BY <2>4, <2>6 DEF GroupLine
  <1>3. ASSUME NEW d \in DataSetShapes PROVE DataSetLine(d) \in Line
    <2>1. d.length \in 0 .. MaxString
      BY DEF DataSetShapes
    <2>2. {"add", "string", "ds", QuotedOf[d.length]} \subseteq Token
      BY <2>1, Words DEF PrintedWords
    <2> QED
      BY <2>2 DEF DataSetLine, Line
  <1> QED
    BY <1>1, <1>2, <1>3

\* What is left in one node: all of it, nothing, or one child more.
LEMMA FieldsLeftAre ==
  ASSUME NEW g \in Behind, NEW d \in DataSetShapes, NEW l \in Nat
  PROVE  /\ DataSetLines(d, g) = <<DataSetLine(d)>> \o FieldsLeft(d, 0, g)
         /\ l <= Len(d.fields) \/ d.isString => FieldsLeft(d, l, g) \in Seq(Line)
         /\ ~ d.isString /\ l < Len(d.fields) =>
              FieldsLeft(d, l, g) = <<FieldLine(d.fields[l + 1], g)>> \o FieldsLeft(d, l + 1, g)
         /\ d.isString \/ l = Len(d.fields) => FieldsLeft(d, l, g) = <<>>
  <1>1. d.isString \in BOOLEAN /\ d.fields \in Seq(FieldShapes) /\ Len(d.fields) \in Nat /\ DOMAIN d.fields = 1 .. Len(d.fields)
    BY LenProperties DEF DataSetShapes
  <1>2. CASE d.isString
    <2>1. \A n \in Nat : FieldsLeft(d, n, g) = <<>>
      <3>1. ASSUME NEW n \in Nat PROVE FieldsLeft(d, n, g) = <<>>
        <4>1. FieldLines(d, g) = <<>> /\ Len(<<>>) = 0
          BY <1>2 DEF FieldLines
        <4>2. SubSeq(<<>>, n + 1, 0) = <<>>
          BY SubSeqEmpty
        <4> QED
          BY <4>1, <4>2 DEF FieldsLeft, From
      <3> QED
        BY <3>1
    <2>2. DataSetLine(d) \in Line
      BY LinesAre
    <2>3. DataSetLines(d, g) = <<DataSetLine(d)>>
      BY <1>2 DEF DataSetLines, DataSetLine
    <2>4. <<DataSetLine(d)>> \in Seq(Line)
      BY <2>2
    <2>5. <<DataSetLine(d)>> \o <<>> = <<DataSetLine(d)>>
      BY <2>4, ConcatEmptySeq
    <2> QED
      BY <1>2, <2>1, <2>3, <2>5, EmptySeq
  <1>3. CASE ~ d.isString
    <2> DEFINE f == [x \in DOMAIN d.fields |-> FieldLine(d.fields[x], g)]
    <2>1. FieldLines(d, g) = f
      BY <1>3 DEF FieldLines
    <2>2. f = [k \in DOMAIN d.fields |-> f[k]] /\ \A k \in DOMAIN d.fields : f[k] = FieldLine(d.fields[k], g)
      OBVIOUS
    <2>3. DataSetLines(d, g) = << <<"add", "ds">> >> \o f
      BY <1>3 DEF DataSetLines
    <2> HIDE DEF f
    <2>4. \A k \in DOMAIN d.fields : f[k] \in Line
      BY <1>1, <2>2, LinesTyped, ElementOfSeq
    <2>5. f \in Seq(Line) /\ Len(f) = Len(d.fields)
      <3>1. PICK s : s = d.fields
        OBVIOUS
      <3>2. s \in Seq(FieldShapes) /\ f = [k \in DOMAIN s |-> f[k]] /\ \A k \in DOMAIN s : f[k] \in Line
        BY <1>1, <2>2, <2>4, <3>1
      <3>3. f \in Seq(Line) /\ Len(f) = Len(s)
        BY <3>2, MappedLen
      <3> QED
        BY <3>1, <3>3
    <2>6. From(f, 0 + 1) = f
      BY <2>5, SubSeqFull DEF From
    <2>7. DataSetLine(d) = <<"add", "ds">>
      BY <1>3 DEF DataSetLine
    <2>8. ASSUME l <= Len(d.fields)
          PROVE  /\ FieldsLeft(d, l, g) \in Seq(Line)
                 /\ l < Len(d.fields) => FieldsLeft(d, l, g) = <<f[l + 1]>> \o FieldsLeft(d, l + 1, g)
                 /\ l = Len(d.fields) => FieldsLeft(d, l, g) = <<>>
      <3>1. l \in 0 .. Len(f)
        BY <1>1, <2>5, <2>8
      <3>2. /\ From(f, l + 1) \in Seq(Line)
            /\ l < Len(f) => From(f, l + 1) = <<f[l + 1]>> \o From(f, l + 1 + 1)
            /\ l = Len(f) => From(f, l + 1) = <<>>
        BY <2>5, <3>1, FromNext
      <3> QED
        BY <2>1, <2>5, <3>2 DEF FieldsLeft
    <2>9. l < Len(d.fields) => l + 1 \in DOMAIN d.fields /\ l <= Len(d.fields)
      BY <1>1
    <2>10. l = Len(d.fields) => l <= Len(d.fields)
      BY <1>1
    <2> QED
      BY <1>3, <2>1, <2>2, <2>3, <2>6, <2>7, <2>8, <2>9, <2>10 DEF FieldsLeft
  <1> QED
    BY <1>1, <1>2, <1>3

LEMMA DataSetsLeftAre ==
  ASSUME NEW g \in Behind, NEW w \in GroupShapes, NEW k \in 0 .. Len(w.dts)
  PROVE  /\ GroupLines(w, g) = <<GroupLine(w)>> \o DataSetsLeft(w, 0, g)
         /\ DataSetsLeft(w, k, g) \in Seq(Line)
         /\ k < Len(w.dts) => DataSetsLeft(w, k, g) = DataSetLines(w.dts[k + 1], g) \o DataSetsLeft(w, k + 1, g)
         /\ k = Len(w.dts) => DataSetsLeft(w, k, g) = <<>>
  <1> DEFINE f == [x \in DOMAIN w.dts |-> DataSetLines(w.dts[x], g)]
  <1>1. w.dts \in Seq(DataSetShapes) /\ Len(w.dts) \in Nat /\ DOMAIN w.dts = 1 .. Len(w.dts)
    BY LenProperties DEF GroupShapes
  <1>2. f = [x \in DOMAIN w.dts |-> f[x]] /\ \A x \in DOMAIN w.dts : f[x] = DataSetLines(w.dts[x], g)
    OBVIOUS
  <1>3. GroupLines(w, g) = <<GroupLine(w)>> \o FlattenSeq(f) /\ \A n : DataSetsLeft(w, n, g) = FlattenSeq(From(f, n + 1))
    BY DEF GroupLines, DataSetsLeft
  <1> HIDE DEF f
  <1>4. ASSUME NEW x \in DOMAIN w.dts PROVE f[x] \in Seq(Line)
    <2>1. w.dts[x] \in DataSetShapes
      BY <1>1, ElementOfSeq
    <2>2. DataSetLines(w.dts[x], g) \in Seq(Line)
      BY <2>1, LinesTyped
    <2> QED
      BY <1>2, <2>2
  <1>5. f \in Seq(Seq(Line)) /\ Len(f) = Len(w.dts)
    <2>1. PICK s : s = w.dts
      OBVIOUS
    <2>2. s \in Seq(DataSetShapes) /\ f = [n \in DOMAIN s |-> f[n]] /\ \A n \in DOMAIN s : f[n] \in Seq(Line)
      BY <1>1, <1>2, <1>4, <2>1
    <2>3. f \in Seq(Seq(Line)) /\ Len(f) = Len(s)
      BY <2>2, MappedLen
    <2> QED
      BY <2>1, <2>3
  <1>6. k < Len(w.dts) => k + 1 \in DOMAIN w.dts
    BY <1>1
  <1>7. /\ FlattenSeq(From(f, k + 1)) \in Seq(Line)
        /\ k < Len(f) => FlattenSeq(From(f, k + 1)) = f[k + 1] \o FlattenSeq(From(f, k + 1 + 1))
        /\ k = Len(f) => FlattenSeq(From(f, k + 1)) = <<>>
        /\ FlattenSeq(From(f, 0 + 1)) = FlattenSeq(f)
    <2>1. k \in 0 .. Len(f)
      BY <1>5
    <2> QED
      BY <1>5, <2>1, FlattenNext
  <1> QED
    BY <1>2, <1>3, <1>5, <1>6, <1>7

LEMMA GroupsLeftAre ==
  ASSUME NEW g \in Behind, NEW h \in ChannelShapes, NEW j \in 0 .. Len(h.wgs)
  PROVE  /\ ChannelLines(h, g) = <<ChannelLine(h)>> \o GroupsLeft(h, 0, g)
         /\ GroupsLeft(h, j, g) \in Seq(Line)
         /\ j < Len(h.wgs) => GroupsLeft(h, j, g) = GroupLines(h.wgs[j + 1], g) \o GroupsLeft(h, j + 1, g)
         /\ j = Len(h.wgs) => GroupsLeft(h, j, g) = <<>>
  <1> DEFINE f == [x \in DOMAIN h.wgs |-> GroupLines(h.wgs[x], g)]
  <1>1. h.wgs \in Seq(GroupShapes) /\ Len(h.wgs) \in Nat /\ DOMAIN h.wgs = 1 .. Len(h.wgs)
    BY LenProperties DEF ChannelShapes
  <1>2. f = [x \in DOMAIN h.wgs |-> f[x]] /\ \A x \in DOMAIN h.wgs : f[x] = GroupLines(h.wgs[x], g)
    OBVIOUS
  <1>3. ChannelLines(h, g) = <<ChannelLine(h)>> \o FlattenSeq(f) /\ \A n : GroupsLeft(h, n, g) = FlattenSeq(From(f, n + 1))
    BY DEF ChannelLines, ChannelLine, GroupsLeft
  <1> HIDE DEF f
  <1>4. ASSUME NEW x \in DOMAIN h.wgs PROVE f[x] \in Seq(Line)
    <2>1. h.wgs[x] \in GroupShapes
      BY <1>1, ElementOfSeq
    <2>2. GroupLines(h.wgs[x], g) \in Seq(Line)
      BY <2>1, LinesTyped
    <2> QED
      BY <1>2, <2>2
  <1>5. f \in Seq(Seq(Line)) /\ Len(f) = Len(h.wgs)
    <2>1. PICK s : s = h.wgs
      OBVIOUS
    <2>2. s \in Seq(GroupShapes) /\ f = [k \in DOMAIN s |-> f[k]] /\ \A k \in DOMAIN s : f[k] \in Seq(Line)
      BY <1>1, <1>2, <1>4, <2>1
    <2>3. f \in Seq(Seq(Line)) /\ Len(f) = Len(s)
      BY <2>2, MappedLen
    <2> QED
      BY <2>1, <2>3
  <1>6. j < Len(h.wgs) => j + 1 \in DOMAIN h.wgs
    BY <1>1
  <1>7. /\ FlattenSeq(From(f, j + 1)) \in Seq(Line)
        /\ j < Len(f) => FlattenSeq(From(f, j + 1)) = f[j + 1] \o FlattenSeq(From(f, j + 1 + 1))
        /\ j = Len(f) => FlattenSeq(From(f, j + 1)) = <<>>
        /\ FlattenSeq(From(f, 0 + 1)) = FlattenSeq(f)
    <2>1. j \in 0 .. Len(f)
      BY <1>5
    <2> QED
      BY <1>5, <2>1, FlattenNext
  <1> QED
    BY <1>2, <1>3, <1>5, <1>6, <1>7

LEMMA ChannelsLeftAre ==
  ASSUME NEW g \in Behind, NEW t \in Seq(ChannelShapes), NEW i \in 0 .. Len(t)
  PROVE  /\ PrintToFile(t, g) = ChannelsLeft(t, 0, g)
         /\ ChannelsLeft(t, i, g) \in Seq(Line)
         /\ i < Len(t) => ChannelsLeft(t, i, g) = ChannelLines(t[i + 1], g) \o ChannelsLeft(t, i + 1, g)
         /\ i = Len(t) => ChannelsLeft(t, i, g) = <<>>
  <1> DEFINE f == [x \in DOMAIN t |-> ChannelLines(t[x], g)]
  <1>1. Len(t) \in Nat /\ DOMAIN t = 1 .. Len(t)
    BY LenProperties
  <1>2. f = [x \in DOMAIN t |-> f[x]] /\ \A x \in DOMAIN t : f[x] = ChannelLines(t[x], g)
    OBVIOUS
  <1>3. PrintToFile(t, g) = FlattenSeq(f) /\ \A n : ChannelsLeft(t, n, g) = FlattenSeq(From(f, n + 1))
    BY DEF PrintToFile, ChannelsLeft
  <1> HIDE DEF f
  <1>4. ASSUME NEW x \in DOMAIN t PROVE f[x] \in Seq(Line)
    <2>1. t[x] \in ChannelShapes
      BY <1>1, ElementOfSeq
    <2>2. ChannelLines(t[x], g) \in Seq(Line)
      BY <2>1, LinesTyped
    <2> QED
      BY <1>2, <2>2
  <1>5. f \in Seq(Seq(Line)) /\ Len(f) = Len(t)
    BY <1>1, <1>2, <1>4, MappedLen
  <1>6. i < Len(t) => i + 1 \in DOMAIN t
    BY <1>1
  <1>7. /\ FlattenSeq(From(f, i + 1)) \in Seq(Line)
        /\ i < Len(f) => FlattenSeq(From(f, i + 1)) = f[i + 1] \o FlattenSeq(From(f, i + 1 + 1))
        /\ i = Len(f) => FlattenSeq(From(f, i + 1)) = <<>>
        /\ FlattenSeq(From(f, 0 + 1)) = FlattenSeq(f)
    <2>1. i \in 0 .. Len(f)
      BY <1>5
    <2> QED
      BY <1>5, <2>1, FlattenNext
  <1> QED
    BY <1>2, <1>3, <1>5, <1>6, <1>7

-----------------------------------------------------------------------------
(* How far a load has come: Channel i, its WriterGroup j, the DataSet k of  *)
(* that and its Field l were added last, 0 where there is none.             *)
InShape(t, i, j, k, l) ==
  /\ i \in 0 .. Len(t)
  /\ IF i = 0 THEN j = 0 ELSE j \in 0 .. Wgs(t, i)
  /\ IF j = 0 THEN k = 0 ELSE k \in 0 .. Dss(t, i, j)
  /\ IF k = 0 THEN l = 0 ELSE l \in 0 .. Fds(t, i, j, k)

\* Nothing is left below the last DataSet, WriterGroup and Channel.
FieldsDone(t, i, j, k, l) == k = 0 \/ l = Fds(t, i, j, k)
DataSetsDone(t, i, j, k) == j = 0 \/ k = Dss(t, i, j)
GroupsDone(t, i, j) == i = 0 \/ j = Wgs(t, i)

FieldPart(t, g, i, j, k, l) == IF k = 0 THEN <<>> ELSE FieldsLeft(Ds(t, i, j, k), l, g)
DataSetPart(t, g, i, j, k) == IF j = 0 THEN <<>> ELSE DataSetsLeft(Wg(t, i, j), k, g)
GroupPart(t, g, i, j) == IF i = 0 THEN <<>> ELSE GroupsLeft(t[i], j, g)
LeftOver(t, g, i, j, k, l) ==
  FieldPart(t, g, i, j, k, l) \o (DataSetPart(t, g, i, j, k) \o (GroupPart(t, g, i, j) \o ChannelsLeft(t, i, g)))

LEMMA Positions ==
  ASSUME NEW t \in Seq(ChannelShapes), NEW i, NEW j, NEW k, NEW l, InShape(t, i, j, k, l)
  PROVE  /\ i \in Nat /\ j \in Nat /\ k \in Nat /\ l \in Nat /\ i \in 0 .. Len(t)
         /\ i # 0 => i \in 1 .. Len(t) /\ j \in 0 .. Wgs(t, i)
         /\ j # 0 => i # 0 /\ j \in 1 .. Wgs(t, i) /\ k \in 0 .. Dss(t, i, j)
         /\ k # 0 => j # 0 /\ k \in 1 .. Dss(t, i, j) /\ l \in 0 .. Fds(t, i, j, k)
         /\ l # 0 => k # 0 /\ l \in 1 .. Fds(t, i, j, k)
  <1>1. i \in Nat /\ i \in 0 .. Len(t) /\ (i # 0 => i \in 1 .. Len(t) /\ j \in 0 .. Wgs(t, i))
    BY LenProperties DEF InShape
  <1>2. i # 0 => Wgs(t, i) \in Nat
    BY <1>1, ShapeParts
  <1>3. j \in Nat /\ (j # 0 => i # 0 /\ j \in 1 .. Wgs(t, i) /\ k \in 0 .. Dss(t, i, j))
    BY <1>1, <1>2 DEF InShape
  <1>4. j # 0 => Dss(t, i, j) \in Nat
    BY <1>1, <1>3, ShapeParts
  <1>5. k \in Nat /\ (k # 0 => j # 0 /\ k \in 1 .. Dss(t, i, j) /\ l \in 0 .. Fds(t, i, j, k))
    BY <1>3, <1>4 DEF InShape
  <1>6. k # 0 => Fds(t, i, j, k) \in Nat
    BY <1>1, <1>3, <1>5, ShapeParts
  <1>7. l \in Nat /\ (l # 0 => k # 0 /\ l \in 1 .. Fds(t, i, j, k))
    BY <1>5, <1>6 DEF InShape
  <1> QED
    BY <1>1, <1>3, <1>5, <1>7

LEMMA PartsTyped ==
  ASSUME NEW t \in Seq(ChannelShapes), NEW g \in Behind, NEW i, NEW j, NEW k, NEW l, InShape(t, i, j, k, l)
  PROVE  /\ FieldPart(t, g, i, j, k, l) \in Seq(Line) /\ DataSetPart(t, g, i, j, k) \in Seq(Line)
         /\ GroupPart(t, g, i, j) \in Seq(Line) /\ ChannelsLeft(t, i, g) \in Seq(Line)
         /\ FieldsDone(t, i, j, k, l) => FieldPart(t, g, i, j, k, l) = <<>>
         /\ DataSetsDone(t, i, j, k) => DataSetPart(t, g, i, j, k) = <<>>
         /\ GroupsDone(t, i, j) => GroupPart(t, g, i, j) = <<>>
         /\ i = Len(t) => ChannelsLeft(t, i, g) = <<>>
  <1>0. <<>> \in Seq(Line)
    BY EmptySeq
  <1>1. ChannelsLeft(t, i, g) \in Seq(Line) /\ (i = Len(t) => ChannelsLeft(t, i, g) = <<>>)
    BY Positions, ChannelsLeftAre
  <1>2. GroupPart(t, g, i, j) \in Seq(Line) /\ (GroupsDone(t, i, j) => GroupPart(t, g, i, j) = <<>>)
    <2>1. CASE i = 0
      BY <1>0, <2>1 DEF GroupPart
    <2>2. CASE i # 0
      <3>1. t[i] \in ChannelShapes /\ j \in 0 .. Len(t[i].wgs)
        BY <2>2, Positions, ShapeParts DEF Wgs
      <3>2. GroupsLeft(t[i], j, g) \in Seq(Line) /\ (j = Len(t[i].wgs) => GroupsLeft(t[i], j, g) = <<>>)
        BY <3>1, GroupsLeftAre
      <3> QED
        BY <2>2, <3>2 DEF GroupPart, GroupsDone, Wgs
    <2> QED
      BY <2>1, <2>2
  <1>3. DataSetPart(t, g, i, j, k) \in Seq(Line) /\ (DataSetsDone(t, i, j, k) => DataSetPart(t, g, i, j, k) = <<>>)
    <2>1. CASE j = 0
      BY <1>0, <2>1 DEF DataSetPart
    <2>2. CASE j # 0
      <3>1. i \in 1 .. Len(t) /\ j \in 1 .. Wgs(t, i) /\ k \in 0 .. Dss(t, i, j)
        BY <2>2, Positions
      <3>2. PICK w : w = Wg(t, i, j)
        OBVIOUS
      <3>3. w \in GroupShapes /\ k \in 0 .. Len(w.dts)
        BY <3>1, <3>2, ShapeParts DEF Dss
      <3>4. DataSetsLeft(w, k, g) \in Seq(Line) /\ (k = Len(w.dts) => DataSetsLeft(w, k, g) = <<>>)
        BY <3>3, DataSetsLeftAre
      <3> QED
        BY <2>2, <3>2, <3>4 DEF DataSetPart, DataSetsDone, Dss
    <2> QED
      BY <2>1, <2>2
  <1>4. FieldPart(t, g, i, j, k, l) \in Seq(Line) /\ (FieldsDone(t, i, j, k, l) => FieldPart(t, g, i, j, k, l) = <<>>)
    <2>1. CASE k = 0
      BY <1>0, <2>1 DEF FieldPart
    <2>2. CASE k # 0
      <3>1. i \in 1 .. Len(t) /\ j \in 1 .. Wgs(t, i) /\ k \in 1 .. Dss(t, i, j) /\ l \in 0 .. Fds(t, i, j, k) /\ l \in Nat
        BY <2>2, Positions
      <3>2. PICK d : d = Ds(t, i, j, k)
        OBVIOUS
      <3>3. d \in DataSetShapes /\ (l <= Len(d.fields) \/ d.isString)
        <4>1. d \in DataSetShapes /\ d.fields \in Seq(FieldShapes)
          BY <3>1, <3>2, ShapeParts
        <4>2. Len(d.fields) \in Nat
          BY <4>1, LenProperties
        <4> QED
          BY <3>1, <3>2, <4>1, <4>2 DEF Fds
      <3>4. /\ FieldsLeft(d, l, g) \in Seq(Line)
            /\ d.isString \/ l = Len(d.fields) => FieldsLeft(d, l, g) = <<>>
        BY <3>1, <3>3, FieldsLeftAre
      <3>5. l = Fds(t, i, j, k) => d.isString \/ l = Len(d.fields)
        BY <3>2 DEF Fds
      <3> QED
        BY <2>2, <3>2, <3>4, <3>5 DEF FieldPart, FieldsDone
    <2> QED
      BY <2>1, <2>2
  <1> QED
    BY <1>1, <1>2, <1>3, <1>4

(* The line that comes next, and what is left behind it.                    *)
LEMMA NextFieldLine ==
  ASSUME NEW t \in Seq(ChannelShapes), NEW g \in Behind, NEW i, NEW j, NEW k, NEW l, InShape(t, i, j, k, l),
         k # 0, ~ Ds(t, i, j, k).isString, l < Fds(t, i, j, k)
  PROVE  /\ InShape(t, i, j, k, l + 1) /\ FieldLine(Fd(t, i, j, k, l + 1), g) \in Line
         /\ LeftOver(t, g, i, j, k, l) = <<FieldLine(Fd(t, i, j, k, l + 1), g)>> \o LeftOver(t, g, i, j, k, l + 1)
         /\ LeftOver(t, g, i, j, k, l + 1) \in Seq(Line)
  <1>1. i \in 1 .. Len(t) /\ j \in 1 .. Wgs(t, i) /\ k \in 1 .. Dss(t, i, j) /\ l \in 0 .. Fds(t, i, j, k) /\ l \in Nat
    BY Positions
  <1>2. Fds(t, i, j, k) \in Nat /\ l + 1 \in 1 .. Fds(t, i, j, k)
    BY <1>1, ShapeParts
  <1>3. InShape(t, i, j, k, l + 1)
    BY <1>2 DEF InShape
  <1>4. PICK d, x : d = Ds(t, i, j, k) /\ x = FieldLine(Fd(t, i, j, k, l + 1), g)
    OBVIOUS
  <1>5. d \in DataSetShapes /\ l < Len(d.fields) /\ x = FieldLine(d.fields[l + 1], g)
    BY <1>1, <1>4, ShapeParts DEF Fds, Fd
  <1>6. Fd(t, i, j, k, l + 1) \in FieldShapes
    BY <1>1, <1>2, ShapeParts
  <1>7. x \in Line
    BY <1>4, <1>6, LinesTyped
  <1>8. FieldsLeft(d, l, g) = <<x>> \o FieldsLeft(d, l + 1, g)
    BY <1>1, <1>4, <1>5, FieldsLeftAre
  <1>9. PICK u, v : /\ u = FieldPart(t, g, i, j, k, l + 1)
                    /\ v = DataSetPart(t, g, i, j, k) \o (GroupPart(t, g, i, j) \o ChannelsLeft(t, i, g))
    OBVIOUS
  <1>10. u \in Seq(Line) /\ v \in Seq(Line)
    BY <1>3, <1>9, PartsTyped, ConcatProperties
  <1>11. FieldPart(t, g, i, j, k, l) = <<x>> \o u
    BY <1>4, <1>8, <1>9 DEF FieldPart
  <1>12. (<<x>> \o u) \o v = <<x>> \o (u \o v) /\ u \o v \in Seq(Line)
    BY <1>7, <1>10, InFront
  <1> QED
    BY <1>3, <1>4, <1>7, <1>9, <1>11, <1>12 DEF LeftOver

LEMMA NextDataSetLine ==
  ASSUME NEW t \in Seq(ChannelShapes), NEW g \in Behind, NEW i, NEW j, NEW k, NEW l, InShape(t, i, j, k, l),
         j # 0, k < Dss(t, i, j), FieldsDone(t, i, j, k, l)
  PROVE  /\ InShape(t, i, j, k + 1, 0) /\ DataSetLine(Ds(t, i, j, k + 1)) \in Line
         /\ LeftOver(t, g, i, j, k, l) = <<DataSetLine(Ds(t, i, j, k + 1))>> \o LeftOver(t, g, i, j, k + 1, 0)
         /\ LeftOver(t, g, i, j, k + 1, 0) \in Seq(Line)
  <1>1. i \in 1 .. Len(t) /\ j \in 1 .. Wgs(t, i) /\ k \in 0 .. Dss(t, i, j) /\ k \in Nat
    BY Positions
  <1>2. Dss(t, i, j) \in Nat /\ k + 1 \in 1 .. Dss(t, i, j) /\ k + 1 # 0
    BY <1>1, ShapeParts
  <1>3. InShape(t, i, j, k + 1, 0)
    <2>1. Fds(t, i, j, k + 1) \in Nat
      BY <1>1, <1>2, ShapeParts
    <2> QED
      BY <1>1, <1>2, <2>1 DEF InShape
  <1>4. PICK w, d, x : w = Wg(t, i, j) /\ d = Ds(t, i, j, k + 1) /\ x = DataSetLine(d)
    OBVIOUS
  <1>5. w \in GroupShapes /\ k \in 0 .. Len(w.dts) /\ k < Len(w.dts) /\ d = w.dts[k + 1] /\ d \in DataSetShapes
    BY <1>1, <1>2, <1>4, ShapeParts DEF Dss, Ds
  <1>6. x \in Line
    BY <1>4, <1>5, LinesAre
  <1>7. DataSetsLeft(w, k, g) = DataSetLines(d, g) \o DataSetsLeft(w, k + 1, g)
    BY <1>5, DataSetsLeftAre
  <1>8. DataSetLines(d, g) = <<x>> \o FieldsLeft(d, 0, g)
    BY <1>4, <1>5, FieldsLeftAre
  <1>9. PICK u, v, y : /\ u = FieldPart(t, g, i, j, k + 1, 0) /\ v = DataSetPart(t, g, i, j, k + 1)
                       /\ y = GroupPart(t, g, i, j) \o ChannelsLeft(t, i, g)
    OBVIOUS
  <1>10. u \in Seq(Line) /\ v \in Seq(Line) /\ y \in Seq(Line)
    BY <1>3, <1>9, PartsTyped, ConcatProperties
  <1>11. u = FieldsLeft(d, 0, g) /\ v = DataSetsLeft(w, k + 1, g)
    BY <1>2, <1>4, <1>9 DEF FieldPart, DataSetPart
  <1>12. DataSetPart(t, g, i, j, k) = (<<x>> \o u) \o v
    BY <1>4, <1>7, <1>8, <1>11 DEF DataSetPart
  <1>13. FieldPart(t, g, i, j, k, l) = <<>>
    BY PartsTyped
  <1>14. LeftOver(t, g, i, j, k, l) = <<>> \o (((<<x>> \o u) \o v) \o y)
    BY <1>9, <1>12, <1>13 DEF LeftOver
  <1>15. (<<x>> \o u) \o v = <<x>> \o (u \o v) /\ u \o v \in Seq(Line)
    BY <1>6, <1>10, LinesInFront
  <1>16. (<<x>> \o (u \o v)) \o y = <<x>> \o ((u \o v) \o y) /\ (u \o v) \o y \in Seq(Line)
    <2>1. PICK z : z = u \o v
      OBVIOUS
    <2>2. z \in Seq(Line)
      BY <1>15, <2>1
    <2>3. (<<x>> \o z) \o y = <<x>> \o (z \o y) /\ z \o y \in Seq(Line)
      BY <1>6, <1>10, <2>2, LinesInFront
    <2> QED
      BY <2>1, <2>3
  <1>17. (u \o v) \o y = u \o (v \o y)
    BY <1>10, LinesInFront
  <1>18. <<x>> \o ((u \o v) \o y) \in Seq(Line)
    <2>1. <<x>> \in Seq(Line)
      BY <1>6
    <2> QED
      BY <1>16, <2>1, ConcatProperties
  <1>19. LeftOver(t, g, i, j, k, l) = <<x>> \o (u \o (v \o y))
    BY <1>14, <1>15, <1>16, <1>17, <1>18, ConcatEmptySeq
  <1>20. LeftOver(t, g, i, j, k + 1, 0) = u \o (v \o y)
    BY <1>9 DEF LeftOver
  <1> QED
    BY <1>3, <1>4, <1>6, <1>16, <1>17, <1>19, <1>20

LEMMA NextGroupLine ==
  ASSUME NEW t \in Seq(ChannelShapes), NEW g \in Behind, NEW i, NEW j, NEW k, NEW l, InShape(t, i, j, k, l),
         i # 0, j < Wgs(t, i), DataSetsDone(t, i, j, k), FieldsDone(t, i, j, k, l)
  PROVE  /\ InShape(t, i, j + 1, 0, 0) /\ GroupLine(Wg(t, i, j + 1)) \in Line
         /\ LeftOver(t, g, i, j, k, l) = <<GroupLine(Wg(t, i, j + 1))>> \o LeftOver(t, g, i, j + 1, 0, 0)
         /\ LeftOver(t, g, i, j + 1, 0, 0) \in Seq(Line)
  <1>1. i \in 1 .. Len(t) /\ j \in 0 .. Wgs(t, i) /\ j \in Nat
    BY Positions
  <1>2. Wgs(t, i) \in Nat /\ j + 1 \in 1 .. Wgs(t, i) /\ j + 1 # 0
    BY <1>1, ShapeParts
  <1>3. InShape(t, i, j + 1, 0, 0)
    <2>1. Dss(t, i, j + 1) \in Nat
      BY <1>1, <1>2, ShapeParts
    <2> QED
      BY <1>1, <1>2, <2>1 DEF InShape
  <1>4. PICK h, w, x : h = t[i] /\ w = Wg(t, i, j + 1) /\ x = GroupLine(w)
    OBVIOUS
  <1>5. h \in ChannelShapes /\ j \in 0 .. Len(h.wgs) /\ j < Len(h.wgs) /\ w = h.wgs[j + 1] /\ w \in GroupShapes
    BY <1>1, <1>2, <1>4, ShapeParts DEF Wgs, Wg
  <1>6. x \in Line
    BY <1>4, <1>5, LinesAre
  <1>7. GroupsLeft(h, j, g) = GroupLines(w, g) \o GroupsLeft(h, j + 1, g)
    BY <1>5, GroupsLeftAre
  <1>8. GroupLines(w, g) = <<x>> \o DataSetsLeft(w, 0, g)
    <2>1. 0 \in 0 .. Len(w.dts)
      BY <1>1, <1>2, <1>4, ShapeParts DEF Dss
    <2> QED
      BY <1>4, <1>5, <2>1, DataSetsLeftAre
  <1>9. PICK u, v, y : /\ u = DataSetPart(t, g, i, j + 1, 0) /\ v = GroupPart(t, g, i, j + 1)
                       /\ y = ChannelsLeft(t, i, g)
    OBVIOUS
  <1>10. u \in Seq(Line) /\ v \in Seq(Line) /\ y \in Seq(Line)
    BY <1>3, <1>9, PartsTyped
  <1>11. u = DataSetsLeft(w, 0, g) /\ v = GroupsLeft(h, j + 1, g)
    BY <1>2, <1>4, <1>9 DEF DataSetPart, GroupPart
  <1>12. GroupPart(t, g, i, j) = (<<x>> \o u) \o v
    BY <1>4, <1>7, <1>8, <1>11 DEF GroupPart
  <1>13. FieldPart(t, g, i, j, k, l) = <<>> /\ DataSetPart(t, g, i, j, k) = <<>> /\ FieldPart(t, g, i, j + 1, 0, 0) = <<>>
    BY PartsTyped DEF FieldPart
  <1>14. LeftOver(t, g, i, j, k, l) = <<>> \o (<<>> \o (((<<x>> \o u) \o v) \o y))
    BY <1>9, <1>12, <1>13 DEF LeftOver
  <1>15. (<<x>> \o u) \o v = <<x>> \o (u \o v) /\ u \o v \in Seq(Line)
    BY <1>6, <1>10, LinesInFront
  <1>16. (<<x>> \o (u \o v)) \o y = <<x>> \o ((u \o v) \o y) /\ (u \o v) \o y \in Seq(Line)
    <2>1. PICK z : z = u \o v
      OBVIOUS
    <2>2. z \in Seq(Line)
      BY <1>15, <2>1
    <2>3. (<<x>> \o z) \o y = <<x>> \o (z \o y) /\ z \o y \in Seq(Line)
      BY <1>6, <1>10, <2>2, LinesInFront
    <2> QED
      BY <2>1, <2>3
  <1>17. (u \o v) \o y = u \o (v \o y)
    BY <1>10, LinesInFront
  <1>18. <<x>> \o ((u \o v) \o y) \in Seq(Line)
    <2>1. <<x>> \in Seq(Line)
      BY <1>6
    <2> QED
      BY <1>16, <2>1, ConcatProperties
  <1>19. LeftOver(t, g, i, j, k, l) = <<x>> \o (u \o (v \o y))
    BY <1>14, <1>15, <1>16, <1>17, <1>18, ConcatEmptySeq
  <1>20. LeftOver(t, g, i, j + 1, 0, 0) = u \o (v \o y)
    <2>1. LeftOver(t, g, i, j + 1, 0, 0) = <<>> \o (u \o (v \o y))
      BY <1>9, <1>13 DEF LeftOver
    <2> QED
      BY <1>16, <1>17, <2>1, ConcatEmptySeq
  <1> QED
    BY <1>3, <1>4, <1>6, <1>16, <1>17, <1>19, <1>20

LEMMA NextChannelLine ==
  ASSUME NEW t \in Seq(ChannelShapes), NEW g \in Behind, NEW i, NEW j, NEW k, NEW l, InShape(t, i, j, k, l),
         i < Len(t), GroupsDone(t, i, j), DataSetsDone(t, i, j, k), FieldsDone(t, i, j, k, l)
  PROVE  /\ InShape(t, i + 1, 0, 0, 0) /\ ChannelLine(t[i + 1]) \in Line
         /\ LeftOver(t, g, i, j, k, l) = <<ChannelLine(t[i + 1])>> \o LeftOver(t, g, i + 1, 0, 0, 0)
         /\ LeftOver(t, g, i + 1, 0, 0, 0) \in Seq(Line)
  <1>1. i \in 0 .. Len(t) /\ i \in Nat /\ Len(t) \in Nat
    BY Positions, ShapeParts
  <1>2. i + 1 \in 1 .. Len(t) /\ i + 1 # 0
    BY <1>1
  <1>3. InShape(t, i + 1, 0, 0, 0)
    <2>1. Wgs(t, i + 1) \in Nat
      BY <1>2, ShapeParts
    <2> QED
      BY <1>1, <1>2, <2>1 DEF InShape
  <1>4. PICK h, x : h = t[i + 1] /\ x = ChannelLine(h)
    OBVIOUS
  <1>5. h \in ChannelShapes
    BY <1>2, <1>4, ShapeParts
  <1>6. x \in Line
    BY <1>4, <1>5, LinesAre
  <1>7. ChannelsLeft(t, i, g) = ChannelLines(h, g) \o ChannelsLeft(t, i + 1, g)
    BY <1>1, <1>4, ChannelsLeftAre
  <1>8. ChannelLines(h, g) = <<x>> \o GroupsLeft(h, 0, g)
    <2>1. 0 \in 0 .. Len(h.wgs)
      BY <1>2, <1>4, ShapeParts DEF Wgs
    <2> QED
      BY <1>4, <1>5, <2>1, GroupsLeftAre
  <1>9. PICK u, v : u = GroupPart(t, g, i + 1, 0) /\ v = ChannelsLeft(t, i + 1, g)
    OBVIOUS
  <1>10. u \in Seq(Line) /\ v \in Seq(Line)
    BY <1>3, <1>9, PartsTyped
  <1>11. u = GroupsLeft(h, 0, g)
    BY <1>2, <1>4, <1>9 DEF GroupPart
  <1>13. /\ FieldPart(t, g, i, j, k, l) = <<>> /\ DataSetPart(t, g, i, j, k) = <<>> /\ GroupPart(t, g, i, j) = <<>>
         /\ FieldPart(t, g, i + 1, 0, 0, 0) = <<>> /\ DataSetPart(t, g, i + 1, 0, 0) = <<>>
    BY PartsTyped DEF FieldPart, DataSetPart
  <1>14. LeftOver(t, g, i, j, k, l) = <<>> \o (<<>> \o (<<>> \o ((<<x>> \o u) \o v)))
    BY <1>7, <1>8, <1>9, <1>11, <1>13 DEF LeftOver
  <1>15. (<<x>> \o u) \o v = <<x>> \o (u \o v) /\ u \o v \in Seq(Line)
    BY <1>6, <1>10, InFront
  <1>18. <<x>> \o (u \o v) \in Seq(Line)
    <2>1. <<x>> \in Seq(Line)
      BY <1>6
    <2> QED
      BY <1>15, <2>1, ConcatProperties
  <1>19. LeftOver(t, g, i, j, k, l) = <<x>> \o (u \o v)
    BY <1>14, <1>15, <1>18, ConcatEmptySeq
  <1>20. LeftOver(t, g, i + 1, 0, 0, 0) = u \o v
    <2>1. LeftOver(t, g, i + 1, 0, 0, 0) = <<>> \o (<<>> \o (u \o v))
      BY <1>9, <1>13 DEF LeftOver
    <2> QED
      BY <1>15, <2>1, ConcatEmptySeq
  <1> QED
    BY <1>3, <1>4, <1>6, <1>15, <1>19, <1>20

LEMMA AllIsLeft ==
  ASSUME NEW t \in Seq(ChannelShapes), NEW g \in Behind
  PROVE  LeftOver(t, g, 0, 0, 0, 0) = PrintToFile(t, g) /\ InShape(t, 0, 0, 0, 0)
  <1>1. Len(t) \in Nat /\ 0 \in 0 .. Len(t)
    BY ShapeParts
  <1>2. InShape(t, 0, 0, 0, 0)
    BY <1>1 DEF InShape
  <1>3. PrintToFile(t, g) = ChannelsLeft(t, 0, g) /\ ChannelsLeft(t, 0, g) \in Seq(Line)
    BY <1>1, ChannelsLeftAre
  <1>4. LeftOver(t, g, 0, 0, 0, 0) = <<>> \o (<<>> \o (<<>> \o PrintToFile(t, g)))
    BY <1>3 DEF LeftOver, FieldPart, DataSetPart, GroupPart
  <1> QED
    BY <1>2, <1>3, <1>4, ConcatEmptySeq

\* Where everything is done, or a line is left.
LEMMA WhatIsNext ==
  ASSUME NEW t \in Seq(ChannelShapes), NEW g \in Behind, NEW i, NEW j, NEW k, NEW l, InShape(t, i, j, k, l),
         k # 0 /\ Ds(t, i, j, k).isString => l = Ds(t, i, j, k).length
  PROVE  \/ k # 0 /\ ~ Ds(t, i, j, k).isString /\ l < Fds(t, i, j, k)
         \/ j # 0 /\ k < Dss(t, i, j) /\ FieldsDone(t, i, j, k, l)
         \/ i # 0 /\ j < Wgs(t, i) /\ DataSetsDone(t, i, j, k) /\ FieldsDone(t, i, j, k, l)
         \/ i < Len(t) /\ GroupsDone(t, i, j) /\ DataSetsDone(t, i, j, k) /\ FieldsDone(t, i, j, k, l)
         \/ /\ i = Len(t) /\ GroupsDone(t, i, j) /\ DataSetsDone(t, i, j, k) /\ FieldsDone(t, i, j, k, l)
            /\ LeftOver(t, g, i, j, k, l) = <<>>
  <1>1. i \in 0 .. Len(t) /\ Len(t) \in Nat
    BY Positions, ShapeParts
  <1>2. i = Len(t) \/ i < Len(t)
    BY <1>1
  <1>3. GroupsDone(t, i, j) \/ (i # 0 /\ j < Wgs(t, i))
    <2>1. i # 0 => j \in 0 .. Wgs(t, i) /\ Wgs(t, i) \in Nat
      BY Positions, ShapeParts
    <2> QED
      BY <2>1 DEF GroupsDone
  <1>4. DataSetsDone(t, i, j, k) \/ (j # 0 /\ k < Dss(t, i, j))
    <2>1. j # 0 => k \in 0 .. Dss(t, i, j) /\ Dss(t, i, j) \in Nat
      BY Positions, ShapeParts
    <2> QED
      BY <2>1 DEF DataSetsDone
  <1>5. FieldsDone(t, i, j, k, l) \/ (k # 0 /\ ~ Ds(t, i, j, k).isString /\ l < Fds(t, i, j, k))
    <2>1. k # 0 => l \in 0 .. Fds(t, i, j, k) /\ Fds(t, i, j, k) \in Nat
      BY Positions, ShapeParts
    <2> QED
      BY <2>1 DEF FieldsDone, Fds
  <1>6. ASSUME i = Len(t), GroupsDone(t, i, j), DataSetsDone(t, i, j, k), FieldsDone(t, i, j, k, l)
        PROVE  LeftOver(t, g, i, j, k, l) = <<>>
    <2>1. LeftOver(t, g, i, j, k, l) = <<>> \o (<<>> \o (<<>> \o <<>>))
      BY <1>6, PartsTyped DEF LeftOver
    <2>2. <<>> \o <<>> = <<>>
      <3>1. <<>> \in Seq(Line)
        BY EmptySeq
      <3> QED
        BY <3>1, ConcatEmptySeq
    <2> QED
      BY <2>1, <2>2
  <1> QED
    BY <1>2, <1>3, <1>4, <1>5, <1>6

-----------------------------------------------------------------------------
(* Which action a step of the interpreter is, by the loop that runs.        *)
LEMMA StepOfJob ==
  ASSUME Step, job # NoJob
  PROVE  AddGroup \/ AddDataSet \/ AddOneField \/ AddStringDataSet \/ WriteNewString
  BY DEF Step, LineDone, SelectNode, Invalid, Show, Subjects, AddSubject, AddChannel, AddGroups, AddDataSets, AddFields,
         AddTurn, AddString, RemoveSubject, RemoveChannels, RemoveGroups, RemoveDataSets, RemoveFields, RemoveTurn,
         WriteVariable, Configure, ConfigureGroup, ConfigureChannel, ConfigurePort, ConfigureMany, WriteCommand,
         WriteStrings, Command, At

LEMMA StepOfLoop ==
  ASSUME Step, job = NoJob
  PROVE  /\ loop = "add" => AddSubject
         /\ loop = "addCh" => AddChannel
         /\ loop = "addWg" => AddGroups
         /\ loop = "addDs" => AddDataSets
         /\ loop = "addFd" => AddFields
         /\ loop = "addString" => AddString
         /\ loop = "wrt" => WriteVariable
         /\ loop = "confWg" => ConfigureGroup
  <1>1. ~ (AddGroup \/ AddDataSet \/ AddOneField \/ AddStringDataSet \/ WriteNewString)
    BY DEF AddGroup, AddDataSet, AddOneField, AddStringDataSet, WriteNewString, NoJob
  <1>2. loop = "decode" \/ ~ (LineDone \/ Invalid \/ Show \/ WriteCommand
           \/ (\E word \in DOMAIN LevelOf : SelectNode(word)) \/ (\E word \in {"add", "rm", "wrt"} : Subjects(word))
           \/ (\E word \in {"on", "off", "intv"} : Configure(word)))
    BY DEF LineDone, Invalid, Show, WriteCommand, SelectNode, Subjects, Configure, Command, At
  <1>3. \A y \in BOOLEAN :
          RemoveSubject(y) \/ RemoveChannels(y) \/ RemoveGroups(y) \/ RemoveDataSets(y) \/ RemoveFields(y)
            => loop \in {"rm", "rmCh", "rmWg", "rmDs", "rmFd"}
    BY DEF RemoveSubject, RemoveChannels, RemoveGroups, RemoveDataSets, RemoveFields, RemoveTurn, At
  <1>4. /\ AddSubject => loop = "add"
        /\ AddChannel => loop = "addCh"
        /\ AddGroups => loop = "addWg"
        /\ AddDataSets => loop = "addDs"
        /\ AddFields => loop = "addFd"
        /\ AddString => loop = "addString"
        /\ WriteVariable => loop = "wrt"
        /\ ConfigureGroup => loop = "confWg"
        /\ ConfigureChannel => loop = "confCh"
        /\ ConfigurePort => loop = "confPort"
        /\ WriteStrings => loop = "str"
    BY DEF AddSubject, AddChannel, AddGroups, AddDataSets, AddFields, AddTurn, AddString, WriteVariable,
           ConfigureGroup, ConfigureChannel, ConfigurePort, ConfigureMany, WriteStrings, At
  <1> QED
    BY <1>1, <1>2, <1>3, <1>4 DEF Step

\* What a line of an exported file may begin with.
LEMMA StepOfDecode ==
  ASSUME Step, job = NoJob, loop = "decode", toks # <<>>, NEW word \in {"add", "wrt", "intv", "off"}, Head(toks) = word
  PROVE  /\ word \in {"add", "wrt"} => Subjects(word)
         /\ word \in {"intv", "off"} => Configure(word)
  <1>1. ~ (AddGroup \/ AddDataSet \/ AddOneField \/ AddStringDataSet \/ WriteNewString)
    BY DEF AddGroup, AddDataSet, AddOneField, AddStringDataSet, WriteNewString, NoJob
  <1>2. \A y \in BOOLEAN :
          ~ (RemoveSubject(y) \/ RemoveChannels(y) \/ RemoveGroups(y) \/ RemoveDataSets(y) \/ RemoveFields(y))
    BY DEF RemoveSubject, RemoveChannels, RemoveGroups, RemoveDataSets, RemoveFields, RemoveTurn, At
  <1>3. ~ (AddSubject \/ AddChannel \/ AddGroups \/ AddDataSets \/ AddFields \/ AddString \/ WriteVariable
           \/ ConfigureGroup \/ ConfigureChannel \/ ConfigurePort \/ WriteStrings)
    BY DEF AddSubject, AddChannel, AddGroups, AddDataSets, AddFields, AddTurn, AddString, WriteVariable,
           ConfigureGroup, ConfigureChannel, ConfigurePort, ConfigureMany, WriteStrings, At
  <1>4. word \notin DOMAIN Quoted
    BY CommandsOK DEF CommandsOK, PrintedWords
  <1>5. ~ LineDone /\ ~ Invalid /\ ~ Show /\ ~ WriteCommand /\ \A v \in DOMAIN LevelOf : ~ SelectNode(v)
    BY <1>4 DEF LineDone, Invalid, Show, WriteCommand, SelectNode, Command, At, CommandWords, ShowWords, LevelOf
  <1>6. /\ \A v \in {"add", "rm", "wrt"} : Subjects(v) => v = word
        /\ \A v \in {"on", "off", "intv"} : Configure(v) => v = word
    BY DEF Subjects, Configure, Command
  <1> QED
    BY <1>1, <1>2, <1>3, <1>5, <1>6 DEF Step

(* No key is given: the path is the selection.                              *)
IsSelection(r, ts, k) == ~ r.full /\ ~ r.missing /\ r.rest = ts /\ r.path = [n \in 1 .. k |-> b[n]]
LEMMA NoneGiven ==
  ASSUME NEW ts \in Seq(Token), ~ AtKey(ts), NEW k \in 1 .. 4, NEW r, r = Resolve(ts, k), CInv,
         \A n \in 1 .. k : b[n] # 0
  PROVE  IsSelection(r, ts, k)
  <1>1. Given(ts, k) = 0
    <2>1. CASE Given(ts, k) # 0
      <3>1. 1 \in 1 .. Given(ts, k)
        BY <2>1, GivenType
      <3>2. Gives(ts, 1)
        BY <3>1, GivenType
      <3>3. AtKey(From(ts, 1))
        BY <3>2, AtKeyFrom
      <3>4. From(ts, 1) = ts
        BY SubSeqFull DEF From
      <3> QED
        BY <3>3, <3>4
    <2> QED
      BY <2>1
  <1>2. /\ r.full = (0 = k) /\ r.missing = \E n \in 1 .. k - 0 : b[n] = 0
        /\ r.path = [n \in 1 .. k |-> IF n <= k - 0 THEN b[n] ELSE KeyOf(ts[k - n + 1])]
        /\ r.rest = From(ts, IF 0 = k THEN k ELSE 0 + 1)
    BY <1>1 DEF Resolve
  <1>3. ~ r.full /\ ~ r.missing
    <2>1. ~ (0 = k) /\ ~ \E n \in 1 .. k - 0 : b[n] = 0
      OBVIOUS
    <2> QED
      BY <1>2, <2>1, Zenon
  <1>4. r.path = [n \in 1 .. k |-> b[n]]
    BY <1>2
  <1>5. r.rest = ts
    BY <1>2, SubSeqFull DEF From
  <1> QED
    BY <1>3, <1>4, <1>5 DEF IsSelection

\* A printed word is no key, no amount, no string and no port.
LEMMA WordIs ==
  ASSUME NEW w \in PrintedWords
  PROVE  w \in Token /\ ~ IsKey(w) /\ KeyOf(w) = 0 /\ w \notin DOMAIN Amount /\ w \notin DOMAIN Quoted
  <1>1. Number[w] = 0 /\ w \notin DOMAIN Amount /\ w \notin DOMAIN Quoted /\ w \in Token
    BY CommandsOK, Words DEF CommandsOK
  <1>2. 0 % UInt16 = 0
    BY DEF UInt16
  <1> QED
    BY <1>1, <1>2 DEF IsKey, KeyOf

LEMMA NumeralIs ==
  ASSUME NEW n \in PrintedNumbers
  PROVE  /\ Numeral[n] \in Token /\ Number[Numeral[n]] = n /\ Numeral[n] # "all"
         /\ n \in Key => KeyOf(Numeral[n]) = n
  <1>1. n \in DOMAIN Numeral
    BY PrintedOK DEF PrintedOK
  <1>2. Numeral[n] \in Token /\ Number[Numeral[n]] = n /\ Numeral[n] # "all"
    BY <1>1, PrintedOK, CommandsOK DEF PrintedOK, CommandsOK, Token
  <1>3. n \in Key => n % UInt16 = n
    BY Width, SmallRemainder DEF Key
  <1> QED
    BY <1>2, <1>3 DEF KeyOf

-----------------------------------------------------------------------------
(* The nodes that are there when a load has come to a position, and how     *)
(* many children each of them has.                                          *)
GroupsAt(t, i, j, a) == IF a < i THEN Wgs(t, a) ELSE j
DataSetsAt(t, i, j, k, a, e) == IF a < i \/ e < j THEN Dss(t, a, e) ELSE k
FieldsAt(t, i, j, k, l, a, e, d) == IF a < i \/ e < j \/ d < k THEN Fds(t, a, e, d) ELSE l

HasGroup(t, i, j, a, e) == a \in 1 .. i /\ e \in 1 .. GroupsAt(t, i, j, a)
HasDataSet(t, i, j, k, a, e, d) == HasGroup(t, i, j, a, e) /\ d \in 1 .. DataSetsAt(t, i, j, k, a, e)
HasField(t, i, j, k, l, a, e, d, f) == HasDataSet(t, i, j, k, a, e, d) /\ f \in 1 .. FieldsAt(t, i, j, k, l, a, e, d)

LEMMA NodesInShape ==
  ASSUME NEW t \in Seq(ChannelShapes), NEW i, NEW j, NEW k, NEW l, InShape(t, i, j, k, l)
  PROVE  /\ \A a \in 1 .. i : a \in 1 .. Len(t) /\ a \in Nat
         /\ \A a, e : HasGroup(t, i, j, a, e) => a \in 1 .. Len(t) /\ a <= i /\ e \in 1 .. Wgs(t, a) /\ a \in Nat /\ e \in Nat
         /\ \A a, e, d : HasDataSet(t, i, j, k, a, e, d) => d \in 1 .. Dss(t, a, e) /\ d \in Nat
         /\ \A a, e, d, f : HasField(t, i, j, k, l, a, e, d, f) => f \in 1 .. Fds(t, a, e, d) /\ f \in Nat
  <1>1. i \in Nat /\ j \in Nat /\ k \in Nat /\ l \in Nat /\ Len(t) \in Nat /\ i \in 0 .. Len(t)
    BY Positions, ShapeParts
  <1>2. \A a \in 1 .. i : a \in 1 .. Len(t) /\ a \in Nat
    BY <1>1
  <1>3. ASSUME NEW a, NEW e, HasGroup(t, i, j, a, e)
        PROVE  a \in 1 .. Len(t) /\ a <= i /\ e \in 1 .. Wgs(t, a) /\ a \in Nat /\ e \in Nat
    <2>1. a \in 1 .. i /\ e \in 1 .. GroupsAt(t, i, j, a) /\ a \in 1 .. Len(t) /\ Wgs(t, a) \in Nat
      BY <1>2, <1>3, ShapeParts DEF HasGroup
    <2>2. i # 0 => j \in 0 .. Wgs(t, i)
      BY Positions
    <2>3. a = i \/ a < i
      BY <1>1, <2>1
    <2> QED
      BY <1>1, <2>1, <2>2, <2>3 DEF GroupsAt
  <1>4. ASSUME NEW a, NEW e, NEW d, HasDataSet(t, i, j, k, a, e, d)
        PROVE  d \in 1 .. Dss(t, a, e) /\ d \in Nat
    <2>1. /\ a \in 1 .. Len(t) /\ a <= i /\ e \in 1 .. Wgs(t, a) /\ a \in Nat /\ e \in Nat
          /\ e \in 1 .. GroupsAt(t, i, j, a) /\ d \in 1 .. DataSetsAt(t, i, j, k, a, e)
      BY <1>3, <1>4 DEF HasDataSet, HasGroup
    <2>2. Dss(t, a, e) \in Nat /\ (j # 0 => k \in 0 .. Dss(t, i, j))
      BY <2>1, ShapeParts, Positions
    <2>3. a < i \/ e < j \/ (a = i /\ e = j)
      BY <1>1, <2>1 DEF GroupsAt
    <2> QED
      BY <1>1, <2>1, <2>2, <2>3 DEF DataSetsAt
  <1>5. ASSUME NEW a, NEW e, NEW d, NEW f, HasField(t, i, j, k, l, a, e, d, f)
        PROVE  f \in 1 .. Fds(t, a, e, d) /\ f \in Nat
    <2>1. /\ a \in 1 .. Len(t) /\ a <= i /\ e \in 1 .. Wgs(t, a) /\ a \in Nat /\ e \in Nat
          /\ e \in 1 .. GroupsAt(t, i, j, a) /\ d \in 1 .. DataSetsAt(t, i, j, k, a, e)
          /\ d \in 1 .. Dss(t, a, e) /\ d \in Nat /\ f \in 1 .. FieldsAt(t, i, j, k, l, a, e, d)
      BY <1>3, <1>4, <1>5 DEF HasField, HasDataSet, HasGroup
    <2>2. Fds(t, a, e, d) \in Nat /\ (k # 0 => l \in 0 .. Fds(t, i, j, k))
      BY <2>1, ShapeParts, Positions
    <2>3. a < i \/ e < j \/ (a = i /\ e = j)
      BY <1>1, <2>1 DEF GroupsAt
    <2>4. a < i \/ e < j \/ d < k \/ (a = i /\ e = j /\ d = k)
      BY <1>1, <2>1, <2>3 DEF DataSetsAt
    <2> QED
      BY <1>1, <2>1, <2>2, <2>4 DEF FieldsAt
  <1> QED
    BY <1>2, <1>3, <1>4, <1>5

\* The last node of each level has as many children as the position says.
LEMMA LastNode ==
  ASSUME NEW t \in Seq(ChannelShapes), NEW i, NEW j, NEW k, NEW l, InShape(t, i, j, k, l)
  PROVE  /\ i # 0 => i \in 1 .. i /\ GroupsAt(t, i, j, i) = j
         /\ j # 0 => HasGroup(t, i, j, i, j) /\ DataSetsAt(t, i, j, k, i, j) = k
         /\ k # 0 => HasDataSet(t, i, j, k, i, j, k) /\ FieldsAt(t, i, j, k, l, i, j, k) = l
         /\ l # 0 => HasField(t, i, j, k, l, i, j, k, l)
  <1>1. /\ i \in Nat /\ j \in Nat /\ k \in Nat /\ l \in Nat
        /\ (j # 0 => i # 0) /\ (k # 0 => j # 0) /\ (l # 0 => k # 0)
    BY Positions
  <1>2. i # 0 => i \in 1 .. i /\ GroupsAt(t, i, j, i) = j
    BY <1>1 DEF GroupsAt
  <1>3. j # 0 => HasGroup(t, i, j, i, j) /\ DataSetsAt(t, i, j, k, i, j) = k
    BY <1>1, <1>2 DEF HasGroup, DataSetsAt
  <1>4. k # 0 => HasDataSet(t, i, j, k, i, j, k) /\ FieldsAt(t, i, j, k, l, i, j, k) = l
    BY <1>1, <1>3 DEF HasDataSet, FieldsAt
  <1>5. l # 0 => HasField(t, i, j, k, l, i, j, k, l)
    BY <1>1, <1>4 DEF HasField
  <1> QED
    BY <1>2, <1>3, <1>4, <1>5

(* What one node more changes.                                              *)
LEMMA OneChannelMore ==
  ASSUME NEW t \in Seq(ChannelShapes), NEW i, NEW j, NEW k, NEW l, InShape(t, i, j, k, l), i < Len(t),
         GroupsDone(t, i, j), DataSetsDone(t, i, j, k), FieldsDone(t, i, j, k, l)
  PROVE  /\ \A a : a \in 1 .. i + 1 <=> a \in 1 .. i \/ a = i + 1
         /\ \A a \in 1 .. i : GroupsAt(t, i + 1, 0, a) = GroupsAt(t, i, j, a)
         /\ GroupsAt(t, i + 1, 0, i + 1) = 0
         /\ \A a, e : HasGroup(t, i + 1, 0, a, e) <=> HasGroup(t, i, j, a, e)
         /\ \A a, e : HasGroup(t, i, j, a, e) => DataSetsAt(t, i + 1, 0, 0, a, e) = DataSetsAt(t, i, j, k, a, e)
         /\ \A a, e, d : HasDataSet(t, i + 1, 0, 0, a, e, d) <=> HasDataSet(t, i, j, k, a, e, d)
         /\ \A a, e, d : HasDataSet(t, i, j, k, a, e, d) =>
              FieldsAt(t, i + 1, 0, 0, 0, a, e, d) = FieldsAt(t, i, j, k, l, a, e, d)
         /\ \A a, e, d, f : HasField(t, i + 1, 0, 0, 0, a, e, d, f) <=> HasField(t, i, j, k, l, a, e, d, f)
  <1>1. i \in Nat /\ j \in Nat /\ k \in Nat /\ l \in Nat /\ (i = 0 => j = 0) /\ (j = 0 => k = 0) /\ (k = 0 => l = 0)
    BY Positions
  <1>2. \A a : a \in 1 .. i + 1 <=> a \in 1 .. i \/ a = i + 1
    BY <1>1
  <1>3. \A a \in 1 .. i : GroupsAt(t, i + 1, 0, a) = GroupsAt(t, i, j, a)
    <2>1. ASSUME NEW a \in 1 .. i PROVE GroupsAt(t, i + 1, 0, a) = GroupsAt(t, i, j, a)
      <3>1. a < i + 1 /\ (a < i \/ a = i) /\ i # 0
        BY <1>1
      <3> QED
        BY <3>1 DEF GroupsAt, GroupsDone
    <2> QED
      BY <2>1
  <1>4. GroupsAt(t, i + 1, 0, i + 1) = 0
    BY <1>1 DEF GroupsAt
  <1>5. \A a, e : HasGroup(t, i + 1, 0, a, e) <=> HasGroup(t, i, j, a, e)
    <2>1. ASSUME NEW a, NEW e PROVE HasGroup(t, i + 1, 0, a, e) <=> HasGroup(t, i, j, a, e)
      <3>1. i + 1 \notin 1 .. i /\ ~ (e \in 1 .. 0)
        BY <1>1
      <3> QED
        BY <1>2, <1>3, <1>4, <3>1 DEF HasGroup
    <2> QED
      BY <2>1
  <1>6. \A a, e : HasGroup(t, i, j, a, e) => DataSetsAt(t, i + 1, 0, 0, a, e) = DataSetsAt(t, i, j, k, a, e)
    <2>1. ASSUME NEW a, NEW e, HasGroup(t, i, j, a, e)
          PROVE  DataSetsAt(t, i + 1, 0, 0, a, e) = DataSetsAt(t, i, j, k, a, e)
      <3>1. a \in 1 .. i /\ e \in 1 .. GroupsAt(t, i, j, a) /\ a \in Nat /\ e \in Nat
        BY <2>1, NodesInShape DEF HasGroup
      <3>2. a < i + 1 /\ (a < i \/ a = i) /\ i # 0
        BY <1>1, <3>1
      <3>3. a < i \/ e < j \/ (a = i /\ e = j /\ j # 0)
        BY <1>1, <3>1, <3>2 DEF GroupsAt
      <3> QED
        BY <3>2, <3>3 DEF DataSetsAt, DataSetsDone
    <2> QED
      BY <2>1
  <1>7. \A a, e, d : HasDataSet(t, i + 1, 0, 0, a, e, d) <=> HasDataSet(t, i, j, k, a, e, d)
    BY <1>5, <1>6 DEF HasDataSet
  <1>8. \A a, e, d : HasDataSet(t, i, j, k, a, e, d) =>
          FieldsAt(t, i + 1, 0, 0, 0, a, e, d) = FieldsAt(t, i, j, k, l, a, e, d)
    <2>1. ASSUME NEW a, NEW e, NEW d, HasDataSet(t, i, j, k, a, e, d)
          PROVE  FieldsAt(t, i + 1, 0, 0, 0, a, e, d) = FieldsAt(t, i, j, k, l, a, e, d)
      <3>1. /\ a \in 1 .. i /\ e \in 1 .. GroupsAt(t, i, j, a) /\ d \in 1 .. DataSetsAt(t, i, j, k, a, e)
            /\ a \in Nat /\ e \in Nat /\ d \in Nat
        BY <2>1, NodesInShape DEF HasGroup, HasDataSet
      <3>2. a < i + 1 /\ (a < i \/ a = i) /\ i # 0
        BY <1>1, <3>1
      <3>3. a < i \/ e < j \/ (a = i /\ e = j /\ j # 0)
        BY <1>1, <3>1, <3>2 DEF GroupsAt
      <3>4. a < i \/ e < j \/ d < k \/ (a = i /\ e = j /\ d = k /\ k # 0)
        BY <1>1, <3>1, <3>3 DEF DataSetsAt
      <3> QED
        BY <3>2, <3>4 DEF FieldsAt, FieldsDone
    <2> QED
      BY <2>1
  <1>9. \A a, e, d, f : HasField(t, i + 1, 0, 0, 0, a, e, d, f) <=> HasField(t, i, j, k, l, a, e, d, f)
    BY <1>7, <1>8 DEF HasField
  <1> QED
    BY <1>2, <1>3, <1>4, <1>5, <1>6, <1>7, <1>8, <1>9

LEMMA OneGroupMore ==
  ASSUME NEW t \in Seq(ChannelShapes), NEW i, NEW j, NEW k, NEW l, InShape(t, i, j, k, l), i # 0,
         j < Wgs(t, i), DataSetsDone(t, i, j, k), FieldsDone(t, i, j, k, l)
  PROVE  /\ \A a \in 1 .. i : GroupsAt(t, i, j + 1, a) = IF a = i THEN j + 1 ELSE GroupsAt(t, i, j, a)
         /\ \A a, e : HasGroup(t, i, j + 1, a, e) <=> HasGroup(t, i, j, a, e) \/ (a = i /\ e = j + 1)
         /\ \A a, e : HasGroup(t, i, j, a, e) => DataSetsAt(t, i, j + 1, 0, a, e) = DataSetsAt(t, i, j, k, a, e)
         /\ DataSetsAt(t, i, j + 1, 0, i, j + 1) = 0
         /\ \A a, e, d : HasDataSet(t, i, j + 1, 0, a, e, d) <=> HasDataSet(t, i, j, k, a, e, d)
         /\ \A a, e, d : HasDataSet(t, i, j, k, a, e, d) =>
              FieldsAt(t, i, j + 1, 0, 0, a, e, d) = FieldsAt(t, i, j, k, l, a, e, d)
         /\ \A a, e, d, f : HasField(t, i, j + 1, 0, 0, a, e, d, f) <=> HasField(t, i, j, k, l, a, e, d, f)
  <1>1. i \in Nat /\ j \in Nat /\ k \in Nat /\ l \in Nat /\ (j = 0 => k = 0) /\ (k = 0 => l = 0)
    BY Positions
  <1>3. \A a \in 1 .. i : GroupsAt(t, i, j + 1, a) = IF a = i THEN j + 1 ELSE GroupsAt(t, i, j, a)
    BY <1>1 DEF GroupsAt
  <1>4. GroupsAt(t, i, j, i) = j /\ i \in 1 .. i
    BY <1>1 DEF GroupsAt
  <1>5. \A a, e : HasGroup(t, i, j + 1, a, e) <=> HasGroup(t, i, j, a, e) \/ (a = i /\ e = j + 1)
    <2>1. ASSUME NEW a, NEW e
          PROVE  HasGroup(t, i, j + 1, a, e) <=> HasGroup(t, i, j, a, e) \/ (a = i /\ e = j + 1)
      <3>1. e \in 1 .. j + 1 <=> e \in 1 .. j \/ e = j + 1
        BY <1>1
      <3> QED
        BY <1>3, <1>4, <3>1 DEF HasGroup
    <2> QED
      BY <2>1
  <1>6. \A a, e : HasGroup(t, i, j, a, e) => DataSetsAt(t, i, j + 1, 0, a, e) = DataSetsAt(t, i, j, k, a, e)
    <2>1. ASSUME NEW a, NEW e, HasGroup(t, i, j, a, e)
          PROVE  DataSetsAt(t, i, j + 1, 0, a, e) = DataSetsAt(t, i, j, k, a, e)
      <3>1. a \in 1 .. i /\ e \in 1 .. GroupsAt(t, i, j, a) /\ a \in Nat /\ e \in Nat
        BY <2>1, NodesInShape DEF HasGroup
      <3>2. a < i \/ a = i
        BY <1>1, <3>1
      <3>3. a < i \/ (e < j /\ e < j + 1) \/ (a = i /\ e = j /\ e < j + 1 /\ j # 0)
        BY <1>1, <3>1, <3>2 DEF GroupsAt
      <3> QED
        BY <3>3 DEF DataSetsAt, DataSetsDone
    <2> QED
      BY <2>1
  <1>7. DataSetsAt(t, i, j + 1, 0, i, j + 1) = 0
    BY <1>1 DEF DataSetsAt
  <1>8. \A a, e, d : HasDataSet(t, i, j + 1, 0, a, e, d) <=> HasDataSet(t, i, j, k, a, e, d)
    <2>1. ASSUME NEW a, NEW e, NEW d
          PROVE  HasDataSet(t, i, j + 1, 0, a, e, d) <=> HasDataSet(t, i, j, k, a, e, d)
      <3>1. ~ (d \in 1 .. 0) /\ ~ HasGroup(t, i, j, i, j + 1)
        BY <1>1, <1>4 DEF HasGroup
      <3> QED
        BY <1>5, <1>6, <1>7, <3>1 DEF HasDataSet
    <2> QED
      BY <2>1
  <1>9. \A a, e, d : HasDataSet(t, i, j, k, a, e, d) =>
          FieldsAt(t, i, j + 1, 0, 0, a, e, d) = FieldsAt(t, i, j, k, l, a, e, d)
    <2>1. ASSUME NEW a, NEW e, NEW d, HasDataSet(t, i, j, k, a, e, d)
          PROVE  FieldsAt(t, i, j + 1, 0, 0, a, e, d) = FieldsAt(t, i, j, k, l, a, e, d)
      <3>1. /\ a \in 1 .. i /\ e \in 1 .. GroupsAt(t, i, j, a) /\ d \in 1 .. DataSetsAt(t, i, j, k, a, e)
            /\ a \in Nat /\ e \in Nat /\ d \in Nat
        BY <2>1, NodesInShape DEF HasGroup, HasDataSet
      <3>2. a < i \/ a = i
        BY <1>1, <3>1
      <3>3. a < i \/ (e < j /\ e < j + 1) \/ (a = i /\ e = j /\ e < j + 1 /\ j # 0)
        BY <1>1, <3>1, <3>2 DEF GroupsAt
      <3>4. a < i \/ (e < j /\ e < j + 1) \/ (d < k /\ e < j + 1) \/ (a = i /\ e = j /\ d = k /\ e < j + 1 /\ k # 0)
        BY <1>1, <3>1, <3>3 DEF DataSetsAt
      <3> QED
        BY <3>4 DEF FieldsAt, FieldsDone
    <2> QED
      BY <2>1
  <1>10. \A a, e, d, f : HasField(t, i, j + 1, 0, 0, a, e, d, f) <=> HasField(t, i, j, k, l, a, e, d, f)
    BY <1>8, <1>9 DEF HasField
  <1> QED
    BY <1>3, <1>5, <1>6, <1>7, <1>8, <1>9, <1>10

LEMMA OneDataSetMore ==
  ASSUME NEW t \in Seq(ChannelShapes), NEW i, NEW j, NEW k, NEW l, InShape(t, i, j, k, l), j # 0,
         k < Dss(t, i, j), FieldsDone(t, i, j, k, l)
  PROVE  /\ \A a, e : HasGroup(t, i, j, a, e) =>
              DataSetsAt(t, i, j, k + 1, a, e) = IF a = i /\ e = j THEN k + 1 ELSE DataSetsAt(t, i, j, k, a, e)
         /\ \A a, e, d : HasDataSet(t, i, j, k + 1, a, e, d) <=>
              HasDataSet(t, i, j, k, a, e, d) \/ (a = i /\ e = j /\ d = k + 1)
         /\ \A a, e, d : HasDataSet(t, i, j, k, a, e, d) =>
              FieldsAt(t, i, j, k + 1, 0, a, e, d) = FieldsAt(t, i, j, k, l, a, e, d)
         /\ FieldsAt(t, i, j, k + 1, 0, i, j, k + 1) = 0
         /\ \A a, e, d, f : HasField(t, i, j, k + 1, 0, a, e, d, f) <=> HasField(t, i, j, k, l, a, e, d, f)
  <1>1. i \in Nat /\ j \in Nat /\ k \in Nat /\ l \in Nat /\ (k = 0 => l = 0)
    BY Positions
  <1>2. HasGroup(t, i, j, i, j) /\ DataSetsAt(t, i, j, k, i, j) = k
    BY LastNode
  <1>3. \A a, e : HasGroup(t, i, j, a, e) =>
          DataSetsAt(t, i, j, k + 1, a, e) = IF a = i /\ e = j THEN k + 1 ELSE DataSetsAt(t, i, j, k, a, e)
    <2>1. ASSUME NEW a, NEW e, HasGroup(t, i, j, a, e)
          PROVE  DataSetsAt(t, i, j, k + 1, a, e) = IF a = i /\ e = j THEN k + 1 ELSE DataSetsAt(t, i, j, k, a, e)
      <3>1. a \in 1 .. i /\ e \in 1 .. GroupsAt(t, i, j, a) /\ a \in Nat /\ e \in Nat
        BY <2>1, NodesInShape DEF HasGroup
      <3>2. (a < i \/ e < j) \/ (a = i /\ e = j)
        BY <1>1, <3>1 DEF GroupsAt
      <3>3. ~ ((a < i \/ e < j) /\ a = i /\ e = j)
        BY <1>1
      <3> QED
        BY <3>2, <3>3 DEF DataSetsAt
    <2> QED
      BY <2>1
  <1>4. \A a, e, d : HasDataSet(t, i, j, k + 1, a, e, d) <=>
          HasDataSet(t, i, j, k, a, e, d) \/ (a = i /\ e = j /\ d = k + 1)
    <2>1. ASSUME NEW a, NEW e, NEW d
          PROVE  HasDataSet(t, i, j, k + 1, a, e, d) <=> HasDataSet(t, i, j, k, a, e, d) \/ (a = i /\ e = j /\ d = k + 1)
      <3>1. d \in 1 .. k + 1 <=> d \in 1 .. k \/ d = k + 1
        BY <1>1
      <3> QED
        BY <1>2, <1>3, <3>1 DEF HasDataSet
    <2> QED
      BY <2>1
  <1>5. \A a, e, d : HasDataSet(t, i, j, k, a, e, d) =>
          FieldsAt(t, i, j, k + 1, 0, a, e, d) = FieldsAt(t, i, j, k, l, a, e, d)
    <2>1. ASSUME NEW a, NEW e, NEW d, HasDataSet(t, i, j, k, a, e, d)
          PROVE  FieldsAt(t, i, j, k + 1, 0, a, e, d) = FieldsAt(t, i, j, k, l, a, e, d)
      <3>1. /\ a \in 1 .. i /\ e \in 1 .. GroupsAt(t, i, j, a) /\ d \in 1 .. DataSetsAt(t, i, j, k, a, e)
            /\ a \in Nat /\ e \in Nat /\ d \in Nat
        BY <2>1, NodesInShape DEF HasGroup, HasDataSet
      <3>2. (a < i \/ e < j) \/ (a = i /\ e = j)
        BY <1>1, <3>1 DEF GroupsAt
      <3>3. a < i \/ e < j \/ (d < k /\ d < k + 1) \/ (a = i /\ e = j /\ d = k /\ d < k + 1 /\ k # 0)
        BY <1>1, <3>1, <3>2 DEF DataSetsAt
      <3> QED
        BY <3>3 DEF FieldsAt, FieldsDone
    <2> QED
      BY <2>1
  <1>6. FieldsAt(t, i, j, k + 1, 0, i, j, k + 1) = 0
    BY <1>1 DEF FieldsAt
  <1>7. \A a, e, d, f : HasField(t, i, j, k + 1, 0, a, e, d, f) <=> HasField(t, i, j, k, l, a, e, d, f)
    <2>1. ASSUME NEW a, NEW e, NEW d, NEW f
          PROVE  HasField(t, i, j, k + 1, 0, a, e, d, f) <=> HasField(t, i, j, k, l, a, e, d, f)
      <3>1. ~ (f \in 1 .. 0) /\ ~ HasDataSet(t, i, j, k, i, j, k + 1)
        BY <1>1, <1>2 DEF HasDataSet
      <3> QED
        BY <1>4, <1>5, <1>6, <3>1 DEF HasField
    <2> QED
      BY <2>1
  <1> QED
    BY <1>3, <1>4, <1>5, <1>6, <1>7

LEMMA MoreFields ==
  ASSUME NEW t \in Seq(ChannelShapes), NEW i, NEW j, NEW k, NEW l, InShape(t, i, j, k, l), k # 0,
         NEW m \in 0 .. Fds(t, i, j, k)
  PROVE  /\ InShape(t, i, j, k, m)
         /\ \A a, e, d : HasDataSet(t, i, j, k, a, e, d) =>
              FieldsAt(t, i, j, k, m, a, e, d) =
                IF a = i /\ e = j /\ d = k THEN m ELSE FieldsAt(t, i, j, k, l, a, e, d)
         /\ \A a, e, d, f : ~ (a = i /\ e = j /\ d = k) =>
              (HasField(t, i, j, k, m, a, e, d, f) <=> HasField(t, i, j, k, l, a, e, d, f))
         /\ \A f : HasField(t, i, j, k, m, i, j, k, f) <=> f \in 1 .. m
  <1>1. i \in Nat /\ j \in Nat /\ k \in Nat /\ l \in Nat
    BY Positions
  <1>2. HasDataSet(t, i, j, k, i, j, k)
    BY LastNode
  <1>3. \A a, e, d : HasDataSet(t, i, j, k, a, e, d) =>
          FieldsAt(t, i, j, k, m, a, e, d) = IF a = i /\ e = j /\ d = k THEN m ELSE FieldsAt(t, i, j, k, l, a, e, d)
    <2>1. ASSUME NEW a, NEW e, NEW d, HasDataSet(t, i, j, k, a, e, d)
          PROVE  FieldsAt(t, i, j, k, m, a, e, d) = IF a = i /\ e = j /\ d = k THEN m ELSE FieldsAt(t, i, j, k, l, a, e, d)
      <3>1. /\ a \in 1 .. i /\ e \in 1 .. GroupsAt(t, i, j, a) /\ d \in 1 .. DataSetsAt(t, i, j, k, a, e)
            /\ a \in Nat /\ e \in Nat /\ d \in Nat
        BY <2>1, NodesInShape DEF HasGroup, HasDataSet
      <3>2. (a < i \/ e < j) \/ (a = i /\ e = j)
        BY <1>1, <3>1 DEF GroupsAt
      <3>3. (a < i \/ e < j \/ d < k) \/ (a = i /\ e = j /\ d = k)
        BY <1>1, <3>1, <3>2 DEF DataSetsAt
      <3>4. ~ ((a < i \/ e < j \/ d < k) /\ a = i /\ e = j /\ d = k)
        BY <1>1
      <3> QED
        BY <3>3, <3>4 DEF FieldsAt
    <2> QED
      BY <2>1
  <1>4. InShape(t, i, j, k, m)
    BY DEF InShape
  <1> QED
    BY <1>2, <1>3, <1>4 DEF HasField

-----------------------------------------------------------------------------
(* What a load has built when it has come to a position: the nodes of the   *)
(* shape under Channels c + 1, c + 2, ...  raw is "group" or "field" while   *)
(* the last WriterGroup or Field has not got its settings yet.              *)
Legible(f) == f.type = "uint64" => f.value < Modulus["int"] \div 2

ChannelsBuilt(C, n, t, c, i, j) ==
  /\ n = c + i
  /\ \A a \in 1 .. i : c + a \in DOMAIN C /\ C[c + a].port = t[a].port /\ C[c + a].wgKeyInc = GroupsAt(t, i, j, a)
GroupBuilt(G, t, c, i, j, k, raw, a, e) ==
  /\ <<c + a, e>> \in DOMAIN G /\ G[<<c + a, e>>].dtsKeyInc = DataSetsAt(t, i, j, k, a, e)
  /\ \/ raw = "group" /\ a = i /\ e = j
     \/ G[<<c + a, e>>].interval = Wg(t, a, e).interval /\ G[<<c + a, e>>].enabled = Wg(t, a, e).enabled
DataSetBuilt(D, t, c, i, j, k, l, a, e, d) ==
  /\ <<c + a, e, d>> \in DOMAIN D
  /\ D[<<c + a, e, d>>].isString = Ds(t, a, e, d).isString
  /\ D[<<c + a, e, d>>].varKeyInc = FieldsAt(t, i, j, k, l, a, e, d)
FieldBuilt(F, V, t, c, i, j, k, l, raw, a, e, d, f) ==
  /\ <<c + a, e, d, f>> \in DOMAIN F /\ F[<<c + a, e, d, f>>] = Fd(t, a, e, d, f).type
  /\ \/ raw = "field" /\ a = i /\ e = j /\ d = k /\ f = l
     \/ Legible(Fd(t, a, e, d, f)) => V[<<c + a, e, d, f>>] = Fd(t, a, e, d, f).value

GroupsBuilt(G, t, c, i, j, k, raw) ==
  \A a, e : HasGroup(t, i, j, a, e) => GroupBuilt(G, t, c, i, j, k, raw, a, e)
DataSetsBuilt(D, t, c, i, j, k, l) ==
  \A a, e, d : HasDataSet(t, i, j, k, a, e, d) => DataSetBuilt(D, t, c, i, j, k, l, a, e, d)
FieldsBuilt(F, V, t, c, i, j, k, l, raw) ==
  \A a, e, d, f : HasField(t, i, j, k, l, a, e, d, f) /\ ~ Ds(t, a, e, d).isString =>
    FieldBuilt(F, V, t, c, i, j, k, l, raw, a, e, d, f)

Built(t, c, i, j, k, l, raw) ==
  /\ ChannelsBuilt(conns, connKeyInc, t, c, i, j) /\ GroupsBuilt(wgs, t, c, i, j, k, raw)
  /\ DataSetsBuilt(dts, t, c, i, j, k, l) /\ FieldsBuilt(fields, val, t, c, i, j, k, l, raw)

\* The nodes of the position are selected.
Chosen(s, c, i, j, k) == (i # 0 => s[1] = c + i) /\ (j # 0 => s[2] = j) /\ (k # 0 => s[3] = k)

Placed(t, c, i, j, k, l, raw) == InShape(t, i, j, k, l) /\ Chosen(b, c, i, j, k) /\ Built(t, c, i, j, k, l, raw)

(* The nodes that were there before, those of Channels up to c, are kept.   *)
SameUpTo(f, g, c) == \A x : x[1] <= c => (x \in DOMAIN f <=> x \in DOMAIN g) /\ (x \in DOMAIN f => g[x] = f[x])
KeptNodes(f, g, c) == \A x : (x \in DOMAIN f <=> x \in DOMAIN g /\ x[1] <= c) /\ (x \in DOMAIN f => g[x] = f[x])
KeptChannels(f, g, c) == \A x : (x \in DOMAIN f <=> x \in DOMAIN g /\ x <= c) /\ (x \in DOMAIN f => g[x] = f[x])
Kept(o, c) ==
  /\ KeptChannels(o.conns, conns, c) /\ KeptNodes(o.wgs, wgs, c) /\ KeptNodes(o.dts, dts, c)
  /\ KeptNodes(o.fields, fields, c) /\ KeptNodes(o.val, val, c)

LEMMA StayBuilt ==
  ASSUME NEW t, NEW c, NEW i, NEW j, NEW k, NEW l, NEW raw
  PROVE  /\ \A C, C1, n : ChannelsBuilt(C, n, t, c, i, j) /\ Extends(C, C1) => ChannelsBuilt(C1, n, t, c, i, j)
         /\ \A G, G1 : GroupsBuilt(G, t, c, i, j, k, raw) /\ Extends(G, G1) => GroupsBuilt(G1, t, c, i, j, k, raw)
         /\ \A D, D1 : DataSetsBuilt(D, t, c, i, j, k, l) /\ Extends(D, D1) => DataSetsBuilt(D1, t, c, i, j, k, l)
         /\ \A F, F1, V, V1 : FieldsBuilt(F, V, t, c, i, j, k, l, raw) /\ Extends(F, F1) /\ (\A x \in DOMAIN F : V1[x] = V[x])
              => FieldsBuilt(F1, V1, t, c, i, j, k, l, raw)
  <1>1. ASSUME NEW C, NEW C1, NEW n, ChannelsBuilt(C, n, t, c, i, j), Extends(C, C1)
        PROVE  ChannelsBuilt(C1, n, t, c, i, j)
    BY <1>1 DEF ChannelsBuilt, Extends
  <1>2. ASSUME NEW G, NEW G1, GroupsBuilt(G, t, c, i, j, k, raw), Extends(G, G1)
        PROVE  GroupsBuilt(G1, t, c, i, j, k, raw)
    BY <1>2 DEF GroupsBuilt, GroupBuilt, Extends
  <1>3. ASSUME NEW D, NEW D1, DataSetsBuilt(D, t, c, i, j, k, l), Extends(D, D1)
        PROVE  DataSetsBuilt(D1, t, c, i, j, k, l)
    BY <1>3 DEF DataSetsBuilt, DataSetBuilt, Extends
  <1>4. ASSUME NEW F, NEW F1, NEW V, NEW V1, FieldsBuilt(F, V, t, c, i, j, k, l, raw), Extends(F, F1),
               \A x \in DOMAIN F : V1[x] = V[x]
        PROVE  FieldsBuilt(F1, V1, t, c, i, j, k, l, raw)
    <2>1. ASSUME NEW a, NEW e, NEW d, NEW f, FieldBuilt(F, V, t, c, i, j, k, l, raw, a, e, d, f)
          PROVE  FieldBuilt(F1, V1, t, c, i, j, k, l, raw, a, e, d, f)
      <3>1. PICK q : q = <<c + a, e, d, f>>
        OBVIOUS
      <3>2. q \in DOMAIN F /\ q \in DOMAIN F1 /\ F1[q] = F[q] /\ V1[q] = V[q]
        BY <1>4, <2>1, <3>1 DEF FieldBuilt, Extends
      <3> QED
        BY <2>1, <3>1, <3>2 DEF FieldBuilt
    <2> QED
      BY <1>4, <2>1 DEF FieldsBuilt
  <1> QED
    BY <1>1, <1>2, <1>3, <1>4

LEMMA StayKept ==
  ASSUME NEW f, NEW g, NEW h, NEW c
  PROVE  /\ KeptNodes(f, g, c) /\ SameUpTo(g, h, c) => KeptNodes(f, h, c)
         /\ SameUpTo(g, g, c)
  BY DEF KeptNodes, SameUpTo

-----------------------------------------------------------------------------
(* What a step does to the values.                                         *)
\* A step that is no wrt gives new variables 0 and leaves the others.
LEMMA ValuesStay ==
  ASSUME ExportTypeOK, Values, loop # "wrt"
  PROVE  /\ DOMAIN val' = DOMAIN fields' /\ lastBool' = lastBool
         /\ \A q \in DOMAIN fields' : val'[q] = IF q \in DOMAIN fields THEN val[q] ELSE 0
  BY DEF ExportTypeOK, Values, Target, At

-----------------------------------------------------------------------------
(* A load that goes on: what is added is placed, what was there is kept.    *)
SameTree(c) ==
  /\ \A x : x <= c => (x \in DOMAIN conns <=> x \in DOMAIN conns') /\ (x \in DOMAIN conns => conns'[x] = conns[x])
  /\ SameUpTo(wgs, wgs', c) /\ SameUpTo(dts, dts', c) /\ SameUpTo(fields, fields', c)

LEMMA KeepsOld ==
  ASSUME ExportTypeOK, NEW c, SameTree(c),
         DOMAIN val' = DOMAIN fields', \A q \in DOMAIN fields : q \in DOMAIN fields' /\ q[1] <= c => val'[q] = val[q],
         NEW o, Kept(o, c)
  PROVE  Kept(o, c)'
  <1>1. SameUpTo(val, val', c)
    BY DEF SameTree, SameUpTo, ExportTypeOK
  <1>2. KeptNodes(o.val, val', c)
    BY <1>1, StayKept DEF Kept
  <1>3. KeptNodes(o.wgs, wgs', c) /\ KeptNodes(o.dts, dts', c) /\ KeptNodes(o.fields, fields', c)
    BY StayKept DEF Kept, SameTree
  <1>4. KeptChannels(o.conns, conns', c)
    BY DEF Kept, KeptChannels, SameTree
  <1> QED
    BY <1>2, <1>3, <1>4 DEF Kept

\* The next line is that of a Channel, WriterGroup, DataSet or Field.
ChannelNext(t, i, j, k, l) ==
  i < Len(t) /\ GroupsDone(t, i, j) /\ DataSetsDone(t, i, j, k) /\ FieldsDone(t, i, j, k, l)
GroupNext(t, i, j, k, l) == i # 0 /\ j < Wgs(t, i) /\ DataSetsDone(t, i, j, k) /\ FieldsDone(t, i, j, k, l)
DataSetNext(t, i, j, k, l) == j # 0 /\ k < Dss(t, i, j) /\ FieldsDone(t, i, j, k, l)
FieldNext(t, i, j, k, l) == k # 0 /\ ~ Ds(t, i, j, k).isString /\ l < Fds(t, i, j, k)

LEMMA BuildsChannel ==
  ASSUME IInv, ExportTypeOK, Room(connKeyInc, 1), Values, loop # "wrt",
         NEW t \in Seq(ChannelShapes), NEW c \in Nat, NEW i, NEW j, NEW k, NEW l, Placed(t, c, i, j, k, l, "none"),
         ChannelNext(t, i, j, k, l), CreateConnection(t[i + 1].port), b' = Select(<<connKeyInc'>>)
  PROVE  Placed(t, c, i + 1, 0, 0, 0, "none")' /\ \A o : Kept(o, c) => Kept(o, c)'
  <1>1. InShape(t, i, j, k, l) /\ i \in Nat /\ InShape(t, i + 1, 0, 0, 0)
    <2>2. InShape(t, i, j, k, l) /\ i \in Nat /\ i < Len(t) /\ Len(t) \in Nat
      BY Positions, LenProperties DEF Placed, ChannelNext
    <2>3. i + 1 \in 1 .. Len(t)
      BY <2>2
    <2>4. Wgs(t, i + 1) \in Nat
      BY <2>3, ShapeParts
    <2> QED
      BY <2>2, <2>3, <2>4 DEF InShape
  <1>2. PICK n, port : n = connKeyInc + 1 /\ port = t[i + 1].port
    OBVIOUS
  <1>3. n = c + (i + 1) /\ connKeyInc = c + i
    BY <1>1, <1>2 DEF Placed, Built, ChannelsBuilt
  <1>4. /\ connKeyInc' = n /\ n \notin DOMAIN conns /\ DOMAIN conns' = DOMAIN conns \cup {n}
        /\ Extends(conns, conns') /\ conns'[n].port = port /\ conns'[n].wgKeyInc = 0
        /\ UNCHANGED <<wgs, dts, fields>>
    BY <1>2, ChannelAdded
  <1>5. /\ DOMAIN val' = DOMAIN fields
        /\ \A q \in DOMAIN fields : val'[q] = val[q]
    BY <1>4, ValuesStay
  <1>6. ChannelsBuilt(conns', connKeyInc', t, c, i + 1, 0)
    <2>1. ASSUME NEW a \in 1 .. i + 1
          PROVE  /\ c + a \in DOMAIN conns' /\ conns'[c + a].port = t[a].port
                 /\ conns'[c + a].wgKeyInc = GroupsAt(t, i + 1, 0, a)
      <3>1. CASE a \in 1 .. i
        <4>1. GroupsAt(t, i + 1, 0, a) = GroupsAt(t, i, j, a)
          BY <1>1, <3>1, OneChannelMore DEF ChannelNext
        <4>2. c + a \in DOMAIN conns /\ conns[c + a].port = t[a].port /\ conns[c + a].wgKeyInc = GroupsAt(t, i, j, a)
          BY <3>1 DEF Placed, Built, ChannelsBuilt
        <4> QED
          BY <1>4, <4>1, <4>2 DEF Extends
      <3>2. CASE a = i + 1
        <4>1. GroupsAt(t, i + 1, 0, a) = 0
          BY <1>1, <3>2, OneChannelMore DEF ChannelNext
        <4> QED
          BY <1>2, <1>3, <1>4, <3>2, <4>1
      <3> QED
        BY <1>1, <3>1, <3>2
    <2> QED
      BY <1>3, <1>4, <2>1 DEF ChannelsBuilt
  <1>7. GroupsBuilt(wgs, t, c, i + 1, 0, 0, "none")
    BY <1>1, OneChannelMore DEF Placed, Built, GroupsBuilt, GroupBuilt, ChannelNext
  <1>8. DataSetsBuilt(dts, t, c, i + 1, 0, 0, 0)
    BY <1>1, OneChannelMore DEF Placed, Built, DataSetsBuilt, DataSetBuilt, ChannelNext
  <1>9. FieldsBuilt(fields, val', t, c, i + 1, 0, 0, 0, "none")
    <2>1. FieldsBuilt(fields, val, t, c, i + 1, 0, 0, 0, "none")
      BY <1>1, OneChannelMore DEF Placed, Built, FieldsBuilt, FieldBuilt, ChannelNext
    <2>2. PICK V : V = val'
      OBVIOUS
    <2>3. Extends(fields, fields) /\ \A q \in DOMAIN fields : V[q] = val[q]
      BY <1>5, <2>2 DEF Extends
    <2> QED
      BY <2>1, <2>2, <2>3, StayBuilt
  <1>10. Chosen(b', c, i + 1, 0, 0)
    BY <1>3, <1>4, SelectPath DEF Chosen, Keys
  <1>11. SameTree(c)
    <2>1. \A x : x <= c => x # n
      BY <1>1, <1>3
    <2> QED
      BY <1>4, <2>1 DEF SameTree, SameUpTo, Extends
  <1>12. ASSUME NEW o, Kept(o, c) PROVE Kept(o, c)'
    BY <1>4, <1>5, <1>11, <1>12, KeepsOld
  <1> QED
    BY <1>1, <1>4, <1>6, <1>7, <1>8, <1>9, <1>10, <1>12 DEF Placed, Built

(* What was there before is in nodes with other keys.                       *)
LEMMA BuildsGroup ==
  ASSUME IInv, ExportTypeOK, Values, loop # "wrt",
         NEW t \in Seq(ChannelShapes), NEW c \in Nat, NEW i, NEW j, NEW k, NEW l, Placed(t, c, i, j, k, l, "none"),
         GroupNext(t, i, j, k, l), NEW x, x = c + i, Room(conns[x].wgKeyInc, 1), AddWritergroup(x),
         b' = Select(<<x, j + 1>>)
  PROVE  /\ Placed(t, c, i, j + 1, 0, 0, "group")' /\ \A o : Kept(o, c) => Kept(o, c)'
         /\ wgs'[<<x, j + 1>>].interval = DefaultInterval /\ wgs'[<<x, j + 1>>].enabled = TRUE
  <1>1. /\ InShape(t, i, j, k, l) /\ i \in Nat /\ j \in Nat /\ i \in 1 .. i /\ i # 0 /\ j < Wgs(t, i)
        /\ DataSetsDone(t, i, j, k) /\ FieldsDone(t, i, j, k, l) /\ j + 1 # 0 /\ InShape(t, i, j + 1, 0, 0)
    <2>1. InShape(t, i, j, k, l) /\ i \in Nat /\ j \in Nat /\ i # 0 /\ i \in 1 .. Len(t)
      BY Positions DEF Placed, GroupNext
    <2>2. Wgs(t, i) \in Nat /\ j < Wgs(t, i) /\ Len(t) \in Nat
      BY <2>1, ShapeParts DEF GroupNext
    <2>3. j + 1 \in 1 .. Wgs(t, i) /\ j + 1 # 0 /\ j + 1 \in 0 .. Wgs(t, i) /\ i \in 0 .. Len(t)
      BY <2>1, <2>2
    <2>4. Dss(t, i, j + 1) \in Nat
      BY <2>1, <2>3, ShapeParts
    <2>5. 0 \in 0 .. Dss(t, i, j + 1)
      BY <2>4
    <2> QED
      BY <2>1, <2>2, <2>3, <2>5 DEF InShape, GroupNext
  <1>2. ChannelsBuilt(conns, connKeyInc, t, c, i, j) /\ x \in DOMAIN conns /\ conns[x].wgKeyInc = j /\ conns[x].port = t[i].port
    BY <1>1, LastNode DEF Placed, Built, ChannelsBuilt
  <1>3. PICK n, z : n = conns[x].wgKeyInc + 1 /\ z = <<x, n>>
    OBVIOUS
  <1>4. /\ UNCHANGED <<connKeyInc, dts, fields>> /\ DOMAIN conns' = DOMAIN conns
        /\ \A y \in DOMAIN conns : y # x => conns'[y] = conns[y]
        /\ conns'[x].port = conns[x].port /\ conns'[x].wgKeyInc = n
        /\ z \notin DOMAIN wgs /\ DOMAIN wgs' = DOMAIN wgs \cup {z} /\ (\A y \in DOMAIN wgs : y \in DOMAIN wgs' /\ wgs'[y] = wgs[y])
        /\ wgs'[z].enabled = TRUE /\ wgs'[z].interval = DefaultInterval /\ wgs'[z].dtsKeyInc = 0
    BY <1>2, <1>3, GroupAdded DEF Extends
  <1>5. z = <<c + i, j + 1>> /\ n = j + 1
    BY <1>2, <1>3
  <1>6. DOMAIN val' = DOMAIN fields /\ \A q \in DOMAIN fields : val'[q] = val[q]
    BY <1>4, ValuesStay
  <1>7. ChannelsBuilt(conns', connKeyInc', t, c, i, j + 1)
    <2>1. ASSUME NEW a \in 1 .. i
          PROVE  /\ c + a \in DOMAIN conns' /\ conns'[c + a].port = t[a].port
                 /\ conns'[c + a].wgKeyInc = GroupsAt(t, i, j + 1, a)
      <3>1. GroupsAt(t, i, j + 1, a) = IF a = i THEN j + 1 ELSE GroupsAt(t, i, j, a)
        BY <1>1, OneGroupMore
      <3>2. c + a \in DOMAIN conns /\ conns[c + a].port = t[a].port /\ conns[c + a].wgKeyInc = GroupsAt(t, i, j, a)
        BY <1>2 DEF ChannelsBuilt
      <3>3. c + a = x <=> a = i
        BY <1>1
      <3> QED
        BY <1>4, <1>5, <3>1, <3>2, <3>3
    <2>2. connKeyInc' = c + i
      BY <1>2, <1>4 DEF ChannelsBuilt
    <2> QED
      BY <2>1, <2>2 DEF ChannelsBuilt
  <1>8. GroupsBuilt(wgs', t, c, i, j + 1, 0, "group")
    <2>1. ASSUME NEW a, NEW e, HasGroup(t, i, j + 1, a, e)
          PROVE  GroupBuilt(wgs', t, c, i, j + 1, 0, "group", a, e)
      <3>1. CASE HasGroup(t, i, j, a, e)
        <4>1. PICK y : y = <<c + a, e>>
          OBVIOUS
        <4>2. /\ y \in DOMAIN wgs /\ wgs[y].dtsKeyInc = DataSetsAt(t, i, j, k, a, e)
              /\ wgs[y].interval = Wg(t, a, e).interval /\ wgs[y].enabled = Wg(t, a, e).enabled
          BY <3>1, <4>1 DEF Placed, Built, GroupsBuilt, GroupBuilt
        <4>3. DataSetsAt(t, i, j + 1, 0, a, e) = DataSetsAt(t, i, j, k, a, e)
          BY <1>1, <3>1, OneGroupMore
        <4> QED
          BY <1>4, <4>1, <4>2, <4>3 DEF GroupBuilt
      <3>2. CASE a = i /\ e = j + 1
        <4>1. DataSetsAt(t, i, j + 1, 0, a, e) = 0
          BY <1>1, <3>2, OneGroupMore
        <4> QED
          BY <1>4, <1>5, <3>2, <4>1 DEF GroupBuilt
      <3> QED
        BY <1>1, <2>1, <3>1, <3>2, OneGroupMore
    <2> QED
      BY <2>1 DEF GroupsBuilt
  <1>9. DataSetsBuilt(dts, t, c, i, j + 1, 0, 0)
    BY <1>1, OneGroupMore DEF Placed, Built, DataSetsBuilt, DataSetBuilt
  <1>10. FieldsBuilt(fields, val', t, c, i, j + 1, 0, 0, "group")
    <2>1. FieldsBuilt(fields, val, t, c, i, j + 1, 0, 0, "group")
      BY <1>1, OneGroupMore DEF Placed, Built, FieldsBuilt, FieldBuilt
    <2>2. PICK V : V = val'
      OBVIOUS
    <2>3. Extends(fields, fields) /\ \A q \in DOMAIN fields : V[q] = val[q]
      BY <1>6, <2>2 DEF Extends
    <2> QED
      BY <2>1, <2>2, <2>3, StayBuilt
  <1>11. Chosen(b', c, i, j + 1, 0)
    <2>1. PICK m : m = j + 1
      OBVIOUS
    <2>2. Keys(Select(<<x, m>>), x, m, 0, 0)
      BY SelectPath
    <2> QED
      BY <2>1, <2>2 DEF Chosen, Keys
  <1>12. SameTree(c)
    <2>1. ~ (x <= c) /\ z[1] = x
      BY <1>1, <1>3
    <2> QED
      BY <1>4, <2>1 DEF SameTree, SameUpTo
  <1>13. ASSUME NEW o, Kept(o, c) PROVE Kept(o, c)'
    BY <1>4, <1>6, <1>12, <1>13, KeepsOld
  <1> QED
    BY <1>1, <1>3, <1>4, <1>5, <1>7, <1>8, <1>9, <1>10, <1>11, <1>13 DEF Placed, Built

LEMMA BuildsDataSet ==
  ASSUME IInv, ExportTypeOK, Values, loop # "wrt",
         NEW t \in Seq(ChannelShapes), NEW c \in Nat, NEW i, NEW j, NEW k, NEW l, Placed(t, c, i, j, k, l, "none"),
         DataSetNext(t, i, j, k, l), NEW x \in DOMAIN wgs, x[1] = c + i, x[2] = j, Room(wgs[x].dtsKeyInc, 1),
         NEW new, new = Ds(t, i, j, k + 1), IF new.isString THEN AddDataset(x, TRUE) ELSE AddDataset(x, FALSE),
         Keys(b', c + i, j, k + 1, b'[4])
  PROVE  Placed(t, c, i, j, k + 1, 0, "none")' /\ \A o : Kept(o, c) => Kept(o, c)'
  <1>1. /\ InShape(t, i, j, k, l) /\ i \in Nat /\ j \in Nat /\ k \in Nat /\ j # 0 /\ i # 0 /\ k < Dss(t, i, j)
        /\ FieldsDone(t, i, j, k, l) /\ k + 1 # 0 /\ InShape(t, i, j, k + 1, 0) /\ i \in 1 .. i
        /\ new.isString \in BOOLEAN
    <2>1. InShape(t, i, j, k, l) /\ i \in Nat /\ j \in Nat /\ k \in Nat /\ j # 0 /\ i # 0 /\ i \in 1 .. Len(t) /\ j \in 1 .. Wgs(t, i)
      BY Positions DEF Placed, DataSetNext
    <2>2. Dss(t, i, j) \in Nat /\ k < Dss(t, i, j) /\ Len(t) \in Nat /\ Wgs(t, i) \in Nat
      BY <2>1, ShapeParts DEF DataSetNext
    <2>3. /\ k + 1 \in 1 .. Dss(t, i, j) /\ k + 1 # 0 /\ k + 1 \in 0 .. Dss(t, i, j)
          /\ i \in 0 .. Len(t) /\ j \in 0 .. Wgs(t, i) /\ i \in 1 .. i
      BY <2>1, <2>2
    <2>4. Fds(t, i, j, k + 1) \in Nat /\ new.isString \in BOOLEAN
      BY <2>1, <2>3, ShapeParts
    <2>5. 0 \in 0 .. Fds(t, i, j, k + 1)
      BY <2>4
    <2> QED
      BY <2>1, <2>2, <2>3, <2>4, <2>5 DEF InShape, DataSetNext
  <1>2. GroupsBuilt(wgs, t, c, i, j, k, "none") /\ x = <<c + i, j>> /\ wgs[x].dtsKeyInc = k
    <2>1. GroupBuilt(wgs, t, c, i, j, k, "none", i, j) /\ GroupsBuilt(wgs, t, c, i, j, k, "none")
      BY <1>1, LastNode DEF Placed, Built, GroupsBuilt
    <2>2. DataSetsAt(t, i, j, k, i, j) = k
      BY <1>1, LastNode
    <2>3. x = <<c + i, j>>
      BY DEF IInv, TreeTypeOK
    <2> QED
      BY <2>1, <2>2, <2>3 DEF GroupBuilt
  <1>3. PICK n, z : n = wgs[x].dtsKeyInc + 1 /\ z = <<x[1], x[2], n>>
    OBVIOUS
  <1>4. /\ UNCHANGED <<connKeyInc, conns, fields>> /\ DOMAIN wgs' = DOMAIN wgs
        /\ \A y \in DOMAIN wgs : y # x => wgs'[y] = wgs[y]
        /\ wgs'[x].enabled = wgs[x].enabled /\ wgs'[x].interval = wgs[x].interval /\ wgs'[x].dtsKeyInc = n
        /\ z \notin DOMAIN dts /\ DOMAIN dts' = DOMAIN dts \cup {z} /\ (\A y \in DOMAIN dts : y \in DOMAIN dts' /\ dts'[y] = dts[y])
        /\ dts'[z].isString = new.isString /\ dts'[z].varKeyInc = 0
    <2>1. wgs[x] \in [enabled : BOOLEAN, interval : Interval, dtsKeyInc : Key]
      BY DEF IInv, TreeTypeOK
    <2>2. Inc(wgs[x].dtsKeyInc) = n
      BY <1>3, <2>1, NextKey
    <2>3. z \notin DOMAIN dts
      BY <1>3, <2>2, FreeKeys
    <2>4. PICK v : IF new.isString THEN v = NewDataSet(TRUE) ELSE v = NewDataSet(FALSE)
      OBVIOUS
    <2>5. /\ wgs' = [wgs EXCEPT ![x].dtsKeyInc = n] /\ dts' = PutNew(dts, z, v)
          /\ UNCHANGED <<connKeyInc, conns, fields>>
      BY <1>3, <2>2, <2>4 DEF AddDataset
    <2>6. DOMAIN dts' = DOMAIN dts \cup {z} /\ dts'[z] = v /\ \A y \in DOMAIN dts : y \in DOMAIN dts' /\ dts'[y] = dts[y]
      BY <2>3, <2>5 DEF PutNew, Put
    <2>7. /\ DOMAIN wgs' = DOMAIN wgs /\ wgs'[x].enabled = wgs[x].enabled
          /\ wgs'[x].interval = wgs[x].interval /\ wgs'[x].dtsKeyInc = n
      BY <2>1, <2>5
    <2>8. \A y \in DOMAIN wgs : y # x => wgs'[y] = wgs[y]
      BY <2>5
    <2>9. v.isString = new.isString /\ v.varKeyInc = 0
      <3>1. CASE new.isString = TRUE
        <4>1. v = NewDataSet(TRUE)
          BY <2>4, <3>1
        <4>2. v.isString = TRUE /\ v.varKeyInc = 0
          BY <4>1 DEF NewDataSet
        <4> QED
          BY <3>1, <4>2, Zenon
      <3>2. CASE new.isString = FALSE
        <4>1. v = NewDataSet(FALSE)
          BY <2>4, <3>2
        <4>2. v.isString = FALSE /\ v.varKeyInc = 0
          BY <4>1 DEF NewDataSet
        <4> QED
          BY <3>2, <4>2, Zenon
      <3> QED
        BY <1>1, <3>1, <3>2
    <2> QED
      BY <2>3, <2>5, <2>6, <2>7, <2>8, <2>9
  <1>5. z = <<c + i, j, k + 1>> /\ n = k + 1 /\ x[1] = c + i
    BY <1>2, <1>3
  <1>6. DOMAIN val' = DOMAIN fields /\ \A q \in DOMAIN fields : val'[q] = val[q]
    BY <1>4, ValuesStay
  <1>7. ChannelsBuilt(conns', connKeyInc', t, c, i, j)
    BY <1>4 DEF Placed, Built
  <1>8. GroupsBuilt(wgs', t, c, i, j, k + 1, "none")
    <2>1. ASSUME NEW a, NEW e, HasGroup(t, i, j, a, e)
          PROVE  GroupBuilt(wgs', t, c, i, j, k + 1, "none", a, e)
      <3>1. PICK y : y = <<c + a, e>>
        OBVIOUS
      <3>2. /\ y \in DOMAIN wgs /\ wgs[y].dtsKeyInc = DataSetsAt(t, i, j, k, a, e)
            /\ wgs[y].interval = Wg(t, a, e).interval /\ wgs[y].enabled = Wg(t, a, e).enabled
        BY <1>2, <2>1, <3>1 DEF GroupsBuilt, GroupBuilt
      <3>3. DataSetsAt(t, i, j, k + 1, a, e) = IF a = i /\ e = j THEN k + 1 ELSE DataSetsAt(t, i, j, k, a, e)
        BY <1>1, <2>1, OneDataSetMore
      <3>4. y = x <=> a = i /\ e = j
        <4>1. a \in Nat /\ e \in Nat
          BY <1>1, <2>1, NodesInShape
        <4>2. c + a = c + i <=> a = i
          BY <1>1, <4>1
        <4> QED
          BY <1>2, <3>1, <4>2
      <3>5. /\ y \in DOMAIN wgs' /\ wgs'[y].enabled = wgs[y].enabled /\ wgs'[y].interval = wgs[y].interval
            /\ wgs'[y].dtsKeyInc = DataSetsAt(t, i, j, k + 1, a, e)
        BY <1>2, <1>4, <1>5, <3>2, <3>3, <3>4
      <3> QED
        BY <3>1, <3>2, <3>5 DEF GroupBuilt
    <2> QED
      BY <2>1 DEF GroupsBuilt
  <1>9. DataSetsBuilt(dts', t, c, i, j, k + 1, 0)
    <2>1. ASSUME NEW a, NEW e, NEW d, HasDataSet(t, i, j, k + 1, a, e, d)
          PROVE  DataSetBuilt(dts', t, c, i, j, k + 1, 0, a, e, d)
      <3>1. CASE HasDataSet(t, i, j, k, a, e, d)
        <4>1. PICK y : y = <<c + a, e, d>>
          OBVIOUS
        <4>2. /\ y \in DOMAIN dts /\ dts[y].isString = Ds(t, a, e, d).isString
              /\ dts[y].varKeyInc = FieldsAt(t, i, j, k, l, a, e, d)
          BY <3>1, <4>1 DEF Placed, Built, DataSetsBuilt, DataSetBuilt
        <4>3. FieldsAt(t, i, j, k + 1, 0, a, e, d) = FieldsAt(t, i, j, k, l, a, e, d)
          BY <1>1, <3>1, OneDataSetMore
        <4> QED
          BY <1>4, <4>1, <4>2, <4>3 DEF DataSetBuilt
      <3>2. CASE a = i /\ e = j /\ d = k + 1
        <4>1. FieldsAt(t, i, j, k + 1, 0, a, e, d) = 0
          BY <1>1, <3>2, OneDataSetMore
        <4> QED
          BY <1>4, <1>5, <3>2, <4>1 DEF DataSetBuilt
      <3> QED
        BY <1>1, <2>1, <3>1, <3>2, OneDataSetMore
    <2> QED
      BY <2>1 DEF DataSetsBuilt
  <1>10. FieldsBuilt(fields, val', t, c, i, j, k + 1, 0, "none")
    <2>1. FieldsBuilt(fields, val, t, c, i, j, k + 1, 0, "none")
      BY <1>1, OneDataSetMore DEF Placed, Built, FieldsBuilt, FieldBuilt
    <2>2. PICK V : V = val'
      OBVIOUS
    <2>3. Extends(fields, fields) /\ \A q \in DOMAIN fields : V[q] = val[q]
      BY <1>6, <2>2 DEF Extends
    <2> QED
      BY <2>1, <2>2, <2>3, StayBuilt
  <1>11. Chosen(b', c, i, j, k + 1)
    BY DEF Chosen, Keys
  <1>12. SameTree(c)
    <2>1. ~ (x[1] <= c) /\ z[1] = x[1]
      BY <1>1, <1>3, <1>5
    <2> QED
      BY <1>4, <2>1 DEF SameTree, SameUpTo
  <1>13. ASSUME NEW o, Kept(o, c) PROVE Kept(o, c)'
    BY <1>4, <1>6, <1>12, <1>13, KeepsOld
  <1> QED
    BY <1>1, <1>4, <1>7, <1>8, <1>9, <1>10, <1>11, <1>13 DEF Placed, Built

LEMMA BuildsField ==
  ASSUME IInv, ExportTypeOK, Values, loop # "wrt",
         NEW t \in Seq(ChannelShapes), NEW c \in Nat, NEW i, NEW j, NEW k, NEW l, Placed(t, c, i, j, k, l, "none"),
         FieldNext(t, i, j, k, l), NEW x \in DOMAIN dts, x[1] = c + i, x[2] = j, x[3] = k, Room(dts[x].varKeyInc, 1),
         NEW type, type = Fd(t, i, j, k, l + 1).type, AddData(x, type), b'[1] = c + i, b'[2] = j, b'[3] = k
  PROVE  /\ Placed(t, c, i, j, k, l + 1, "field")' /\ \A o : Kept(o, c) => Kept(o, c)'
         /\ type = "date" => Placed(t, c, i, j, k, l + 1, "none")'
  <1>1. /\ InShape(t, i, j, k, l) /\ i \in Nat /\ j \in Nat /\ k \in Nat /\ l \in Nat
        /\ k # 0 /\ i \in 1 .. Len(t) /\ j \in 1 .. Wgs(t, i) /\ k \in 1 .. Dss(t, i, j)
        /\ l + 1 \in 0 .. Fds(t, i, j, k) /\ l + 1 \in 1 .. Fds(t, i, j, k) /\ ~ Ds(t, i, j, k).isString
    <2>1. /\ InShape(t, i, j, k, l) /\ i \in Nat /\ j \in Nat /\ k \in Nat /\ l \in Nat
          /\ k # 0 /\ i \in 1 .. Len(t) /\ j \in 1 .. Wgs(t, i) /\ k \in 1 .. Dss(t, i, j)
      BY Positions DEF Placed, FieldNext
    <2>2. Fds(t, i, j, k) \in Nat
      BY <2>1, ShapeParts
    <2> QED
      BY <2>1, <2>2 DEF FieldNext
  <1>2. /\ InShape(t, i, j, k, l + 1)
        /\ \A a, e, d : HasDataSet(t, i, j, k, a, e, d) =>
             FieldsAt(t, i, j, k, l + 1, a, e, d) =
               IF a = i /\ e = j /\ d = k THEN l + 1 ELSE FieldsAt(t, i, j, k, l, a, e, d)
        /\ \A a, e, d, f : ~ (a = i /\ e = j /\ d = k) =>
             (HasField(t, i, j, k, l + 1, a, e, d, f) <=> HasField(t, i, j, k, l, a, e, d, f))
        /\ \A f : HasField(t, i, j, k, l + 1, i, j, k, f) <=> f \in 1 .. l + 1
        /\ \A f : HasField(t, i, j, k, l, i, j, k, f) <=> f \in 1 .. l
    <2>1. l \in 0 .. Fds(t, i, j, k)
      BY <1>1, Positions
    <2> QED
      BY <1>1, <2>1, MoreFields
  <1>3. x = <<c + i, j, k>> /\ dts[x].varKeyInc = l
    <2>1. DataSetBuilt(dts, t, c, i, j, k, l, i, j, k)
      BY <1>1, LastNode DEF Placed, Built, DataSetsBuilt
    <2>2. FieldsAt(t, i, j, k, l, i, j, k) = l
      BY <1>1, LastNode
    <2>3. x = <<c + i, j, k>>
      BY DEF IInv, TreeTypeOK
    <2> QED
      BY <2>1, <2>2, <2>3 DEF DataSetBuilt
  <1>4. PICK n, z : n = dts[x].varKeyInc + 1 /\ z = <<x[1], x[2], x[3], n>>
    OBVIOUS
  <1>5. /\ UNCHANGED <<connKeyInc, conns, wgs>> /\ DOMAIN dts' = DOMAIN dts
        /\ \A y \in DOMAIN dts : y # x => dts'[y] = dts[y]
        /\ dts'[x].isString = dts[x].isString /\ dts'[x].varKeyInc = n
        /\ z \notin DOMAIN fields /\ DOMAIN fields' = DOMAIN fields \cup {z}
        /\ (\A y \in DOMAIN fields : y \in DOMAIN fields' /\ fields'[y] = fields[y])
        /\ fields'[z] = type
    <2>1. FieldIsNew(x, n, z, type)
      BY <1>4, FieldAdded
    <2>2. dts[x] \in [isString : BOOLEAN, varKeyInc : Key]
      BY DEF IInv, TreeTypeOK
    <2> QED
      BY <2>1, <2>2 DEF FieldIsNew, Extends
  <1>6. z = <<c + i, j, k, l + 1>> /\ n = l + 1
    BY <1>3, <1>4
  <1>7. /\ DOMAIN val' = DOMAIN fields' /\ \A q \in DOMAIN fields : val'[q] = val[q]
        /\ val'[z] = 0
    BY <1>5, ValuesStay
  <1>8. ChannelsBuilt(conns', connKeyInc', t, c, i, j) /\ GroupsBuilt(wgs', t, c, i, j, k, "none")
        /\ GroupsBuilt(wgs', t, c, i, j, k, "field")
    BY <1>5 DEF Placed, Built, GroupsBuilt, GroupBuilt
  <1>9. DataSetsBuilt(dts', t, c, i, j, k, l + 1)
    <2>1. ASSUME NEW a, NEW e, NEW d, HasDataSet(t, i, j, k, a, e, d)
          PROVE  DataSetBuilt(dts', t, c, i, j, k, l + 1, a, e, d)
      <3>1. PICK y : y = <<c + a, e, d>>
        OBVIOUS
      <3>2. /\ y \in DOMAIN dts /\ dts[y].isString = Ds(t, a, e, d).isString
            /\ dts[y].varKeyInc = FieldsAt(t, i, j, k, l, a, e, d)
        BY <2>1, <3>1 DEF Placed, Built, DataSetsBuilt, DataSetBuilt
      <3>3. FieldsAt(t, i, j, k, l + 1, a, e, d) = IF a = i /\ e = j /\ d = k THEN l + 1 ELSE FieldsAt(t, i, j, k, l, a, e, d)
        BY <1>2, <2>1
      <3>4. y = x <=> a = i /\ e = j /\ d = k
        <4>1. a \in Nat
          BY <1>1, <2>1, NodesInShape DEF HasDataSet
        <4>2. c + a = c + i <=> a = i
          BY <1>1, <4>1
        <4> QED
          BY <1>3, <3>1, <4>2
      <3>5. /\ y \in DOMAIN dts' /\ dts'[y].isString = Ds(t, a, e, d).isString
            /\ dts'[y].varKeyInc = FieldsAt(t, i, j, k, l + 1, a, e, d)
        <4>1. CASE y = x
          <5>1. dts'[y].isString = dts[y].isString
            BY <1>5, <4>1, Zenon
          <5> QED
            BY <1>5, <1>6, <3>2, <3>3, <3>4, <4>1, <5>1
        <4>2. CASE y # x
          BY <1>5, <3>2, <3>3, <3>4, <4>2
        <4> QED
          BY <4>1, <4>2
      <3> QED
        BY <3>1, <3>5 DEF DataSetBuilt
    <2> QED
      BY <2>1 DEF DataSetsBuilt
  <1>10. ASSUME NEW raw \in {"none", "field"}, raw = "field" \/ type = "date"
         PROVE  FieldsBuilt(fields', val', t, c, i, j, k, l + 1, raw)
    <2>1. ASSUME NEW a, NEW e, NEW d, NEW f, HasField(t, i, j, k, l + 1, a, e, d, f), ~ Ds(t, a, e, d).isString
          PROVE  FieldBuilt(fields', val', t, c, i, j, k, l + 1, raw, a, e, d, f)
      <3>1. PICK y, V : y = <<c + a, e, d, f>> /\ V = val'
        OBVIOUS
      <3>2. CASE HasField(t, i, j, k, l, a, e, d, f)
        <4>1. FieldBuilt(fields, val, t, c, i, j, k, l, "none", a, e, d, f)
          BY <2>1, <3>2 DEF Placed, Built, FieldsBuilt
        <4>2. /\ y \in DOMAIN fields /\ fields[y] = Fd(t, a, e, d, f).type
              /\ Legible(Fd(t, a, e, d, f)) => val[y] = Fd(t, a, e, d, f).value
          BY <3>1, <4>1 DEF FieldBuilt
        <4>3. y \in DOMAIN fields' /\ fields'[y] = fields[y] /\ V[y] = val[y]
          BY <1>5, <1>7, <3>1, <4>2
        <4> QED
          BY <3>1, <4>2, <4>3 DEF FieldBuilt
      <3>3. CASE ~ HasField(t, i, j, k, l, a, e, d, f)
        <4>1. a = i /\ e = j /\ d = k
          BY <1>2, <2>1, <3>3
        <4>2. f \in 1 .. l + 1 /\ f \notin 1 .. l
          BY <1>2, <2>1, <3>3, <4>1
        <4>3. f = l + 1
          BY <1>1, <4>2
        <4>4. y = z
          BY <1>6, <3>1, <4>1, <4>3
        <4>5. y \in DOMAIN fields' /\ fields'[y] = type /\ V[y] = 0
          BY <1>5, <1>7, <3>1, <4>4
        <4>6. type = "date" => Fd(t, a, e, d, f).value = 0
          <5>1. Fd(t, i, j, k, f) \in FieldShapes
            BY <1>1, <4>3, ShapeParts
          <5>2. "date" \notin IntType
            BY FilesOK DEF FilesOK
          <5> QED
            BY <4>1, <4>3, <5>1, <5>2 DEF FieldShapes, InType
        <4> QED
          BY <1>10, <3>1, <4>1, <4>3, <4>5, <4>6 DEF FieldBuilt
      <3> QED
        BY <3>2, <3>3
    <2> QED
      BY <2>1 DEF FieldsBuilt
  <1>11. Chosen(b', c, i, j, k)
    BY DEF Chosen
  <1>12. SameTree(c)
    <2>1. ~ (x[1] <= c) /\ z[1] = x[1]
      BY <1>1, <1>4
    <2> QED
      BY <1>5, <2>1 DEF SameTree, SameUpTo
  <1>13. ASSUME NEW o, Kept(o, c) PROVE Kept(o, c)'
    BY <1>5, <1>7, <1>12, <1>13, KeepsOld
  <1> QED
    BY <1>2, <1>8, <1>9, <1>10, <1>11, <1>13 DEF Placed, Built

LEMMA BuildsText ==
  ASSUME IInv, ExportTypeOK, Values, loop # "wrt",
         NEW t \in Seq(ChannelShapes), NEW c \in Nat, NEW i, NEW j, NEW k, NEW n, Placed(t, c, i, j, k, 0, "none"),
         k # 0, Ds(t, i, j, k).isString, n = Ds(t, i, j, k).length,
         NEW x \in DOMAIN dts, x[1] = c + i, x[2] = j, x[3] = k, WriteString(x, n), b' = b
  PROVE  Placed(t, c, i, j, k, n, "none")' /\ \A o : Kept(o, c) => Kept(o, c)'
  <1>1. /\ InShape(t, i, j, k, 0) /\ i \in Nat /\ j \in Nat /\ k \in Nat
        /\ i \in 1 .. Len(t) /\ j \in 1 .. Wgs(t, i) /\ k \in 1 .. Dss(t, i, j)
        /\ n = Fds(t, i, j, k) /\ n \in 0 .. Fds(t, i, j, k) /\ n \in 0 .. MaxString
    <2>1. /\ InShape(t, i, j, k, 0) /\ i \in Nat /\ j \in Nat /\ k \in Nat
          /\ i \in 1 .. Len(t) /\ j \in 1 .. Wgs(t, i) /\ k \in 1 .. Dss(t, i, j)
      BY Positions DEF Placed
    <2>2. Fds(t, i, j, k) \in Nat /\ n \in 0 .. MaxString
      BY <2>1, ShapeParts
    <2>3. n = Fds(t, i, j, k)
      BY DEF Fds
    <2> QED
      BY <2>1, <2>2, <2>3
  <1>2. /\ InShape(t, i, j, k, n)
        /\ \A a, e, d : HasDataSet(t, i, j, k, a, e, d) =>
             FieldsAt(t, i, j, k, n, a, e, d) =
               IF a = i /\ e = j /\ d = k THEN n ELSE FieldsAt(t, i, j, k, 0, a, e, d)
        /\ \A a, e, d, f : ~ (a = i /\ e = j /\ d = k) =>
             (HasField(t, i, j, k, n, a, e, d, f) <=> HasField(t, i, j, k, 0, a, e, d, f))
    BY <1>1, MoreFields
  <1>3. x = <<c + i, j, k>>
    BY DEF IInv, TreeTypeOK
  <1>4. StringHas(x, n)
    BY <1>1, StringSet
  <1>5. /\ UNCHANGED <<connKeyInc, conns, wgs>> /\ DOMAIN dts' = DOMAIN dts
        /\ \A y \in DOMAIN dts : y # x => dts'[y] = dts[y]
        /\ dts'[x].isString = dts[x].isString /\ dts'[x].varKeyInc = n
        /\ \A q : DataSetOf(q) # x => (q \in DOMAIN fields' <=> q \in DOMAIN fields)
        /\ \A q \in DOMAIN fields' : q \in DOMAIN fields => fields'[q] = fields[q]
    <2>1. dts[x] \in [isString : BOOLEAN, varKeyInc : Key]
      BY DEF IInv, TreeTypeOK
    <2> QED
      BY <1>4, <2>1 DEF StringHas
  <1>6. /\ DOMAIN val' = DOMAIN fields'
        /\ \A q \in DOMAIN fields' : q \in DOMAIN fields => val'[q] = val[q]
    BY ValuesStay
  <1>7. ChannelsBuilt(conns', connKeyInc', t, c, i, j) /\ GroupsBuilt(wgs', t, c, i, j, k, "none")
    BY <1>5 DEF Placed, Built
  <1>8. \A a, e, d : HasDataSet(t, i, j, k, a, e, d) => (<<c + a, e, d>> = x <=> a = i /\ e = j /\ d = k)
    <2>1. ASSUME NEW a, NEW e, NEW d, HasDataSet(t, i, j, k, a, e, d)
          PROVE  <<c + a, e, d>> = x <=> a = i /\ e = j /\ d = k
      <3>1. a \in Nat
        BY <1>1, <2>1, NodesInShape DEF HasDataSet
      <3>2. c + a = c + i <=> a = i
        BY <1>1, <3>1
      <3> QED
        BY <1>3, <3>2
    <2> QED
      BY <2>1
  <1>9. DataSetsBuilt(dts', t, c, i, j, k, n)
    <2>1. ASSUME NEW a, NEW e, NEW d, HasDataSet(t, i, j, k, a, e, d)
          PROVE  DataSetBuilt(dts', t, c, i, j, k, n, a, e, d)
      <3>1. PICK y : y = <<c + a, e, d>>
        OBVIOUS
      <3>2. /\ y \in DOMAIN dts /\ dts[y].isString = Ds(t, a, e, d).isString
            /\ dts[y].varKeyInc = FieldsAt(t, i, j, k, 0, a, e, d)
        BY <2>1, <3>1 DEF Placed, Built, DataSetsBuilt, DataSetBuilt
      <3>3. FieldsAt(t, i, j, k, n, a, e, d) = IF a = i /\ e = j /\ d = k THEN n ELSE FieldsAt(t, i, j, k, 0, a, e, d)
        BY <1>2, <2>1
      <3>4. y = x <=> a = i /\ e = j /\ d = k
        BY <1>8, <2>1, <3>1
      <3>5. /\ y \in DOMAIN dts' /\ dts'[y].isString = Ds(t, a, e, d).isString
            /\ dts'[y].varKeyInc = FieldsAt(t, i, j, k, n, a, e, d)
        <4>1. CASE y = x
          <5>1. dts'[y].isString = dts[y].isString
            BY <1>5, <4>1, Zenon
          <5> QED
            BY <1>5, <3>2, <3>3, <3>4, <4>1, <5>1
        <4>2. CASE y # x
          BY <1>5, <3>2, <3>3, <3>4, <4>2
        <4> QED
          BY <4>1, <4>2
      <3> QED
        BY <3>1, <3>5 DEF DataSetBuilt
    <2> QED
      BY <2>1 DEF DataSetsBuilt
  <1>10. FieldsBuilt(fields', val', t, c, i, j, k, n, "none")
    <2>1. ASSUME NEW a, NEW e, NEW d, NEW f, HasField(t, i, j, k, n, a, e, d, f), ~ Ds(t, a, e, d).isString
          PROVE  FieldBuilt(fields', val', t, c, i, j, k, n, "none", a, e, d, f)
      <3>1. PICK y, V : y = <<c + a, e, d, f>> /\ V = val'
        OBVIOUS
      <3>2. ~ (a = i /\ e = j /\ d = k)
        BY <2>1
      <3>3. HasField(t, i, j, k, 0, a, e, d, f)
        BY <1>2, <2>1, <3>2
      <3>4. FieldBuilt(fields, val, t, c, i, j, k, 0, "none", a, e, d, f)
        BY <2>1, <3>3 DEF Placed, Built, FieldsBuilt
      <3>5. /\ y \in DOMAIN fields /\ fields[y] = Fd(t, a, e, d, f).type
            /\ Legible(Fd(t, a, e, d, f)) => val[y] = Fd(t, a, e, d, f).value
        BY <3>1, <3>4 DEF FieldBuilt
      <3>6. DataSetOf(y) # x
        <4>1. DataSetOf(y) = <<c + a, e, d>>
          BY <3>1 DEF DataSetOf
        <4>2. HasDataSet(t, i, j, k, a, e, d)
          BY <3>3 DEF HasField
        <4> QED
          BY <1>8, <3>2, <4>1, <4>2
      <3>7. y \in DOMAIN fields' /\ fields'[y] = fields[y] /\ V[y] = val[y]
        BY <1>5, <1>6, <3>1, <3>5, <3>6
      <3> QED
        BY <3>1, <3>5, <3>7 DEF FieldBuilt
    <2> QED
      BY <2>1 DEF FieldsBuilt
  <1>11. Chosen(b', c, i, j, k)
    BY DEF Placed, Chosen
  <1>12. SameTree(c)
    <2>1. ~ (x[1] <= c)
      BY <1>1
    <2>2. \A q : q[1] <= c => DataSetOf(q) # x
      BY <1>3, <2>1 DEF DataSetOf
    <2>3. \A q : q[1] <= c => q # x
      BY <2>1
    <2> QED
      BY <1>5, <2>2, <2>3 DEF SameTree, SameUpTo
  <1>13. ASSUME NEW o, Kept(o, c) PROVE Kept(o, c)'
    BY <1>6, <1>12, <1>13, KeepsOld
  <1> QED
    BY <1>2, <1>7, <1>9, <1>10, <1>11, <1>13 DEF Placed, Built

\* A step that leaves the tree, the selection and the values alone.
LEMMA StaysPlaced ==
  ASSUME ExportTypeOK, Values, loop # "wrt", UNCHANGED <<treeVars, b>>,
         NEW t, NEW c, NEW i, NEW j, NEW k, NEW l, NEW raw, Placed(t, c, i, j, k, l, raw)
  PROVE  Placed(t, c, i, j, k, l, raw)' /\ \A o : Kept(o, c) => Kept(o, c)'
  <1>1. connKeyInc' = connKeyInc /\ conns' = conns /\ wgs' = wgs /\ dts' = dts /\ fields' = fields /\ b' = b
    BY DEF treeVars
  <1>2. PICK V : V = val'
    OBVIOUS
  <1>3. DOMAIN V = DOMAIN fields /\ \A q \in DOMAIN fields : V[q] = val[q]
    BY <1>1, <1>2, ValuesStay
  <1>4. FieldsBuilt(fields, V, t, c, i, j, k, l, raw)
    <2>1. Extends(fields, fields)
      BY DEF Extends
    <2> QED
      BY <1>3, <2>1, StayBuilt DEF Placed, Built
  <1>5. SameTree(c)
    BY <1>1 DEF SameTree, SameUpTo
  <1>6. ASSUME NEW o, Kept(o, c) PROVE Kept(o, c)'
    BY <1>1, <1>2, <1>3, <1>5, <1>6, KeepsOld
  <1> QED
    BY <1>1, <1>2, <1>4, <1>6 DEF Placed, Built

\* A step in which only the file being read changes.
LEMMA StillPlaced ==
  ASSUME UNCHANGED <<treeVars, b, val>>, NEW t, NEW c, NEW i, NEW j, NEW k, NEW l, NEW raw
  PROVE  /\ Placed(t, c, i, j, k, l, raw) => Placed(t, c, i, j, k, l, raw)'
         /\ \A o : Kept(o, c) => Kept(o, c)'
  BY DEF treeVars, Placed, Built, Kept

(* What intv and off do to the WriterGroup added last.                      *)
LEMMA SetsGroup ==
  ASSUME IInv, ExportTypeOK, Values, loop # "wrt",
         NEW t \in Seq(ChannelShapes), NEW c \in Nat, NEW i, NEW j, NEW k, NEW l, Placed(t, c, i, j, k, l, "group"),
         j # 0, NEW x, x = <<c + i, j>>, NEW v, v.dtsKeyInc = wgs[x].dtsKeyInc,
         wgs' = [y \in DOMAIN wgs |-> IF y \in {x} THEN v ELSE wgs[y]],
         UNCHANGED <<connKeyInc, conns, dts, fields, b>>
  PROVE  /\ Placed(t, c, i, j, k, l, "group")' /\ \A o : Kept(o, c) => Kept(o, c)'
         /\ x \in DOMAIN wgs /\ wgs'[x] = v
  <1>1. /\ InShape(t, i, j, k, l) /\ i \in Nat /\ i \in 1 .. Len(t) /\ HasGroup(t, i, j, i, j)
        /\ DataSetsAt(t, i, j, k, i, j) = k
    BY Positions, LastNode DEF Placed
  <1>2. GroupsBuilt(wgs, t, c, i, j, k, "group")
    BY DEF Placed, Built
  <1>3. x \in DOMAIN wgs /\ wgs[x].dtsKeyInc = k
    BY <1>1, <1>2 DEF GroupsBuilt, GroupBuilt
  <1>4. DOMAIN wgs' = DOMAIN wgs /\ wgs'[x] = v /\ \A y \in DOMAIN wgs : y # x => wgs'[y] = wgs[y]
    BY <1>3
  <1>5. GroupsBuilt(wgs', t, c, i, j, k, "group")
    <2>1. ASSUME NEW a, NEW e, HasGroup(t, i, j, a, e)
          PROVE  GroupBuilt(wgs', t, c, i, j, k, "group", a, e)
      <3>1. PICK y : y = <<c + a, e>>
        OBVIOUS
      <3>2. y \in DOMAIN wgs /\ wgs[y].dtsKeyInc = DataSetsAt(t, i, j, k, a, e)
        BY <1>2, <2>1, <3>1 DEF GroupsBuilt, GroupBuilt
      <3>3. CASE a = i /\ e = j
        <4>1. y = x
          BY <3>1, <3>3
        <4> QED
          BY <1>3, <1>4, <3>1, <3>2, <3>3, <4>1 DEF GroupBuilt
      <3>4. CASE ~ (a = i /\ e = j)
        <4>1. a \in Nat
          BY <1>1, <2>1, NodesInShape
        <4>2. c + a = c + i => a = i
          BY <1>1, <4>1
        <4>3. y # x
          BY <3>1, <3>4, <4>2
        <4>4. wgs'[y] = wgs[y] /\ y \in DOMAIN wgs'
          BY <1>4, <3>2, <4>3
        <4>5. GroupBuilt(wgs, t, c, i, j, k, "group", a, e)
          BY <1>2, <2>1 DEF GroupsBuilt
        <4> QED
          BY <3>1, <4>4, <4>5 DEF GroupBuilt
      <3> QED
        BY <3>3, <3>4
    <2> QED
      BY <2>1 DEF GroupsBuilt
  <1>6. PICK V : V = val'
    OBVIOUS
  <1>7. DOMAIN V = DOMAIN fields /\ \A q \in DOMAIN fields : V[q] = val[q]
    BY <1>6, ValuesStay
  <1>8. FieldsBuilt(fields, V, t, c, i, j, k, l, "group")
    <2>1. Extends(fields, fields)
      BY DEF Extends
    <2> QED
      BY <1>7, <2>1, StayBuilt DEF Placed, Built
  <1>9. SameTree(c)
    <2>1. ~ (x[1] <= c)
      BY <1>1
    <2> QED
      BY <1>4, <2>1 DEF SameTree, SameUpTo
  <1>10. ASSUME NEW o, Kept(o, c) PROVE Kept(o, c)'
    BY <1>6, <1>7, <1>9, <1>10, KeepsOld
  <1> QED
    BY <1>3, <1>4, <1>5, <1>6, <1>8, <1>10 DEF Placed, Built

(* What wrt does to the Field added last.                                   *)
LEMMA WritesField ==
  ASSUME IInv, ExportTypeOK,
         NEW t \in Seq(ChannelShapes), NEW c \in Nat, NEW i, NEW j, NEW k, NEW l, Placed(t, c, i, j, k, l, "field"),
         l # 0, ~ Ds(t, i, j, k).isString, NEW q, q = <<c + i, j, k, l>>, NEW v, val' = [val EXCEPT ![q] = v],
         Legible(Fd(t, i, j, k, l)) => v = Fd(t, i, j, k, l).value, UNCHANGED <<treeVars, b>>
  PROVE  Placed(t, c, i, j, k, l, "none")' /\ \A o : Kept(o, c) => Kept(o, c)'
  <1>1. /\ InShape(t, i, j, k, l) /\ i \in Nat /\ i \in 1 .. Len(t)
        /\ HasField(t, i, j, k, l, i, j, k, l)
    BY Positions, LastNode DEF Placed
  <1>2. connKeyInc' = connKeyInc /\ conns' = conns /\ wgs' = wgs /\ dts' = dts /\ fields' = fields /\ b' = b
    BY DEF treeVars
  <1>3. FieldsBuilt(fields, val, t, c, i, j, k, l, "field")
    BY DEF Placed, Built
  <1>4. q \in DOMAIN fields
    BY <1>1, <1>3 DEF FieldsBuilt, FieldBuilt
  <1>5. PICK V : V = val'
    OBVIOUS
  <1>6. DOMAIN V = DOMAIN fields /\ V[q] = v /\ \A y \in DOMAIN fields : y # q => V[y] = val[y]
    BY <1>4, <1>5 DEF ExportTypeOK
  <1>7. FieldsBuilt(fields, V, t, c, i, j, k, l, "none")
    <2>1. ASSUME NEW a, NEW e, NEW d, NEW f, HasField(t, i, j, k, l, a, e, d, f), ~ Ds(t, a, e, d).isString
          PROVE  FieldBuilt(fields, V, t, c, i, j, k, l, "none", a, e, d, f)
      <3>1. PICK y : y = <<c + a, e, d, f>>
        OBVIOUS
      <3>2. FieldBuilt(fields, val, t, c, i, j, k, l, "field", a, e, d, f)
        BY <1>3, <2>1 DEF FieldsBuilt
      <3>3. y \in DOMAIN fields /\ fields[y] = Fd(t, a, e, d, f).type
        BY <3>1, <3>2 DEF FieldBuilt
      <3>4. CASE a = i /\ e = j /\ d = k /\ f = l
        <4>1. V[y] = v
          BY <1>6, <3>1, <3>4
        <4> QED
          BY <3>1, <3>3, <3>4, <4>1 DEF FieldBuilt
      <3>5. CASE ~ (a = i /\ e = j /\ d = k /\ f = l)
        <4>1. a \in Nat
          BY <1>1, <2>1, NodesInShape DEF HasField, HasDataSet
        <4>2. c + a = c + i => a = i
          BY <1>1, <4>1
        <4>3. y # q
          BY <3>1, <3>5, <4>2
        <4>4. V[y] = val[y]
          BY <1>6, <3>3, <4>3
        <4> QED
          BY <3>1, <3>2, <3>5, <4>4 DEF FieldBuilt
      <3> QED
        BY <3>4, <3>5
    <2> QED
      BY <2>1 DEF FieldsBuilt
  <1>8. GroupsBuilt(wgs, t, c, i, j, k, "none")
    BY DEF Placed, Built, GroupsBuilt, GroupBuilt
  <1>9. SameTree(c)
    BY <1>2 DEF SameTree, SameUpTo
  <1>10. \A y \in DOMAIN fields : y[1] <= c => y # q
    BY <1>1
  <1>11. ASSUME NEW o, Kept(o, c) PROVE Kept(o, c)'
    BY <1>2, <1>5, <1>6, <1>9, <1>10, <1>11, KeepsOld
  <1> QED
    BY <1>2, <1>5, <1>7, <1>8, <1>11 DEF Placed, Built

-----------------------------------------------------------------------------
(* The line of the next node: add, what is added, the rest of the line, and *)
(* the lines behind it.                                                     *)
Off(w) == IF w.enabled THEN <<>> ELSE <<"off">>
Intv(w) == IF w.interval = DefaultInterval THEN <<>> ELSE <<"intv", Numeral[w.interval]>>
Wrt(f, g) == IF f.type = "date" THEN <<>> ELSE <<"wrt", Numeral[Shown(f.type, f.value, g)]>>

ChannelWords(t, g, i, j, k, l, word, rest, ls) ==
  ChannelNext(t, i, j, k, l) /\ word = "ch" /\ rest = <<Numeral[t[i + 1].port]>> /\ ls = LeftOver(t, g, i + 1, 0, 0, 0)
GroupWords(t, g, i, j, k, l, word, rest, ls) ==
  /\ GroupNext(t, i, j, k, l) /\ word = "wg" /\ rest = Intv(Wg(t, i, j + 1)) \o Off(Wg(t, i, j + 1))
  /\ ls = LeftOver(t, g, i, j + 1, 0, 0)
DataSetWords(t, g, i, j, k, l, word, rest, ls) ==
  /\ DataSetNext(t, i, j, k, l) /\ ~ Ds(t, i, j, k + 1).isString /\ word = "ds" /\ rest = <<>>
  /\ ls = LeftOver(t, g, i, j, k + 1, 0)
StringWords(t, g, i, j, k, l, word, rest, ls) ==
  /\ DataSetNext(t, i, j, k, l) /\ Ds(t, i, j, k + 1).isString /\ word = "string"
  /\ rest = <<QuotedOf[Ds(t, i, j, k + 1).length]>> /\ ls = LeftOver(t, g, i, j, k + 1, 0)
FieldWords(t, g, i, j, k, l, word, rest, ls) ==
  /\ FieldNext(t, i, j, k, l) /\ word = Fd(t, i, j, k, l + 1).type /\ rest = Wrt(Fd(t, i, j, k, l + 1), g)
  /\ ls = LeftOver(t, g, i, j, k, l + 1)

NextWords(t, g, i, j, k, l, word, rest, ls) ==
  \/ ChannelWords(t, g, i, j, k, l, word, rest, ls) \/ GroupWords(t, g, i, j, k, l, word, rest, ls)
  \/ DataSetWords(t, g, i, j, k, l, word, rest, ls) \/ StringWords(t, g, i, j, k, l, word, rest, ls)
  \/ FieldWords(t, g, i, j, k, l, word, rest, ls)

Starts(a, w, rest) == <<a>> \o (<<w>> \o rest)
AddLine(word, rest) == Starts("add", word, rest)

LEMMA LineIs ==
  ASSUME NEW a \in Token, NEW w \in Token
  PROVE  /\ \A x \in Token : <<a, w, x>> = Starts(a, w, <<x>>)
         /\ <<a, w>> = Starts(a, w, <<>>)
         /\ \A x \in Line, y \in Line : (<<a, w>> \o x) \o y = Starts(a, w, x \o y)
  <1>1. <<a, w>> = <<a>> \o <<w>>
    <2>1. PICK s, u : s = <<a, w>> /\ u = <<w>>
      OBVIOUS
    <2>2. /\ s \in Seq(Token) /\ u \in Seq(Token) /\ Len(s) = Len(u) + 1 /\ s[1] = a
          /\ \A n \in 1 .. Len(u) : s[n + 1] = u[n]
      BY <2>1
    <2>3. s = <<a>> \o u
      BY <2>2, Prefixed, Zenon
    <2> QED
      BY <2>1, <2>3
  <1>2. <<a>> \in Line /\ <<w>> \in Line /\ <<a, w>> \in Line /\ <<>> \in Line
    BY EmptySeq DEF Line
  <1>3. <<w>> \o <<>> = <<w>>
    BY <1>2, ConcatEmptySeq DEF Line
  <1>4. ASSUME NEW x \in Line, NEW y \in Line
        PROVE  (<<a, w>> \o x) \o y = <<a>> \o (<<w>> \o (x \o y))
    <2>1. x \o y \in Line
      BY ConcatProperties DEF Line
    <2>2. (<<a, w>> \o x) \o y = <<a, w>> \o (x \o y)
      BY <1>2, ConcatAssociative DEF Line
    <2>3. PICK z : z = x \o y
      OBVIOUS
    <2>4. (<<a>> \o <<w>>) \o z = <<a>> \o (<<w>> \o z)
      BY <1>2, <2>1, <2>3, ConcatAssociative DEF Line
    <2> QED
      BY <1>1, <2>2, <2>3, <2>4
  <1>5. ASSUME NEW x \in Token PROVE <<a, w, x>> = <<a>> \o (<<w>> \o <<x>>)
    <2>1. <<w, x>> \in Seq(Token) /\ <<x>> \in Seq(Token) /\ <<a, w, x>> \in Seq(Token)
      OBVIOUS
    <2>2. <<w, x>> = <<w>> \o <<x>>
      BY <2>1, Prefixed
    <2>3. <<a, w, x>> = <<a>> \o <<w, x>>
      BY <2>1, Prefixed
    <2> QED
      BY <2>2, <2>3
  <1> QED
    BY <1>1, <1>3, <1>4, <1>5 DEF Starts

LEMMA FourWords ==
  ASSUME NEW a \in Token, NEW w \in Token, NEW x \in Token, NEW y \in Token
  PROVE  <<a, w, x, y>> = Starts(a, w, <<x, y>>)
  <1>1. <<w, x, y>> \in Seq(Token) /\ <<x, y>> \in Seq(Token) /\ <<a, w, x, y>> \in Seq(Token)
    OBVIOUS
  <1>2. <<w, x, y>> = <<w>> \o <<x, y>>
    BY <1>1, Prefixed
  <1>3. <<a, w, x, y>> = <<a>> \o <<w, x, y>>
    BY <1>1, Prefixed
  <1> QED
    BY <1>2, <1>3 DEF Starts

(* What is left when a line is due is that line and what is left behind it. *)
LEMMA LineIsNext ==
  ASSUME NEW t \in Seq(ChannelShapes), NEW g \in Behind, NEW i, NEW j, NEW k, NEW l, InShape(t, i, j, k, l),
         NEW word, NEW rest, NEW ls, NextWords(t, g, i, j, k, l, word, rest, ls)
  PROVE  /\ word \in PrintedWords /\ rest \in Line /\ ls \in Seq(Line)
         /\ LeftOver(t, g, i, j, k, l) = <<AddLine(word, rest)>> \o ls
  <1>0. "add" \in Token /\ \A w \in PrintedWords : w \in Token
    BY Words DEF PrintedWords
  <1>1. CASE ChannelWords(t, g, i, j, k, l, word, rest, ls)
    <2>1. ChannelLine(t[i + 1]) \in Line /\ LeftOver(t, g, i, j, k, l) = <<ChannelLine(t[i + 1])>> \o ls /\ ls \in Seq(Line)
      BY <1>1, NextChannelLine DEF ChannelWords, ChannelNext
    <2>2. PICK N : N = Numeral[t[i + 1].port]
      OBVIOUS
    <2>3. N \in Token /\ "ch" \in PrintedWords
      <3>1. i + 1 \in 1 .. Len(t)
        BY <1>1, Positions, ShapeParts DEF ChannelWords, ChannelNext
      <3>2. t[i + 1].port \in Port
        BY <3>1, ShapeParts
      <3> QED
        BY <2>2, <3>2, NumeralIs DEF PrintedNumbers, PrintedWords
    <2>4. word = "ch" /\ rest = <<N>> /\ ChannelLine(t[i + 1]) = <<"add", "ch", N>>
      BY <1>1, <2>2 DEF ChannelWords, ChannelLine
    <2>5. ChannelLine(t[i + 1]) = AddLine(word, rest)
      BY <1>0, <2>3, <2>4, LineIs DEF AddLine
    <2>6. rest \in Line
      BY <2>3, <2>4 DEF Line
    <2> QED
      BY <2>1, <2>3, <2>4, <2>5, <2>6
  <1>2. CASE GroupWords(t, g, i, j, k, l, word, rest, ls)
    <2>1. PICK w, x, y : w = Wg(t, i, j + 1) /\ x = Intv(w) /\ y = Off(w)
      OBVIOUS
    <2>2. GroupLine(w) \in Line /\ LeftOver(t, g, i, j, k, l) = <<GroupLine(w)>> \o ls /\ ls \in Seq(Line)
      BY <1>2, <2>1, NextGroupLine DEF GroupWords, GroupNext
    <2>3. w.interval \in Interval
      <3>1. i \in 1 .. Len(t) /\ j \in 0 .. Wgs(t, i) /\ j \in Nat /\ j < Wgs(t, i)
        BY <1>2, Positions DEF GroupWords, GroupNext
      <3>2. j + 1 \in 1 .. Wgs(t, i)
        BY <3>1, ShapeParts
      <3> QED
        BY <2>1, <3>1, <3>2, ShapeParts
    <2>4. {"wg", "intv", "off", Numeral[w.interval]} \subseteq Token /\ "wg" \in PrintedWords
      BY <2>3, Words DEF PrintedWords, PrintedNumbers
    <2>5. x \in Line /\ y \in Line
      <3>1. <<>> \in Line /\ <<"intv", Numeral[w.interval]>> \in Line /\ <<"off">> \in Line
        BY <2>4 DEF Line
      <3> QED
        BY <2>1, <3>1 DEF Intv, Off
    <2>6. word = "wg" /\ rest = x \o y /\ GroupLine(w) = (<<"add", "wg">> \o x) \o y
      BY <1>2, <2>1 DEF GroupWords, GroupLine, Intv, Off
    <2>7. GroupLine(w) = AddLine(word, rest)
      <3>1. PICK z : z = (<<"add", "wg">> \o x) \o y
        OBVIOUS
      <3>2. z = Starts("add", "wg", x \o y)
        BY <1>0, <2>4, <2>5, <3>1, LineIs
      <3> QED
        BY <2>6, <3>1, <3>2 DEF AddLine
    <2>8. rest \in Line
      BY <2>5, <2>6, ConcatProperties DEF Line
    <2> QED
      BY <2>2, <2>4, <2>6, <2>7, <2>8
  <1>3. CASE DataSetWords(t, g, i, j, k, l, word, rest, ls) \/ StringWords(t, g, i, j, k, l, word, rest, ls)
    <2>1. PICK d : d = Ds(t, i, j, k + 1)
      OBVIOUS
    <2>2. DataSetLine(d) \in Line /\ LeftOver(t, g, i, j, k, l) = <<DataSetLine(d)>> \o ls /\ ls \in Seq(Line)
      BY <1>3, <2>1, NextDataSetLine DEF DataSetWords, StringWords, DataSetNext
    <2>3. d.length \in 0 .. MaxString
      <3>1. i \in 1 .. Len(t) /\ j \in 1 .. Wgs(t, i) /\ k \in 0 .. Dss(t, i, j) /\ k \in Nat /\ k < Dss(t, i, j)
        BY <1>3, Positions DEF DataSetWords, StringWords, DataSetNext
      <3>2. k + 1 \in 1 .. Dss(t, i, j)
        BY <3>1, ShapeParts
      <3> QED
        BY <2>1, <3>1, <3>2, ShapeParts
    <2>4. PICK q : q = QuotedOf[d.length]
      OBVIOUS
    <2>5. q \in Token /\ "ds" \in PrintedWords /\ "string" \in PrintedWords
      BY <2>3, <2>4, Words DEF PrintedWords
    <2>6. CASE ~ d.isString
      <3>1. word = "ds" /\ rest = <<>> /\ DataSetLine(d) = <<"add", "ds">>
        BY <1>3, <2>1, <2>6 DEF DataSetWords, StringWords, DataSetLine
      <3>2. DataSetLine(d) = AddLine(word, rest)
        BY <1>0, <2>5, <3>1, LineIs DEF AddLine
      <3> QED
        BY <2>2, <2>5, <3>1, <3>2 DEF Line
    <2>7. CASE d.isString
      <3>1. word = "string" /\ rest = <<q>> /\ DataSetLine(d) = <<"add", "string", q>>
        BY <1>3, <2>1, <2>4, <2>7 DEF DataSetWords, StringWords, DataSetLine
      <3>2. DataSetLine(d) = AddLine(word, rest)
        BY <1>0, <2>5, <3>1, LineIs DEF AddLine
      <3>3. rest \in Line
        BY <2>5, <3>1 DEF Line
      <3> QED
        BY <2>2, <2>5, <3>1, <3>2, <3>3
    <2> QED
      BY <2>6, <2>7
  <1>4. CASE FieldWords(t, g, i, j, k, l, word, rest, ls)
    <2>1. PICK f, N : f = Fd(t, i, j, k, l + 1) /\ N = Numeral[Shown(f.type, f.value, g)]
      OBVIOUS
    <2>2. FieldLine(f, g) \in Line /\ LeftOver(t, g, i, j, k, l) = <<FieldLine(f, g)>> \o ls /\ ls \in Seq(Line)
      BY <1>4, <2>1, NextFieldLine DEF FieldWords, FieldNext
    <2>3. f \in FieldShapes
      <3>1. /\ i \in 1 .. Len(t) /\ j \in 1 .. Wgs(t, i) /\ k \in 1 .. Dss(t, i, j) /\ l \in Nat
            /\ l < Fds(t, i, j, k) /\ ~ Ds(t, i, j, k).isString
        BY <1>4, Positions DEF FieldWords, FieldNext
      <3>2. l + 1 \in 1 .. Fds(t, i, j, k)
        BY <3>1, ShapeParts
      <3> QED
        BY <2>1, <3>1, <3>2, ShapeParts
    <2>4. f.type \in PrintedWords
      BY <2>3 DEF FieldShapes, PrintedWords
    <2>5. CASE f.type = "date"
      <3>1. word = "date" /\ rest = <<>> /\ FieldLine(f, g) = <<"add", "date">>
        BY <1>4, <2>1, <2>5 DEF FieldWords, Wrt, FieldLine
      <3>2. FieldLine(f, g) = AddLine(word, rest)
        BY <1>0, <2>4, <2>5, <3>1, LineIs DEF AddLine
      <3> QED
        BY <2>2, <2>4, <2>5, <3>1, <3>2 DEF Line
    <2>6. CASE f.type # "date"
      <3>1. word = f.type /\ rest = <<"wrt", N>> /\ FieldLine(f, g) = <<"add", f.type, "wrt", N>>
        BY <1>4, <2>1, <2>6 DEF FieldWords, Wrt, FieldLine
      <3>2. N \in Token /\ "wrt" \in Token
        <4>1. PICK x : x = FieldLine(f, g)
          OBVIOUS
        <4>2. x \in Seq(Token) /\ 3 \in 1 .. Len(x) /\ 4 \in 1 .. Len(x) /\ x[3] = "wrt" /\ x[4] = N
          BY <2>2, <3>1, <4>1 DEF Line
        <4> QED
          BY <4>2, ElementOfSeq
      <3>3. FieldLine(f, g) = AddLine(word, rest)
        <4>1. PICK w : w = f.type
          OBVIOUS
        <4>2. <<"add", w, "wrt", N>> = AddLine(w, <<"wrt", N>>)
          BY <1>0, <2>4, <3>2, <4>1, FourWords DEF AddLine
        <4> QED
          BY <3>1, <4>1, <4>2
      <3>4. rest \in Line
        BY <3>1, <3>2 DEF Line
      <3> QED
        BY <2>2, <2>4, <3>1, <3>3, <3>4
    <2> QED
      BY <2>5, <2>6
  <1> QED
    BY <1>1, <1>2, <1>3, <1>4 DEF NextWords

-----------------------------------------------------------------------------
(* Where a load of an exported file may be: between two lines, in the line  *)
(* of the next node, in the settings of the last one, or writing its string *)
(* or its value.                                                            *)
Reads(l, ts) == loop = l /\ toks = ts /\ job = NoJob
Adds(op, path, ts) == loop = "add" /\ toks = ts /\ job = [op |-> op, path |-> path, count |-> 1]
Complete(t, i, j, k, l) == k # 0 /\ Ds(t, i, j, k).isString => l = Ds(t, i, j, k).length

AtRest(t, g, c, i, j, k, l, ls) ==
  /\ Placed(t, c, i, j, k, l, "none") /\ Complete(t, i, j, k, l) /\ ls = LeftOver(t, g, i, j, k, l)
  /\ Reads("decode", <<>>) \/ Reads("add", <<>>) \/ Reads("addCh", <<>>)

Starting(t, g, c, i, j, k, l, ls) ==
  /\ Placed(t, c, i, j, k, l, "none")
  /\ \E word, rest : /\ NextWords(t, g, i, j, k, l, word, rest, ls)
                     /\ Reads("decode", AddLine(word, rest)) \/ Reads("add", <<word>> \o rest)

Turns(t, g, i, j, k, l, word, rest, ls) ==
  \/ ChannelWords(t, g, i, j, k, l, word, rest, ls) /\ Reads("addCh", rest)
  \/ GroupWords(t, g, i, j, k, l, word, rest, ls) /\ Reads("addWg", rest) /\ arg.n = 1
  \/ DataSetWords(t, g, i, j, k, l, word, rest, ls) /\ Reads("addDs", rest) /\ arg.n = 1
  \/ StringWords(t, g, i, j, k, l, word, rest, ls) /\ Reads("addString", <<>>) /\ arg.n = Ds(t, i, j, k + 1).length
  \/ FieldWords(t, g, i, j, k, l, word, rest, ls) /\ Reads("addFd", rest) /\ arg.n = 1 /\ arg.type = word
Turning(t, g, c, i, j, k, l, ls) ==
  Placed(t, c, i, j, k, l, "none") /\ \E word, rest : Turns(t, g, i, j, k, l, word, rest, ls)

IsDue(t, g, c, i, j, k, l, word, rest, ls) ==
  \/ GroupWords(t, g, i, j, k, l, word, rest, ls) /\ Adds("wg", <<c + i>>, rest)
  \/ DataSetWords(t, g, i, j, k, l, word, rest, ls) /\ Adds("ds", <<c + i, j>>, rest)
  \/ StringWords(t, g, i, j, k, l, word, rest, ls) /\ Adds("string", <<c + i, j>>, <<>>) /\ arg.n = Ds(t, i, j, k + 1).length
  \/ FieldWords(t, g, i, j, k, l, word, rest, ls) /\ Adds("fd", <<c + i, j, k>>, rest) /\ arg.type = word
Adding(t, g, c, i, j, k, l, ls) ==
  Placed(t, c, i, j, k, l, "none") /\ \E word, rest : IsDue(t, g, c, i, j, k, l, word, rest, ls)

TextWaits(t, g, c, i, j, k, l, ls) ==
  /\ Placed(t, c, i, j, k, 0, "none") /\ l = 0 /\ k # 0 /\ Ds(t, i, j, k).isString
  /\ Adds("text", <<c + i, j, k>>, <<>>) /\ arg.n = Ds(t, i, j, k).length
  /\ ls = LeftOver(t, g, i, j, k, 0)

\* The interval is due, then, when that is set, the switching off.
NeedsInterval(w, v) == v.interval = DefaultInterval /\ v.enabled = TRUE /\ w.interval # DefaultInterval
NeedsOff(w, v) == v.interval = w.interval /\ v.enabled = TRUE /\ w.enabled = FALSE
Sets(w, v) ==
  \/ NeedsInterval(w, v) /\ \/ Reads("add", Intv(w) \o Off(w)) \/ Reads("decode", Intv(w) \o Off(w))
                            \/ Reads("confWg", Off(w)) /\ arg.op = "intv" /\ arg.n = w.interval
  \/ NeedsOff(w, v) /\ \/ Reads("add", <<"off">>) \/ Reads("decode", <<"off">>)
                       \/ Reads("confWg", <<>>) /\ arg.op = "off"
Setting(t, g, c, i, j, k, l, ls) ==
  /\ Placed(t, c, i, j, 0, 0, "group") /\ k = 0 /\ l = 0 /\ j # 0
  /\ Sets(Wg(t, i, j), wgs[<<c + i, j>>])
  /\ ls = LeftOver(t, g, i, j, 0, 0)

Writes(f, g) ==
  \/ Reads("add", Wrt(f, g)) \/ Reads("decode", Wrt(f, g)) \/ Reads("wrt", Tail(Wrt(f, g)))
Writing(t, g, c, i, j, k, l, ls) ==
  /\ Placed(t, c, i, j, k, l, "field") /\ l # 0 /\ ~ Ds(t, i, j, k).isString
  /\ Fd(t, i, j, k, l).type # "date" /\ b = <<c + i, j, k, l>>
  /\ Writes(Fd(t, i, j, k, l), g)
  /\ ls = LeftOver(t, g, i, j, k, l)

Stage(t, g, c, i, j, k, l, ls) ==
  \/ AtRest(t, g, c, i, j, k, l, ls) \/ Starting(t, g, c, i, j, k, l, ls) \/ Turning(t, g, c, i, j, k, l, ls)
  \/ Adding(t, g, c, i, j, k, l, ls) \/ TextWaits(t, g, c, i, j, k, l, ls) \/ Setting(t, g, c, i, j, k, l, ls)
  \/ Writing(t, g, c, i, j, k, l, ls)
Loaded(t, g, c, ls) == \E i, j, k, l : Stage(t, g, c, i, j, k, l, ls)
Onward(t, g, c, ls) == Loaded(t, g, c, ls)' /\ \A o : Kept(o, c) => Kept(o, c)'

\* A handler of add is back in its loop, or in decode, with nothing to read.
LEMMA RestGoes ==
  ASSUME FInv, Step, Values, NEW t, NEW g, NEW c, NEW i, NEW j, NEW k, NEW l, NEW ls,
         AtRest(t, g, c, i, j, k, l, ls), loop # "decode"
  PROVE  Onward(t, g, c, ls)
  <1>1. job = NoJob /\ toks = <<>> /\ loop \in {"add", "addCh"} /\ Placed(t, c, i, j, k, l, "none")
    BY DEF AtRest, Reads
  <1>2. ~ AtKey(<<>>)
    BY DEF AtKey
  <1>3. UNCHANGED <<treeVars, b, job>> /\ toks' = <<>> /\ loop' \in {"decode", "add"}
    <2>1. CASE loop = "add"
      <3>1. AddSubject
        BY <1>1, <2>1, StepOfLoop
      <3>2. "" \notin DOMAIN TypeOf
        BY CommandsOK DEF CommandsOK
      <3>3. Continue("decode", toks)
        BY <1>1, <3>1, <3>2 DEF AddSubject
      <3> QED
        BY <1>1, <3>1, <3>3 DEF AddSubject, Continue
    <2>2. CASE loop = "addCh"
      <3>1. AddChannel
        BY <1>1, <2>2, StepOfLoop
      <3>2. NextPort = 0 /\ 0 \notin PortNumbers
        BY <1>1 DEF NextPort, PortNumbers
      <3>3. BackTo("add", toks) /\ UNCHANGED <<treeVars, b>>
        BY <3>1, <3>2 DEF AddChannel
      <3> QED
        BY <1>1, <1>2, <3>1, <3>3 DEF AddChannel, BackTo, Continue
    <2> QED
      BY <1>1, <2>1, <2>2
  <1>4. Placed(t, c, i, j, k, l, "none")' /\ \A o : Kept(o, c) => Kept(o, c)'
    BY <1>1, <1>3, StaysPlaced DEF FInv
  <1>5. AtRest(t, g, c, i, j, k, l, ls)'
    BY <1>1, <1>3, <1>4 DEF AtRest, Reads
  <1> QED
    BY <1>4, <1>5 DEF Onward, Loaded, Stage

LEMMA AddLineIs ==
  ASSUME NEW word \in PrintedWords, NEW rest \in Line
  PROVE  /\ AddLine(word, rest) \in Line /\ AddLine(word, rest) # <<>> /\ Head(AddLine(word, rest)) = "add"
         /\ Tail(AddLine(word, rest)) = <<word>> \o rest
         /\ <<word>> \o rest \in Line /\ <<word>> \o rest # <<>> /\ Head(<<word>> \o rest) = word
         /\ Tail(<<word>> \o rest) = rest
  <1>1. "add" \in PrintedWords
    BY DEF PrintedWords
  <1>2. "add" \in Token /\ word \in Token /\ rest \in Seq(Token)
    BY <1>1, WordIs DEF Line
  <1>3. PICK u : u = <<word>> \o rest
    OBVIOUS
  <1>4. <<word>> \in Seq(Token) /\ <<"add">> \in Seq(Token)
    BY <1>2
  <1>5. u \in Seq(Token) /\ u # <<>> /\ Head(u) = word /\ Tail(u) = rest
    BY <1>2, <1>3, <1>4, InFront, ConcatProperties
  <1>6. PICK s : s = <<"add">> \o u
    OBVIOUS
  <1>7. s \in Seq(Token) /\ s # <<>> /\ Head(s) = "add" /\ Tail(s) = u
    BY <1>2, <1>4, <1>5, <1>6, InFront, ConcatProperties
  <1> QED
    BY <1>3, <1>5, <1>6, <1>7 DEF AddLine, Starts, Line

\* Between two lines the next one is that of the next node.
LineOf(t, g, i, j, k, l, ls) ==
  \E word, rest, more : /\ NextWords(t, g, i, j, k, l, word, rest, more)
                        /\ Head(ls) = AddLine(word, rest) /\ Tail(ls) = more
LEMMA NextIs ==
  ASSUME NEW t \in Seq(ChannelShapes), NEW g \in Behind, NEW i, NEW j, NEW k, NEW l, InShape(t, i, j, k, l),
         Complete(t, i, j, k, l), NEW ls, ls = LeftOver(t, g, i, j, k, l), ls # <<>>
  PROVE  LineOf(t, g, i, j, k, l, ls)
  <1>1. \/ FieldNext(t, i, j, k, l) \/ DataSetNext(t, i, j, k, l) \/ GroupNext(t, i, j, k, l) \/ ChannelNext(t, i, j, k, l)
    BY WhatIsNext DEF Complete, FieldNext, DataSetNext, GroupNext, ChannelNext
  <1>2. \E word, rest, more : NextWords(t, g, i, j, k, l, word, rest, more)
    <2>1. CASE FieldNext(t, i, j, k, l)
      <3>1. PICK word, rest, more : /\ word = Fd(t, i, j, k, l + 1).type /\ rest = Wrt(Fd(t, i, j, k, l + 1), g)
                                    /\ more = LeftOver(t, g, i, j, k, l + 1)
        OBVIOUS
      <3>2. FieldWords(t, g, i, j, k, l, word, rest, more)
        BY <2>1, <3>1 DEF FieldWords
      <3> QED
        BY <3>2 DEF NextWords
    <2>2. CASE DataSetNext(t, i, j, k, l)
      <3>1. PICK rest, more : /\ rest = IF Ds(t, i, j, k + 1).isString THEN <<QuotedOf[Ds(t, i, j, k + 1).length]>> ELSE <<>>
                              /\ more = LeftOver(t, g, i, j, k + 1, 0)
        OBVIOUS
      <3>2. \/ DataSetWords(t, g, i, j, k, l, "ds", rest, more)
            \/ StringWords(t, g, i, j, k, l, "string", rest, more)
        BY <2>2, <3>1 DEF DataSetWords, StringWords
      <3> QED
        BY <3>2 DEF NextWords
    <2>3. CASE GroupNext(t, i, j, k, l)
      <3>1. PICK rest, more : /\ rest = Intv(Wg(t, i, j + 1)) \o Off(Wg(t, i, j + 1))
                              /\ more = LeftOver(t, g, i, j + 1, 0, 0)
        OBVIOUS
      <3>2. GroupWords(t, g, i, j, k, l, "wg", rest, more)
        BY <2>3, <3>1 DEF GroupWords
      <3> QED
        BY <3>2 DEF NextWords
    <2>4. CASE ChannelNext(t, i, j, k, l)
      <3>1. PICK rest, more : rest = <<Numeral[t[i + 1].port]>> /\ more = LeftOver(t, g, i + 1, 0, 0, 0)
        OBVIOUS
      <3>2. ChannelWords(t, g, i, j, k, l, "ch", rest, more)
        BY <2>4, <3>1 DEF ChannelWords
      <3> QED
        BY <3>2 DEF NextWords
    <2> QED
      BY <1>1, <2>1, <2>2, <2>3, <2>4
  <1>3. PICK word, rest, more : NextWords(t, g, i, j, k, l, word, rest, more)
    BY <1>2
  <1>4. word \in PrintedWords /\ rest \in Line /\ more \in Seq(Line) /\ ls = <<AddLine(word, rest)>> \o more
    BY <1>3, LineIsNext
  <1>5. PICK x : x = AddLine(word, rest)
    OBVIOUS
  <1>6. x \in Line
    BY <1>4, <1>5, AddLineIs
  <1>7. Head(ls) = x /\ Tail(ls) = more
    BY <1>4, <1>5, <1>6, InFront
  <1> QED
    BY <1>3, <1>4, <1>5, <1>7 DEF LineOf

\* A line is taken from the file.
LEMMA LineGoes ==
  ASSUME UNCHANGED <<treeVars, b, val, job>>,
         NEW t \in Seq(ChannelShapes), NEW g \in Behind, NEW c, NEW i, NEW j, NEW k, NEW l, NEW ls,
         AtRest(t, g, c, i, j, k, l, ls), loop = "decode", ls # <<>>,
         loop' = "decode", toks' = IF Comment(Head(ls)) THEN <<>> ELSE Head(ls)
  PROVE  Onward(t, g, c, Tail(ls))
  <1>1. InShape(t, i, j, k, l) /\ Complete(t, i, j, k, l) /\ ls = LeftOver(t, g, i, j, k, l)
        /\ Placed(t, c, i, j, k, l, "none") /\ job = NoJob
    BY DEF AtRest, Placed, Reads
  <1>10. LineOf(t, g, i, j, k, l, ls)
    BY <1>1, NextIs
  <1>2. PICK word, rest, more : /\ NextWords(t, g, i, j, k, l, word, rest, more)
                                /\ Head(ls) = AddLine(word, rest) /\ Tail(ls) = more
    BY <1>10 DEF LineOf
  <1>3. word \in PrintedWords /\ rest \in Line
    BY <1>1, <1>2, LineIsNext
  <1>4. Head(AddLine(word, rest)) = "add"
    BY <1>3, AddLineIs
  <1>5. toks' = AddLine(word, rest)
    BY <1>2, <1>4 DEF Comment
  <1>6. Placed(t, c, i, j, k, l, "none")' /\ \A o : Kept(o, c) => Kept(o, c)'
    BY <1>1, StillPlaced
  <1>7. Starting(t, g, c, i, j, k, l, more)'
    BY <1>1, <1>2, <1>5, <1>6 DEF Starting, Reads
  <1>8. PICK ls1 : ls1 = Tail(ls)
    OBVIOUS
  <1>9. Loaded(t, g, c, ls1)'
    BY <1>2, <1>7, <1>8 DEF Loaded, Stage
  <1> QED
    BY <1>6, <1>8, <1>9 DEF Onward

(* What is behind the word of a WriterGroup, DataSet or Field is a word, or *)
(* nothing.                                                                 *)
NoKey(rest) == ~ AtKey(rest) /\ ~ HasAmount(rest)
LEMMA WordFirst ==
  ASSUME NEW w \in PrintedWords, NEW u \in Line
  PROVE  /\ <<w>> \o u \in Line /\ Head(<<w>> \o u) = w /\ Tail(<<w>> \o u) = u /\ <<w>> \o u # <<>>
         /\ NoKey(<<w>> \o u)
  <1>1. PICK v : v = <<w>> \o u
    OBVIOUS
  <1>2. v \in Line /\ Head(v) = w /\ Tail(v) = u /\ v # <<>>
    BY <1>1, AddLineIs
  <1>3. ~ IsKey(w) /\ w \notin DOMAIN Amount
    BY WordIs
  <1> QED
    BY <1>1, <1>2, <1>3 DEF NoKey, AtKey, HasAmount

LEMMA NothingFirst == NoKey(<<>>)
  BY DEF NoKey, AtKey, HasAmount

LEMMA SettingWords ==
  ASSUME NEW w \in GroupShapes
  PROVE  /\ Off(w) \in Line /\ NoKey(Off(w)) /\ NoKey(Intv(w) \o Off(w)) /\ Intv(w) \o Off(w) \in Line
         /\ w.interval = DefaultInterval => Intv(w) \o Off(w) = Off(w)
         /\ w.interval # DefaultInterval => \E N \in Token : /\ N = Numeral[w.interval] /\ Intv(w) = <<"intv", N>>
                                                             /\ Intv(w) \o Off(w) = <<"intv">> \o (<<N>> \o Off(w))
  <1>1. w.interval \in Interval
    BY DEF GroupShapes
  <1>2. PICK N : N = Numeral[w.interval]
    OBVIOUS
  <1>3. N \in Token
    BY <1>1, <1>2, Words DEF PrintedNumbers
  <1>4. "intv" \in PrintedWords /\ "off" \in PrintedWords
    BY DEF PrintedWords
  <1>5. <<>> \in Line /\ <<N>> \in Line
    BY <1>3 DEF Line
  <1>6. PICK v : v = Off(w)
    OBVIOUS
  <1>7. v \in Line /\ NoKey(v)
    <2>1. CASE v = <<>>
      BY <1>5, <2>1, NothingFirst
    <2>2. CASE v = <<"off">>
      <3>1. <<"off">> \o <<>> \in Line /\ NoKey(<<"off">> \o <<>>)
        BY <1>4, <1>5, WordFirst
      <3>2. "off" \in Token
        BY <1>4, WordIs
      <3>3. <<"off">> \in Seq(Token)
        BY <3>2
      <3>4. <<"off">> \o <<>> = <<"off">>
        BY <3>3, ConcatEmptySeq
      <3> QED
        BY <2>2, <3>1, <3>4
    <2> QED
      BY <1>6, <2>1, <2>2 DEF Off
  <1>8. CASE w.interval = DefaultInterval
    <2>1. Intv(w) = <<>>
      BY <1>8 DEF Intv
    <2>2. <<>> \o v = v
      BY <1>7, ConcatEmptySeq DEF Line
    <2> QED
      BY <1>6, <1>7, <1>8, <2>1, <2>2
  <1>9. CASE w.interval # DefaultInterval
    <2>1. Intv(w) = <<"intv", N>>
      BY <1>2, <1>9 DEF Intv
    <2>2. PICK u : u = <<N>> \o v
      OBVIOUS
    <2>3. u \in Line
      BY <1>5, <1>7, <2>2, ConcatProperties DEF Line
    <2>4. <<"intv", N>> \o v = <<"intv">> \o u
      <3>1. <<"intv">> \in Seq(Token) /\ <<N>> \in Seq(Token) /\ v \in Seq(Token) /\ "intv" \in Token
        BY <1>3, <1>4, <1>7, WordIs DEF Line
      <3>2. PICK z : z = <<"intv", N>>
        OBVIOUS
      <3>3. z \in Seq(Token) /\ Len(z) = Len(<<N>>) + 1 /\ z[1] = "intv" /\ \A n \in 1 .. Len(<<N>>) : z[n + 1] = <<N>>[n]
        BY <3>1, <3>2, <1>3
      <3>4. z = <<"intv">> \o <<N>>
        BY <3>1, <3>3, Prefixed
      <3>5. (<<"intv">> \o <<N>>) \o v = <<"intv">> \o (<<N>> \o v)
        BY <3>1, ConcatAssociative
      <3> QED
        BY <2>2, <3>2, <3>4, <3>5
    <2>5. PICK s : s = <<"intv">> \o u
      OBVIOUS
    <2>6. s \in Line /\ NoKey(s)
      BY <1>4, <2>3, <2>5, WordFirst
    <2>7. Intv(w) \o Off(w) = s
      BY <1>6, <2>1, <2>4, <2>5
    <2>8. s = <<"intv">> \o (<<N>> \o Off(w))
      BY <1>6, <2>2, <2>5
    <2> QED
      BY <1>2, <1>3, <1>6, <1>7, <1>9, <2>1, <2>6, <2>7, <2>8
  <1> QED
    BY <1>8, <1>9

LEMMA WrtWords ==
  ASSUME NEW f \in FieldShapes, NEW g \in Behind
  PROVE  /\ Wrt(f, g) \in Line /\ NoKey(Wrt(f, g))
         /\ f.type = "date" => Wrt(f, g) = <<>>
         /\ f.type # "date" => \E N \in Token : /\ N = Numeral[Shown(f.type, f.value, g)] /\ Wrt(f, g) = <<"wrt">> \o <<N>>
                                                /\ Tail(Wrt(f, g)) = <<N>> /\ <<N>> \in Line
  <1>1. CASE f.type = "date"
    BY <1>1, NothingFirst DEF Wrt, Line
  <1>2. CASE f.type # "date"
    <2>1. PICK N, x : N = Numeral[Shown(f.type, f.value, g)] /\ x = FieldLine(f, g)
      OBVIOUS
    <2>2. x \in Seq(Token) /\ x = <<"add", f.type, "wrt", N>>
      BY <1>2, <2>1, LinesTyped DEF FieldLine, Line
    <2>3. N \in Token
      <3>1. 4 \in 1 .. Len(x) /\ x[4] = N
        BY <2>2
      <3> QED
        BY <2>2, <3>1, ElementOfSeq
    <2>4. "wrt" \in PrintedWords /\ "wrt" \in Token
      BY WordIs DEF PrintedWords
    <2>5. <<N>> \in Seq(Token) /\ <<N>> \in Line
      BY <2>3 DEF Line
    <2>6. PICK z : z = <<"wrt", N>>
      OBVIOUS
    <2>7. z = <<"wrt">> \o <<N>>
      <3>1. z \in Seq(Token) /\ Len(z) = Len(<<N>>) + 1 /\ z[1] = "wrt" /\ \A n \in 1 .. Len(<<N>>) : z[n + 1] = <<N>>[n]
        BY <2>3, <2>4, <2>6
      <3> QED
        BY <2>4, <2>5, <3>1, Prefixed
    <2>8. z \in Line /\ NoKey(z) /\ Tail(z) = <<N>>
      BY <2>4, <2>5, <2>7, WordFirst
    <2>9. Wrt(f, g) = z
      BY <1>2, <2>1, <2>6 DEF Wrt
    <2> QED
      BY <1>2, <2>1, <2>3, <2>5, <2>7, <2>8, <2>9
  <1> QED
    BY <1>1, <1>2

\* The node that is due is one of the shape.
LEMMA DueNode ==
  ASSUME NEW t \in Seq(ChannelShapes), NEW i, NEW j, NEW k, NEW l, InShape(t, i, j, k, l)
  PROVE  /\ ChannelNext(t, i, j, k, l) => t[i + 1] \in ChannelShapes /\ t[i + 1].port \in Port
         /\ GroupNext(t, i, j, k, l) => Wg(t, i, j + 1) \in GroupShapes /\ Wg(t, i, j + 1).interval \in Interval
         /\ DataSetNext(t, i, j, k, l) => /\ Ds(t, i, j, k + 1) \in DataSetShapes
                                          /\ Ds(t, i, j, k + 1).length \in 0 .. MaxString
         /\ FieldNext(t, i, j, k, l) => Fd(t, i, j, k, l + 1) \in FieldShapes
  <1>1. ASSUME ChannelNext(t, i, j, k, l)
        PROVE  t[i + 1] \in ChannelShapes /\ t[i + 1].port \in Port
    <2>1. i + 1 \in 1 .. Len(t)
      BY <1>1, Positions, ShapeParts DEF ChannelNext
    <2> QED
      BY <2>1, ShapeParts
  <1>2. ASSUME GroupNext(t, i, j, k, l)
        PROVE  Wg(t, i, j + 1) \in GroupShapes /\ Wg(t, i, j + 1).interval \in Interval
    <2>1. i \in 1 .. Len(t) /\ j \in Nat /\ j < Wgs(t, i)
      BY <1>2, Positions DEF GroupNext
    <2>2. j + 1 \in 1 .. Wgs(t, i)
      BY <2>1, ShapeParts
    <2> QED
      BY <2>1, <2>2, ShapeParts
  <1>3. ASSUME DataSetNext(t, i, j, k, l)
        PROVE  Ds(t, i, j, k + 1) \in DataSetShapes /\ Ds(t, i, j, k + 1).length \in 0 .. MaxString
    <2>1. i \in 1 .. Len(t) /\ j \in 1 .. Wgs(t, i) /\ k \in Nat /\ k < Dss(t, i, j)
      BY <1>3, Positions DEF DataSetNext
    <2>2. k + 1 \in 1 .. Dss(t, i, j)
      BY <2>1, ShapeParts
    <2> QED
      BY <2>1, <2>2, ShapeParts
  <1>4. ASSUME FieldNext(t, i, j, k, l)
        PROVE  Fd(t, i, j, k, l + 1) \in FieldShapes
    <2>1. /\ i \in 1 .. Len(t) /\ j \in 1 .. Wgs(t, i) /\ k \in 1 .. Dss(t, i, j) /\ l \in Nat
          /\ l < Fds(t, i, j, k) /\ ~ Ds(t, i, j, k).isString
      BY <1>4, Positions DEF FieldNext
    <2>2. l + 1 \in 1 .. Fds(t, i, j, k)
      BY <2>1, ShapeParts
    <2> QED
      BY <2>1, <2>2, ShapeParts
  <1> QED
    BY <1>1, <1>2, <1>3, <1>4

LEMMA RestIs ==
  ASSUME NEW t \in Seq(ChannelShapes), NEW g \in Behind, NEW i, NEW j, NEW k, NEW l, InShape(t, i, j, k, l),
         NEW word, NEW rest, NEW ls,
         \/ GroupWords(t, g, i, j, k, l, word, rest, ls) \/ DataSetWords(t, g, i, j, k, l, word, rest, ls)
         \/ FieldWords(t, g, i, j, k, l, word, rest, ls)
  PROVE  NoKey(rest)
  <1>1. CASE GroupWords(t, g, i, j, k, l, word, rest, ls)
    <2>1. PICK w : w = Wg(t, i, j + 1)
      OBVIOUS
    <2>2. w \in GroupShapes /\ rest = Intv(w) \o Off(w)
      BY <1>1, <2>1, DueNode DEF GroupWords
    <2> QED
      BY <2>2, SettingWords
  <1>2. CASE DataSetWords(t, g, i, j, k, l, word, rest, ls)
    BY <1>2, NothingFirst DEF DataSetWords
  <1>3. CASE FieldWords(t, g, i, j, k, l, word, rest, ls)
    <2>1. PICK f : f = Fd(t, i, j, k, l + 1)
      OBVIOUS
    <2>2. f \in FieldShapes /\ rest = Wrt(f, g)
      BY <1>3, <2>1, DueNode DEF FieldWords
    <2> QED
      BY <2>2, WrtWords
  <1> QED
    BY <1>1, <1>2, <1>3

\* What a loop of add is given when there is no amount.
LEMMA CountedIs ==
  ASSUME NEW l, NEW type \in DataType, NEW rest, NoKey(rest), Counted(l, type, rest)
  PROVE  arg'.n = 1 /\ arg'.type = type /\ loop' = l /\ toks' = rest
  <1>1. Times(rest) = 1 /\ ~ HasAmount(rest)
    BY DEF NoKey, Times
  <1>2. arg' = [NoArg EXCEPT !.n = 1, !.type = type]
    BY <1>1 DEF Counted
  <1>3. arg'.n = 1 /\ arg'.type = type
    BY <1>2 DEF NoArg
  <1> QED
    BY <1>1, <1>3 DEF Counted, Continue

\* What add does with a subject.
SubjectTaken(subject, rest) ==
  \/ subject = "ch" /\ arg' = NoArg /\ Continue("addCh", rest)
  \/ subject = "wg" /\ Counted("addWg", Byte, rest)
  \/ subject = "ds" /\ Counted("addDs", Byte, rest)
  \/ subject \in DOMAIN TypeOf /\ Counted("addFd", TypeOf[subject], rest)
  \/ subject = "string" /\ IF rest # <<>> /\ Head(rest) \in DOMAIN Quoted
                           THEN arg' = [NoArg EXCEPT !.n = Quoted[Head(rest)]] /\ Continue("addString", Tail(rest))
                           ELSE arg' = NoArg /\ BackTo("add", rest)
  \/ subject \notin {"ch", "wg", "ds", "string"} \cup DOMAIN TypeOf

LEMMA SubjectIs ==
  ASSUME AddSubject, toks # <<>>, NEW subject, subject = Head(toks), NEW rest, rest = Tail(toks)
  PROVE  SubjectTaken(subject, rest)
  <1>1. PICK s : s = IF toks = <<>> THEN "" ELSE Head(toks)
    OBVIOUS
  <1>2. PICK r : r = Next1(toks)
    OBVIOUS
  <1>3. s = subject /\ r = rest
    BY <1>1, <1>2 DEF Next1
  <1>4. \/ s = "ch" /\ arg' = NoArg /\ Continue("addCh", r)
        \/ s = "wg" /\ Counted("addWg", Byte, r)
        \/ s = "ds" /\ Counted("addDs", Byte, r)
        \/ s \in DOMAIN TypeOf /\ Counted("addFd", TypeOf[s], r)
        \/ s = "string" /\ IF r # <<>> /\ Head(r) \in DOMAIN Quoted
                           THEN arg' = [NoArg EXCEPT !.n = Quoted[Head(r)]] /\ Continue("addString", Tail(r))
                           ELSE arg' = NoArg /\ BackTo("add", r)
        \/ s \notin {"ch", "wg", "ds", "string"} \cup DOMAIN TypeOf
    BY <1>1, <1>2 DEF AddSubject
  <1> QED
    BY <1>3, <1>4 DEF SubjectTaken

\* add goes on with the loop of what is to be added.
LEMMA StartGoes ==
  ASSUME FInv, Step, Values,
         NEW t \in Seq(ChannelShapes), NEW g \in Behind, NEW c, NEW i, NEW j, NEW k, NEW l, NEW ls,
         Starting(t, g, c, i, j, k, l, ls)
  PROVE  Onward(t, g, c, ls)
  <1>1. PICK word, rest : /\ NextWords(t, g, i, j, k, l, word, rest, ls)
                          /\ Reads("decode", AddLine(word, rest)) \/ Reads("add", <<word>> \o rest)
    BY DEF Starting
  <1>2. InShape(t, i, j, k, l) /\ job = NoJob /\ loop # "wrt" /\ Placed(t, c, i, j, k, l, "none")
    BY <1>1 DEF Starting, Placed, Reads
  <1>3. word \in PrintedWords /\ rest \in Line
    BY <1>1, <1>2, LineIsNext
  <1>4. CASE Reads("decode", AddLine(word, rest))
    <2>1. toks # <<>> /\ Head(toks) = "add" /\ Tail(toks) = <<word>> \o rest /\ loop = "decode"
      BY <1>3, <1>4, AddLineIs DEF Reads
    <2>2. Subjects("add")
      BY <1>2, <2>1, StepOfDecode
    <2>3. UNCHANGED <<treeVars, b, job>> /\ loop' = "add" /\ toks' = <<word>> \o rest
      BY <2>1, <2>2 DEF Subjects, Continue
    <2>4. Placed(t, c, i, j, k, l, "none")' /\ \A o : Kept(o, c) => Kept(o, c)'
      BY <1>2, <2>3, StaysPlaced DEF FInv
    <2>5. Starting(t, g, c, i, j, k, l, ls)'
      BY <1>1, <1>2, <2>3, <2>4 DEF Starting, Reads
    <2> QED
      BY <2>4, <2>5 DEF Onward, Loaded, Stage
  <1>5. CASE Reads("add", <<word>> \o rest)
    <2>1. toks # <<>> /\ Head(toks) = word /\ Tail(toks) = rest /\ loop = "add"
      BY <1>3, <1>5, AddLineIs DEF Reads
    <2>2. AddSubject
      BY <1>2, <2>1, StepOfLoop
    <2>3. UNCHANGED <<treeVars, b, job>>
      BY <2>2 DEF AddSubject
    <2>4. Placed(t, c, i, j, k, l, "none")' /\ \A o : Kept(o, c) => Kept(o, c)'
      BY <1>2, <2>3, StaysPlaced DEF FInv
    <2>5. SubjectTaken(word, rest)
      BY <2>1, <2>2, SubjectIs
    <2>8. {"ch", "wg", "ds", "string"} \cap DOMAIN TypeOf = {}
      BY CommandsOK DEF CommandsOK
    <2>6. Turns(t, g, i, j, k, l, word, rest, ls)'
      <3>1. CASE ChannelWords(t, g, i, j, k, l, word, rest, ls)
        <4>1. word = "ch"
          BY <3>1 DEF ChannelWords
        <4>2. arg' = NoArg /\ Continue("addCh", rest)
          BY <2>5, <2>8, <4>1 DEF SubjectTaken
        <4> QED
          BY <1>2, <2>3, <3>1, <4>2 DEF Turns, Reads, Continue
      <3>2. CASE GroupWords(t, g, i, j, k, l, word, rest, ls)
        <4>1. word = "wg"
          BY <3>2 DEF GroupWords
        <4>2. Counted("addWg", Byte, rest)
          BY <2>5, <2>8, <4>1 DEF SubjectTaken
        <4>3. NoKey(rest) /\ Byte \in DataType
          BY <1>2, <3>2, RestIs, ConstantsOK DEF ConstantsOK
        <4>4. arg'.n = 1 /\ loop' = "addWg" /\ toks' = rest
          BY <4>2, <4>3, CountedIs
        <4> QED
          BY <1>2, <2>3, <3>2, <4>4 DEF Turns, Reads
      <3>3. CASE DataSetWords(t, g, i, j, k, l, word, rest, ls)
        <4>1. word = "ds"
          BY <3>3 DEF DataSetWords
        <4>2. Counted("addDs", Byte, rest)
          BY <2>5, <2>8, <4>1 DEF SubjectTaken
        <4>3. NoKey(rest) /\ Byte \in DataType
          BY <1>2, <3>3, RestIs, ConstantsOK DEF ConstantsOK
        <4>4. arg'.n = 1 /\ loop' = "addDs" /\ toks' = rest
          BY <4>2, <4>3, CountedIs
        <4> QED
          BY <1>2, <2>3, <3>3, <4>4 DEF Turns, Reads
      <3>4. CASE StringWords(t, g, i, j, k, l, word, rest, ls)
        <4>1. PICK n, q : n = Ds(t, i, j, k + 1).length /\ q = QuotedOf[n]
          OBVIOUS
        <4>2. word = "string" /\ rest = <<q>> /\ n \in 0 .. MaxString
          BY <1>2, <3>4, <4>1, DueNode DEF StringWords
        <4>3. q \in DOMAIN Quoted /\ Quoted[q] = n
          BY <4>1, <4>2, PrintedOK DEF PrintedOK
        <4>4. rest # <<>> /\ Head(rest) = q /\ Tail(rest) = <<>>
          BY <4>2
        <4>5. IF rest # <<>> /\ Head(rest) \in DOMAIN Quoted
              THEN arg' = [NoArg EXCEPT !.n = Quoted[Head(rest)]] /\ Continue("addString", Tail(rest))
              ELSE arg' = NoArg /\ BackTo("add", rest)
          BY <2>5, <2>8, <4>2 DEF SubjectTaken
        <4>8. arg' = [NoArg EXCEPT !.n = n] /\ Continue("addString", <<>>)
          BY <4>3, <4>4, <4>5
        <4>9. arg'.n = n
          BY <4>8 DEF NoArg
        <4> QED
          BY <1>2, <2>3, <3>4, <4>1, <4>8, <4>9 DEF Turns, Reads, Continue
      <3>5. CASE FieldWords(t, g, i, j, k, l, word, rest, ls)
        <4>1. word \in DataType
          BY <1>2, <3>5, DueNode DEF FieldWords, FieldShapes
        <4>2. word \in DOMAIN TypeOf /\ TypeOf[word] = word /\ word \notin {"ch", "wg", "ds"}
          BY <4>1, CommandsOK DEF CommandsOK
        <4>3. Counted("addFd", TypeOf[word], rest)
          BY <2>5, <2>8, <4>2 DEF SubjectTaken
        <4>4. NoKey(rest)
          BY <1>2, <3>5, RestIs
        <4>5. arg'.n = 1 /\ arg'.type = word /\ loop' = "addFd" /\ toks' = rest
          BY <4>1, <4>2, <4>3, <4>4, CountedIs
        <4> QED
          BY <1>2, <2>3, <3>5, <4>5 DEF Turns, Reads
      <3> QED
        BY <1>1, <3>1, <3>2, <3>3, <3>4, <3>5 DEF NextWords
    <2>7. Turning(t, g, c, i, j, k, l, ls)'
      BY <2>4, <2>6 DEF Turning
    <2> QED
      BY <2>4, <2>7 DEF Onward, Loaded, Stage
  <1> QED
    BY <1>1, <1>4, <1>5

\* The nodes of the position, and the keys that select them.
LEMMA PlacedNodes ==
  ASSUME IInv, NEW t \in Seq(ChannelShapes), NEW c \in Nat, NEW i, NEW j, NEW k, NEW l, NEW raw,
         Placed(t, c, i, j, k, l, raw)
  PROVE  /\ i # 0 => /\ c + i \in DOMAIN conns /\ conns[c + i].wgKeyInc = j /\ b[1] = c + i /\ c + i # 0
                     /\ c + i \in Key
         /\ j # 0 => /\ i # 0 /\ <<c + i, j>> \in DOMAIN wgs /\ wgs[<<c + i, j>>].dtsKeyInc = k /\ b[2] = j
                     /\ j \in Key
         /\ k # 0 => /\ j # 0 /\ <<c + i, j, k>> \in DOMAIN dts /\ b[3] = k /\ k \in Key
                     /\ dts[<<c + i, j, k>>].isString = Ds(t, i, j, k).isString
                     /\ dts[<<c + i, j, k>>].varKeyInc = l
  <1>1. InShape(t, i, j, k, l) /\ Chosen(b, c, i, j, k) /\ i \in Nat /\ Built(t, c, i, j, k, l, raw)
    BY Positions DEF Placed
  <1>2. /\ i # 0 => i \in 1 .. i /\ GroupsAt(t, i, j, i) = j
        /\ j # 0 => i # 0 /\ HasGroup(t, i, j, i, j) /\ DataSetsAt(t, i, j, k, i, j) = k
        /\ k # 0 => j # 0 /\ HasDataSet(t, i, j, k, i, j, k) /\ FieldsAt(t, i, j, k, l, i, j, k) = l
    BY <1>1, LastNode, Positions
  <1>3. ASSUME i # 0
        PROVE  c + i \in DOMAIN conns /\ conns[c + i].wgKeyInc = j /\ b[1] = c + i /\ c + i # 0 /\ c + i \in Key
    <2>1. c + i \in DOMAIN conns /\ conns[c + i].wgKeyInc = j
      BY <1>1, <1>2, <1>3 DEF Built, ChannelsBuilt
    <2>2. c + i \in Key
      BY <2>1 DEF IInv, TreeTypeOK
    <2> QED
      BY <1>1, <1>3, <2>1, <2>2 DEF Chosen
  <1>4. ASSUME j # 0
        PROVE  <<c + i, j>> \in DOMAIN wgs /\ wgs[<<c + i, j>>].dtsKeyInc = k /\ b[2] = j /\ j \in Key
    <2>1. <<c + i, j>> \in DOMAIN wgs /\ wgs[<<c + i, j>>].dtsKeyInc = k
      BY <1>1, <1>2, <1>4 DEF Built, GroupsBuilt, GroupBuilt
    <2>2. j \in Key
      BY <2>1 DEF IInv, TreeTypeOK
    <2> QED
      BY <1>1, <1>4, <2>1, <2>2 DEF Chosen
  <1>5. ASSUME k # 0
        PROVE  /\ <<c + i, j, k>> \in DOMAIN dts /\ b[3] = k /\ k \in Key
               /\ dts[<<c + i, j, k>>].isString = Ds(t, i, j, k).isString
               /\ dts[<<c + i, j, k>>].varKeyInc = l
    <2>1. DataSetBuilt(dts, t, c, i, j, k, l, i, j, k)
      BY <1>1, <1>2, <1>5 DEF Built, DataSetsBuilt
    <2>2. /\ <<c + i, j, k>> \in DOMAIN dts
          /\ dts[<<c + i, j, k>>].isString = Ds(t, i, j, k).isString
          /\ dts[<<c + i, j, k>>].varKeyInc = l
      BY <1>2, <1>5, <2>1 DEF DataSetBuilt
    <2>3. k \in Key
      BY <2>2 DEF IInv, TreeTypeOK
    <2> QED
      BY <1>1, <1>5, <2>2, <2>3 DEF Chosen
  <1> QED
    BY <1>2, <1>3, <1>4, <1>5

\* A handler that is given no key takes the selection, and returns to add.
LEMMA TakesSelection ==
  ASSUME CInv, ~ AtKey(toks), NEW k \in 1 .. 4, NEW r, r = Resolve(toks, k), \A n \in 1 .. k : b[n] # 0
  PROVE  /\ \A l : NextPath(l, "add", r) => loop' = "add" /\ toks' = toks
         /\ r.full = FALSE /\ r.missing = FALSE /\ r.rest = toks /\ r.path = [n \in 1 .. k |-> b[n]]
  <1>1. toks \in Seq(Token)
    BY DEF CInv, Decoding
  <1>2. ~ r.full /\ ~ r.missing /\ r.rest = toks /\ r.path = [n \in 1 .. k |-> b[n]]
    <2>1. PICK ts : ts = toks
      OBVIOUS
    <2>2. ts \in Seq(Token) /\ ~ AtKey(ts) /\ r = Resolve(ts, k)
      BY <1>1, <2>1
    <2>3. IsSelection(r, ts, k)
      BY <2>2, NoneGiven
    <2> QED
      BY <2>1, <2>3 DEF IsSelection
  <1>3. r.full \in BOOLEAN /\ r.missing \in BOOLEAN
    BY DEF Resolve
  <1>4. r.full = FALSE /\ r.missing = FALSE
    BY <1>2, <1>3
  <1>5. ASSUME NEW l, NextPath(l, "add", r)
        PROVE  loop' = "add" /\ toks' = toks
    BY <1>2, <1>4, <1>5 DEF NextPath, BackTo, Continue
  <1> QED
    BY <1>2, <1>4, <1>5

LEMMA PortIsKey ==
  ASSUME NEW p, p \in PortNumbers
  PROVE  p \in Key
  <1>1. p \in Int /\ 0 <= p /\ p <= 9999
    BY DEF PortNumbers
  <1>2. \A n \in Int : n <= 9999 => n <= UInt16 - 1
    BY DEF UInt16
  <1> QED
    BY <1>1, <1>2, Width DEF Key

\* The handlers of add take the selected node.
LEMMA TurnGoes ==
  ASSUME FInv, InBounds, Step, Values,
         NEW t \in Seq(ChannelShapes), NEW g \in Behind, NEW c \in Nat, NEW i, NEW j, NEW k, NEW l, NEW ls,
         Turning(t, g, c, i, j, k, l, ls)
  PROVE  Onward(t, g, c, ls)
  <1>1. PICK word, rest : Turns(t, g, i, j, k, l, word, rest, ls)
    BY DEF Turning
  <1>2. /\ InShape(t, i, j, k, l) /\ job = NoJob /\ loop # "wrt" /\ Placed(t, c, i, j, k, l, "none")
        /\ IInv /\ CInv /\ ExportTypeOK
    BY <1>1 DEF Turning, Turns, Placed, Reads, FInv, CInv
  <1>3. /\ i # 0 => i \in Key /\ c + i \in DOMAIN conns /\ b[1] = c + i /\ b[1] # 0 /\ c + i \in Key
        /\ j # 0 => i # 0 /\ <<c + i, j>> \in DOMAIN wgs /\ b[2] = j /\ b[2] # 0 /\ j \in Key
        /\ k # 0 => /\ j # 0 /\ <<c + i, j, k>> \in DOMAIN dts /\ b[3] = k /\ b[3] # 0 /\ k \in Key
                    /\ dts[<<c + i, j, k>>].isString = Ds(t, i, j, k).isString
    <2>1. c + i \in Key => i \in Key
      BY <1>2, Positions, Width DEF Key
    <2> QED
      BY <1>2, <2>1, PlacedNodes
  <1>4. ~ AtKey(<<>>)
    BY DEF AtKey
  <1>5. ASSUME UNCHANGED <<treeVars, b>>
        PROVE  Placed(t, c, i, j, k, l, "none")' /\ \A o : Kept(o, c) => Kept(o, c)'
    BY <1>2, <1>5, StaysPlaced
  <1>6. ASSUME Adding(t, g, c, i, j, k, l, ls)', UNCHANGED <<treeVars, b>>
        PROVE  Onward(t, g, c, ls)
    BY <1>5, <1>6 DEF Onward, Loaded, Stage
  <1>7. CASE ChannelWords(t, g, i, j, k, l, word, rest, ls) /\ Reads("addCh", rest)
    <2>1. PICK port, N : port = t[i + 1].port /\ N = Numeral[port]
      OBVIOUS
    <2>2. ChannelNext(t, i, j, k, l) /\ rest = <<N>> /\ port \in Port /\ ls = LeftOver(t, g, i + 1, 0, 0, 0)
      BY <1>2, <1>7, <2>1, DueNode DEF ChannelWords
    <2>3. port \in PortNumbers /\ port \in Key
      <3>1. port \in PortNumbers
        BY <2>2, CommandsOK DEF CommandsOK
      <3> QED
        BY <3>1, PortIsKey
    <2>4. KeyOf(N) = port
      BY <2>1, <2>2, <2>3, NumeralIs DEF PrintedNumbers
    <2>5. NextPort = port /\ port # 0 /\ Tail(toks) = <<>>
      BY <1>7, <2>2, <2>3, <2>4 DEF NextPort, Reads, PortNumbers
    <2>6. AddChannel
      BY <1>2, <1>7, StepOfLoop DEF Reads
    <2>7. /\ CreateConnection(port) /\ Continue("addCh", <<>>)
          /\ b' = IF connKeyInc' \in DOMAIN conns THEN b ELSE Select(<<connKeyInc'>>)
      BY <2>3, <2>5, <2>6 DEF AddChannel
    <2>8. Room(connKeyInc, 1)
      BY DEF InBounds
    <2>9. PICK n : n = connKeyInc + 1
      OBVIOUS
    <2>10. connKeyInc' = n /\ n \notin DOMAIN conns
      BY <1>2, <2>7, <2>8, <2>9, ChannelAdded
    <2>11. b' = Select(<<connKeyInc'>>)
      BY <2>7, <2>10
    <2>12. Placed(t, c, i + 1, 0, 0, 0, "none")' /\ \A o : Kept(o, c) => Kept(o, c)'
      BY <1>2, <2>1, <2>2, <2>7, <2>8, <2>11, BuildsChannel
    <2>13. job' = NoJob
      BY <1>2, <2>6 DEF AddChannel
    <2>14. PICK m : m = i + 1
      OBVIOUS
    <2>15. AtRest(t, g, c, m, 0, 0, 0, ls)'
      BY <2>2, <2>7, <2>12, <2>13, <2>14 DEF AtRest, Reads, Complete, Continue
    <2> QED
      BY <2>12, <2>15 DEF Onward, Loaded, Stage
  <1>8. CASE GroupWords(t, g, i, j, k, l, word, rest, ls) /\ Reads("addWg", rest) /\ arg.n = 1
    <2>1. toks = rest /\ ~ AtKey(rest) /\ i # 0 /\ loop = "addWg"
      BY <1>2, <1>8, RestIs DEF Reads, NoKey, GroupWords, GroupNext
    <2>2. AddGroups
      BY <1>2, <2>1, StepOfLoop
    <2>3. PICK r : r = Resolve(toks, 1)
      OBVIOUS
    <2>4. 1 \in 1 .. 4 /\ \A n \in 1 .. 1 : b[n] # 0
      BY <1>3, <2>1
    <2>5. r.missing = FALSE /\ r.path = [n \in 1 .. 1 |-> b[n]] /\ \A m : NextPath(m, "add", r) => loop' = "add" /\ toks' = rest
      BY <1>2, <2>1, <2>3, <2>4, TakesSelection
    <2>6. r.path = <<c + i>>
      BY <1>3, <2>1, <2>5, PathsAre
    <2>7. r.path \in [1 .. 1 -> Key] /\ r.path[1] = c + i
      BY <1>3, <2>1, <2>5
    <2>8. NodeExists(r.path)
      BY <1>3, <2>1, <2>7, NodeExistsAt
    <2>9. /\ job' = [op |-> "wg", path |-> r.path, count |-> arg.n] /\ NextPath("addWg", "add", r)
          /\ UNCHANGED <<treeVars, b, arg>>
      BY <1>8, <2>2, <2>3, <2>5, <2>8 DEF AddGroups, AddTurn, Always
    <2>10. Adds("wg", <<c + i>>, rest)'
      BY <1>8, <2>5, <2>6, <2>9 DEF Adds
    <2>11. Adding(t, g, c, i, j, k, l, ls)'
      BY <1>5, <1>8, <2>9, <2>10 DEF Adding, IsDue
    <2> QED
      BY <1>6, <2>9, <2>11
  <1>9. CASE DataSetWords(t, g, i, j, k, l, word, rest, ls) /\ Reads("addDs", rest) /\ arg.n = 1
    <2>1. toks = rest /\ ~ AtKey(rest) /\ j # 0 /\ loop = "addDs"
      BY <1>2, <1>9, RestIs DEF Reads, NoKey, DataSetWords, DataSetNext
    <2>2. AddDataSets
      BY <1>2, <2>1, StepOfLoop
    <2>3. PICK r : r = Resolve(toks, 2)
      OBVIOUS
    <2>4. 2 \in 1 .. 4 /\ \A n \in 1 .. 2 : b[n] # 0
      BY <1>3, <2>1
    <2>5. r.missing = FALSE /\ r.path = [n \in 1 .. 2 |-> b[n]] /\ \A m : NextPath(m, "add", r) => loop' = "add" /\ toks' = rest
      BY <1>2, <2>1, <2>3, <2>4, TakesSelection
    <2>6. r.path = <<c + i, j>>
      BY <1>3, <2>1, <2>5, PathsAre
    <2>7. r.path \in [1 .. 2 -> Key]
      BY <1>3, <2>1, <2>5
    <2>8. NodeExists(r.path)
      BY <1>3, <2>1, <2>6, <2>7, NodeExistsAt
    <2>9. /\ job' = [op |-> "ds", path |-> r.path, count |-> arg.n] /\ NextPath("addDs", "add", r)
          /\ UNCHANGED <<treeVars, b, arg>>
      BY <1>9, <2>2, <2>3, <2>5, <2>8 DEF AddDataSets, AddTurn, Always
    <2>10. Adds("ds", <<c + i, j>>, rest)'
      BY <1>9, <2>5, <2>6, <2>9 DEF Adds
    <2>11. Adding(t, g, c, i, j, k, l, ls)'
      BY <1>5, <1>9, <2>9, <2>10 DEF Adding, IsDue
    <2> QED
      BY <1>6, <2>9, <2>11
  <1>10. CASE /\ StringWords(t, g, i, j, k, l, word, rest, ls) /\ Reads("addString", <<>>)
              /\ arg.n = Ds(t, i, j, k + 1).length
    <2>1. toks = <<>> /\ ~ AtKey(toks) /\ j # 0 /\ loop = "addString"
      BY <1>4, <1>10 DEF Reads, StringWords, DataSetNext
    <2>2. AddString
      BY <1>2, <2>1, StepOfLoop
    <2>3. PICK r : r = Resolve(toks, 2)
      OBVIOUS
    <2>4. 2 \in 1 .. 4 /\ \A n \in 1 .. 2 : b[n] # 0
      BY <1>3, <2>1
    <2>5. /\ r.missing = FALSE /\ r.full = FALSE /\ r.rest = <<>> /\ r.path = [n \in 1 .. 2 |-> b[n]]
      BY <1>2, <2>1, <2>3, <2>4, TakesSelection
    <2>6. r.path = <<c + i, j>>
      BY <1>3, <2>1, <2>5, PathsAre
    <2>7. r.path \in [1 .. 2 -> Key]
      BY <1>3, <2>1, <2>5
    <2>8. NodeExists(r.path)
      BY <1>3, <2>1, <2>6, <2>7, NodeExistsAt
    <2>9. /\ job' = [op |-> "string", path |-> r.path, count |-> 1] /\ BackTo("add", <<>>)
          /\ UNCHANGED <<treeVars, b, arg>>
      BY <2>2, <2>3, <2>5, <2>8 DEF AddString
    <2>10. Adds("string", <<c + i, j>>, <<>>)'
      BY <1>4, <2>6, <2>9 DEF Adds, BackTo, Continue
    <2>11. Adding(t, g, c, i, j, k, l, ls)'
      BY <1>5, <1>10, <2>9, <2>10 DEF Adding, IsDue
    <2> QED
      BY <1>6, <2>9, <2>11
  <1>11. CASE FieldWords(t, g, i, j, k, l, word, rest, ls) /\ Reads("addFd", rest) /\ arg.n = 1 /\ arg.type = word
    <2>1. toks = rest /\ ~ AtKey(rest) /\ k # 0 /\ loop = "addFd" /\ ~ Ds(t, i, j, k).isString
      BY <1>2, <1>11, RestIs DEF Reads, NoKey, FieldWords, FieldNext
    <2>2. AddFields
      BY <1>2, <2>1, StepOfLoop
    <2>3. PICK r : r = Resolve(toks, 3)
      OBVIOUS
    <2>4. 3 \in 1 .. 4 /\ \A n \in 1 .. 3 : b[n] # 0
      BY <1>3, <2>1
    <2>5. r.missing = FALSE /\ r.path = [n \in 1 .. 3 |-> b[n]] /\ \A m : NextPath(m, "add", r) => loop' = "add" /\ toks' = rest
      BY <1>2, <2>1, <2>3, <2>4, TakesSelection
    <2>6. r.path = <<c + i, j, k>>
      BY <1>3, <2>1, <2>5, PathsAre
    <2>7. r.path \in [1 .. 3 -> Key]
      BY <1>3, <2>1, <2>5
    <2>8. NodeExists(r.path) /\ NotAString(r.path)
      BY <1>3, <2>1, <2>6, <2>7, NodeExistsAt DEF NotAString
    <2>9. /\ job' = [op |-> "fd", path |-> r.path, count |-> arg.n] /\ NextPath("addFd", "add", r)
          /\ UNCHANGED <<treeVars, b, arg>>
      BY <1>11, <2>2, <2>3, <2>5, <2>8 DEF AddFields, AddTurn
    <2>10. Adds("fd", <<c + i, j, k>>, rest)'
      BY <1>11, <2>5, <2>6, <2>9 DEF Adds
    <2>11. Adding(t, g, c, i, j, k, l, ls)'
      BY <1>5, <1>11, <2>9, <2>10 DEF Adding, IsDue
    <2> QED
      BY <1>6, <2>9, <2>11
  <1> QED
    BY <1>1, <1>7, <1>8, <1>9, <1>10, <1>11 DEF Turns

LEMMA GroupGetsSet ==
  ASSUME NEW t \in Seq(ChannelShapes), NEW c \in Nat, NEW i, NEW j, NEW k, NEW l, Placed(t, c, i, j, k, l, "group")',
         j # 0, NEW x, x = <<c + i, j>>, wgs'[x].interval = Wg(t, i, j).interval, wgs'[x].enabled = Wg(t, i, j).enabled
  PROVE  Placed(t, c, i, j, k, l, "none")'
  <1>1. GroupsBuilt(wgs', t, c, i, j, k, "none")
    BY DEF Placed, Built, GroupsBuilt, GroupBuilt
  <1>2. PICK V : V = val'
    OBVIOUS
  <1>3. FieldsBuilt(fields', V, t, c, i, j, k, l, "none")
    <2>1. FieldsBuilt(fields', V, t, c, i, j, k, l, "group")
      BY <1>2 DEF Placed, Built
    <2> QED
      BY <2>1 DEF FieldsBuilt, FieldBuilt
  <1> QED
    BY <1>1, <1>2, <1>3 DEF Placed, Built

\* The next job is done by the action of its kind.
LEMMA JobIs ==
  ASSUME Step, NEW op, NEW path, NEW ts, Adds(op, path, ts)
  PROVE  /\ op = "wg" => AddGroup
         /\ op = "ds" => AddDataSet
         /\ op = "fd" => AddOneField
         /\ op = "string" => AddStringDataSet
         /\ op = "text" => WriteNewString
         /\ job.op = op /\ job.path = path /\ job.count = 1 /\ loop = "add" /\ toks = ts /\ job # NoJob
  <1>1. job.op = op /\ job.path = path /\ job.count = 1 /\ loop = "add" /\ toks = ts /\ job # NoJob
    BY DEF Adds, NoJob
  <1>2. AddGroup \/ AddDataSet \/ AddOneField \/ AddStringDataSet \/ WriteNewString
    BY <1>1, StepOfJob
  <1> QED
    BY <1>1, <1>2 DEF AddGroup, AddDataSet, AddOneField, AddStringDataSet, WriteNewString

\* What the new WriterGroup still needs.
LEMMA GroupStage ==
  ASSUME NEW t \in Seq(ChannelShapes), NEW g \in Behind, NEW c \in Nat, NEW i, NEW j, j # 0, NEW ls,
         Placed(t, c, i, j, 0, 0, "group")', NEW v, v = wgs'[<<c + i, j>>], v.enabled = TRUE,
         NEW w, w = Wg(t, i, j), w \in GroupShapes, ls = LeftOver(t, g, i, j, 0, 0),
         v.interval = w.interval, NEW m \in {"add", "decode"}, Reads(m, Off(w))'
  PROVE  Loaded(t, g, c, ls)'
  <1>1. w.enabled \in BOOLEAN
    BY DEF GroupShapes
  <1>2. CASE w.enabled = TRUE
    <2>1. Placed(t, c, i, j, 0, 0, "none")'
      BY <1>2, GroupGetsSet
    <2>2. Off(w) = <<>>
      BY <1>2 DEF Off
    <2>3. AtRest(t, g, c, i, j, 0, 0, ls)'
      BY <2>1, <2>2 DEF AtRest, Complete
    <2> QED
      BY <2>3 DEF Loaded, Stage
  <1>3. CASE w.enabled = FALSE
    <2>1. Off(w) = <<"off">>
      BY <1>3 DEF Off
    <2>2. NeedsOff(w, v)
      BY <1>3 DEF NeedsOff
    <2>3. (Reads("add", <<"off">>) \/ Reads("decode", <<"off">>))'
      BY <2>1
    <2>4. Sets(w, v)'
      BY <2>2, <2>3 DEF Sets
    <2>5. Sets(Wg(t, i, j), wgs[<<c + i, j>>])'
      BY <2>4
    <2>6. Setting(t, g, c, i, j, 0, 0, ls)'
      BY <2>5 DEF Setting
    <2> QED
      BY <2>6 DEF Loaded, Stage
  <1> QED
    BY <1>1, <1>2, <1>3

LEMMA AddGroupGoes ==
  ASSUME FInv, InBounds, Step, Values,
         NEW t \in Seq(ChannelShapes), NEW g \in Behind, NEW c \in Nat, NEW i, NEW j, NEW k, NEW l, NEW ls,
         Placed(t, c, i, j, k, l, "none"), NEW word, NEW rest,
         GroupWords(t, g, i, j, k, l, word, rest, ls), Adds("wg", <<c + i>>, rest)
  PROVE  Onward(t, g, c, ls)
  <1>1. AddGroup /\ job.path = <<c + i>> /\ job.count = 1 /\ loop = "add" /\ toks = rest
    BY JobIs
  <1>2. /\ InShape(t, i, j, k, l) /\ IInv /\ ExportTypeOK /\ loop # "wrt" /\ GroupNext(t, i, j, k, l) /\ i # 0
        /\ ls = LeftOver(t, g, i, j + 1, 0, 0)
    BY <1>1 DEF Placed, FInv, CInv, GroupWords, GroupNext
  <1>3. PICK x : x = c + i
    OBVIOUS
  <1>4. x \in DOMAIN conns /\ conns[x].wgKeyInc = j /\ x \in Key /\ Room(conns[x].wgKeyInc, 1)
    <2>1. /\ i # 0 => /\ c + i \in DOMAIN conns /\ conns[c + i].wgKeyInc = j /\ c + i \in Key
          /\ j # 0 => /\ i # 0 /\ <<c + i, j>> \in DOMAIN wgs /\ wgs[<<c + i, j>>].dtsKeyInc = k /\ j \in Key
          /\ k # 0 => /\ j # 0 /\ <<c + i, j, k>> \in DOMAIN dts /\ k \in Key /\ dts[<<c + i, j, k>>].varKeyInc = l
      BY <1>2, PlacedNodes
    <2>2. x \in DOMAIN conns /\ conns[x].wgKeyInc = j /\ x \in Key
      BY <1>2, <1>3, <2>1
    <2> QED
      BY <2>2 DEF InBounds
  <1>5. /\ AddWritergroup(x)
        /\ LET y == Append(job.path, conns'[x].wgKeyInc)
           IN  IF y \in DOMAIN wgs THEN b' = b /\ job' = NoJob
               ELSE b' = Select(y) /\ job' = IF job.count = 1 THEN NoJob ELSE [job EXCEPT !.count = @ - 1]
        /\ UNCHANGED <<toks, loop, arg>>
    BY <1>1, <1>3 DEF AddGroup, NodeAdded
  <1>6. PICK n : n = j + 1
    OBVIOUS
  <1>7. conns'[x].wgKeyInc = n /\ <<x, n>> \notin DOMAIN wgs /\ <<x, n>> \in DOMAIN wgs'
    <2>1. n = conns[x].wgKeyInc + 1
      BY <1>4, <1>6
    <2>2. AddWritergroup(x)
      BY <1>5
    <2>3. /\ conns'[x].wgKeyInc = n /\ <<x, n>> \notin DOMAIN wgs
          /\ DOMAIN wgs' = DOMAIN wgs \cup {<<x, n>>}
      BY <1>2, <1>4, <2>1, <2>2, GroupAdded, Zenon
    <2> QED
      BY <2>3
  <1>8. n \in Key
    <2>1. conns[x].wgKeyInc \in Key
      BY <1>2, <1>4 DEF IInv, TreeTypeOK
    <2> QED
      BY <1>4, <1>6, <2>1, NextKey
  <1>9. Append(job.path, conns'[x].wgKeyInc) = <<x, n>>
    BY <1>1, <1>3, <1>4, <1>7, <1>8, Appended
  <1>10. b' = Select(<<x, n>>) /\ job' = NoJob
    BY <1>1, <1>5, <1>7, <1>9
  <1>11. b' = Select(<<x, n>>) /\ job' = NoJob /\ toks' = rest /\ loop' = "add"
    BY <1>1, <1>5, <1>10
  <1>12. /\ Placed(t, c, i, n, 0, 0, "group")' /\ \A o : Kept(o, c) => Kept(o, c)'
         /\ wgs'[<<x, n>>].interval = DefaultInterval /\ wgs'[<<x, n>>].enabled = TRUE
    <2>1. b' = Select(<<x, j + 1>>)
      BY <1>6, <1>11
    <2>2. /\ Placed(t, c, i, j + 1, 0, 0, "group")' /\ \A o : Kept(o, c) => Kept(o, c)'
          /\ wgs'[<<x, j + 1>>].interval = DefaultInterval /\ wgs'[<<x, j + 1>>].enabled = TRUE
      <3>1. AddWritergroup(x)
        BY <1>5
      <3>2. /\ IInv /\ ExportTypeOK /\ Values /\ loop # "wrt" /\ GroupNext(t, i, j, k, l) /\ x = c + i
            /\ Room(conns[x].wgKeyInc, 1) /\ b' = Select(<<x, j + 1>>)
        BY <1>2, <1>3, <1>4, <2>1
      <3> QED
        BY <3>1, <3>2, BuildsGroup
    <2> QED
      BY <1>6, <2>2
  <1>13. PICK w, v : w = Wg(t, i, n) /\ v = wgs'[<<x, n>>]
    OBVIOUS
  <1>14. w \in GroupShapes /\ rest = Intv(w) \o Off(w)
    BY <1>2, <1>6, <1>13, DueNode DEF GroupWords
  <1>15. j \in Nat
    BY <1>2, Positions
  <1>16. n # 0
    BY <1>6, <1>15
  <1>17. CASE w.interval = DefaultInterval
    <2>1. Reads("add", Off(w))'
      BY <1>11, <1>14, <1>17, SettingWords DEF Reads
    <2>2. Loaded(t, g, c, ls)'
      BY <1>2, <1>3, <1>6, <1>12, <1>13, <1>14, <1>16, <1>17, <2>1, GroupStage
    <2> QED
      BY <1>12, <2>2 DEF Onward
  <1>18. CASE w.interval # DefaultInterval
    <2>1. NeedsInterval(w, v)
      BY <1>12, <1>13, <1>18 DEF NeedsInterval
    <2>2. Sets(w, v)'
      BY <1>11, <1>14, <2>1 DEF Sets, Reads
    <2>3. Sets(Wg(t, i, n), wgs[<<c + i, n>>])'
      BY <1>3, <1>13, <2>2
    <2>4. Setting(t, g, c, i, n, 0, 0, ls)'
      BY <1>2, <1>6, <1>12, <1>16, <2>3 DEF Setting
    <2> QED
      BY <1>12, <2>4 DEF Onward, Loaded, Stage
  <1> QED
    BY <1>17, <1>18

LEMMA AddDataSetGoes ==
  ASSUME FInv, InBounds, Step, Values,
         NEW t \in Seq(ChannelShapes), NEW g \in Behind, NEW c \in Nat, NEW i, NEW j, NEW k, NEW l, NEW ls,
         Placed(t, c, i, j, k, l, "none"), NEW word, NEW rest,
         \/ DataSetWords(t, g, i, j, k, l, word, rest, ls) /\ Adds("ds", <<c + i, j>>, rest)
         \/ /\ StringWords(t, g, i, j, k, l, word, rest, ls) /\ Adds("string", <<c + i, j>>, <<>>)
            /\ arg.n = Ds(t, i, j, k + 1).length
  PROVE  Onward(t, g, c, ls)
  <1>1. PICK x, a, n, d : x = <<c + i, j>> /\ a = c + i /\ n = k + 1 /\ d = Ds(t, i, j, n)
    OBVIOUS
  <1>2. /\ InShape(t, i, j, k, l) /\ IInv /\ ExportTypeOK /\ loop = "add" /\ DataSetNext(t, i, j, k, l) /\ j # 0
        /\ ls = LeftOver(t, g, i, j, n, 0) /\ job.path = x /\ job.count = 1 /\ toks = <<>>
    BY <1>1, JobIs DEF Placed, FInv, CInv, DataSetWords, StringWords, DataSetNext
  <1>3. x \in DOMAIN wgs /\ wgs[x].dtsKeyInc = k /\ a \in Key /\ j \in Key /\ Room(wgs[x].dtsKeyInc, 1)
    <2>1. /\ i # 0 => /\ c + i \in DOMAIN conns /\ conns[c + i].wgKeyInc = j /\ c + i \in Key
          /\ j # 0 => /\ i # 0 /\ <<c + i, j>> \in DOMAIN wgs /\ wgs[<<c + i, j>>].dtsKeyInc = k /\ j \in Key
          /\ k # 0 => /\ j # 0 /\ <<c + i, j, k>> \in DOMAIN dts /\ k \in Key /\ dts[<<c + i, j, k>>].varKeyInc = l
      BY <1>2, PlacedNodes
    <2>2. c + i \in Key /\ j \in Key
      BY <1>2, <2>1
    <2>3. x \in DOMAIN wgs /\ wgs[x].dtsKeyInc = k
      BY <1>1, <1>2, <2>1
    <2>4. Room(wgs[x].dtsKeyInc, 1)
      BY <2>3 DEF InBounds
    <2> QED
      BY <1>1, <2>1, <2>2, <2>3, <2>4
  <1>4. PICK p : p = <<a, j, n>>
    OBVIOUS
  <1>5. k \in Nat
    BY <1>2, Positions
  <1>6. n # 0
    BY <1>1, <1>5
  <1>7. CASE DataSetWords(t, g, i, j, k, l, word, rest, ls) /\ Adds("ds", <<c + i, j>>, rest)
    <2>1. ~ d.isString
      BY <1>1, <1>7 DEF DataSetWords
    <2>2. AddDataSet
      BY <1>7, JobIs
    <2>3. /\ AddDataset(x, FALSE)
          /\ LET y == Append(x, wgs'[x].dtsKeyInc)
             IN  IF y \in DOMAIN dts THEN b' = b /\ job' = NoJob
                 ELSE b' = Select(y) /\ job' = IF job.count = 1 THEN NoJob ELSE [job EXCEPT !.count = @ - 1]
          /\ UNCHANGED <<toks, loop, arg>>
      BY <1>2, <2>2 DEF AddDataSet, NodeAdded
    <2>4. Append(x, wgs'[x].dtsKeyInc) = p /\ p \notin DOMAIN dts
      <3>1. x = <<a, j>> /\ n = wgs[x].dtsKeyInc + 1
        BY <1>1, <1>3
      <3>2. AddDataset(x, TRUE) \/ AddDataset(x, FALSE)
        BY <2>3
      <3>3. Append(x, wgs'[x].dtsKeyInc) = <<a, j, n>> /\ <<a, j, n>> \notin DOMAIN dts
        BY <1>2, <1>3, <3>1, <3>2, DataSetKey
      <3> QED
        BY <1>4, <3>3
    <2>5. b' = Select(p) /\ job' = NoJob
      BY <1>2, <2>3, <2>4
    <2>6. b' = Select(p) /\ job' = NoJob /\ toks' = <<>> /\ loop' = "add"
      BY <1>2, <2>3, <2>5
    <2>7. Keys(b', a, j, n, b'[4])
      <3>1. Keys(Select(p), a, j, n, 0)
        BY <1>4, SelectPath
      <3> QED
        BY <2>6, <3>1 DEF Keys
    <2>8. x[1] = c + i /\ x[2] = j /\ loop # "wrt"
      BY <1>1, <1>2
    <2>9. IF d.isString THEN AddDataset(x, TRUE) ELSE AddDataset(x, FALSE)
      BY <2>1, <2>3
    <2>10. Placed(t, c, i, j, n, 0, "none")' /\ \A o : Kept(o, c) => Kept(o, c)'
      BY <1>1, <1>2, <1>3, <2>7, <2>8, <2>9, BuildsDataSet
    <2>11. AtRest(t, g, c, i, j, n, 0, ls)'
      BY <1>1, <1>2, <2>1, <2>6, <2>10 DEF AtRest, Complete, Reads
    <2> QED
      BY <2>10, <2>11 DEF Onward, Loaded, Stage
  <1>8. CASE /\ StringWords(t, g, i, j, k, l, word, rest, ls) /\ Adds("string", <<c + i, j>>, <<>>)
             /\ arg.n = Ds(t, i, j, k + 1).length
    <2>1. d.isString
      BY <1>1, <1>8 DEF StringWords
    <2>2. AddStringDataSet
      BY <1>8, JobIs
    <2>3. /\ AddDataset(x, TRUE)
          /\ LET y == Append(x, wgs'[x].dtsKeyInc)
             IN  IF y \in DOMAIN dts THEN b' = b /\ job' = NoJob
                 ELSE /\ b' = [Select(y) EXCEPT ![4] = b[4]]
                      /\ job' = [op |-> "text", path |-> y, count |-> 1]
          /\ UNCHANGED <<toks, loop, arg, said, typed>>
      BY <1>2, <2>2 DEF AddStringDataSet
    <2>4. Append(x, wgs'[x].dtsKeyInc) = p /\ p \notin DOMAIN dts
      <3>1. x = <<a, j>> /\ n = wgs[x].dtsKeyInc + 1
        BY <1>1, <1>3
      <3>2. AddDataset(x, TRUE) \/ AddDataset(x, FALSE)
        BY <2>3
      <3>3. Append(x, wgs'[x].dtsKeyInc) = <<a, j, n>> /\ <<a, j, n>> \notin DOMAIN dts
        BY <1>2, <1>3, <3>1, <3>2, DataSetKey
      <3> QED
        BY <1>4, <3>3
    <2>5. b' = [Select(p) EXCEPT ![4] = b[4]] /\ job' = [op |-> "text", path |-> p, count |-> 1]
      BY <2>3, <2>4
    <2>6. Keys(Select(p), a, j, n, 0)
      BY <1>4, SelectPath
    <2>7. Keys(b', a, j, n, b'[4])
      BY <2>5, <2>6 DEF Keys, Select
    <2>8. x[1] = c + i /\ x[2] = j /\ loop # "wrt"
      BY <1>1, <1>2
    <2>9. IF d.isString THEN AddDataset(x, TRUE) ELSE AddDataset(x, FALSE)
      BY <2>1, <2>3
    <2>10. Placed(t, c, i, j, n, 0, "none")' /\ \A o : Kept(o, c) => Kept(o, c)'
      BY <1>1, <1>2, <1>3, <2>7, <2>8, <2>9, BuildsDataSet
    <2>11. Adds("text", <<c + i, j, n>>, <<>>)' /\ (arg.n = Ds(t, i, j, n).length)'
      BY <1>1, <1>2, <1>4, <1>8, <2>3, <2>5 DEF Adds
    <2>12. TextWaits(t, g, c, i, j, n, 0, ls)'
      BY <1>1, <1>2, <1>6, <2>1, <2>10, <2>11 DEF TextWaits
    <2> QED
      BY <2>10, <2>12 DEF Onward, Loaded, Stage
  <1> QED
    BY <1>7, <1>8

LEMMA AddFieldGoes ==
  ASSUME FInv, InBounds, Step, Values,
         NEW t \in Seq(ChannelShapes), NEW g \in Behind, NEW c \in Nat, NEW i, NEW j, NEW k, NEW l, NEW ls,
         Placed(t, c, i, j, k, l, "none"), NEW word, NEW rest,
         FieldWords(t, g, i, j, k, l, word, rest, ls), Adds("fd", <<c + i, j, k>>, rest), arg.type = word
  PROVE  Onward(t, g, c, ls)
  <1>1. PICK x, a, n, f : x = <<c + i, j, k>> /\ a = c + i /\ n = l + 1 /\ f = Fd(t, i, j, k, n)
    OBVIOUS
  <1>2. /\ InShape(t, i, j, k, l) /\ IInv /\ ExportTypeOK /\ loop = "add" /\ FieldNext(t, i, j, k, l) /\ k # 0
        /\ ls = LeftOver(t, g, i, j, k, n) /\ AddOneField /\ job.path = x /\ job.count = 1 /\ toks = rest
        /\ word = f.type /\ rest = Wrt(f, g) /\ ~ Ds(t, i, j, k).isString
    BY <1>1, JobIs DEF Placed, FInv, CInv, FieldWords, FieldNext
  <1>3. /\ x \in DOMAIN dts /\ dts[x].varKeyInc = l /\ a \in Key /\ j \in Key /\ k \in Key
        /\ Room(dts[x].varKeyInc, 1)
    <2>1. /\ i # 0 => /\ c + i \in DOMAIN conns /\ conns[c + i].wgKeyInc = j /\ c + i \in Key
          /\ j # 0 => /\ i # 0 /\ <<c + i, j>> \in DOMAIN wgs /\ wgs[<<c + i, j>>].dtsKeyInc = k /\ j \in Key
          /\ k # 0 => /\ j # 0 /\ <<c + i, j, k>> \in DOMAIN dts /\ k \in Key /\ dts[<<c + i, j, k>>].varKeyInc = l
      BY <1>2, PlacedNodes
    <2>2. j # 0 /\ j \in Key /\ k \in Key
      BY <1>2, <2>1
    <2>3. c + i \in Key
      BY <2>1, <2>2
    <2>4. x \in DOMAIN dts /\ dts[x].varKeyInc = l
      BY <1>1, <1>2, <2>1
    <2>5. Room(dts[x].varKeyInc, 1)
      BY <2>4 DEF InBounds
    <2> QED
      BY <1>1, <2>1, <2>2, <2>3, <2>4, <2>5
  <1>4. /\ AddData(x, word)
        /\ LET y == Append(x, dts'[x].varKeyInc)
           IN  IF y \in DOMAIN fields THEN b' = b /\ job' = NoJob
               ELSE b' = Select(y) /\ job' = IF job.count = 1 THEN NoJob ELSE [job EXCEPT !.count = @ - 1]
        /\ UNCHANGED <<toks, loop, arg>>
    BY <1>2 DEF AddOneField, NodeAdded
  <1>5. PICK q : q = <<a, j, k, n>>
    OBVIOUS
  <1>6. Append(x, dts'[x].varKeyInc) = q /\ q \notin DOMAIN fields
    <2>1. dts[x] \in [isString : BOOLEAN, varKeyInc : Key]
      BY <1>2, <1>3 DEF IInv, TreeTypeOK
    <2>2. Inc(dts[x].varKeyInc) = n /\ n \in Key
      BY <1>1, <1>3, <2>1, NextKey
    <2>3. dts' = [dts EXCEPT ![x].varKeyInc = n]
      BY <1>4, <2>2 DEF AddData
    <2>4. dts'[x].varKeyInc = n
      BY <1>3, <2>1, <2>3
    <2>5. <<x[1], x[2], x[3], n>> \notin DOMAIN fields
      BY <1>2, <1>3, <2>2, FreeKeys
    <2>6. x[1] = a /\ x[2] = j /\ x[3] = k
      BY <1>1
    <2> QED
      BY <1>1, <1>3, <1>5, <2>2, <2>4, <2>5, <2>6, Appended
  <1>7. b' = Select(q) /\ job' = NoJob
    BY <1>2, <1>4, <1>6
  <1>8. b' = Select(q) /\ job' = NoJob /\ toks' = rest /\ loop' = "add"
    BY <1>2, <1>4, <1>7
  <1>9. Keys(b', a, j, k, n)
    BY <1>5, <1>8, SelectPath
  <1>10. b'[1] = c + i /\ b'[2] = j /\ b'[3] = k /\ x[1] = c + i /\ x[2] = j /\ x[3] = k /\ loop # "wrt"
    BY <1>1, <1>2, <1>9 DEF Keys
  <1>11. /\ Placed(t, c, i, j, k, n, "field")' /\ \A o : Kept(o, c) => Kept(o, c)'
         /\ word = "date" => Placed(t, c, i, j, k, n, "none")'
    BY <1>1, <1>2, <1>3, <1>4, <1>10, BuildsField
  <1>12. f \in FieldShapes /\ l \in Nat
    BY <1>1, <1>2, DueNode, Positions
  <1>13. CASE word = "date"
    <2>1. rest = <<>>
      BY <1>2, <1>12, <1>13, WrtWords
    <2>2. AtRest(t, g, c, i, j, k, n, ls)'
      BY <1>2, <1>8, <1>11, <1>13, <2>1 DEF AtRest, Complete, Reads
    <2> QED
      BY <1>11, <2>2 DEF Onward, Loaded, Stage
  <1>14. CASE word # "date"
    <2>1. n # 0
      BY <1>1, <1>12
    <2>2. (b = <<c + i, j, k, n>>)'
      BY <1>1, <1>5, <1>8 DEF Select
    <2>3. Writes(f, g)'
      BY <1>2, <1>8 DEF Writes, Reads
    <2>4. Writing(t, g, c, i, j, k, n, ls)'
      BY <1>1, <1>2, <1>11, <1>14, <2>1, <2>2, <2>3 DEF Writing
    <2> QED
      BY <1>11, <2>4 DEF Onward, Loaded, Stage
  <1> QED
    BY <1>13, <1>14

LEMMA TextGoes ==
  ASSUME FInv, InBounds, Step, Values,
         NEW t \in Seq(ChannelShapes), NEW g \in Behind, NEW c \in Nat, NEW i, NEW j, NEW k, NEW l, NEW ls,
         TextWaits(t, g, c, i, j, k, l, ls)
  PROVE  Onward(t, g, c, ls)
  <1>1. PICK x, n : x = <<c + i, j, k>> /\ n = Ds(t, i, j, k).length
    OBVIOUS
  <1>2. /\ Placed(t, c, i, j, k, 0, "none") /\ k # 0 /\ Ds(t, i, j, k).isString /\ arg.n = n
        /\ ls = LeftOver(t, g, i, j, k, 0) /\ Adds("text", x, <<>>)
    BY <1>1 DEF TextWaits
  <1>3. WriteNewString /\ job.path = x /\ loop = "add" /\ toks = <<>>
    BY <1>2, JobIs
  <1>4. IInv /\ ExportTypeOK /\ loop # "wrt" /\ InShape(t, i, j, k, 0)
    BY <1>2, <1>3 DEF FInv, CInv, Placed
  <1>5. x \in DOMAIN dts
    BY <1>1, <1>2, <1>4, PlacedNodes
  <1>6. WriteString(x, n) /\ job' = NoJob /\ UNCHANGED <<b, toks, loop>>
    BY <1>2, <1>3 DEF WriteNewString
  <1>7. x[1] = c + i /\ x[2] = j /\ x[3] = k
    BY <1>1
  <1>8. Placed(t, c, i, j, k, n, "none")' /\ \A o : Kept(o, c) => Kept(o, c)'
    BY <1>1, <1>2, <1>4, <1>5, <1>6, <1>7, BuildsText
  <1>9. LeftOver(t, g, i, j, k, n) = LeftOver(t, g, i, j, k, 0)
    <2>1. FieldLines(Ds(t, i, j, k), g) = <<>>
      BY <1>2 DEF FieldLines
    <2>2. i \in 1 .. Len(t) /\ j \in 1 .. Wgs(t, i) /\ k \in 1 .. Dss(t, i, j)
      BY <1>2, <1>4, Positions
    <2>3. Ds(t, i, j, k) \in DataSetShapes /\ n \in 0 .. MaxString
      BY <1>1, <2>2, ShapeParts
    <2>4. n \in Nat
      BY <2>3
    <2>5. FieldsLeft(Ds(t, i, j, k), n, g) = <<>> /\ FieldsLeft(Ds(t, i, j, k), 0, g) = <<>>
      BY <1>2, <2>3, <2>4, FieldsLeftAre
    <2> QED
      BY <2>5 DEF LeftOver, FieldPart
  <1>10. AtRest(t, g, c, i, j, k, n, ls)'
    BY <1>1, <1>2, <1>3, <1>6, <1>8, <1>9 DEF AtRest, Complete, Reads
  <1> QED
    BY <1>8, <1>10 DEF Onward, Loaded, Stage

\* The job is done.
LEMMA AddGoes ==
  ASSUME FInv, InBounds, Step, Values,
         NEW t \in Seq(ChannelShapes), NEW g \in Behind, NEW c \in Nat, NEW i, NEW j, NEW k, NEW l, NEW ls,
         Adding(t, g, c, i, j, k, l, ls)
  PROVE  Onward(t, g, c, ls)
  <1>1. PICK word, rest : IsDue(t, g, c, i, j, k, l, word, rest, ls)
    BY DEF Adding
  <1>2. Placed(t, c, i, j, k, l, "none")
    BY DEF Adding
  <1>3. CASE GroupWords(t, g, i, j, k, l, word, rest, ls) /\ Adds("wg", <<c + i>>, rest)
    BY <1>2, <1>3, AddGroupGoes
  <1>4. CASE \/ DataSetWords(t, g, i, j, k, l, word, rest, ls) /\ Adds("ds", <<c + i, j>>, rest)
             \/ /\ StringWords(t, g, i, j, k, l, word, rest, ls) /\ Adds("string", <<c + i, j>>, <<>>)
                /\ arg.n = Ds(t, i, j, k + 1).length
    BY <1>2, <1>4, AddDataSetGoes
  <1>5. CASE FieldWords(t, g, i, j, k, l, word, rest, ls) /\ Adds("fd", <<c + i, j, k>>, rest) /\ arg.type = word
    BY <1>2, <1>5, AddFieldGoes
  <1> QED
    BY <1>1, <1>3, <1>4, <1>5 DEF IsDue

\* A word that is nothing to add goes back to decode.
LEMMA OtherWord ==
  ASSUME AddSubject, toks # <<>>, Head(toks) \in {"intv", "off", "wrt"}
  PROVE  loop' = "decode" /\ toks' = toks /\ UNCHANGED <<treeVars, b, job>>
  <1>1. PICK s : s = IF toks = <<>> THEN "" ELSE Head(toks)
    OBVIOUS
  <1>2. s \in {"intv", "off", "wrt"} /\ s \notin DOMAIN TypeOf
    BY <1>1, CommandsOK DEF CommandsOK
  <1>3. s \notin {"ch", "wg", "ds", "string"} \cup DOMAIN TypeOf => Continue("decode", toks)
    BY <1>1 DEF AddSubject
  <1> QED
    BY <1>2, <1>3 DEF AddSubject, Continue

LEMMA BehindTwo ==
  ASSUME NEW a \in Token, NEW N \in Token, NEW u \in Line
  PROVE  /\ Len(<<a>> \o (<<N>> \o u)) = Len(u) + 2 /\ (<<a>> \o (<<N>> \o u))[2] = N
         /\ From(<<a>> \o (<<N>> \o u), 3) = u /\ Head(<<a>> \o (<<N>> \o u)) = a
         /\ Len(<<a>>) = 1 /\ From(<<a>>, 2) = <<>> /\ Len(u) \in Nat
  <1>1. PICK s : s = <<a>> \o (<<N>> \o u)
    OBVIOUS
  <1>2. <<N>> \o u \in Line /\ s \in Line /\ Len(u) \in Nat
    BY <1>1 DEF Line
  <1>3. Len(s) = Len(u) + 2 /\ s[1] = a /\ s[2] = N /\ \A n \in 1 .. Len(u) : s[n + 2] = u[n]
    BY <1>1, <1>2 DEF Line
  <1>4. From(s, 3) \in Line /\ Len(From(s, 3)) = Len(u) /\ \A n \in 1 .. Len(u) : From(s, 3)[n] = s[n + 2]
    BY <1>2, <1>3 DEF Line, From
  <1>5. From(s, 3) = u
    BY <1>3, <1>4 DEF Line
  <1>6. Head(s) = a
    BY <1>2, <1>3 DEF Line
  <1>7. From(<<a>>, 2) = <<>>
    BY DEF From
  <1> QED
    BY <1>1, <1>2, <1>3, <1>5, <1>6, <1>7

\* intv and off take no path: the WriterGroup is the selected one.
LEMMA TakesInterval ==
  ASSUME Configure("intv"), NEW N \in Token, N # "all", NEW u \in Line, toks = <<"intv">> \o (<<N>> \o u),
         u = <<>> \/ Head(u) \notin {"ch", "port"}
  PROVE  /\ loop' = "confWg" /\ toks' = u /\ UNCHANGED <<treeVars, b, job>>
         /\ arg'.op = "intv" /\ arg'.n = KeyOf(N)
  <1>1. "intv" \in Token
    BY PrintedOK DEF PrintedOK, PrintedWords, Token
  <1>2. /\ Len(toks) = Len(u) + 2 /\ toks[2] = N /\ From(toks, 3) = u /\ Len(u) \in Nat
    BY <1>1, BehindTwo
  <1>3. /\ ~ (Len(toks) > 1 /\ toks[2] = "all") /\ ~ Len(toks) < 2
    BY <1>2
  <1>4. PICK target : target = IF u = <<>> THEN "" ELSE Head(u)
    OBVIOUS
  <1>5. target \notin {"ch", "port"}
    BY <1>4
  <1>6. /\ arg' = [NoArg EXCEPT !.op = "intv", !.n = KeyOf(N)] /\ UNCHANGED <<treeVars, b, job>>
        /\ target \notin {"ch", "port"} => Continue("confWg", u)
    BY <1>2, <1>3, <1>4 DEF Configure
  <1> QED
    BY <1>5, <1>6 DEF Continue, NoArg

LEMMA TakesOff ==
  ASSUME Configure("off"), toks = <<"off">>
  PROVE  loop' = "confWg" /\ toks' = <<>> /\ UNCHANGED <<treeVars, b, job>> /\ arg'.op = "off"
  <1>1. "off" \in Token /\ <<>> \in Line
    BY PrintedOK DEF PrintedOK, PrintedWords, Token, Line
  <1>2. Len(toks) = 1 /\ From(toks, 2) = <<>>
    BY <1>1, BehindTwo
  <1>3. ~ (Len(toks) > 1 /\ toks[2] = "all")
    BY <1>2
  <1>4. PICK ts, target : ts = From(toks, 2) /\ target = IF ts = <<>> THEN "" ELSE Head(ts)
    OBVIOUS
  <1>5. target \notin {"ch", "port"} /\ ts = <<>>
    BY <1>2, <1>4
  <1>6. /\ arg'.op = "off" /\ UNCHANGED <<treeVars, b, job>>
        /\ target \notin {"ch", "port"} => Continue("confWg", ts)
    BY <1>3, <1>4 DEF Configure, NoArg
  <1> QED
    BY <1>5, <1>6 DEF Continue

\* What they do to it.
LEMMA ConfiguresSelected ==
  ASSUME CInv, ConfigureGroup, ~ AtKey(toks), NEW x, x = <<b[1], b[2]>>, x \in DOMAIN wgs,
         b[1] # 0, b[2] # 0, b[1] \in Key, b[2] \in Key
  PROVE  /\ loop' = "decode" /\ toks' = toks /\ UNCHANGED <<connKeyInc, conns, dts, fields, b, job>>
         /\ arg.op = "intv" => wgs' = [y \in DOMAIN wgs |-> IF y \in {x} THEN [wgs[y] EXCEPT !.interval = arg.n] ELSE wgs[y]]
         /\ arg.op = "off" => wgs' = [y \in DOMAIN wgs |-> IF y \in {x} THEN [wgs[y] EXCEPT !.enabled = FALSE] ELSE wgs[y]]
  <1>1. PICK r : r = Resolve(toks, 2)
    OBVIOUS
  <1>2. 2 \in 1 .. 4 /\ \A n \in 1 .. 2 : b[n] # 0
    OBVIOUS
  <1>3. r.full = FALSE /\ r.missing = FALSE /\ r.rest = toks /\ r.path = [n \in 1 .. 2 |-> b[n]]
    BY <1>1, <1>2, TakesSelection
  <1>4. r.path = x
    BY <1>3, PathsAre
  <1>5. r.path \in [1 .. 2 -> Key]
    BY <1>3
  <1>6. NodeExists(r.path)
    BY <1>4, <1>5, NodeExistsAt
  <1>7. ActOnce("confWg", r, TRUE) /\ Apply(arg, {x}) /\ UNCHANGED <<b, job>>
    BY <1>1, <1>3, <1>4, <1>6 DEF ConfigureGroup
  <1>8. Continue("decode", toks)
    BY <1>3, <1>7 DEF ActOnce
  <1> QED
    BY <1>7, <1>8 DEF Apply, UpdateInterval, SetEnabled, Continue

NodesAre(t, c, i, j, k, l) ==
  /\ i # 0 => /\ c + i \in DOMAIN conns /\ conns[c + i].wgKeyInc = j /\ b[1] = c + i /\ c + i # 0
              /\ c + i \in Key
  /\ j # 0 => /\ i # 0 /\ <<c + i, j>> \in DOMAIN wgs /\ wgs[<<c + i, j>>].dtsKeyInc = k /\ b[2] = j
              /\ j \in Key
  /\ k # 0 => /\ j # 0 /\ <<c + i, j, k>> \in DOMAIN dts /\ b[3] = k /\ k \in Key
              /\ dts[<<c + i, j, k>>].isString = Ds(t, i, j, k).isString
              /\ dts[<<c + i, j, k>>].varKeyInc = l

LEMMA NodesPlaced ==
  ASSUME NEW t \in Seq(ChannelShapes), NEW c \in Nat, NEW i, NEW j, NEW k, NEW l, NEW raw,
         IInv, Placed(t, c, i, j, k, l, raw)
  PROVE  NodesAre(t, c, i, j, k, l)
  BY PlacedNodes DEF NodesAre

\* What a setting leaves: the WriterGroup that is set, and what is still due.
LEMMA SettingOf ==
  ASSUME FInv, NEW t \in Seq(ChannelShapes), NEW g \in Behind, NEW c \in Nat, NEW i, NEW j, NEW k, NEW l, NEW ls,
         Setting(t, g, c, i, j, k, l, ls), NEW x, x = <<c + i, j>>, NEW w, w = Wg(t, i, j)
  PROVE  /\ Placed(t, c, i, j, 0, 0, "group") /\ j # 0 /\ Sets(w, wgs[x]) /\ ls = LeftOver(t, g, i, j, 0, 0)
         /\ w \in GroupShapes /\ x \in DOMAIN wgs /\ x = <<b[1], b[2]>> /\ b[1] # 0 /\ b[2] # 0
         /\ b[1] \in Key /\ b[2] \in Key /\ IInv /\ ExportTypeOK /\ CInv
  <1>1. Placed(t, c, i, j, 0, 0, "group") /\ j # 0 /\ Sets(w, wgs[x]) /\ ls = LeftOver(t, g, i, j, 0, 0)
    BY DEF Setting
  <1>2. IInv /\ ExportTypeOK /\ CInv /\ InShape(t, i, j, 0, 0)
    BY <1>1 DEF FInv, CInv, Placed
  <1>3. /\ i # 0 => /\ c + i \in DOMAIN conns /\ b[1] = c + i /\ c + i # 0 /\ c + i \in Key
        /\ j # 0 => /\ i # 0 /\ <<c + i, j>> \in DOMAIN wgs /\ b[2] = j /\ j \in Key
    <2>1. NodesAre(t, c, i, j, 0, 0)
      BY <1>1, <1>2, NodesPlaced
    <2> QED
      BY <2>1 DEF NodesAre
  <1>4. i \in 1 .. Len(t) /\ j \in 1 .. Wgs(t, i)
    BY <1>1, <1>2, Positions
  <1>5. w \in GroupShapes
    BY <1>4, ShapeParts
  <1> QED
    BY <1>1, <1>2, <1>3, <1>5

LEMMA SetGoes ==
  ASSUME FInv, InBounds, Step, Values,
         NEW t \in Seq(ChannelShapes), NEW g \in Behind, NEW c \in Nat, NEW i, NEW j, NEW k, NEW l, NEW ls,
         Setting(t, g, c, i, j, k, l, ls)
  PROVE  Onward(t, g, c, ls)
  <1>1. PICK x, w, v : x = <<c + i, j>> /\ w = Wg(t, i, j) /\ v = wgs[x]
    OBVIOUS
  <1>2. /\ Placed(t, c, i, j, 0, 0, "group") /\ j # 0 /\ Sets(w, v) /\ ls = LeftOver(t, g, i, j, 0, 0)
        /\ w \in GroupShapes /\ x \in DOMAIN wgs /\ x = <<b[1], b[2]>> /\ b[1] # 0 /\ b[2] # 0
        /\ b[1] \in Key /\ b[2] \in Key /\ IInv /\ ExportTypeOK /\ CInv
    BY <1>1, SettingOf
  <1>3. job = NoJob /\ loop # "wrt"
    BY <1>2 DEF Sets, Reads
  <1>4. ASSUME UNCHANGED <<treeVars, b>>, Sets(w, v)'
        PROVE  Onward(t, g, c, ls)
    <2>1. Placed(t, c, i, j, 0, 0, "group")' /\ \A o : Kept(o, c) => Kept(o, c)'
      BY <1>2, <1>3, <1>4, StaysPlaced
    <2>2. wgs' = wgs
      BY <1>4 DEF treeVars
    <2>3. Sets(Wg(t, i, j), wgs[<<c + i, j>>])'
      BY <1>1, <1>4, <2>2
    <2>4. Setting(t, g, c, i, j, k, l, ls)'
      BY <1>2, <2>1, <2>3 DEF Setting
    <2> QED
      BY <2>1, <2>4 DEF Onward, Loaded, Stage
  <1>5. PICK u : u = Off(w)
    OBVIOUS
  <1>6. u \in Line /\ ~ AtKey(u) /\ ~ AtKey(<<>>) /\ (u = <<>> \/ u = <<"off">>)
    BY <1>2, <1>5, SettingWords DEF Off, NoKey, AtKey
  <1>7. v \in [enabled : BOOLEAN, interval : Interval, dtsKeyInc : Key]
    BY <1>1, <1>2 DEF IInv, TreeTypeOK
  <1>8. CASE NeedsInterval(w, v)
    <2>1. PICK N \in Token : /\ N = Numeral[w.interval] /\ Intv(w) = <<"intv", N>>
                             /\ Intv(w) \o Off(w) = <<"intv">> \o (<<N>> \o Off(w))
      BY <1>2, <1>8, SettingWords DEF NeedsInterval
    <2>2. PICK s : s = Intv(w) \o Off(w)
      OBVIOUS
    <2>3. s = <<"intv">> \o (<<N>> \o u)
      BY <1>5, <2>1, <2>2
    <2>4. "intv" \in Token
      BY PrintedOK DEF PrintedOK, PrintedWords, Token
    <2>5. s # <<>> /\ Head(s) = "intv"
      <3>1. Len(s) = Len(u) + 2 /\ Head(s) = "intv" /\ Len(u) \in Nat
        BY <1>6, <2>3, <2>4, BehindTwo
      <3> QED
        BY <3>1
    <2>6. w.interval \in PrintedNumbers /\ w.interval \in Key
      <3>1. w.interval \in Interval
        BY <1>2 DEF GroupShapes
      <3>2. Interval \subseteq Key
        BY CommandsOK DEF CommandsOK
      <3> QED
        BY <3>1, <3>2 DEF PrintedNumbers
    <2>7. N # "all" /\ KeyOf(N) = w.interval
      BY <2>1, <2>6, NumeralIs
    <2>8. CASE Reads("add", s)
      <3>1. AddSubject /\ toks = s
        BY <1>3, <2>8, StepOfLoop DEF Reads
      <3>2. loop' = "decode" /\ toks' = s /\ UNCHANGED <<treeVars, b, job>>
        BY <2>5, <3>1, OtherWord
      <3>3. Sets(w, v)'
        BY <1>3, <1>8, <2>2, <3>2 DEF Sets, Reads, NeedsInterval
      <3> QED
        BY <1>4, <3>2, <3>3
    <2>9. CASE Reads("decode", s)
      <3>1. Configure("intv") /\ toks = s
        BY <1>3, <2>5, <2>9, StepOfDecode DEF Reads
      <3>2. u = <<>> \/ Head(u) \notin {"ch", "port"}
        BY <1>6
      <3>3. loop' = "confWg" /\ toks' = u /\ UNCHANGED <<treeVars, b, job>> /\ arg'.op = "intv" /\ arg'.n = KeyOf(N)
        <4>1. toks = <<"intv">> \o (<<N>> \o u)
          BY <2>3, <3>1
        <4>2. Configure("intv") /\ N # "all" /\ u \in Line
          BY <1>6, <2>7, <3>1
        <4> QED
          BY <3>2, <4>1, <4>2, TakesInterval
      <3>4. Sets(w, v)'
        BY <1>3, <1>5, <1>8, <2>7, <3>3 DEF Sets, Reads, NeedsInterval
      <3> QED
        BY <1>4, <3>3, <3>4
    <2>10. CASE Reads("confWg", u) /\ arg.op = "intv" /\ arg.n = w.interval
      <3>1. ConfigureGroup /\ toks = u /\ ~ AtKey(toks)
        <4>1. toks = u /\ loop = "confWg"
          BY <2>10 DEF Reads
        <4>2. ConfigureGroup
          BY <1>3, <4>1, StepOfLoop
        <4> QED
          BY <1>6, <4>1, <4>2
      <3>2. /\ loop' = "decode" /\ toks' = u /\ UNCHANGED <<connKeyInc, conns, dts, fields, b, job>>
            /\ wgs' = [y \in DOMAIN wgs |-> IF y \in {x} THEN [wgs[y] EXCEPT !.interval = arg.n] ELSE wgs[y]]
        BY <1>2, <2>10, <3>1, ConfiguresSelected
      <3>3. PICK z : z = [wgs[x] EXCEPT !.interval = arg.n]
        OBVIOUS
      <3>4. /\ wgs' = [y \in DOMAIN wgs |-> IF y \in {x} THEN z ELSE wgs[y]] /\ z.dtsKeyInc = wgs[x].dtsKeyInc
            /\ z.interval = w.interval /\ z.enabled = TRUE
        BY <1>1, <1>7, <1>8, <2>10, <3>2, <3>3 DEF NeedsInterval
      <3>5. /\ Placed(t, c, i, j, 0, 0, "group")' /\ wgs'[x] = z
            /\ \A o : Kept(o, c) => Kept(o, c)'
        <4>1. UNCHANGED <<connKeyInc, conns, dts, fields, b>>
          BY <3>2
        <4>2. wgs' = [y \in DOMAIN wgs |-> IF y \in {x} THEN z ELSE wgs[y]] /\ z.dtsKeyInc = wgs[x].dtsKeyInc
          BY <3>4
        <4>3. wgs'[x] = z
          BY <1>2, <4>2
        <4>4. x = <<c + i, j>>
          BY <1>1
        <4>5. Placed(t, c, i, j, 0, 0, "group") /\ j # 0 /\ IInv /\ ExportTypeOK
          BY <1>2
        <4>6. Placed(t, c, i, j, 0, 0, "group")' /\ \A o : Kept(o, c) => Kept(o, c)'
          BY <1>3, <4>1, <4>2, <4>4, <4>5, SetsGroup
        <4> QED
          BY <4>3, <4>6
      <3>6. Reads("decode", Off(w))'
        BY <1>3, <1>5, <3>2 DEF Reads
      <3>9. wgs'[x] = z
        BY <3>5
      <3>7. z = wgs'[<<c + i, j>>]
        BY <1>1, <3>9
      <3>8. Loaded(t, g, c, ls)'
        BY <1>1, <1>2, <3>4, <3>5, <3>6, <3>7, GroupStage
      <3> QED
        BY <3>5, <3>8 DEF Onward
    <2> QED
      BY <1>2, <1>5, <1>8, <2>2, <2>8, <2>9, <2>10 DEF Sets, NeedsInterval, NeedsOff
  <1>9. CASE NeedsOff(w, v)
    <2>1. <<"off">> # <<>> /\ Head(<<"off">>) = "off"
      OBVIOUS
    <2>2. CASE Reads("add", <<"off">>)
      <3>1. AddSubject /\ toks = <<"off">>
        BY <1>3, <2>2, StepOfLoop DEF Reads
      <3>2. loop' = "decode" /\ toks' = <<"off">> /\ UNCHANGED <<treeVars, b, job>>
        BY <2>1, <3>1, OtherWord
      <3>3. Sets(w, v)'
        BY <1>3, <1>9, <3>2 DEF Sets, Reads, NeedsOff
      <3> QED
        BY <1>4, <3>2, <3>3
    <2>3. CASE Reads("decode", <<"off">>)
      <3>1. Configure("off") /\ toks = <<"off">>
        BY <1>3, <2>1, <2>3, StepOfDecode DEF Reads
      <3>2. loop' = "confWg" /\ toks' = <<>> /\ UNCHANGED <<treeVars, b, job>> /\ arg'.op = "off"
        BY <3>1, TakesOff
      <3>3. Sets(w, v)'
        BY <1>3, <1>9, <3>2 DEF Sets, Reads, NeedsOff
      <3> QED
        BY <1>4, <3>2, <3>3
    <2>4. CASE Reads("confWg", <<>>) /\ arg.op = "off"
      <3>1. ConfigureGroup /\ toks = <<>> /\ ~ AtKey(toks)
        <4>1. toks = <<>> /\ loop = "confWg"
          BY <2>4 DEF Reads
        <4>2. ConfigureGroup
          BY <1>3, <4>1, StepOfLoop
        <4> QED
          BY <1>6, <4>1, <4>2
      <3>2. /\ loop' = "decode" /\ toks' = <<>> /\ UNCHANGED <<connKeyInc, conns, dts, fields, b, job>>
            /\ wgs' = [y \in DOMAIN wgs |-> IF y \in {x} THEN [wgs[y] EXCEPT !.enabled = FALSE] ELSE wgs[y]]
        BY <1>2, <2>4, <3>1, ConfiguresSelected
      <3>3. PICK z : z = [wgs[x] EXCEPT !.enabled = FALSE]
        OBVIOUS
      <3>4. /\ wgs' = [y \in DOMAIN wgs |-> IF y \in {x} THEN z ELSE wgs[y]] /\ z.dtsKeyInc = wgs[x].dtsKeyInc
            /\ z.interval = w.interval /\ z.enabled = w.enabled
        BY <1>1, <1>7, <1>9, <3>2, <3>3 DEF NeedsOff
      <3>5. /\ Placed(t, c, i, j, 0, 0, "group")' /\ wgs'[x] = z
            /\ \A o : Kept(o, c) => Kept(o, c)'
        <4>1. UNCHANGED <<connKeyInc, conns, dts, fields, b>>
          BY <3>2
        <4>2. wgs' = [y \in DOMAIN wgs |-> IF y \in {x} THEN z ELSE wgs[y]] /\ z.dtsKeyInc = wgs[x].dtsKeyInc
          BY <3>4
        <4>3. wgs'[x] = z
          BY <1>2, <4>2
        <4>4. x = <<c + i, j>>
          BY <1>1
        <4>5. Placed(t, c, i, j, 0, 0, "group") /\ j # 0 /\ IInv /\ ExportTypeOK
          BY <1>2
        <4>6. Placed(t, c, i, j, 0, 0, "group")' /\ \A o : Kept(o, c) => Kept(o, c)'
          BY <1>3, <4>1, <4>2, <4>4, <4>5, SetsGroup
        <4> QED
          BY <4>3, <4>6
      <3>6. Placed(t, c, i, j, 0, 0, "none")'
        BY <1>1, <1>2, <3>4, <3>5, GroupGetsSet
      <3>7. AtRest(t, g, c, i, j, 0, 0, ls)'
        BY <1>2, <1>3, <3>2, <3>6 DEF AtRest, Complete, Reads
      <3> QED
        BY <3>5, <3>7 DEF Onward, Loaded, Stage
    <2> QED
      BY <1>2, <1>9, <2>2, <2>3, <2>4 DEF Sets, NeedsInterval, NeedsOff
  <1> QED
    BY <1>2, <1>8, <1>9 DEF Sets

\* The number that was printed for a Field writes its value again.
LEMMA WritesAgain ==
  ASSUME NEW q, NEW f \in FieldShapes, fields[q] = f.type, f.type # "date", Legible(f),
         NEW g \in Behind, NEW N, N = Numeral[Shown(f.type, f.value, g)]
  PROVE  WriteValue(q, N) = f.value
  <1>1. PICK y, v, n : y = f.type /\ v = f.value /\ n = Shown(y, v, g)
    OBVIOUS
  <1>2. y \in DataType /\ v \in Int /\ InType(y, v) /\ y # "date" /\ fields[q] = y /\ N = Numeral[n]
    BY <1>1 DEF FieldShapes
  <1>3. (y \in IntType /\ y \notin {"bool", "date"}) \/ y = "bool"
    BY <1>2, FilesOK DEF FilesOK
  <1>4. CASE y \in IntType /\ y \notin {"bool", "date"}
    <2>1. v \in Value(y)
      BY <1>2, <1>4 DEF InType
    <2>2. n \in PrintedNumbers
      BY <1>1, <1>2, <1>4, <2>1 DEF PrintedNumbers
    <2>3. Number[N] = n
      BY <1>2, <2>2, NumeralIs
    <2>4. y = "uint64" => v < Modulus["int"] \div 2
      BY <1>1 DEF Legible
    <2>5. g \in Value("byte")
      BY FilesOK DEF FilesOK
    <2>6. Written(y, Shown(y, v, g)) = v
      BY <1>4, <2>1, <2>4, <2>5, ReadsWhatIsShown
    <2>7. Written(y, Number[N]) = v
      BY <1>1, <2>3, <2>6
    <2>8. PICK m : m = Number[N]
      OBVIOUS
    <2>9. WriteValue(q, N) = Written(y, m)
      BY <1>2, <1>4, <2>8 DEF WriteValue
    <2> QED
      BY <1>1, <2>7, <2>8, <2>9
  <1>5. CASE y = "bool"
    <2>1. y \notin IntType /\ y \notin {"byte", "sbyte"}
      BY <1>5, FilesOK, IntTypes DEF FilesOK
    <2>2. v \in {0, 1} /\ n = v
      BY <1>1, <1>2, <1>5, <2>1 DEF InType, Shown
    <2>3. Numeral[0] = "0" /\ Numeral[1] = "1"
      BY CommandsOK DEF CommandsOK
    <2>4. BoolOf(N) = v
      BY <1>2, <2>2, <2>3 DEF BoolOf
    <2>5. WriteValue(q, N) = BoolOf(N)
      BY <1>2, <1>5 DEF WriteValue
    <2> QED
      BY <1>1, <2>4, <2>5
  <1> QED
    BY <1>3, <1>4, <1>5

\* wrt writes the selected Field.
LEMMA WritesSelected ==
  ASSUME CInv, WriteVariable, Values, job = NoJob, NEW N, toks = <<N>>, NEW q, q = b, b \in [1 .. 4 -> Key],
         q \in DOMAIN fields, \A n \in 1 .. 4 : b[n] # 0, Tail(toks) = <<>>
  PROVE  /\ loop' = "decode" /\ toks' = <<>> /\ UNCHANGED <<treeVars, b, job>>
         /\ val' = [val EXCEPT ![q] = WriteValue(q, N)]
  <1>1. PICK ts, r : ts = Tail(toks) /\ r = Resolve(ts, 4)
    OBVIOUS
  <1>2. ts = <<>> /\ toks # <<>> /\ Head(toks) = N /\ ts \in Seq(Token) /\ ~ AtKey(ts) /\ 4 \in 1 .. 4
    BY <1>1 DEF AtKey
  <1>3. IsSelection(r, ts, 4)
    BY <1>1, <1>2, NoneGiven
  <1>4. r.full \in BOOLEAN /\ r.missing \in BOOLEAN
    BY <1>1 DEF Resolve
  <1>5. r.full = FALSE /\ r.missing = FALSE /\ r.rest = <<>> /\ r.path = [n \in 1 .. 4 |-> b[n]]
    BY <1>2, <1>3, <1>4 DEF IsSelection
  <1>6. r.path = q
    BY <1>5
  <1>7. NodeExists(r.path)
    BY <1>6, NodeExistsAt
  <1>8. ActOnce("wrt", r, TRUE) /\ UNCHANGED <<treeVars, b, job>> /\ loop = "wrt"
    BY <1>1, <1>2, <1>5, <1>7 DEF WriteVariable, At
  <1>9. Continue("decode", <<>>)
    BY <1>5, <1>8 DEF ActOnce
  <1>10. Target = {q}
    BY <1>1, <1>2, <1>5, <1>6, <1>7, <1>8 DEF Target, At
  <1>11. val' = [val EXCEPT ![q] = WriteValue(q, N)]
    BY <1>2, <1>10 DEF Values
  <1> QED
    BY <1>8, <1>9, <1>11 DEF Continue

LEMMA WriteGoes ==
  ASSUME FInv, Step, Values,
         NEW t \in Seq(ChannelShapes), NEW g \in Behind, NEW c \in Nat, NEW i, NEW j, NEW k, NEW l, NEW ls,
         Writing(t, g, c, i, j, k, l, ls)
  PROVE  Onward(t, g, c, ls)
  <1>1. PICK q, f : q = <<c + i, j, k, l>> /\ f = Fd(t, i, j, k, l)
    OBVIOUS
  <1>2. /\ Placed(t, c, i, j, k, l, "field") /\ l # 0 /\ ~ Ds(t, i, j, k).isString /\ f.type # "date" /\ b = q
        /\ Writes(f, g) /\ ls = LeftOver(t, g, i, j, k, l) /\ InShape(t, i, j, k, l) /\ job = NoJob
        /\ IInv /\ CInv /\ ExportTypeOK
    BY <1>1 DEF Writing, Writes, Reads, Placed, FInv, CInv
  <1>3. i # 0 /\ j # 0 /\ k # 0
    BY <1>2, Positions
  <1>4. /\ i \in 1 .. Len(t) /\ j \in 1 .. Wgs(t, i) /\ k \in 1 .. Dss(t, i, j) /\ l \in 1 .. Fds(t, i, j, k)
        /\ i \in Nat /\ j \in Nat /\ k \in Nat /\ l \in Nat
    BY <1>2, <1>3, Positions
  <1>5. f \in FieldShapes
    BY <1>1, <1>2, <1>4, ShapeParts
  <1>6. q \in DOMAIN fields /\ fields[q] = f.type
    <2>1. HasField(t, i, j, k, l, i, j, k, l)
      BY <1>2, LastNode
    <2>2. FieldsBuilt(fields, val, t, c, i, j, k, l, "field")
      BY <1>2 DEF Placed, Built
    <2>3. FieldBuilt(fields, val, t, c, i, j, k, l, "field", i, j, k, l)
      BY <1>2, <2>1, <2>2 DEF FieldsBuilt
    <2> QED
      BY <1>1, <2>3 DEF FieldBuilt
  <1>7. PICK N \in Token : /\ N = Numeral[Shown(f.type, f.value, g)] /\ Wrt(f, g) = <<"wrt">> \o <<N>>
                           /\ Tail(Wrt(f, g)) = <<N>> /\ <<N>> \in Line
    BY <1>2, <1>5, WrtWords
  <1>8. PICK s : s = Wrt(f, g)
    OBVIOUS
  <1>9. s # <<>> /\ Head(s) = "wrt" /\ Tail(s) = <<N>>
    BY <1>7, <1>8
  <1>10. ASSUME UNCHANGED <<treeVars, b>>, Writes(f, g)', loop # "wrt"
         PROVE  Onward(t, g, c, ls)
    <2>1. Placed(t, c, i, j, k, l, "field")' /\ \A o : Kept(o, c) => Kept(o, c)'
      BY <1>2, <1>10, StaysPlaced
    <2>2. b' = q
      BY <1>2, <1>10
    <2>3. Writing(t, g, c, i, j, k, l, ls)'
      BY <1>1, <1>2, <1>10, <2>1, <2>2 DEF Writing
    <2> QED
      BY <2>1, <2>3 DEF Onward, Loaded, Stage
  <1>11. CASE Reads("add", s)
    <2>1. toks = s /\ loop = "add"
      BY <1>11 DEF Reads
    <2>2. AddSubject
      BY <1>2, <2>1, StepOfLoop
    <2>3. loop' = "decode" /\ toks' = s /\ UNCHANGED <<treeVars, b, job>>
      BY <1>9, <2>1, <2>2, OtherWord
    <2>4. Writes(f, g)'
      BY <1>2, <1>8, <2>3 DEF Writes, Reads
    <2> QED
      BY <1>10, <2>1, <2>3, <2>4
  <1>12. CASE Reads("decode", s)
    <2>1. toks = s /\ loop = "decode"
      BY <1>12 DEF Reads
    <2>2. Subjects("wrt")
      BY <1>2, <1>9, <2>1, StepOfDecode
    <2>3. loop' = "wrt" /\ toks' = Tail(s) /\ UNCHANGED <<treeVars, b, job>>
      BY <2>1, <2>2 DEF Subjects, Continue
    <2>4. Writes(f, g)'
      BY <1>2, <1>8, <2>3 DEF Writes, Reads
    <2> QED
      BY <1>10, <2>1, <2>3, <2>4
  <1>13. CASE Reads("wrt", Tail(s))
    <2>1. toks = <<N>> /\ loop = "wrt" /\ Tail(toks) = <<>>
      BY <1>9, <1>13 DEF Reads
    <2>2. WriteVariable
      BY <1>2, <2>1, StepOfLoop
    <2>3. NodesAre(t, c, i, j, k, l)
      BY <1>2, NodesPlaced
    <2>4. c + i \in Key /\ c + i # 0 /\ j \in Key /\ k \in Key
      BY <1>3, <2>3 DEF NodesAre
    <2>5. b \in [1 .. 4 -> Key]
      BY <1>2 DEF CInv, Decoding
    <2>6. \A n \in 1 .. 4 : b[n] # 0
      BY <1>1, <1>2, <1>3, <2>4
    <2>7. /\ loop' = "decode" /\ toks' = <<>> /\ UNCHANGED <<treeVars, b, job>>
          /\ val' = [val EXCEPT ![q] = WriteValue(q, N)]
      BY <1>2, <1>6, <2>1, <2>2, <2>5, <2>6, WritesSelected
    <2>8. PICK v : v = WriteValue(q, N)
      OBVIOUS
    <2>9. Legible(f) => v = f.value
      BY <1>2, <1>5, <1>6, <1>7, <2>8, WritesAgain
    <2>10. val' = [val EXCEPT ![q] = v]
      BY <2>7, <2>8
    <2>11. Placed(t, c, i, j, k, l, "none")' /\ \A o : Kept(o, c) => Kept(o, c)'
      <3>1. Legible(Fd(t, i, j, k, l)) => v = Fd(t, i, j, k, l).value
        BY <1>1, <2>9
      <3>2. UNCHANGED <<treeVars, b>>
        BY <2>7
      <3>3. q = <<c + i, j, k, l>> /\ val' = [val EXCEPT ![q] = v]
        BY <1>1, <2>10
      <3> QED
        BY <1>2, <3>1, <3>2, <3>3, WritesField
    <2>12. AtRest(t, g, c, i, j, k, l, ls)'
      BY <1>2, <2>7, <2>11 DEF AtRest, Complete, Reads
    <2> QED
      BY <2>11, <2>12 DEF Onward, Loaded, Stage
  <1> QED
    BY <1>2, <1>8, <1>11, <1>12, <1>13 DEF Writes

-----------------------------------------------------------------------------
(* A load goes on with every step of the interpreter, and is decoding only  *)
(* what it has printed.                                                     *)
LEMMA StepGoes ==
  ASSUME NEW t \in Seq(ChannelShapes), NEW g \in Behind, NEW c \in Nat, NEW ls,
         FInv, InBounds, Step, Values, Loaded(t, g, c, ls), loop = "decode" => toks # <<>>
  PROVE  Onward(t, g, c, ls)
  <1>1. PICK i, j, k, l : Stage(t, g, c, i, j, k, l, ls)
    BY DEF Loaded
  <1>2. CASE AtRest(t, g, c, i, j, k, l, ls)
    <2>1. loop # "decode"
      BY <1>2 DEF AtRest, Reads
    <2> QED
      BY <1>2, <2>1, RestGoes
  <1>3. CASE Starting(t, g, c, i, j, k, l, ls)
    BY <1>3, StartGoes
  <1>4. CASE Turning(t, g, c, i, j, k, l, ls)
    BY <1>4, TurnGoes
  <1>5. CASE Adding(t, g, c, i, j, k, l, ls)
    BY <1>5, AddGoes
  <1>6. CASE TextWaits(t, g, c, i, j, k, l, ls)
    BY <1>6, TextGoes
  <1>7. CASE Setting(t, g, c, i, j, k, l, ls)
    BY <1>7, SetGoes
  <1>8. CASE Writing(t, g, c, i, j, k, l, ls)
    BY <1>8, WriteGoes
  <1> QED
    BY <1>1, <1>2, <1>3, <1>4, <1>5, <1>6, <1>7, <1>8 DEF Stage

Decodes == toks # <<>> /\ Head(toks) \in {"add", "intv", "off", "wrt"}

LEMMA DecodesPrinted ==
  ASSUME NEW t \in Seq(ChannelShapes), NEW g \in Behind, NEW c \in Nat, NEW ls, FInv, Loaded(t, g, c, ls)
  PROVE  /\ loop \notin {"idle", "stopped"}
         /\ loop = "decode" /\ job = NoJob => Decodes \/ \E i, j, k, l : AtRest(t, g, c, i, j, k, l, ls) /\ toks = <<>>
  <1>1. PICK i, j, k, l : Stage(t, g, c, i, j, k, l, ls)
    BY DEF Loaded
  <1>2. CASE AtRest(t, g, c, i, j, k, l, ls)
    BY <1>2 DEF AtRest, Reads
  <1>3. CASE Starting(t, g, c, i, j, k, l, ls)
    <2>1. PICK word, rest : /\ NextWords(t, g, i, j, k, l, word, rest, ls)
                            /\ Reads("decode", AddLine(word, rest)) \/ Reads("add", <<word>> \o rest)
      BY <1>3 DEF Starting
    <2>2. InShape(t, i, j, k, l)
      BY <1>3 DEF Starting, Placed
    <2>3. word \in PrintedWords /\ rest \in Line
      BY <2>1, <2>2, LineIsNext
    <2>4. AddLine(word, rest) # <<>> /\ Head(AddLine(word, rest)) = "add"
      BY <2>3, AddLineIs
    <2> QED
      BY <2>1, <2>4 DEF Reads, Decodes
  <1>4. CASE Turning(t, g, c, i, j, k, l, ls)
    BY <1>4 DEF Turning, Turns, Reads
  <1>5. CASE Adding(t, g, c, i, j, k, l, ls)
    BY <1>5 DEF Adding, IsDue, Adds
  <1>6. CASE TextWaits(t, g, c, i, j, k, l, ls)
    BY <1>6 DEF TextWaits, Adds
  <1>7. CASE Setting(t, g, c, i, j, k, l, ls)
    <2>1. PICK x, w : x = <<c + i, j>> /\ w = Wg(t, i, j)
      OBVIOUS
    <2>2. w \in GroupShapes /\ Sets(w, wgs[x])
      BY <1>7, <2>1, SettingOf
    <2>3. CASE NeedsInterval(w, wgs[x]) /\ (Reads("add", Intv(w) \o Off(w)) \/ Reads("decode", Intv(w) \o Off(w)))
      <3>1. PICK N \in Token : Intv(w) \o Off(w) = <<"intv">> \o (<<N>> \o Off(w))
        BY <2>2, <2>3, SettingWords DEF NeedsInterval
      <3>2. Off(w) \in Line /\ "intv" \in Token
        BY <2>2, SettingWords, PrintedOK DEF PrintedOK, PrintedWords, Token
      <3>3. PICK s : s = Intv(w) \o Off(w)
        OBVIOUS
      <3>4. Len(s) = Len(Off(w)) + 2 /\ Head(s) = "intv" /\ Len(Off(w)) \in Nat
        BY <3>1, <3>2, <3>3, BehindTwo
      <3>5. s # <<>>
        BY <3>4
      <3> QED
        BY <2>3, <3>3, <3>4, <3>5 DEF Reads, Decodes
    <2>4. CASE NeedsOff(w, wgs[x]) /\ (Reads("add", <<"off">>) \/ Reads("decode", <<"off">>))
      BY <2>4 DEF Reads, Decodes
    <2>5. CASE loop = "confWg"
      BY <2>5
    <2> QED
      BY <2>2, <2>3, <2>4, <2>5 DEF Sets, Reads
  <1>8. CASE Writing(t, g, c, i, j, k, l, ls)
    <2>1. PICK f : f = Fd(t, i, j, k, l)
      OBVIOUS
    <2>2. Writes(f, g) /\ f.type # "date" /\ InShape(t, i, j, k, l) /\ l # 0 /\ ~ Ds(t, i, j, k).isString
      BY <1>8, <2>1 DEF Writing, Placed
    <2>3. k # 0 /\ l \in 1 .. Fds(t, i, j, k)
      BY <2>2, Positions
    <2>4. j # 0 /\ k \in 1 .. Dss(t, i, j)
      BY <2>2, <2>3, Positions
    <2>5. i # 0 /\ i \in 1 .. Len(t) /\ j \in 1 .. Wgs(t, i)
      BY <2>2, <2>4, Positions
    <2>6. f \in FieldShapes
      BY <2>1, <2>2, <2>3, <2>4, <2>5, ShapeParts
    <2>7. PICK N \in Token : Wrt(f, g) = <<"wrt">> \o <<N>>
      BY <2>2, <2>6, WrtWords
    <2>8. Wrt(f, g) # <<>> /\ Head(Wrt(f, g)) = "wrt"
      BY <2>7
    <2> QED
      BY <2>2, <2>8 DEF Writes, Reads, Decodes
  <1> QED
    BY <1>1, <1>2, <1>3, <1>4, <1>5, <1>6, <1>7, <1>8 DEF Stage

-----------------------------------------------------------------------------
(* The invariant: an exact exported file is what was printed for shape, and *)
(* while one is loaded by itself the load is under way above what was there.*)
Loading == Len(open) = 1 /\ Head(open).kind = "printed"
LoadGoes == \E g \in Behind, c \in Nat : Kept(Head(open), c) /\ Loaded(shape, g, c, Head(open).lines)
LastOpen(s) == s # <<>> => s[Len(s)].kind # "printed"
Printed == exact => Exported \in DOMAIN file /\ \E g \in Behind : file[Exported] = PrintToFile(shape, g)
LInv ==
  /\ FInv /\ shape \in Seq(ChannelShapes) /\ Printed
  /\ Loading \/ LastOpen(open)
  /\ Loading => LoadGoes

LEMMA LInvInit == ExportInit => LInv
  <1> SUFFICES ASSUME ExportInit
               PROVE  LInv
    OBVIOUS
  <1>1. open = <<>> /\ shape = <<>> /\ exact = FALSE
    BY DEF ExportInit
  <1>2. FInv
    BY FInvInit
  <1>3. ~ Loading /\ LastOpen(open)
    BY <1>1 DEF Loading, LastOpen
  <1>4. Printed
    BY <1>1 DEF Printed
  <1>5. shape \in Seq(ChannelShapes)
    BY <1>1, EmptySeq
  <1> QED
    BY <1>2, <1>3, <1>4, <1>5 DEF LInv

\* A load that goes on by itself reads nothing but what was printed.
LEMMA OnlyPrinted ==
  ASSUME LInv, Loading, loop = "decode", job = NoJob
  PROVE  toks # <<>> => Head(toks) \in {"add", "intv", "off", "wrt"}
  <1>1. PICK g \in Behind, c \in Nat : Loaded(shape, g, c, Head(open).lines)
    BY DEF LInv, LoadGoes
  <1>2. PICK t, ls : t = shape /\ ls = Head(open).lines
    OBVIOUS
  <1>3. t \in Seq(ChannelShapes) /\ FInv /\ Loaded(t, g, c, ls)
    BY <1>1, <1>2 DEF LInv
  <1>4. Decodes \/ \E i, j, k, l : AtRest(t, g, c, i, j, k, l, ls) /\ toks = <<>>
    BY <1>3, DecodesPrinted
  <1> QED
    BY <1>4 DEF Decodes

LEMMA NotIdle ==
  ASSUME LInv, Loading
  PROVE  loop \notin {"idle", "stopped"}
  <1>1. PICK g \in Behind, c \in Nat : Loaded(shape, g, c, Head(open).lines)
    BY DEF LInv, LoadGoes
  <1>2. PICK t, ls : t = shape /\ ls = Head(open).lines
    OBVIOUS
  <1>3. t \in Seq(ChannelShapes) /\ FInv /\ Loaded(t, g, c, ls)
    BY <1>1, <1>2 DEF LInv
  <1> QED
    BY <1>3, DecodesPrinted

\* The load goes on with a step of the interpreter.
LEMMA GoesWithStep ==
  ASSUME LInv, InBounds, Loading, Step, Values, At("decode") /\ toks = <<>> => open = <<>>, UNCHANGED <<open, shape>>
  PROVE  LoadGoes'
  <1>1. PICK g \in Behind, c \in Nat : Kept(Head(open), c) /\ Loaded(shape, g, c, Head(open).lines)
    BY DEF LInv, LoadGoes
  <1>2. PICK t, o, ls : t = shape /\ o = Head(open) /\ ls = o.lines
    OBVIOUS
  <1>3. t \in Seq(ChannelShapes) /\ FInv /\ Loaded(t, g, c, ls) /\ Kept(o, c)
    BY <1>1, <1>2 DEF LInv
  <1>4. open # <<>>
    BY DEF Loading
  <1>5. loop = "decode" => toks # <<>>
    <2>1. CASE job = NoJob
      BY <1>4, <2>1 DEF At
    <2>2. CASE job # NoJob
      BY <1>3, <2>2 DEF FInv, CInv, Waiting
    <2> QED
      BY <2>1, <2>2
  <1>6. Onward(t, g, c, ls)
    BY <1>3, <1>5, StepGoes
  <1>7. Kept(o, c)' /\ Loaded(t, g, c, ls)'
    BY <1>3, <1>6 DEF Onward
  <1>8. shape' = t /\ Head(open)' = o /\ (Head(open).lines)' = ls
    BY <1>2
  <1>9. Kept(Head(open), c)' /\ Loaded(shape, g, c, Head(open).lines)'
    BY <1>7, <1>8
  <1> QED
    BY <1>9 DEF LoadGoes

\* A load begins with nothing built.
LEMMA LoadStarts ==
  ASSUME LInv, UNCHANGED <<treeVars, b, val, shape, job>>, loop' = "decode", toks' = <<>>, job = NoJob,
         NEW x, open' = <<x>>, x.conns = conns, x.wgs = wgs, x.dts = dts, x.fields = fields, x.val = val,
         exact, x.lines = file[Exported]
  PROVE  LoadGoes'
  <1>1. PICK t, c, ls : t = shape /\ c = connKeyInc /\ ls = x.lines
    OBVIOUS
  <1>2. IInv /\ ExportTypeOK /\ t \in Seq(ChannelShapes)
    BY <1>1 DEF LInv, FInv, CInv
  <1>3. PICK g \in Behind : ls = PrintToFile(t, g)
    BY <1>1 DEF LInv, Printed
  <1>4. c \in Nat
    BY <1>1, <1>2, RootKeys
  <1>5. Kept(x, c)
    BY <1>1, <1>2, RootKeys DEF Kept, KeptChannels, KeptNodes, ExportTypeOK
  <1>6. Kept(x, c)'
    BY <1>5 DEF Kept, treeVars
  <1>7. LeftOver(t, g, 0, 0, 0, 0) = PrintToFile(t, g) /\ InShape(t, 0, 0, 0, 0)
    BY <1>2, AllIsLeft
  <1>8. \A a, e, d, f : ~ HasGroup(t, 0, 0, a, e) /\ ~ HasDataSet(t, 0, 0, 0, a, e, d)
                        /\ ~ HasField(t, 0, 0, 0, 0, a, e, d, f)
    BY DEF HasField, HasDataSet, HasGroup
  <1>9. connKeyInc' = c
    BY <1>1 DEF treeVars
  <1>10. Placed(t, c, 0, 0, 0, 0, "none")'
    <2>1. Chosen(b', c, 0, 0, 0)
      BY DEF Chosen
    <2>2. ChannelsBuilt(conns', connKeyInc', t, c, 0, 0)
      BY <1>4, <1>9 DEF ChannelsBuilt
    <2>3. /\ GroupsBuilt(wgs', t, c, 0, 0, 0, "none") /\ DataSetsBuilt(dts', t, c, 0, 0, 0, 0)
          /\ FieldsBuilt(fields', val', t, c, 0, 0, 0, 0, "none")
      BY <1>8 DEF GroupsBuilt, DataSetsBuilt, FieldsBuilt
    <2> QED
      BY <1>7, <2>1, <2>2, <2>3 DEF Placed, Built
  <1>11. AtRest(t, g, c, 0, 0, 0, 0, ls)'
    BY <1>3, <1>7, <1>10 DEF AtRest, Complete, Reads
  <1>12. Loaded(t, g, c, ls)'
    BY <1>11 DEF Loaded, Stage
  <1>13. shape' = t /\ Head(open)' = x /\ (Head(open).lines)' = ls
    BY <1>1, EmptySeq, LastIs
  <1>14. Kept(Head(open), c)' /\ Loaded(shape, g, c, Head(open).lines)'
    BY <1>6, <1>12, <1>13
  <1> QED
    BY <1>4, <1>14 DEF LoadGoes

\* The next line is read.
LEMMA LoadReads ==
  ASSUME LInv, Loading, NextLine
  PROVE  LoadGoes'
  <1>1. /\ At("decode") /\ toks = <<>> /\ UNCHANGED <<treeVars, b, arg, job, said, typed, val, lastBool, byHand, file, shape, exact>>
        /\ open # <<>> /\ Head(open).lines # <<>>
    BY DEF NextLine
  <1>2. PICK o, line : /\ o = Head(open) /\ line = Head(o.lines)
                       /\ open' = <<[o EXCEPT !.lines = Tail(@), !.decoded = @ \/ ~ Comment(line)]>> \o Tail(open)
                       /\ Continue("decode", IF Comment(line) THEN <<>> ELSE line)
    BY DEF NextLine
  <1>3. PICK g \in Behind, c \in Nat : Kept(Head(open), c) /\ Loaded(shape, g, c, Head(open).lines)
    BY DEF LInv, LoadGoes
  <1>4. PICK t, ls : t = shape /\ ls = o.lines
    OBVIOUS
  <1>5. t \in Seq(ChannelShapes) /\ FInv /\ Loaded(t, g, c, ls) /\ Kept(o, c) /\ ls # <<>>
    BY <1>1, <1>2, <1>3, <1>4 DEF LInv
  <1>6. PICK i, j, k, l : AtRest(t, g, c, i, j, k, l, ls)
    <2>1. Decodes \/ \E i, j, k, l : AtRest(t, g, c, i, j, k, l, ls) /\ toks = <<>>
      BY <1>1, <1>5, DecodesPrinted DEF At
    <2> QED
      BY <1>1, <2>1 DEF Decodes
  <1>7. loop = "decode" /\ loop' = "decode" /\ toks' = IF Comment(Head(ls)) THEN <<>> ELSE Head(ls)
    BY <1>1, <1>2, <1>4 DEF At, Continue
  <1>8. Onward(t, g, c, Tail(ls))
    BY <1>1, <1>5, <1>6, <1>7, LineGoes
  <1>9. PICK x : x = [o EXCEPT !.lines = Tail(@), !.decoded = @ \/ ~ Comment(line)]
    OBVIOUS
  <1>10. IsOpen(o)
    BY <1>1, <1>2, <1>5, Headed
  <1>11. /\ x.lines = Tail(ls) /\ x.conns = o.conns /\ x.wgs = o.wgs /\ x.dts = o.dts /\ x.fields = o.fields
         /\ x.val = o.val
    BY <1>4, <1>9, <1>10 DEF IsOpen
  <1>12. open' = <<x>>
    <2>1. PICK S : open \in Seq(S)
      BY <1>5 DEF FInv, Files
    <2>2. Tail(open) = <<>>
      BY <1>1, <2>1, LastIs DEF Loading
    <2>3. open' = <<x>> \o <<>>
      BY <1>2, <1>9, <2>2
    <2> QED
      BY <2>1, <2>3, LastIs
  <1>13. Kept(o, c)' /\ Loaded(t, g, c, Tail(ls))'
    BY <1>5, <1>8 DEF Onward
  <1>14. Kept(x, c)'
    BY <1>11, <1>13 DEF Kept
  <1>15. shape' = t /\ Head(open)' = x /\ (Head(open).lines)' = Tail(ls)
    BY <1>1, <1>4, <1>11, <1>12, EmptySeq, LastIs
  <1>16. Kept(Head(open), c)' /\ Loaded(shape, g, c, Head(open).lines)'
    BY <1>13, <1>14, <1>15
  <1> QED
    BY <1>16 DEF LoadGoes

IsLoading(s) == Len(s) = 1 /\ Head(s).kind = "printed"

\* Files under the exported one, if it is not loaded by itself.
LEMMA NotLoading ==
  ASSUME NEW S, NEW s \in Seq(S), LastOpen(s)
  PROVE  ~ IsLoading(s)
  <1>1. CASE s = <<>>
    BY <1>1 DEF IsLoading
  <1>2. CASE s # <<>>
    BY <1>2 DEF IsLoading, LastOpen
  <1> QED
    BY <1>1, <1>2

LEMMA StackPushed ==
  ASSUME NEW S, NEW s \in Seq(S), LastOpen(s), NEW x
  PROVE  LastOpen(<<x>> \o s) \/ (s = <<>> /\ x.kind = "printed" /\ <<x>> \o s = <<x>>)
  <1>1. CASE s = <<>>
    BY <1>1, LastIs DEF LastOpen
  <1>2. CASE s # <<>>
    BY <1>2, LastIs DEF LastOpen
  <1> QED
    BY <1>1, <1>2

LEMMA StackOn ==
  ASSUME NEW S, NEW s \in Seq(S), s # <<>>, LastOpen(s), NEW x, x.kind = Head(s).kind
  PROVE  LastOpen(<<x>> \o Tail(s)) /\ LastOpen(Tail(s))
  <1>1. s[Len(s)].kind # "printed"
    BY DEF LastOpen
  <1>2. LastOpen(Tail(s))
    BY <1>1, LastIs DEF LastOpen
  <1>3. LastOpen(<<x>> \o Tail(s))
    <2>1. CASE Tail(s) = <<>>
      <3>1. s[Len(s)] = Head(s)
        BY <2>1, LastIs
      <3>2. <<x>> \o Tail(s) = <<x>> /\ <<x>>[1] = x /\ Len(<<x>>) = 1
        BY <2>1, LastIs
      <3> QED
        BY <1>1, <3>1, <3>2 DEF LastOpen
    <2>2. CASE Tail(s) # <<>>
      <3>1. Len(<<x>> \o Tail(s)) = Len(s) /\ (<<x>> \o Tail(s))[Len(s)] = s[Len(s)]
        BY <2>2, LastIs
      <3> QED
        BY <1>1, <3>1 DEF LastOpen
    <2> QED
      BY <2>1, <2>2
  <1> QED
    BY <1>2, <1>3

LEMMA LoadingIs == (Loading <=> IsLoading(open)) /\ (Loading' <=> IsLoading(open'))
  BY DEF Loading, IsLoading

\* What LInv asks of a state behind a step that builds nothing of a load.
LEMMA NoLoad ==
  ASSUME FInv', (shape \in Seq(ChannelShapes))', Printed', LastOpen(open')
  PROVE  LInv'
  <1>1. PICK s : s = open'
    OBVIOUS
  <1>2. PICK S : s \in Seq(S)
    BY <1>1 DEF FInv, Files
  <1>3. ~ IsLoading(s)
    BY <1>1, <1>2, NotLoading
  <1> QED
    BY <1>1, <1>3, LoadingIs DEF LInv

LEMMA OpenSeq ==
  ASSUME FInv
  PROVE  \E S : open \in Seq(S)
  BY DEF FInv, Files

LEMMA KeepsExport ==
  ASSUME LInv, ExportFile, FInv'
  PROVE  LInv'
  <1>1. /\ At("decode") /\ UNCHANGED <<treeVars, b, arg, job, said, typed, val, lastBool, byHand, open>>
        /\ toks # <<>> /\ Head(toks) = "export"
    BY DEF ExportFile, Command
  <1>2. ~ Loading
    BY <1>1, OnlyPrinted DEF At
  <1>3. LastOpen(open')
    BY <1>1, <1>2 DEF LInv
  <1>4. (shape \in Seq(ChannelShapes))' /\ Printed'
    <2>1. CASE Len(toks) = 1
      BY <2>1 DEF LInv, Printed, ExportFile
    <2>2. CASE Len(toks) # 1
      <3>3. PICK t : t = TreeShape(DOMAIN conns)
        OBVIOUS
      <3>1. /\ t = TreeShape(DOMAIN conns) /\ shape' = t /\ exact' = (byHand = {})
            /\ \E g \in Behind : \E ls \in AsPrinted(PrintToFile(t, g)) :
                 file' = [n \in DOMAIN file \cup {Exported} |-> IF n = Exported THEN ls ELSE file[n]]
        BY <2>2, <3>3 DEF ExportFile
      <3>2. t \in Seq(ChannelShapes)
        BY <3>1, ShapeTyped DEF LInv, FInv, CInv
      <3>4. exact' => \E g \in Behind : file' = [n \in DOMAIN file \cup {Exported} |->
                                                  IF n = Exported THEN PrintToFile(t, g) ELSE file[n]]
        BY <3>1 DEF AsPrinted
      <3> QED
        BY <3>1, <3>2, <3>4 DEF Printed
    <2> QED
      BY <2>1, <2>2
  <1> QED
    BY <1>3, <1>4, NoLoad

LEMMA KeepsLoad ==
  ASSUME LInv, Load, FInv'
  PROVE  LInv'
  <1>1. /\ At("decode") /\ UNCHANGED <<treeVars, b, arg, job, said, typed, val, lastBool, byHand, file, shape, exact>>
        /\ toks # <<>> /\ Head(toks) = "load"
    BY DEF Load, Command
  <1>2. ~ Loading
    BY <1>1, OnlyPrinted DEF At
  <1>3. LastOpen(open)
    BY <1>2 DEF LInv
  <1>4. (shape \in Seq(ChannelShapes))' /\ Printed'
    BY <1>1 DEF LInv, Printed
  <1>5. PICK name : IF name \in DOMAIN file
         THEN /\ open' = <<[kind |-> IF name = Exported /\ exact THEN "printed" ELSE "other",
                            lines |-> file[name], rest |-> From(toks, 3), decoded |-> FALSE,
                            conns |-> conns, wgs |-> wgs, dts |-> dts, fields |-> fields, val |-> val]>> \o open
              /\ Continue("decode", <<>>)
         ELSE Continue("decode", From(toks, 4)) /\ UNCHANGED open
    BY DEF Load
  <1>6. CASE name \notin DOMAIN file
    BY <1>3, <1>4, <1>5, <1>6, NoLoad
  <1>7. CASE name \in DOMAIN file
    <2>1. PICK x : x = [kind |-> IF name = Exported /\ exact THEN "printed" ELSE "other",
                        lines |-> file[name], rest |-> From(toks, 3), decoded |-> FALSE,
                        conns |-> conns, wgs |-> wgs, dts |-> dts, fields |-> fields, val |-> val]
      OBVIOUS
    <2>2. /\ x.kind = "printed" => name = Exported /\ exact
          /\ x.lines = file[name] /\ x.conns = conns /\ x.wgs = wgs /\ x.dts = dts
          /\ x.fields = fields /\ x.val = val
      BY <2>1
    <2>3. open' = <<x>> \o open /\ loop' = "decode" /\ toks' = <<>>
      BY <1>5, <1>7, <2>1 DEF Continue
    <2>4. PICK S, s : s = open /\ s \in Seq(S)
      BY OpenSeq DEF LInv
    <2>5. CASE LastOpen(<<x>> \o s)
      BY <1>4, <2>3, <2>4, <2>5, NoLoad
    <2>6. CASE s = <<>> /\ x.kind = "printed" /\ <<x>> \o s = <<x>>
      <3>1. open' = <<x>>
        BY <2>3, <2>4, <2>6
      <3>2. UNCHANGED <<treeVars, b, val, shape, job>> /\ job = NoJob
        BY <1>1 DEF At
      <3>3. exact /\ x.lines = file[Exported]
        BY <2>2, <2>6
      <3>4. LoadGoes'
        BY <2>2, <2>3, <3>1, <3>2, <3>3, LoadStarts
      <3>5. IsLoading(<<x>>)
        BY <2>6, LastIs, EmptySeq DEF IsLoading
      <3> QED
        BY <1>4, <3>1, <3>4, <3>5, LoadingIs DEF LInv
    <2> QED
      BY <1>3, <2>4, <2>5, <2>6, StackPushed
  <1> QED
    BY <1>6, <1>7

LEMMA KeepsNextLine ==
  ASSUME LInv, NextLine, FInv'
  PROVE  LInv'
  <1>1. /\ At("decode") /\ UNCHANGED <<treeVars, b, arg, job, said, typed, val, lastBool, byHand, file, shape, exact>>
        /\ open # <<>>
    BY DEF NextLine
  <1>2. (shape \in Seq(ChannelShapes))' /\ Printed'
    BY <1>1 DEF LInv, Printed
  <1>3. PICK o, line : o = Head(open)
                       /\ open' = <<[o EXCEPT !.lines = Tail(@), !.decoded = @ \/ ~ Comment(line)]>> \o Tail(open)
    BY DEF NextLine
  <1>4. PICK x : x = [o EXCEPT !.lines = Tail(@), !.decoded = @ \/ ~ Comment(line)]
    OBVIOUS
  <1>5. IsOpen(o)
    BY <1>1, <1>3, Headed DEF LInv
  <1>6. x.kind = Head(open).kind
    BY <1>3, <1>4, <1>5 DEF IsOpen
  <1>7. PICK S, s : s = open /\ s \in Seq(S)
    BY OpenSeq DEF LInv
  <1>8. CASE Loading
    <2>1. LoadGoes'
      BY <1>8, LoadReads
    <2>2. Tail(s) = <<>>
      BY <1>1, <1>7, <1>8, LastIs DEF Loading
    <2>3. <<x>> \o <<>> = <<x>> /\ Head(<<x>>) = x /\ Len(<<x>>) = 1
      BY <1>7, LastIs
    <2>4. open' = <<x>>
      BY <1>3, <1>4, <1>7, <2>2, <2>3
    <2>5. IsLoading(open')
      BY <1>6, <1>8, <2>3, <2>4 DEF IsLoading, Loading
    <2> QED
      BY <1>2, <2>1, <2>5, LoadingIs DEF LInv
  <1>9. CASE ~ Loading
    <2>1. LastOpen(s)
      BY <1>7, <1>9 DEF LInv
    <2>2. LastOpen(<<x>> \o Tail(s))
      BY <1>1, <1>6, <1>7, <2>1, StackOn
    <2> QED
      BY <1>2, <1>3, <1>4, <1>7, <2>2, NoLoad
  <1> QED
    BY <1>8, <1>9

LEMMA KeepsEndFile ==
  ASSUME LInv, EndFile, FInv'
  PROVE  LInv'
  <1>1. /\ At("decode") /\ UNCHANGED <<treeVars, b, arg, job, said, typed, val, lastBool, byHand, file, shape, exact>>
        /\ open # <<>> /\ open' = Tail(open)
    BY DEF EndFile
  <1>2. (shape \in Seq(ChannelShapes))' /\ Printed'
    BY <1>1 DEF LInv, Printed
  <1>3. PICK S, s : s = open /\ s \in Seq(S)
    BY OpenSeq DEF LInv
  <1>4. CASE Loading
    <2>1. Tail(s) = <<>>
      BY <1>1, <1>3, <1>4, LastIs DEF Loading
    <2>2. LastOpen(Tail(s))
      BY <2>1 DEF LastOpen
    <2> QED
      BY <1>1, <1>2, <1>3, <2>2, NoLoad
  <1>5. CASE ~ Loading
    <2>1. LastOpen(s) /\ s # <<>>
      BY <1>1, <1>3, <1>5 DEF LInv
    <2>2. PICK x : x = Head(s)
      OBVIOUS
    <2>3. x.kind = Head(s).kind
      BY <2>2
    <2>4. LastOpen(Tail(s))
      BY <1>3, <2>1, <2>3, StackOn
    <2> QED
      BY <1>1, <1>2, <1>3, <2>4, NoLoad
  <1> QED
    BY <1>4, <1>5

\* A step that leaves the files alone.
LEMMA KeepsClosed ==
  ASSUME LInv, UNCHANGED <<file, open, shape, exact>>, FInv', Loading => LoadGoes'
  PROVE  LInv'
  BY DEF LInv, Printed, Loading

\* Nothing moves when nothing changes.
StageVars == <<conns, connKeyInc, wgs, dts, fields, val, b, arg, job, loop, toks>>

LEMMA WordsStill ==
  ASSUME UNCHANGED StageVars
  PROVE  /\ \A l, ts : Reads(l, ts) <=> Reads(l, ts)'
         /\ \A op, path, ts : Adds(op, path, ts) <=> Adds(op, path, ts)'
         /\ \A t, c, i, j, k, l, raw : Placed(t, c, i, j, k, l, raw) <=> Placed(t, c, i, j, k, l, raw)'
  <1>1. \A l, ts : Reads(l, ts) <=> Reads(l, ts)'
    BY DEF StageVars, Reads
  <1>2. \A op, path, ts : Adds(op, path, ts) <=> Adds(op, path, ts)'
    BY DEF StageVars, Adds
  <1>3. \A t, c, i, j, k, l, raw : Placed(t, c, i, j, k, l, raw) <=> Placed(t, c, i, j, k, l, raw)'
    BY DEF StageVars, Placed, Built
  <1> QED
    BY <1>1, <1>2, <1>3

LEMMA StageStill ==
  ASSUME UNCHANGED StageVars, NEW t, NEW g, NEW c, NEW i, NEW j, NEW k, NEW l, NEW ls, Stage(t, g, c, i, j, k, l, ls)
  PROVE  Stage(t, g, c, i, j, k, l, ls)'
  <1>1. UNCHANGED <<arg, b, wgs>>
    BY DEF StageVars
  <1>2. AtRest(t, g, c, i, j, k, l, ls) => AtRest(t, g, c, i, j, k, l, ls)'
    BY WordsStill DEF AtRest
  <1>3. Starting(t, g, c, i, j, k, l, ls) => Starting(t, g, c, i, j, k, l, ls)'
    BY WordsStill DEF Starting
  <1>4. Turning(t, g, c, i, j, k, l, ls) => Turning(t, g, c, i, j, k, l, ls)'
    BY <1>1, WordsStill DEF Turning, Turns
  <1>5. Adding(t, g, c, i, j, k, l, ls) => Adding(t, g, c, i, j, k, l, ls)'
    BY <1>1, WordsStill DEF Adding, IsDue
  <1>6. TextWaits(t, g, c, i, j, k, l, ls) => TextWaits(t, g, c, i, j, k, l, ls)'
    BY <1>1, WordsStill DEF TextWaits
  <1>7. Setting(t, g, c, i, j, k, l, ls) => Setting(t, g, c, i, j, k, l, ls)'
    BY <1>1, WordsStill DEF Setting, Sets
  <1>8. Writing(t, g, c, i, j, k, l, ls) => Writing(t, g, c, i, j, k, l, ls)'
    BY <1>1, WordsStill DEF Writing, Writes
  <1> QED
    BY <1>2, <1>3, <1>4, <1>5, <1>6, <1>7, <1>8 DEF Stage

LEMMA UnchangedGoes ==
  ASSUME LInv, UNCHANGED allVars, FInv'
  PROVE  LInv'
  <1>4. UNCHANGED vars /\ UNCHANGED exportVars
    BY DEF allVars
  <1>5. UNCHANGED <<treeVars, b, arg, job, loop, toks>>
    BY <1>4 DEF vars, consoleVars
  <1>6. UNCHANGED <<val, file, open, shape, exact>>
    BY <1>4 DEF exportVars
  <1>7. UNCHANGED <<conns, connKeyInc, wgs, dts, fields>>
    BY <1>5 DEF treeVars
  <1>1. /\ UNCHANGED <<file, open, shape, exact>> /\ UNCHANGED val
        /\ UNCHANGED <<conns, connKeyInc, wgs, dts, fields, b, arg, job, loop, toks>>
    BY <1>5, <1>6, <1>7
  <1>3. ASSUME Loading
        PROVE  LoadGoes'
    <2>1. PICK g \in Behind, c \in Nat : Kept(Head(open), c) /\ Loaded(shape, g, c, Head(open).lines)
      BY <1>3 DEF LInv, LoadGoes
    <2>2. PICK t, o, ls : t = shape /\ o = Head(open) /\ ls = o.lines
      OBVIOUS
    <2>3. Loaded(t, g, c, ls) /\ Kept(o, c)
      BY <2>1, <2>2
    <2>4. PICK i, j, k, l : Stage(t, g, c, i, j, k, l, ls)
      BY <2>3 DEF Loaded
    <2>5. UNCHANGED StageVars
      BY <1>1 DEF StageVars
    <2>6. Stage(t, g, c, i, j, k, l, ls)'
      BY <2>4, <2>5, StageStill
    <2>7. Loaded(t, g, c, ls)' /\ Kept(o, c)'
      BY <1>1, <2>3, <2>6 DEF Loaded, Kept
    <2>8. Kept(Head(open), c)' /\ Loaded(shape, g, c, Head(open).lines)'
      BY <1>1, <2>2, <2>7
    <2> QED
      BY <2>8 DEF LoadGoes
  <1> QED
    BY <1>1, <1>3, KeepsClosed

LEMMA LInvNext == LInv /\ InBounds /\ InBounds' /\ [ExportNext]_allVars => LInv'
  <1> SUFFICES ASSUME LInv, InBounds, InBounds', [ExportNext]_allVars
               PROVE  LInv'
    OBVIOUS
  <1>1. FInv'
    BY GoodExportNext DEF LInv, FGood, FInv
  <1>2. CASE UNCHANGED allVars
    BY <1>1, <1>2, UnchangedGoes
  <1>3. CASE Step /\ (At("decode") /\ toks = <<>> => open = <<>>) /\ Values /\ UNCHANGED <<file, open, shape, exact>>
    <2>2. Loading => LoadGoes'
      BY <1>3, GoesWithStep
    <2> QED
      BY <1>1, <1>3, <2>2, KeepsClosed
  <1>4. ASSUME NEW line \in Lines, EnterLine(line) \/ EndThread(line), Values, UNCHANGED <<file, open, shape, exact>>
        PROVE  LInv'
    <2>1. loop = "idle"
      BY <1>4 DEF EnterLine, EndThread
    <2>2. ~ Loading
      BY <2>1, NotIdle
    <2> QED
      BY <1>1, <1>4, <2>2, KeepsClosed
  <1> QED
    BY <1>1, <1>2, <1>3, <1>4, KeepsExport, KeepsLoad, KeepsNextLine, KeepsEndFile DEF ExportNext, ExportStep

LEMMA LoadInvariance == ExportSpec /\ []InBounds => []LInv
  BY LInvInit, LInvNext, PTL DEF ExportSpec

-----------------------------------------------------------------------------
(* The keys of new nodes follow each other.                                 *)
Following(m, n) == m + 1 .. m + n

LEMMA RangeKeys ==
  ASSUME NEW m \in Nat, NEW n \in Nat, NEW K, K = Following(m, n), K \in SUBSET Key
  PROVE  /\ Cardinality(K) = n
         /\ \A k \in 1 .. n : m + k \in K /\ Nth(K, k) = m + k
  <1>4. K = m + 1 .. m + n
    BY DEF Following
  <1>1. Cardinality(K) = n
    BY <1>4, FS_Interval
  <1>2. ASSUME NEW k \in 1 .. n
        PROVE  m + k \in K /\ Rank(m + k, K) = k
    <2>1. PICK z : z = m + k
      OBVIOUS
    <2>2. {y \in K : y <= z} = m + 1 .. z
      BY <1>4, <2>1
    <2>3. Cardinality(m + 1 .. z) = k
      BY <2>1, FS_Interval
    <2>4. z \in K
      BY <1>4, <2>1
    <2>5. Rank(z, K) = Cardinality({y \in K : y <= z})
      BY DEF Rank
    <2>6. Rank(z, K) = k
      BY <2>2, <2>3, <2>5
    <2> QED
      BY <2>1, <2>4, <2>6
  <1>3. ASSUME NEW k \in 1 .. n
        PROVE  Nth(K, k) = m + k
    <2>1. PICK x : x = Nth(K, k)
      OBVIOUS
    <2>2. x \in K /\ Rank(x, K) = k
      BY <1>1, <2>1, NthIs
    <2>3. PICK j \in 1 .. n : x = m + j
      <3>1. x - m \in 1 .. n /\ x = m + (x - m)
        BY <1>4, <2>2
      <3> QED
        BY <3>1
    <2>4. j = k
      BY <1>2, <2>2, <2>3
    <2> QED
      BY <2>1, <2>3, <2>4
  <1> QED
    BY <1>1, <1>2, <1>3

LEMMA OrderedIs ==
  ASSUME NEW m \in Nat, NEW n \in Nat, NEW K, K = Following(m, n), K \in SUBSET Key,
         NEW S, NEW s \in Seq(S), Len(s) = n, NEW node, \A k \in 1 .. n : node[m + k] = s[k]
  PROVE  Ordered(K, node) = s
  <1>1. Cardinality(K) = n /\ \A k \in 1 .. n : Nth(K, k) = m + k
    BY RangeKeys
  <1>2. s = [k \in 1 .. n |-> s[k]]
    BY LenProperties, SeqDef
  <1>3. \A k \in 1 .. n : node[Nth(K, k)] = s[k]
    BY <1>1
  <1> QED
    BY <1>1, <1>2, <1>3 DEF Ordered

LEMMA OrderedFromOne ==
  ASSUME NEW n \in Nat, NEW K, K = 1 .. n, K \in SUBSET Key,
         NEW S, NEW s \in Seq(S), Len(s) = n, NEW node, \A k \in 1 .. n : node[k] = s[k]
  PROVE  Ordered(K, node) = s
  <1>1. PICK m : m = 0
    OBVIOUS
  <1>2. m \in Nat /\ K = Following(m, n) /\ \A k \in 1 .. n : m + k = k
    BY <1>1 DEF Following
  <1>3. \A k \in 1 .. n : node[m + k] = s[k]
    BY <1>2
  <1> QED
    BY <1>2, <1>3, OrderedIs

\* The children of a node that has all of those its counter counts.
LEMMA AllChildren ==
  ASSUME IInv, KeysFromOne
  PROVE  /\ \A x \in DOMAIN conns : (\A e \in 1 .. conns[x].wgKeyInc : <<x, e>> \in DOMAIN wgs)
              => ChildKeys(wgs, <<x>>) = 1 .. conns[x].wgKeyInc
         /\ \A g \in DOMAIN wgs : (\A d \in 1 .. wgs[g].dtsKeyInc : <<g[1], g[2], d>> \in DOMAIN dts)
              => ChildKeys(dts, g) = 1 .. wgs[g].dtsKeyInc
         /\ \A p \in DOMAIN dts : (\A f \in 1 .. dts[p].varKeyInc : <<p[1], p[2], p[3], f>> \in DOMAIN fields)
              => ChildKeys(fields, p) = 1 .. dts[p].varKeyInc
  <1>1. ASSUME NEW x \in DOMAIN conns, \A e \in 1 .. conns[x].wgKeyInc : <<x, e>> \in DOMAIN wgs
        PROVE  ChildKeys(wgs, <<x>>) = 1 .. conns[x].wgKeyInc
    <2>1. conns[x].wgKeyInc \in Nat /\ x \in Key
      BY Width DEF IInv, TreeTypeOK, Key
    <2>2. ASSUME NEW e \in ChildKeys(wgs, <<x>>)
          PROVE  e \in 1 .. conns[x].wgKeyInc
      <3>1. e \in Key /\ Append(<<x>>, e) \in DOMAIN wgs
        BY ChildrenOf
      <3>2. <<x, e>> \in DOMAIN wgs
        BY <2>1, <3>1, Appended
      <3>3. PICK y \in DOMAIN wgs : y = <<x, e>> /\ y[1] = x /\ y[2] = e
        BY <3>2
      <3>4. e >= 1 /\ e <= conns[x].wgKeyInc /\ e \in Nat
        BY <3>1, <3>3, Width DEF KeysFromOne, IInv, KeysBelowCounter, Key
      <3> QED
        BY <2>1, <3>4
    <2>3. ASSUME NEW e \in 1 .. conns[x].wgKeyInc
          PROVE  e \in ChildKeys(wgs, <<x>>)
      <3>1. PICK y \in DOMAIN wgs : y = <<x, e>> /\ y[1] = x /\ y[2] = e
        BY <1>1
      <3>2. y \in [1 .. 2 -> Key]
        BY DEF IInv, TreeTypeOK
      <3>3. 2 \in 1 .. 4
        OBVIOUS
      <3>4. SubSeq(y, 1, 1) = <<x>>
        BY <3>1, <3>2, <3>3, Beginnings
      <3>5. Len(<<x>>) = 1
        OBVIOUS
      <3> QED
        BY <3>1, <3>4, <3>5 DEF ChildKeys
    <2> QED
      BY <2>2, <2>3
  <1>2. ASSUME NEW g \in DOMAIN wgs, \A d \in 1 .. wgs[g].dtsKeyInc : <<g[1], g[2], d>> \in DOMAIN dts
        PROVE  ChildKeys(dts, g) = 1 .. wgs[g].dtsKeyInc
    <2>1. wgs[g].dtsKeyInc \in Nat /\ g = <<g[1], g[2]>> /\ g[1] \in Key /\ g[2] \in Key /\ Len(g) = 2
      BY Width DEF IInv, TreeTypeOK, Key
    <2>2. ASSUME NEW d \in ChildKeys(dts, g)
          PROVE  d \in 1 .. wgs[g].dtsKeyInc
      <3>1. d \in Key /\ Append(g, d) \in DOMAIN dts
        BY ChildrenOf
      <3>4. PICK w, j : w = g[1] /\ j = g[2] /\ g = <<w, j>> /\ w \in Key /\ j \in Key
        BY <2>1
      <3>5. Append(<<w, j>>, d) = <<w, j, d>>
        BY <3>1, <3>4, Appended
      <3>2. <<g[1], g[2], d>> \in DOMAIN dts
        BY <3>1, <3>4, <3>5
      <3>3. PICK y \in DOMAIN dts : y = <<g[1], g[2], d>> /\ y[3] = d /\ GroupOf(y) = g
        BY <2>1, <3>2 DEF GroupOf
      <3>6. d >= 1 /\ d <= wgs[g].dtsKeyInc /\ d \in Nat
        BY <3>1, <3>3, Width DEF KeysFromOne, IInv, KeysBelowCounter, Key
      <3> QED
        BY <2>1, <3>6
    <2>3. ASSUME NEW d \in 1 .. wgs[g].dtsKeyInc
          PROVE  d \in ChildKeys(dts, g)
      <3>1. PICK y \in DOMAIN dts : y = <<g[1], g[2], d>> /\ y[1] = g[1] /\ y[2] = g[2] /\ y[3] = d
        BY <1>2
      <3>2. y \in [1 .. 3 -> Key]
        BY DEF IInv, TreeTypeOK
      <3>3. 3 \in 1 .. 4
        OBVIOUS
      <3>4. SubSeq(y, 1, 2) = g
        BY <2>1, <3>1, <3>2, <3>3, Beginnings
      <3> QED
        BY <2>1, <3>1, <3>4 DEF ChildKeys
    <2> QED
      BY <2>2, <2>3
  <1>3. ASSUME NEW p \in DOMAIN dts, \A f \in 1 .. dts[p].varKeyInc : <<p[1], p[2], p[3], f>> \in DOMAIN fields
        PROVE  ChildKeys(fields, p) = 1 .. dts[p].varKeyInc
    <2>1. /\ dts[p].varKeyInc \in Nat /\ p = <<p[1], p[2], p[3]>>
          /\ p[1] \in Key /\ p[2] \in Key /\ p[3] \in Key /\ Len(p) = 3
      BY Width DEF IInv, TreeTypeOK, Key
    <2>2. ASSUME NEW f \in ChildKeys(fields, p)
          PROVE  f \in 1 .. dts[p].varKeyInc
      <3>1. f \in Key /\ Append(p, f) \in DOMAIN fields
        BY ChildrenOf
      <3>4. PICK w, j, k : /\ w = p[1] /\ j = p[2] /\ k = p[3] /\ p = <<w, j, k>>
                           /\ w \in Key /\ j \in Key /\ k \in Key
        BY <2>1
      <3>5. Append(<<w, j, k>>, f) = <<w, j, k, f>>
        BY <3>1, <3>4, Appended
      <3>2. <<p[1], p[2], p[3], f>> \in DOMAIN fields
        BY <3>1, <3>4, <3>5
      <3>3. PICK y \in DOMAIN fields : y = <<p[1], p[2], p[3], f>> /\ y[4] = f /\ DataSetOf(y) = p
        BY <2>1, <3>2 DEF DataSetOf
      <3>6. f >= 1 /\ f <= dts[p].varKeyInc /\ f \in Nat
        BY <3>1, <3>3, Width DEF KeysFromOne, IInv, KeysBelowCounter, Key
      <3> QED
        BY <2>1, <3>6
    <2>3. ASSUME NEW f \in 1 .. dts[p].varKeyInc
          PROVE  f \in ChildKeys(fields, p)
      <3>1. PICK y \in DOMAIN fields : /\ y = <<p[1], p[2], p[3], f>> /\ y[4] = f
                                       /\ y[1] = p[1] /\ y[2] = p[2] /\ y[3] = p[3]
        BY <1>3
      <3>2. y \in [1 .. 4 -> Key]
        BY DEF IInv, TreeTypeOK
      <3>3. 4 \in 1 .. 4
        OBVIOUS
      <3>4. SubSeq(y, 1, 3) = p
        BY <2>1, <3>1, <3>2, <3>3, Beginnings
      <3> QED
        BY <2>1, <3>1, <3>4 DEF ChildKeys
    <2> QED
      BY <2>2, <2>3
  <1> QED
    BY <1>1, <1>2, <1>3

-----------------------------------------------------------------------------
(* The end of a load: every node of the shape is there, and nothing else    *)
(* under the Channels that were added.                                      *)
AllDone(t, i, j, k, l) ==
  i = Len(t) /\ GroupsDone(t, i, j) /\ DataSetsDone(t, i, j, k) /\ FieldsDone(t, i, j, k, l)

LEMMA AllAt ==
  ASSUME NEW t \in Seq(ChannelShapes), NEW i, NEW j, NEW k, NEW l, InShape(t, i, j, k, l), AllDone(t, i, j, k, l)
  PROVE  /\ \A a \in 1 .. Len(t) : a \in 1 .. i /\ GroupsAt(t, i, j, a) = Wgs(t, a)
         /\ \A a \in 1 .. Len(t) : \A e \in 1 .. Wgs(t, a) :
              HasGroup(t, i, j, a, e) /\ DataSetsAt(t, i, j, k, a, e) = Dss(t, a, e)
         /\ \A a \in 1 .. Len(t) : \A e \in 1 .. Wgs(t, a) : \A d \in 1 .. Dss(t, a, e) :
              HasDataSet(t, i, j, k, a, e, d) /\ FieldsAt(t, i, j, k, l, a, e, d) = Fds(t, a, e, d)
         /\ \A a \in 1 .. Len(t) : \A e \in 1 .. Wgs(t, a) : \A d \in 1 .. Dss(t, a, e) : \A f \in 1 .. Fds(t, a, e, d) :
              HasField(t, i, j, k, l, a, e, d, f)
  <1>1. /\ i \in Nat /\ j \in Nat /\ k \in Nat /\ l \in Nat /\ i = Len(t)
        /\ i # 0 => i \in 1 .. Len(t) /\ j \in 0 .. Wgs(t, i)
        /\ j # 0 => i # 0 /\ j \in 1 .. Wgs(t, i) /\ k \in 0 .. Dss(t, i, j)
        /\ k # 0 => j # 0 /\ k \in 1 .. Dss(t, i, j)
    BY Positions DEF AllDone
  <1>2. ASSUME NEW a \in 1 .. Len(t)
        PROVE  a \in 1 .. i /\ GroupsAt(t, i, j, a) = Wgs(t, a)
    <2>1. a \in 1 .. i /\ i # 0 /\ (a < i \/ a = i)
      BY <1>1
    <2>2. j = Wgs(t, i)
      BY <2>1 DEF AllDone, GroupsDone
    <2> QED
      BY <2>1, <2>2 DEF GroupsAt
  <1>3. ASSUME NEW a \in 1 .. Len(t), NEW e \in 1 .. Wgs(t, a)
        PROVE  HasGroup(t, i, j, a, e) /\ DataSetsAt(t, i, j, k, a, e) = Dss(t, a, e)
    <2>1. HasGroup(t, i, j, a, e)
      BY <1>2 DEF HasGroup
    <2>2. CASE a < i \/ e < j
      BY <2>1, <2>2 DEF DataSetsAt
    <2>3. CASE ~ (a < i \/ e < j)
      <3>1. a = i /\ j = Wgs(t, i)
        <4>1. a = i /\ i # 0
          BY <1>1, <2>3
        <4> QED
          BY <4>1 DEF AllDone, GroupsDone
      <3>2. e = j /\ j # 0
        <4>1. e \in 1 .. j
          BY <3>1
        <4> QED
          BY <1>1, <2>3, <4>1
      <3>3. k = Dss(t, i, j)
        BY <3>2 DEF AllDone, DataSetsDone
      <3> QED
        BY <2>1, <2>3, <3>1, <3>2, <3>3 DEF DataSetsAt
    <2> QED
      BY <2>2, <2>3
  <1>4. ASSUME NEW a \in 1 .. Len(t), NEW e \in 1 .. Wgs(t, a), NEW d \in 1 .. Dss(t, a, e)
        PROVE  HasDataSet(t, i, j, k, a, e, d) /\ FieldsAt(t, i, j, k, l, a, e, d) = Fds(t, a, e, d)
    <2>1. HasDataSet(t, i, j, k, a, e, d)
      BY <1>3 DEF HasDataSet
    <2>2. CASE a < i \/ e < j \/ d < k
      BY <2>1, <2>2 DEF FieldsAt
    <2>3. CASE ~ (a < i \/ e < j \/ d < k)
      <3>1. a = i /\ j = Wgs(t, i)
        <4>1. a = i /\ i # 0
          BY <1>1, <2>3
        <4> QED
          BY <4>1 DEF AllDone, GroupsDone
      <3>2. e = j /\ j # 0
        <4>1. e \in 1 .. j
          BY <3>1
        <4> QED
          BY <1>1, <2>3, <4>1
      <3>3. k = Dss(t, i, j)
        BY <3>2 DEF AllDone, DataSetsDone
      <3>4. d = k /\ k # 0
        <4>1. d \in 1 .. k
          BY <3>1, <3>2, <3>3
        <4> QED
          BY <1>1, <2>3, <4>1
      <3>5. l = Fds(t, i, j, k)
        BY <3>4 DEF AllDone, FieldsDone
      <3> QED
        BY <2>1, <2>3, <3>1, <3>2, <3>4, <3>5 DEF FieldsAt
    <2> QED
      BY <2>2, <2>3
  <1>5. ASSUME NEW a \in 1 .. Len(t), NEW e \in 1 .. Wgs(t, a), NEW d \in 1 .. Dss(t, a, e), NEW f \in 1 .. Fds(t, a, e, d)
        PROVE  HasField(t, i, j, k, l, a, e, d, f)
    BY <1>4 DEF HasField
  <1> QED
    BY <1>2, <1>3, <1>4, <1>5

\* All of the shape is there.
Rebuilt(t, c) ==
  /\ connKeyInc = c + Len(t)
  /\ \A a \in 1 .. Len(t) : c + a \in DOMAIN conns /\ conns[c + a].port = t[a].port /\ conns[c + a].wgKeyInc = Wgs(t, a)
  /\ \A a \in 1 .. Len(t) : \A e \in 1 .. Wgs(t, a) :
       /\ <<c + a, e>> \in DOMAIN wgs /\ wgs[<<c + a, e>>].dtsKeyInc = Dss(t, a, e)
       /\ wgs[<<c + a, e>>].interval = Wg(t, a, e).interval /\ wgs[<<c + a, e>>].enabled = Wg(t, a, e).enabled
  /\ \A a \in 1 .. Len(t) : \A e \in 1 .. Wgs(t, a) : \A d \in 1 .. Dss(t, a, e) :
       /\ <<c + a, e, d>> \in DOMAIN dts /\ dts[<<c + a, e, d>>].varKeyInc = Fds(t, a, e, d)
       /\ dts[<<c + a, e, d>>].isString = Ds(t, a, e, d).isString
  /\ \A a \in 1 .. Len(t) : \A e \in 1 .. Wgs(t, a) : \A d \in 1 .. Dss(t, a, e) : \A f \in 1 .. Fds(t, a, e, d) :
       ~ Ds(t, a, e, d).isString =>
         /\ <<c + a, e, d, f>> \in DOMAIN fields /\ fields[<<c + a, e, d, f>>] = Fd(t, a, e, d, f).type
         /\ Legible(Fd(t, a, e, d, f)) => val[<<c + a, e, d, f>>] = Fd(t, a, e, d, f).value

LEMMA DoneIsRebuilt ==
  ASSUME NEW t \in Seq(ChannelShapes), NEW c \in Nat, NEW i, NEW j, NEW k, NEW l, Placed(t, c, i, j, k, l, "none"),
         AllDone(t, i, j, k, l)
  PROVE  Rebuilt(t, c)
  <1>1. InShape(t, i, j, k, l) /\ Built(t, c, i, j, k, l, "none")
    BY DEF Placed
  <1>2. connKeyInc = c + Len(t)
    BY <1>1 DEF Built, ChannelsBuilt, AllDone
  <1>3. ASSUME NEW a \in 1 .. Len(t)
        PROVE  c + a \in DOMAIN conns /\ conns[c + a].port = t[a].port /\ conns[c + a].wgKeyInc = Wgs(t, a)
    <2>1. a \in 1 .. i /\ GroupsAt(t, i, j, a) = Wgs(t, a)
      BY <1>1, AllAt
    <2> QED
      BY <1>1, <2>1 DEF Built, ChannelsBuilt
  <1>4. ASSUME NEW a \in 1 .. Len(t), NEW e \in 1 .. Wgs(t, a)
        PROVE  /\ <<c + a, e>> \in DOMAIN wgs /\ wgs[<<c + a, e>>].dtsKeyInc = Dss(t, a, e)
               /\ wgs[<<c + a, e>>].interval = Wg(t, a, e).interval /\ wgs[<<c + a, e>>].enabled = Wg(t, a, e).enabled
    <2>1. HasGroup(t, i, j, a, e) /\ DataSetsAt(t, i, j, k, a, e) = Dss(t, a, e)
      BY <1>1, AllAt
    <2>2. GroupBuilt(wgs, t, c, i, j, k, "none", a, e)
      BY <1>1, <2>1 DEF Built, GroupsBuilt
    <2> QED
      BY <2>1, <2>2 DEF GroupBuilt
  <1>5. ASSUME NEW a \in 1 .. Len(t), NEW e \in 1 .. Wgs(t, a), NEW d \in 1 .. Dss(t, a, e)
        PROVE  /\ <<c + a, e, d>> \in DOMAIN dts /\ dts[<<c + a, e, d>>].varKeyInc = Fds(t, a, e, d)
               /\ dts[<<c + a, e, d>>].isString = Ds(t, a, e, d).isString
    <2>1. HasDataSet(t, i, j, k, a, e, d) /\ FieldsAt(t, i, j, k, l, a, e, d) = Fds(t, a, e, d)
      BY <1>1, AllAt
    <2>2. DataSetBuilt(dts, t, c, i, j, k, l, a, e, d)
      BY <1>1, <2>1 DEF Built, DataSetsBuilt
    <2> QED
      BY <2>1, <2>2 DEF DataSetBuilt
  <1>6. ASSUME NEW a \in 1 .. Len(t), NEW e \in 1 .. Wgs(t, a), NEW d \in 1 .. Dss(t, a, e), NEW f \in 1 .. Fds(t, a, e, d),
               ~ Ds(t, a, e, d).isString
        PROVE  /\ <<c + a, e, d, f>> \in DOMAIN fields /\ fields[<<c + a, e, d, f>>] = Fd(t, a, e, d, f).type
               /\ Legible(Fd(t, a, e, d, f)) => val[<<c + a, e, d, f>>] = Fd(t, a, e, d, f).value
    <2>1. HasField(t, i, j, k, l, a, e, d, f)
      BY <1>1, AllAt
    <2>2. FieldBuilt(fields, val, t, c, i, j, k, l, "none", a, e, d, f)
      BY <1>1, <1>6, <2>1 DEF Built, FieldsBuilt
    <2> QED
      BY <2>2 DEF FieldBuilt
  <1> QED
    BY <1>2, <1>3, <1>4, <1>5, <1>6 DEF Rebuilt

-----------------------------------------------------------------------------
(* What is there is the shape: node by node, from the Fields up.            *)
LEMMA SameField ==
  ASSUME NEW f \in FieldShapes, NEW q, fields[q] = f.type, val[q] = f.value
  PROVE  FieldShape(q) = f
  BY DEF FieldShape, FieldShapes

LEMMA SameDataSet ==
  ASSUME IInv, KeysFromOne, NEW d \in DataSetShapes, NEW p \in DOMAIN dts, dts[p].isString = d.isString,
         dts[p].varKeyInc = IF d.isString THEN d.length ELSE Len(d.fields),
         ~ d.isString => \A f \in 1 .. Len(d.fields) :
           <<p[1], p[2], p[3], f>> \in DOMAIN fields /\ FieldShape(<<p[1], p[2], p[3], f>>) = d.fields[f]
  PROVE  DataSetShape(p) = d
  <1>1. /\ d = [isString |-> d.isString, fields |-> d.fields, length |-> d.length] /\ d.fields \in Seq(FieldShapes)
        /\ IF d.isString THEN d.fields = <<>> ELSE d.length = 0
    BY DEF DataSetShapes
  <1>2. CASE d.isString
    <2>1. Cardinality(FieldKeys(p)) = d.length
      BY <1>2, StringSize
    <2> QED
      BY <1>1, <1>2, <2>1 DEF DataSetShape
  <1>3. CASE ~ d.isString
    <2> DEFINE K == ChildKeys(fields, p)
               node == [x \in K |-> FieldShape(Append(p, x))]
    <2>1. Below(fields, p, FieldShape) = Ordered(K, node)
      BY DEF Below, InOrder, Ordered, Nth
    <2>2. PICK n : n = Len(d.fields) /\ n \in Nat /\ dts[p].varKeyInc = n
      BY <1>1, <1>3
    <2>3. K = 1 .. n
      BY <1>3, <2>2, AllChildren
    <2>4. K \in SUBSET Key
      BY ChildrenOf
    <2>5. ASSUME NEW f \in 1 .. n
          PROVE  node[f] = d.fields[f]
      <3>1. f \in K /\ f \in Key
        BY <2>3, <2>4
      <3>2. PICK u, v, w : /\ u = p[1] /\ v = p[2] /\ w = p[3] /\ p = <<u, v, w>>
                           /\ u \in Key /\ v \in Key /\ w \in Key
        BY DEF IInv, TreeTypeOK
      <3>3. Append(<<u, v, w>>, f) = <<u, v, w, f>>
        BY <3>1, <3>2, Appended
      <3>4. Append(p, f) = <<p[1], p[2], p[3], f>>
        BY <3>2, <3>3
      <3> QED
        BY <1>3, <2>2, <3>1, <3>4
    <2>6. Ordered(K, node) = d.fields
      <3> HIDE DEF K, node
      <3>1. PICK s : s = d.fields
        OBVIOUS
      <3>2. s \in Seq(FieldShapes) /\ Len(s) = n
        BY <1>1, <2>2, <3>1
      <3>3. \A k \in 1 .. n : node[k] = s[k]
        BY <2>5, <3>1
      <3>4. Ordered(K, node) = s
        BY <2>2, <2>3, <2>4, <3>2, <3>3, OrderedFromOne
      <3> QED
        BY <3>1, <3>4
    <2> QED
      BY <1>1, <1>3, <2>1, <2>6 DEF DataSetShape
  <1> QED
    BY <1>2, <1>3

LEMMA SameGroup ==
  ASSUME IInv, KeysFromOne, NEW w \in GroupShapes, NEW g \in DOMAIN wgs, wgs[g].interval = w.interval,
         wgs[g].enabled = w.enabled, wgs[g].dtsKeyInc = Len(w.dts),
         \A d \in 1 .. Len(w.dts) : <<g[1], g[2], d>> \in DOMAIN dts /\ DataSetShape(<<g[1], g[2], d>>) = w.dts[d]
  PROVE  GroupShape(g) = w
  <1>1. w = [interval |-> w.interval, enabled |-> w.enabled, dts |-> w.dts] /\ w.dts \in Seq(DataSetShapes)
    BY DEF GroupShapes
  <1> DEFINE K == ChildKeys(dts, g)
             node == [x \in K |-> DataSetShape(Append(g, x))]
  <1>2. Below(dts, g, DataSetShape) = Ordered(K, node)
    BY DEF Below, InOrder, Ordered, Nth
  <1>3. PICK n : n = Len(w.dts) /\ n \in Nat /\ wgs[g].dtsKeyInc = n
    BY <1>1
  <1>4. K = 1 .. n
    BY <1>3, AllChildren
  <1>5. K \in SUBSET Key
    BY ChildrenOf
  <1>6. ASSUME NEW d \in 1 .. n
        PROVE  node[d] = w.dts[d]
    <2>1. d \in K /\ d \in Key
      BY <1>4, <1>5
    <2>2. PICK u, v : u = g[1] /\ v = g[2] /\ g = <<u, v>> /\ u \in Key /\ v \in Key
      BY DEF IInv, TreeTypeOK
    <2>3. Append(<<u, v>>, d) = <<u, v, d>>
      BY <2>1, <2>2, Appended
    <2>4. Append(g, d) = <<g[1], g[2], d>>
      BY <2>2, <2>3
    <2> QED
      BY <1>3, <2>1, <2>4
  <1>7. Ordered(K, node) = w.dts
    <2> HIDE DEF K, node
    <2>1. PICK s : s = w.dts
      OBVIOUS
    <2>2. s \in Seq(DataSetShapes) /\ Len(s) = n
      BY <1>1, <1>3, <2>1
    <2>3. \A k \in 1 .. n : node[k] = s[k]
      BY <1>6, <2>1
    <2>4. Ordered(K, node) = s
      BY <1>3, <1>4, <1>5, <2>2, <2>3, OrderedFromOne
    <2> QED
      BY <2>1, <2>4
  <1> QED
    BY <1>1, <1>2, <1>7 DEF GroupShape

LEMMA SameChannel ==
  ASSUME IInv, KeysFromOne, NEW h \in ChannelShapes, NEW x \in DOMAIN conns, conns[x].port = h.port,
         conns[x].wgKeyInc = Len(h.wgs),
         \A e \in 1 .. Len(h.wgs) : <<x, e>> \in DOMAIN wgs /\ GroupShape(<<x, e>>) = h.wgs[e]
  PROVE  ChannelShape(x) = h
  <1>1. h = [port |-> h.port, wgs |-> h.wgs] /\ h.wgs \in Seq(GroupShapes)
    BY DEF ChannelShapes
  <1> DEFINE K == ChildKeys(wgs, <<x>>)
             node == [e \in K |-> GroupShape(Append(<<x>>, e))]
  <1>2. Below(wgs, <<x>>, GroupShape) = Ordered(K, node)
    BY DEF Below, InOrder, Ordered, Nth
  <1>3. PICK n : n = Len(h.wgs) /\ n \in Nat /\ conns[x].wgKeyInc = n
    BY <1>1
  <1>4. K = 1 .. n
    BY <1>3, AllChildren
  <1>5. K \in SUBSET Key
    BY ChildrenOf
  <1>6. ASSUME NEW e \in 1 .. n
        PROVE  node[e] = h.wgs[e]
    <2>1. e \in K /\ e \in Key
      BY <1>4, <1>5
    <2>2. x \in Key
      BY DEF IInv, TreeTypeOK
    <2>3. Append(<<x>>, e) = <<x, e>>
      BY <2>1, <2>2, Appended
    <2> QED
      BY <1>3, <2>1, <2>3
  <1>7. Ordered(K, node) = h.wgs
    <2> HIDE DEF K, node
    <2>1. PICK s : s = h.wgs
      OBVIOUS
    <2>2. s \in Seq(GroupShapes) /\ Len(s) = n
      BY <1>1, <1>3, <2>1
    <2>3. \A k \in 1 .. n : node[k] = s[k]
      BY <1>6, <2>1
    <2>4. Ordered(K, node) = s
      BY <1>3, <1>4, <1>5, <2>2, <2>3, OrderedFromOne
    <2> QED
      BY <2>1, <2>4
  <1> QED
    BY <1>1, <1>2, <1>7 DEF ChannelShape

LEMMA ReadableIs ==
  ASSUME NEW t \in Seq(ChannelShapes), Readable(t),
         NEW a \in 1 .. Len(t), NEW e \in 1 .. Wgs(t, a), NEW d \in 1 .. Dss(t, a, e), NEW f \in 1 .. Fds(t, a, e, d),
         ~ Ds(t, a, e, d).isString
  PROVE  Legible(Fd(t, a, e, d, f))
  <1>1. a \in DOMAIN t /\ t[a].wgs \in Seq(GroupShapes)
    BY ShapeParts
  <1>2. PICK h : h = t[a] /\ h \in Range(t)
    BY <1>1 DEF Range
  <1>3. PICK w : w = Wg(t, a, e) /\ w \in Range(h.wgs) /\ w.dts \in Seq(DataSetShapes)
    <2>1. e \in DOMAIN h.wgs
      BY <1>1, <1>2 DEF Wgs
    <2>2. Wg(t, a, e) = h.wgs[e]
      BY <1>2 DEF Wg
    <2>3. Wg(t, a, e).dts \in Seq(DataSetShapes)
      BY ShapeParts
    <2> QED
      BY <2>1, <2>2, <2>3 DEF Range
  <1>4. PICK z : z = Ds(t, a, e, d) /\ z \in Range(w.dts) /\ z.fields \in Seq(FieldShapes)
    <2>1. d \in DOMAIN w.dts
      BY <1>3 DEF Dss
    <2>2. Ds(t, a, e, d) = w.dts[d]
      BY <1>3 DEF Ds
    <2>3. Ds(t, a, e, d).fields \in Seq(FieldShapes)
      BY ShapeParts
    <2> QED
      BY <2>1, <2>2, <2>3 DEF Range
  <1>5. Fd(t, a, e, d, f) \in Range(z.fields)
    <2>1. f \in DOMAIN z.fields
      BY <1>4 DEF Fds
    <2>2. Fd(t, a, e, d, f) = z.fields[f]
      BY <1>4 DEF Fd
    <2> QED
      BY <2>1, <2>2 DEF Range
  <1> QED
    BY <1>2, <1>3, <1>4, <1>5 DEF Readable, Legible

LEMMA RebuiltParts ==
  ASSUME IInv, KeysFromOne, NEW t \in Seq(ChannelShapes), NEW c \in Nat, Rebuilt(t, c), Readable(t)
  PROVE  \A a \in 1 .. Len(t) : ChannelShape(c + a) = t[a]
  <1>1. ASSUME NEW a \in 1 .. Len(t), NEW e \in 1 .. Wgs(t, a), NEW d \in 1 .. Dss(t, a, e)
        PROVE  DataSetShape(<<c + a, e, d>>) = Ds(t, a, e, d)
    <2>1. PICK z, x, p : z = Ds(t, a, e, d) /\ x = c + a /\ p = <<x, e, d>>
      OBVIOUS
    <2>2. p \in DOMAIN dts /\ dts[p].varKeyInc = Fds(t, a, e, d) /\ dts[p].isString = z.isString
      BY <2>1 DEF Rebuilt
    <2>3. z \in DataSetShapes /\ Fds(t, a, e, d) = IF z.isString THEN z.length ELSE Len(z.fields)
      BY <2>1, ShapeParts DEF Fds
    <2>4. p[1] = x /\ p[2] = e /\ p[3] = d
      BY <2>1
    <2>5. ASSUME ~ z.isString, NEW f \in 1 .. Len(z.fields)
          PROVE  <<p[1], p[2], p[3], f>> \in DOMAIN fields /\ FieldShape(<<p[1], p[2], p[3], f>>) = z.fields[f]
      <3>1. PICK q, y : q = <<x, e, d, f>> /\ y = Fd(t, a, e, d, f)
        OBVIOUS
      <3>2. f \in 1 .. Fds(t, a, e, d) /\ y = z.fields[f] /\ y \in FieldShapes
        <4>1. f \in 1 .. Fds(t, a, e, d)
          BY <2>3, <2>5
        <4>2. Fd(t, a, e, d, f) \in FieldShapes
          BY <2>1, <2>5, <4>1, ShapeParts
        <4> QED
          BY <2>1, <3>1, <4>1, <4>2 DEF Fd
      <3>3. Legible(y)
        BY <2>1, <2>5, <3>1, <3>2, ReadableIs
      <3>4. q \in DOMAIN fields /\ fields[q] = y.type /\ val[q] = y.value
        BY <2>1, <2>5, <3>1, <3>2, <3>3 DEF Rebuilt
      <3>5. FieldShape(q) = y
        BY <3>2, <3>4, SameField
      <3> QED
        BY <2>4, <3>1, <3>2, <3>4, <3>5
    <2>6. DataSetShape(p) = z
      BY <2>2, <2>3, <2>5, SameDataSet
    <2> QED
      BY <2>1, <2>6
  <1>2. ASSUME NEW a \in 1 .. Len(t), NEW e \in 1 .. Wgs(t, a)
        PROVE  GroupShape(<<c + a, e>>) = Wg(t, a, e)
    <2>1. PICK w, x, g : w = Wg(t, a, e) /\ x = c + a /\ g = <<x, e>>
      OBVIOUS
    <2>2. /\ g \in DOMAIN wgs /\ wgs[g].dtsKeyInc = Dss(t, a, e)
          /\ wgs[g].interval = w.interval /\ wgs[g].enabled = w.enabled
      BY <2>1 DEF Rebuilt
    <2>3. w \in GroupShapes /\ Dss(t, a, e) = Len(w.dts)
      BY <2>1, ShapeParts DEF Dss
    <2>4. g[1] = x /\ g[2] = e
      BY <2>1
    <2>5. ASSUME NEW d \in 1 .. Len(w.dts)
          PROVE  <<g[1], g[2], d>> \in DOMAIN dts /\ DataSetShape(<<g[1], g[2], d>>) = w.dts[d]
      <3>1. d \in 1 .. Dss(t, a, e)
        BY <2>3
      <3>2. <<c + a, e, d>> \in DOMAIN dts /\ DataSetShape(<<c + a, e, d>>) = Ds(t, a, e, d)
        BY <1>1, <3>1 DEF Rebuilt
      <3>3. Ds(t, a, e, d) = w.dts[d]
        BY <2>1 DEF Ds
      <3> QED
        BY <2>1, <2>4, <3>2, <3>3
    <2>6. GroupShape(g) = w
      BY <2>2, <2>3, <2>5, SameGroup
    <2> QED
      BY <2>1, <2>6
  <1>3. ASSUME NEW a \in 1 .. Len(t)
        PROVE  ChannelShape(c + a) = t[a]
    <2>1. PICK h, x : h = t[a] /\ x = c + a
      OBVIOUS
    <2>2. x \in DOMAIN conns /\ conns[x].port = h.port /\ conns[x].wgKeyInc = Wgs(t, a)
      BY <2>1 DEF Rebuilt
    <2>3. h \in ChannelShapes /\ Wgs(t, a) = Len(h.wgs)
      BY <2>1, ShapeParts DEF Wgs
    <2>4. ASSUME NEW e \in 1 .. Len(h.wgs)
          PROVE  <<x, e>> \in DOMAIN wgs /\ GroupShape(<<x, e>>) = h.wgs[e]
      <3>1. e \in 1 .. Wgs(t, a)
        BY <2>3
      <3>2. <<c + a, e>> \in DOMAIN wgs /\ GroupShape(<<c + a, e>>) = Wg(t, a, e)
        BY <1>2, <3>1 DEF Rebuilt
      <3>3. Wg(t, a, e) = h.wgs[e]
        BY <2>1 DEF Wg
      <3> QED
        BY <2>1, <3>2, <3>3
    <2>5. ChannelShape(x) = h
      BY <2>2, <2>3, <2>4, SameChannel
    <2> QED
      BY <2>1, <2>5
  <1> QED
    BY <1>3

\* The Channels that were added stand for the shape.
LEMMA RebuiltShape ==
  ASSUME IInv, KeysFromOne, NEW t \in Seq(ChannelShapes), NEW c \in Nat, Rebuilt(t, c), Readable(t),
         NEW C, KeptChannels(C, conns, c)
  PROVE  TreeShape(DOMAIN conns \ DOMAIN C) = t
  <1> DEFINE K == DOMAIN conns \ DOMAIN C
             node == [x \in K |-> ChannelShape(x)]
  <1>1. PICK n : n = Len(t) /\ n \in Nat /\ connKeyInc = c + n
    BY DEF Rebuilt
  <1>2. DOMAIN conns \subseteq Key /\ \A x \in DOMAIN conns : x \in Nat /\ x <= c + n
    BY <1>1, Width DEF IInv, TreeTypeOK, KeysBelowCounter, Key
  <1>3. ASSUME NEW x
        PROVE  x \in K <=> x \in c + 1 .. c + n
    <2>1. x \in K <=> x \in DOMAIN conns /\ ~ (x <= c)
      BY DEF KeptChannels
    <2>2. x \in c + 1 .. c + n => x \in DOMAIN conns
      <3>1. ASSUME x \in c + 1 .. c + n
            PROVE  x \in DOMAIN conns
        <4>1. PICK a \in 1 .. n : x = c + a
          <5>1. x - c \in 1 .. n /\ x = c + (x - c)
            BY <1>1, <3>1
          <5> QED
            BY <5>1
        <4> QED
          BY <1>1, <4>1 DEF Rebuilt
      <3> QED
        BY <3>1
    <2> HIDE DEF K
    <2> QED
      BY <1>2, <2>1, <2>2
  <1>4. TreeShape(K) = Ordered(K, node)
    BY DEF TreeShape, InOrder, Ordered, Nth
  <1>5. K = c + 1 .. c + n
    <2> HIDE DEF K
    <2> QED
      BY <1>3
  <1>6. K \in SUBSET Key
    BY <1>2
  <1>7. ASSUME NEW a \in 1 .. n
        PROVE  node[c + a] = t[a]
    <2>1. PICK x : x = c + a
      OBVIOUS
    <2>2. x \in K
      BY <1>1, <1>5, <2>1
    <2>3. ChannelShape(x) = t[a]
      BY <1>1, <2>1, RebuiltParts
    <2> QED
      BY <2>1, <2>2, <2>3
  <1> HIDE DEF K, node
  <1>9. t \in Seq(ChannelShapes) /\ Len(t) = n /\ \A k \in 1 .. n : node[c + k] = t[k]
    BY <1>1, <1>7
  <1>10. K = Following(c, n)
    BY <1>5 DEF Following
  <1>8. Ordered(K, node) = t
    BY <1>1, <1>6, <1>9, <1>10, OrderedIs
  <1> QED
    BY <1>4, <1>8 DEF K

\* Where a load has read the whole file, everything it was to build is built.
LEMMA LoadEnds ==
  ASSUME LInv, Loading, loop = "decode", job = NoJob, toks = <<>>, Head(open).lines = <<>>
  PROVE  \E c \in Nat : Kept(Head(open), c) /\ Rebuilt(shape, c)
  <1>1. PICK g \in Behind, c \in Nat : Kept(Head(open), c) /\ Loaded(shape, g, c, Head(open).lines)
    BY DEF LInv, LoadGoes
  <1>2. PICK t, ls : t = shape /\ ls = Head(open).lines
    OBVIOUS
  <1>3. t \in Seq(ChannelShapes) /\ FInv /\ Loaded(t, g, c, ls) /\ ls = <<>>
    BY <1>1, <1>2 DEF LInv
  <1>4. PICK i, j, k, l : AtRest(t, g, c, i, j, k, l, ls)
    BY <1>3, DecodesPrinted DEF Decodes
  <1>5. /\ InShape(t, i, j, k, l) /\ LeftOver(t, g, i, j, k, l) = <<>> /\ Placed(t, c, i, j, k, l, "none")
        /\ k # 0 /\ Ds(t, i, j, k).isString => l = Ds(t, i, j, k).length
    BY <1>3, <1>4 DEF AtRest, Placed, Complete
  <1>6. AllDone(t, i, j, k, l)
    <2>1. \A x, u : u \in Seq(Line) /\ x \in Line => <<x>> \o u # <<>>
      BY InFront, EmptySeq
    <2>2. ASSUME k # 0, ~ Ds(t, i, j, k).isString, l < Fds(t, i, j, k)
          PROVE  FALSE
      <3>1. /\ FieldLine(Fd(t, i, j, k, l + 1), g) \in Line /\ LeftOver(t, g, i, j, k, l + 1) \in Seq(Line)
            /\ LeftOver(t, g, i, j, k, l) = <<FieldLine(Fd(t, i, j, k, l + 1), g)>> \o LeftOver(t, g, i, j, k, l + 1)
        BY <1>3, <1>5, <2>2, NextFieldLine
      <3>2. PICK x, u : x = FieldLine(Fd(t, i, j, k, l + 1), g) /\ u = LeftOver(t, g, i, j, k, l + 1)
        OBVIOUS
      <3> QED
        BY <1>5, <2>1, <3>1, <3>2
    <2>3. ASSUME j # 0, k < Dss(t, i, j), FieldsDone(t, i, j, k, l)
          PROVE  FALSE
      <3>1. /\ DataSetLine(Ds(t, i, j, k + 1)) \in Line /\ LeftOver(t, g, i, j, k + 1, 0) \in Seq(Line)
            /\ LeftOver(t, g, i, j, k, l) = <<DataSetLine(Ds(t, i, j, k + 1))>> \o LeftOver(t, g, i, j, k + 1, 0)
        BY <1>3, <1>5, <2>3, NextDataSetLine
      <3>2. PICK x, u : x = DataSetLine(Ds(t, i, j, k + 1)) /\ u = LeftOver(t, g, i, j, k + 1, 0)
        OBVIOUS
      <3> QED
        BY <1>5, <2>1, <3>1, <3>2
    <2>4. ASSUME i # 0, j < Wgs(t, i), DataSetsDone(t, i, j, k), FieldsDone(t, i, j, k, l)
          PROVE  FALSE
      <3>1. /\ GroupLine(Wg(t, i, j + 1)) \in Line /\ LeftOver(t, g, i, j + 1, 0, 0) \in Seq(Line)
            /\ LeftOver(t, g, i, j, k, l) = <<GroupLine(Wg(t, i, j + 1))>> \o LeftOver(t, g, i, j + 1, 0, 0)
        BY <1>3, <1>5, <2>4, NextGroupLine
      <3>2. PICK x, u : x = GroupLine(Wg(t, i, j + 1)) /\ u = LeftOver(t, g, i, j + 1, 0, 0)
        OBVIOUS
      <3> QED
        BY <1>5, <2>1, <3>1, <3>2
    <2>5. ASSUME i < Len(t), GroupsDone(t, i, j), DataSetsDone(t, i, j, k), FieldsDone(t, i, j, k, l)
          PROVE  FALSE
      <3>1. /\ ChannelLine(t[i + 1]) \in Line /\ LeftOver(t, g, i + 1, 0, 0, 0) \in Seq(Line)
            /\ LeftOver(t, g, i, j, k, l) = <<ChannelLine(t[i + 1])>> \o LeftOver(t, g, i + 1, 0, 0, 0)
        BY <1>3, <1>5, <2>5, NextChannelLine
      <3>2. PICK x, u : x = ChannelLine(t[i + 1]) /\ u = LeftOver(t, g, i + 1, 0, 0, 0)
        OBVIOUS
      <3> QED
        BY <1>5, <2>1, <3>1, <3>2
    <2> QED
      BY <1>3, <1>5, <2>2, <2>3, <2>4, <2>5, WhatIsNext DEF AllDone
  <1>7. Rebuilt(t, c)
    BY <1>3, <1>5, <1>6, DoneIsRebuilt
  <1> QED
    BY <1>1, <1>2, <1>7

LEMMA LInvRebuilds == LInv => LoadRebuilds
  <1> SUFFICES ASSUME LInv, At("decode"), toks = <<>>, Len(open) = 1, open[1].kind = "printed", open[1].lines = <<>>,
                      Readable(shape), NEW old, old = open[1]
               PROVE  /\ TreeShape(DOMAIN conns \ DOMAIN old.conns) = shape
                      /\ Extends(old.conns, conns) /\ Extends(old.wgs, wgs) /\ Extends(old.dts, dts)
                      /\ Extends(old.fields, fields) /\ Extends(old.val, val)
                      /\ \A x \in DOMAIN wgs \cup DOMAIN dts \cup DOMAIN fields :
                           x[1] \in DOMAIN old.conns => x \in DOMAIN old.wgs \cup DOMAIN old.dts \cup DOMAIN old.fields
    BY DEF LoadRebuilds
  <1>1. Head(open) = old /\ Loading
    <2>1. PICK S : open \in Seq(S)
      BY OpenSeq DEF LInv
    <2>2. Len(open) # 0 /\ Head(open) = open[1]
      BY <2>1, HeadTailProperties
    <2>3. open # <<>>
      BY <2>2, EmptySeq
    <2> QED
      BY <2>2, <2>3 DEF Loading
  <1>2. PICK c \in Nat : Kept(old, c) /\ Rebuilt(shape, c)
    BY <1>1, LoadEnds DEF At
  <1>3. IInv /\ KeysFromOne /\ shape \in Seq(ChannelShapes)
    BY DEF LInv, FInv, CInv
  <1>4. /\ KeptChannels(old.conns, conns, c) /\ KeptNodes(old.wgs, wgs, c) /\ KeptNodes(old.dts, dts, c)
        /\ KeptNodes(old.fields, fields, c) /\ KeptNodes(old.val, val, c)
    BY <1>2 DEF Kept
  <1>5. TreeShape(DOMAIN conns \ DOMAIN old.conns) = shape
    <2>1. PICK t, C : t = shape /\ C = old.conns
      OBVIOUS
    <2>2. t \in Seq(ChannelShapes) /\ Rebuilt(t, c) /\ Readable(t) /\ KeptChannels(C, conns, c)
      BY <1>2, <1>3, <1>4, <2>1
    <2>3. TreeShape(DOMAIN conns \ DOMAIN C) = t
      BY <1>3, <2>2, RebuiltShape
    <2> QED
      BY <2>1, <2>3
  <1>6. /\ Extends(old.conns, conns) /\ Extends(old.wgs, wgs) /\ Extends(old.dts, dts)
        /\ Extends(old.fields, fields) /\ Extends(old.val, val)
    BY <1>4 DEF Extends, KeptChannels, KeptNodes
  <1>7. ASSUME NEW x \in DOMAIN wgs \cup DOMAIN dts \cup DOMAIN fields, x[1] \in DOMAIN old.conns
         PROVE  x \in DOMAIN old.wgs \cup DOMAIN old.dts \cup DOMAIN old.fields
    <2>1. x[1] <= c
      BY <1>4, <1>7 DEF KeptChannels
    <2> QED
      BY <1>4, <1>7, <2>1 DEF KeptNodes
  <1> QED
    BY <1>5, <1>6, <1>7

(* Loading the exported file by itself adds a copy of what was exported,    *)
(* whatever it was and whatever is there by now: the new Channels stand for *)
(* the exported ones, with everything below them, and the old nodes, their  *)
(* settings and their values are as they were.  It holds for every tree and *)
(* for every history of commands, with any files loaded in between, if no   *)
(* character of a string had been written by hand when it was exported.     *)
THEOREM LoadedIsExported == ExportSpec /\ []InBounds => []LoadRebuilds
  BY LoadInvariance, LInvRebuilds, PTL
=============================================================================
