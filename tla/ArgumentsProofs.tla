--------------------------- MODULE ArgumentsProofs --------------------------
(***************************************************************************)
(* The address of a run stays allocated until its end (AddressAlive), and   *)
(* cleanup frees nothing twice until a file is edited (NothingFreedTwice),  *)
(* for every command line and every contents of the configuration files.    *)
(*                                                                         *)
(* cleanup leaves transport_profile and address_url dangling, so the next   *)
(* run has to set again whatever the last one had set.  What a run will set *)
(* is said here of the words of the command line (MakesProfile,             *)
(* MakesAddressAgain), over the turns the loop of interpretArguments makes; *)
(* SpecifiedByLast ties inputSpecified, which decides on the default file,  *)
(* to the same words.                                                       *)
(*                                                                         *)
(* The second half is what a run starts with (LastOptionWins,               *)
(* RestartReproduces).  Every turn of the loop hears an address, digits for *)
(* the address there is, or nothing (Heard), so that port and address are   *)
(* always what the options so far say (Configured); a default file is       *)
(* generated from what was obeyed and says it again.  From the first run on *)
(* its port and address are what command line and files say (FirstKept):    *)
(* digits written into argv change nothing, as the run that wrote them      *)
(* writes them again.                                                       *)
(***************************************************************************)
EXTENDS Arguments, SequenceTheorems, WellFoundedInduction, TLAPS

(* How many words of argv an option takes, and the positions at which the   *)
(* loop of interpretArguments turns: the first, and each that is reached    *)
(* from one of them.                                                        *)
Width(a, k) == IF a[k] \in {"-sp", "-cp", "-f"} THEN 2 ELSE 1
Places(a) == 1 .. Len(a) + 1
Closed(a, S) == 1 \in S /\ \A k \in S : k <= Len(a) /\ k + Width(a, k) <= Len(a) + 1 => k + Width(a, k) \in S
Turns(a) == {k \in Places(a) : \A S \in SUBSET Places(a) : Closed(a, S) => k \in S}

There(f, n) == n \in DOMAIN f /\ f[n] # Missing
HasUrl(f, n) == n \in DOMAIN f /\ \E l \in DOMAIN f[n] : f[n][l].is = "udp"

\* Turns that make a new transport_profile or address_url, given the files f,
MakesProfile(a, k) == a[k] \in DOMAIN UrlOf /\ UrlOf[a[k]].kind = "eth" /\ k < Len(a)
MakesAddress(a, f, k) ==
  \/ a[k] = "-f" /\ k < Len(a) /\ HasUrl(f, a[k + 1])
  \/ a[k] = "-df" /\ HasUrl(f, Default)

\* and those that set inputSpecified, the last of which leaves it FALSE.
Specifies(a, k) == a[k] \in {"-sp", "-cp", "-f"} \cup DOMAIN UrlOf
LastSpecifies(a, k, n) ==
  k \in Turns(a) /\ k < n /\ Specifies(a, k) /\ \A l \in Turns(a) : k < l /\ l < n => ~ Specifies(a, l)
Unspecified(a, f) ==
  \/ \A k \in Turns(a) : k <= Len(a) => ~ Specifies(a, k)
  \/ \E k \in Turns(a) : LastSpecifies(a, k, Len(a) + 1) /\ a[k] = "-f" /\ ~ There(f, a[k + 1])

Stale(k) == k # Null /\ heap[k].freed
MakesAddressAgain(a, f, n) ==
  \/ \E k \in Turns(a) : n <= k /\ k <= Len(a) /\ MakesAddress(a, f, k)
  \/ HasUrl(f, Default) /\ Unspecified(a, f)

\* A heap, and one that came of the heap h without anything being freed.
IsHeap(h) ==
  /\ h \in Seq(Range(h))
  /\ \A k \in DOMAIN h : h[k] = [text |-> h[k].text, freed |-> h[k].freed] /\ h[k].freed \in BOOLEAN
Grown(h, g) ==
  /\ IsHeap(g) /\ DOMAIN h \subseteq DOMAIN g
  /\ \A k \in DOMAIN h : g[k].freed = h[k].freed
  /\ \A k \in DOMAIN g \ DOMAIN h : ~ g[k].freed

Blocks ==
  /\ IsHeap(heap)
  /\ profile \in {Null} \cup DOMAIN heap /\ address \in {Null} \cup DOMAIN heap

Place ==
  /\ args \in CommandLines /\ pc \in {"start", "args", "running", "exited", "aborted"}
  /\ pc = "args" => i \in Turns(args)
  /\ Default \in DOMAIN file /\ \A n \in DOMAIN file : file[n] \in Seq(Range(file[n]))

Pointing ==
  pc \in {"args", "running"} /\ url.at = "heap" => address # Null /\ url = Block(address) /\ ~ heap[address].freed

SpecifiedByLast ==
  /\ (\A k \in Turns(args) : k <= Len(args) => ~ Specifies(args, k)) => ~ specified
  /\ pc = "args" => \A k \in Turns(args) : LastSpecifies(args, k, i) =>
       /\ specified => args[k] # "-f" \/ There(file, args[k + 1])
       /\ ~ specified => args[k] = "-f" /\ (There(file, args[k + 1]) => args[k + 1] = Default)

MadeAgain ==
  /\ pc = "start" =>
       /\ profile # Null => \E k \in Turns(args) : MakesProfile(args, k)
       /\ address # Null => MakesAddressAgain(args, file, 1)
  /\ pc = "args" =>
       /\ profile # Null => \E k \in Turns(args) : MakesProfile(args, k)
       /\ address # Null => MakesAddressAgain(args, file, 1)
       /\ Stale(profile) => \E k \in Turns(args) : i <= k /\ MakesProfile(args, k)
       /\ Stale(address) => MakesAddressAgain(args, file, i)
  /\ pc = "running" =>
       /\ ~ Stale(profile) /\ ~ Stale(address)
       /\ profile # Null => \E k \in Turns(args) : MakesProfile(args, k)
       /\ address # Null => MakesAddressAgain(args, file, 1)
  /\ pc # "aborted"

IInv == Blocks /\ Place /\ Pointing /\ SpecifiedByLast /\ (~ edited => MadeAgain)

-----------------------------------------------------------------------------
(* Induction, and what folding over the lines of a file computes.           *)

\* The least number principle, from which induction over Nat follows.
LEMMA LeastNumber ==
  ASSUME NEW S, S \subseteq Nat, S # {}
  PROVE  \E m \in S : \A n \in S : m <= n
  <1>1. PICK R : R = {p \in Nat \X Nat : p[1] < p[2]}
    OBVIOUS
  <1>2. IsWellFoundedOn(R, Nat)
    BY <1>1, NatLessThanWellFounded DEF OpToRel
  <1>3. PICK m \in S : \A n \in S : ~ (<<n, m>> \in R)
    BY <1>2, WFMin
  <1>4. ASSUME NEW n \in S PROVE m <= n
    <2>1. n \in Nat /\ m \in Nat /\ <<n, m>> \notin R
      BY <1>3
    <2>2. <<n, m>> \in Nat \X Nat
      BY <2>1
    <2> QED BY <1>1, <2>1, <2>2
  <1> QED BY <1>3, <1>4

LEMMA Induct ==
  ASSUME NEW S, 0 \in S, \A n \in S \cap Nat : n + 1 \in S
  PROVE  Nat \subseteq S
  <1>1. SUFFICES ASSUME Nat \ S # {} PROVE FALSE
    OBVIOUS
  <1>2. PICK m \in Nat \ S : \A n \in Nat \ S : m <= n
    BY <1>1, LeastNumber
  <1>3. m # 0 /\ m - 1 \in Nat
    BY <1>2
  <1>4. m - 1 \in S
    BY <1>2, <1>3
  <1>5. (m - 1) + 1 \in S
   BY <1>3, <1>4
  <1> QED BY <1>2, <1>5

\* FoldLeft as the community modules define it: over sets of indices, the
\* greatest of which is read last.
Top(s) == CHOOSE x \in s : \A y \in s : x >= y
Step(g, d0, lines, s) == IF s = {} THEN d0 ELSE DecodeLine(g[s \ {Top(s)}], lines[Top(s)])

Folds(g, d0, lines, n) == g = [s \in SUBSET (1 .. n) |-> Step(g, d0, lines, s)]

LEMMA FoldDef ==
  ASSUME NEW d0, NEW lines
  PROVE  FoldLeft(DecodeLine, d0, lines) =
           (CHOOSE g : g = [s \in SUBSET DOMAIN lines |-> Step(g, d0, lines, s)])[DOMAIN lines]
  BY DEF FoldLeft, MapThenFoldSet, Step, Top, Max

LEMMA TopIs ==
  ASSUME NEW m \in Nat, NEW s, s \subseteq 1 .. m, m \in s
  PROVE  Top(s) = m
  <1>1. m \in s /\ \A y \in s : m >= y
    OBVIOUS
  <1>2. Top(s) \in s /\ \A y \in s : Top(s) >= y
    BY <1>1, Zenon DEF Top
  <1>3. Top(s) \in 1 .. m /\ Top(s) >= m
    BY <1>2
  <1> QED BY <1>3

\* There is a function that satisfies the definition.
LEMMA FoldExists ==
  ASSUME NEW d0, NEW lines, NEW n \in Nat
  PROVE  \E g : Folds(g, d0, lines, n)
  <1> DEFINE S == {m \in Nat : \E g : Folds(g, d0, lines, m)}
  <1>1. 0 \in S
    <2>1. SUBSET (1 .. 0) = {{}}
      OBVIOUS
    <2> DEFINE g0 == [s \in SUBSET (1 .. 0) |-> d0]
    <2>2. g0 = [s \in SUBSET (1 .. 0) |-> Step(g0, d0, lines, s)]
      BY <2>1 DEF Step
    <2> QED BY <2>2 DEF Folds
  <1>2. ASSUME NEW m \in S \cap Nat PROVE m + 1 \in S
    <2>1. PICK g : g = [s \in SUBSET (1 .. m) |-> Step(g, d0, lines, s)]
      BY DEF Folds
    <2> DEFINE h == [s \in SUBSET (1 .. m + 1) |->
                       IF m + 1 \in s THEN DecodeLine(g[s \ {m + 1}], lines[m + 1]) ELSE g[s]]
    <2>2. ASSUME NEW s \in SUBSET (1 .. m + 1), m + 1 \in s PROVE h[s] = Step(h, d0, lines, s)
      <3>1. m + 1 \in Nat /\ s \subseteq 1 .. m + 1
        OBVIOUS
      <3>1a. Top(s) = m + 1
        BY <2>2, <3>1, TopIs
      <3>2. s \ {m + 1} \in SUBSET (1 .. m + 1) /\ m + 1 \notin s \ {m + 1}
        OBVIOUS
      <3>3. h[s \ {m + 1}] = g[s \ {m + 1}]
        BY <3>2
      <3>4. h[s] = DecodeLine(g[s \ {m + 1}], lines[m + 1])
        BY <2>2
      <3>5. Step(h, d0, lines, s) = DecodeLine(h[s \ {m + 1}], lines[m + 1])
        BY <2>2, <3>1a DEF Step
      <3> QED BY <3>3, <3>4, <3>5
    <2>3. ASSUME NEW s \in SUBSET (1 .. m + 1), m + 1 \notin s PROVE h[s] = Step(h, d0, lines, s)
      <3>1. s \in SUBSET (1 .. m)
        BY <2>3
      <3>2. h[s] = Step(g, d0, lines, s)
        BY <2>1, <2>3, <3>1
      <3>3. s \ {Top(s)} \in SUBSET (1 .. m + 1) /\ m + 1 \notin s \ {Top(s)}
        BY <2>3
      <3>4. h[s \ {Top(s)}] = g[s \ {Top(s)}]
        BY <3>3
      <3> QED BY <3>2, <3>4 DEF Step
    <2>4. h = [s \in SUBSET (1 .. m + 1) |-> Step(h, d0, lines, s)]
      <3> HIDE DEF h
      <3>1. \A s \in SUBSET (1 .. m + 1) : h[s] = Step(h, d0, lines, s)
        BY <2>2, <2>3
      <3>2. h = [s \in SUBSET (1 .. m + 1) |-> h[s]]
        BY DEF h
      <3> QED BY <3>1, <3>2
    <2>5. \E f : Folds(f, d0, lines, m + 1)
      BY <2>4 DEF Folds
    <2> QED BY <2>5
  <1>3. Nat \subseteq S
    BY <1>1, <1>2, Induct
  <1> QED BY <1>3

\* What has been read after k lines.
LEMMA FoldSteps ==
  ASSUME NEW d0, NEW lines, lines \in Seq(Range(lines))
  PROVE  \E r : /\ r[0] = d0
                /\ \A k \in 1 .. Len(lines) : r[k] = DecodeLine(r[k - 1], lines[k])
                /\ r[Len(lines)] = FoldLeft(DecodeLine, d0, lines)
  <1> DEFINE n == Len(lines)
  <1>1. n \in Nat /\ DOMAIN lines = 1 .. n
    OBVIOUS
  <1>2. \E g : Folds(g, d0, lines, n)
    BY <1>1, FoldExists
  <1> HIDE DEF n
  <1> DEFINE G == CHOOSE g : g = [s \in SUBSET (1 .. n) |-> Step(g, d0, lines, s)]
  <1>3. G = [s \in SUBSET (1 .. n) |-> Step(G, d0, lines, s)]
    BY <1>2 DEF Folds
  <1>4. FoldLeft(DecodeLine, d0, lines) = G[1 .. n]
    BY <1>1, FoldDef
  <1> HIDE DEF G
  <1> DEFINE r == [k \in 0 .. n |-> G[1 .. k]]
  <1>5. r[0] = d0
    <2>1. 1 .. 0 = {} /\ {} \in SUBSET (1 .. n) /\ 0 \in 0 .. n
      BY <1>1
    <2>2. r[0] = G[{}]
      BY <2>1
    <2> QED BY <1>3, <2>1, <2>2 DEF Step
  <1>6. ASSUME NEW k \in 1 .. n PROVE r[k] = DecodeLine(r[k - 1], lines[k])
    <2>1. k \in Nat /\ k \in 0 .. n /\ k - 1 \in 0 .. n /\ k \in 1 .. k /\ 1 .. k \in SUBSET (1 .. n)
      BY <1>1
    <2>2. Top(1 .. k) = k
      BY <2>1, TopIs
    <2>3. (1 .. k) \ {k} = 1 .. (k - 1) /\ 1 .. k # {}
      BY <2>1
    <2>4. G[1 .. k] = Step(G, d0, lines, 1 .. k)
      BY <1>3, <2>1
    <2>5. G[1 .. k] = DecodeLine(G[1 .. (k - 1)], lines[k])
      BY <2>2, <2>3, <2>4 DEF Step
    <2>6. r[k] = G[1 .. k] /\ r[k - 1] = G[1 .. (k - 1)]
      BY <2>1
    <2> QED BY <2>5, <2>6
  <1>7. r[n] = FoldLeft(DecodeLine, d0, lines)
    BY <1>1, <1>4
  <1> HIDE DEF r
  <1> QED BY <1>5, <1>6, <1>7 DEF n

-----------------------------------------------------------------------------
(* The heap.                                                                *)

LEMMA IsSequence ==
  ASSUME NEW s, NEW n \in Nat, NEW T, s \in [1 .. n -> T]
  PROVE  s \in Seq(Range(s)) /\ Len(s) = n
  <1>1. \A k \in 1 .. n : s[k] \in Range(s)
    BY DEF Range
  <1>2. s \in [1 .. n -> Range(s)]
    BY <1>1
  <1>3. s \in Seq(Range(s))
    BY <1>2
  <1>4. Len(s) = n
    BY <1>2, <1>3, LenProperties
  <1> QED BY <1>3, <1>4

LEMMA IsPair ==
  ASSUME NEW x, NEW y
  PROVE  <<x, y>> \in Seq(Range(<<x, y>>)) /\ DOMAIN <<x, y>> = 1 .. 2
  <1>1. <<x, y>> \in [1 .. 2 -> {x, y}]
    OBVIOUS
  <1> QED BY <1>1, IsSequence

LEMMA FilesTyped ==
  ASSUME NEW n \in DOMAIN Files, NEW lines \in Files[n]
  PROVE  lines \in Seq(Range(lines))
  <1>1. lines \in Seq(Line)
    BY ArgumentsOK
  <1>2. lines \in [1 .. Len(lines) -> Line] /\ Len(lines) \in Nat
    BY <1>1
  <1> QED BY <1>2, IsSequence

LEMMA HeapDomain ==
  ASSUME NEW h, IsHeap(h)
  PROVE  Len(h) \in Nat /\ DOMAIN h = 1 .. Len(h) /\ Null \notin DOMAIN h
  BY DEF IsHeap, Null

LEMMA Appended ==
  ASSUME NEW h, IsHeap(h), NEW e, e = [text |-> e.text, freed |-> FALSE]
  PROVE  /\ Grown(h, Append(h, e)) /\ Len(Append(h, e)) = Len(h) + 1
         /\ Len(h) + 1 \in DOMAIN Append(h, e) \ DOMAIN h
  <1> DEFINE T == Range(h) \cup {e}
             g == Append(h, e)
  <1>1. h \in Seq(T) /\ e \in T
    <2>1. h \in [1 .. Len(h) -> Range(h)] /\ Len(h) \in Nat
      BY DEF IsHeap
    <2>2. h \in [1 .. Len(h) -> T]
      BY <2>1
    <2> QED BY <2>1, <2>2
  <1> HIDE DEF T
  <1>2. g \in Seq(T) /\ Len(g) = Len(h) + 1 /\ (\A k \in 1 .. Len(h) : g[k] = h[k]) /\ g[Len(h) + 1] = e
    BY <1>1, AppendProperties
  <1> HIDE DEF g
  <1>3. Len(h) \in Nat /\ DOMAIN h = 1 .. Len(h)
    BY HeapDomain
  <1>4. g \in [1 .. Len(g) -> T] /\ Len(g) \in Nat /\ DOMAIN g = 1 .. Len(g)
    BY <1>2
  <1>5. g \in Seq(Range(g))
    BY <1>4, IsSequence
  <1>6. ASSUME NEW k \in DOMAIN g PROVE IF k \in DOMAIN h THEN g[k] = h[k] ELSE g[k] = e
    BY <1>2, <1>3, <1>4
  <1>7. Grown(h, g)
    <2>1. DOMAIN h \subseteq DOMAIN g
      BY <1>2, <1>3, <1>4
    <2>2. e.freed = FALSE
      OBVIOUS
    <2>3. ASSUME NEW k \in DOMAIN g
          PROVE  g[k] = [text |-> g[k].text, freed |-> g[k].freed] /\ g[k].freed \in BOOLEAN
      <3>1. CASE k \in DOMAIN h
        BY <1>6, <3>1 DEF IsHeap
      <3>2. CASE k \notin DOMAIN h
        BY <1>6, <2>2, <3>2
      <3> QED BY <3>1, <3>2
    <2>4. \A k \in DOMAIN h : g[k].freed = h[k].freed
      BY <1>6, <2>1
    <2>5. \A k \in DOMAIN g \ DOMAIN h : ~ g[k].freed
      BY <1>6, <2>2
    <2> QED BY <1>5, <2>1, <2>3, <2>4, <2>5 DEF IsHeap, Grown
  <1>8. Len(h) + 1 \in DOMAIN g \ DOMAIN h
    BY <1>2, <1>3, <1>4
  <1> QED BY <1>2, <1>7, <1>8 DEF g

LEMMA Freed ==
  ASSUME NEW b, b = [text |-> b.text, freed |-> b.freed], NEW c, c = [b EXCEPT !.freed = TRUE]
  PROVE  c = [text |-> b.text, freed |-> TRUE]
  OBVIOUS

\* Changing the text of a block, or leaving the heap alone.
LEMMA Rewritten ==
  ASSUME NEW h, IsHeap(h), NEW k, NEW u, NEW g, g = [h EXCEPT ![k].text = u] \/ g = h
  PROVE  Grown(h, g)
  <1>1. Len(h) \in Nat /\ DOMAIN h = 1 .. Len(h) /\ h = [j \in 1 .. Len(h) |-> h[j]]
    BY HeapDomain DEF IsHeap
  <1>1a. g \in [1 .. Len(h) -> {g[j] : j \in 1 .. Len(h)}] /\ DOMAIN g = DOMAIN h
    BY <1>1
  <1>2. g \in Seq(Range(g)) /\ DOMAIN g = DOMAIN h
    BY <1>1, <1>1a, IsSequence
  <1>3. ASSUME NEW j \in DOMAIN h
        PROVE  g[j] = [text |-> g[j].text, freed |-> g[j].freed] /\ g[j].freed = h[j].freed
    <2>1. h[j] = [text |-> h[j].text, freed |-> h[j].freed]
      BY DEF IsHeap
    <2>2. CASE j = k /\ g # h
      <3>1. g[j] = [h[j] EXCEPT !.text = u]
        BY <2>2
      <3>2. g[j] = [text |-> u, freed |-> h[j].freed]
        BY <2>1, <3>1
      <3> QED BY <3>2
    <2>3. CASE j # k \/ g = h
      BY <2>1, <2>3
    <2> QED BY <2>2, <2>3
  <1> QED BY <1>2, <1>3 DEF IsHeap, Grown

LEMMA GrownTwice ==
  ASSUME NEW h, NEW g, NEW f, Grown(h, g), Grown(g, f)
  PROVE  Grown(h, f)
  BY DEF Grown

-----------------------------------------------------------------------------
(* What reading a file does: the heap grows, and the address is a new block *)
(* when a line of the file says one.                                        *)
Says(lines, n) == \E j \in 1 .. n : lines[j].is = "udp"
Result(d, e, says) ==
  /\ e = [heap |-> e.heap, address |-> e.address, url |-> e.url, serverPort |-> e.serverPort]
  /\ Grown(d.heap, e.heap)
  /\ ~ says => e.address = d.address /\ e.url = d.url
  /\ says => e.address \in DOMAIN e.heap \ DOMAIN d.heap /\ e.url = Block(e.address)

LEMMA LineRead ==
  ASSUME NEW d, d = [heap |-> d.heap, address |-> d.address, url |-> d.url, serverPort |-> d.serverPort],
         IsHeap(d.heap), NEW l
  PROVE  Result(d, DecodeLine(d, l), l.is = "udp")
  <1> DEFINE e == DecodeLine(d, l)
  <1>1. CASE l.is = "udp"
    <2> DEFINE b == [text |-> LineUrl(l), freed |-> FALSE]
               n == Len(d.heap) + 1
    <2>1. e = [heap |-> Append(d.heap, b), address |-> n, url |-> Block(n), serverPort |-> d.serverPort]
      BY <1>1 DEF DecodeLine
    <2>2. b = [text |-> b.text, freed |-> FALSE]
      OBVIOUS
    <2> HIDE DEF b
    <2>3. Grown(d.heap, Append(d.heap, b)) /\ n \in DOMAIN Append(d.heap, b) \ DOMAIN d.heap
      BY <2>2, Appended
    <2> HIDE DEF n, e
    <2>4. e.heap = Append(d.heap, b) /\ e.address = n /\ e.url = Block(n)
      BY <2>1
    <2> QED BY <1>1, <2>1, <2>3, <2>4 DEF Result, e
  <1>2. CASE l.is # "udp"
    <2>1. /\ e = [heap |-> e.heap, address |-> e.address, url |-> e.url, serverPort |-> e.serverPort]
          /\ e.heap = d.heap /\ e.address = d.address /\ e.url = d.url
      BY <1>2 DEF DecodeLine
    <2>2. Grown(d.heap, d.heap)
      BY Rewritten
    <2> QED BY <1>2, <2>1, <2>2 DEF Result
  <1> QED BY <1>1, <1>2

LEMMA LinesRead ==
  ASSUME NEW d, d = [heap |-> d.heap, address |-> d.address, url |-> d.url, serverPort |-> d.serverPort],
         IsHeap(d.heap), NEW lines, lines \in Seq(Range(lines))
  PROVE  Result(d, FoldLeft(DecodeLine, d, lines), Says(lines, Len(lines)))
  <1>1. PICK r : /\ r[0] = d
                 /\ \A k \in 1 .. Len(lines) : r[k] = DecodeLine(r[k - 1], lines[k])
                 /\ r[Len(lines)] = FoldLeft(DecodeLine, d, lines)
    BY FoldSteps
  <1> DEFINE S == {k \in Nat : k <= Len(lines) => Result(d, r[k], Says(lines, k))}
  <1>2. 0 \in S
    <2>1. ~ Says(lines, 0)
      BY DEF Says
    <2>2. Grown(d.heap, d.heap)
      BY Rewritten
    <2> QED BY <1>1, <2>1, <2>2 DEF Result
  <1>3. ASSUME NEW k \in S \cap Nat PROVE k + 1 \in S
    <2>1. SUFFICES ASSUME k + 1 <= Len(lines) PROVE Result(d, r[k + 1], Says(lines, k + 1))
      OBVIOUS
    <2>2. Len(lines) \in Nat /\ k <= Len(lines) /\ k + 1 \in 1 .. Len(lines)
      BY <2>1
    <2>3. Result(d, r[k], Says(lines, k))
      BY <2>2
    <2>4. r[k + 1] = DecodeLine(r[k], lines[k + 1])
      BY <1>1, <2>2
    <2>5. Result(r[k], r[k + 1], lines[k + 1].is = "udp")
      <3>1. /\ r[k] = [heap |-> r[k].heap, address |-> r[k].address, url |-> r[k].url, serverPort |-> r[k].serverPort]
            /\ IsHeap(r[k].heap)
        BY <2>3 DEF Result, Grown
      <3> QED BY <2>4, <3>1, LineRead
    <2>6. Says(lines, k + 1) <=> Says(lines, k) \/ lines[k + 1].is = "udp"
      BY DEF Says
    <2> HIDE DEF S
    <2>7. Grown(d.heap, r[k + 1].heap)
      BY <2>3, <2>5, GrownTwice DEF Result
    <2>8. DOMAIN d.heap \subseteq DOMAIN r[k].heap /\ DOMAIN r[k].heap \subseteq DOMAIN r[k + 1].heap
      BY <2>3, <2>5 DEF Result, Grown
    <2>9. CASE lines[k + 1].is = "udp"
      BY <2>5, <2>6, <2>7, <2>8, <2>9 DEF Result
    <2>10. CASE lines[k + 1].is # "udp"
      BY <2>3, <2>5, <2>6, <2>7, <2>8, <2>10 DEF Result
    <2> QED BY <2>9, <2>10
  <1>4. Nat \subseteq S
    BY <1>2, <1>3, Induct
  <1>5. Len(lines) \in Nat
    OBVIOUS
  <1> QED BY <1>1, <1>4, <1>5

LEMMA FileRead ==
  ASSUME Blocks, NEW lines, lines \in Seq(Range(lines)), DecodeFile(lines)
  PROVE  /\ Grown(heap, heap')
         /\ (\A j \in DOMAIN lines : lines[j].is # "udp") => address' = address /\ url' = url
         /\ (\E j \in DOMAIN lines : lines[j].is = "udp") =>
              address' \in DOMAIN heap' \ DOMAIN heap /\ url' = Block(address')
  <1> DEFINE d == [heap |-> heap, address |-> address, url |-> url, serverPort |-> serverPort]
             e == FoldLeft(DecodeLine, d, lines)
  <1>1. heap' = e.heap /\ address' = e.address /\ url' = e.url
    BY DEF DecodeFile
  <1>2. Result(d, e, Says(lines, Len(lines)))
    <2>1. d = [heap |-> d.heap, address |-> d.address, url |-> d.url, serverPort |-> d.serverPort] /\ IsHeap(d.heap)
      BY DEF Blocks
    <2> HIDE DEF d
    <2> QED BY <2>1, LinesRead
  <1>3. d.heap = heap /\ d.address = address /\ d.url = url
    OBVIOUS
  <1>4. Says(lines, Len(lines)) <=> \E j \in DOMAIN lines : lines[j].is = "udp"
    BY DEF Says
  <1> HIDE DEF d, e
  <1> QED BY <1>1, <1>2, <1>3, <1>4 DEF Result

-----------------------------------------------------------------------------
(* The turns of the loop over argv.                                         *)

LEMMA FirstTurn == ASSUME NEW a, Len(a) \in Nat PROVE 1 \in Turns(a)
  BY DEF Turns, Places, Closed

LEMMA NextTurn ==
  ASSUME NEW a, Len(a) \in Nat, NEW k \in Turns(a), k <= Len(a), k + Width(a, k) <= Len(a) + 1
  PROVE  k + Width(a, k) \in Turns(a)
  <1>1. k \in Places(a) /\ Width(a, k) \in {1, 2}
    BY DEF Turns, Width
  <1>2. k + Width(a, k) \in Places(a)
    BY <1>1 DEF Places
  <1>3. ASSUME NEW S \in SUBSET Places(a), Closed(a, S) PROVE k + Width(a, k) \in S
    <2>1. k \in S
      BY <1>3 DEF Turns
    <2> QED BY <1>3, <2>1 DEF Closed
  <1> QED BY <1>2, <1>3 DEF Turns

LEMMA TurnsInside ==
  ASSUME NEW a, NEW S, S \subseteq Turns(a), Closed(a, S)
  PROVE  Turns(a) \subseteq S
  BY DEF Turns

\* The loop never turns at the parameter of an option.
LEMMA Apart ==
  ASSUME NEW a, Len(a) \in Nat, NEW n \in Turns(a), NEW k \in Turns(a), k < n
  PROVE  k + Width(a, k) <= n
  <1> DEFINE Good == {j \in Turns(a) : \A l \in Turns(a) : l < j => l + Width(a, l) <= j}
  <1>1. \A j : Width(a, j) \in {1, 2}
    BY DEF Width
  <1>2. \A j \in Turns(a) : j \in Nat /\ j >= 1 /\ j <= Len(a) + 1
    BY DEF Turns, Places
  <1>3. 1 \in Good
    BY <1>2, FirstTurn
  <1>4. ASSUME NEW j \in Good, j <= Len(a), j + Width(a, j) <= Len(a) + 1 PROVE j + Width(a, j) \in Good
    <2> DEFINE m == j + Width(a, j)
               S == {l \in Turns(a) : l <= j \/ m <= l}
    <2>1. m \in Turns(a) /\ j \in Turns(a)
      BY <1>4, NextTurn
    <2>2. \A l \in Turns(a) : l < j => l + Width(a, l) <= j
      OBVIOUS
    <2>3. Closed(a, S)
      <3>1. 1 \in S
        BY <1>2, <2>1, FirstTurn
      <3>2. ASSUME NEW l \in S, l <= Len(a), l + Width(a, l) <= Len(a) + 1 PROVE l + Width(a, l) \in S
        <4>1. l \in Turns(a) /\ l + Width(a, l) \in Turns(a)
          BY <3>2, NextTurn
        <4>2. CASE l < j
          BY <1>1, <1>2, <2>1, <2>2, <4>1, <4>2
        <4>3. CASE l = j
          BY <1>2, <2>1, <4>1, <4>3
        <4>4. CASE m <= l
          BY <1>1, <1>2, <2>1, <4>1, <4>4
        <4> QED BY <1>2, <2>1, <4>1, <4>2, <4>3, <4>4
      <3> HIDE DEF S
      <3> QED BY <3>1, <3>2 DEF Closed
    <2>4. Turns(a) \subseteq S
      BY <2>3, TurnsInside
    <2>5. ASSUME NEW l \in Turns(a), l < m PROVE l + Width(a, l) <= m
      <3>1. l <= j
        BY <1>1, <1>2, <2>1, <2>4, <2>5
      <3>2. CASE l = j
        BY <1>1, <1>2, <2>1, <3>2
      <3>3. CASE l < j
        BY <1>1, <1>2, <2>1, <2>2, <3>3
      <3> QED BY <1>2, <2>1, <3>1, <3>2, <3>3
    <2> HIDE DEF m
    <2> QED BY <2>1, <2>5 DEF m
  <1>5. Closed(a, Good)
    <2> HIDE DEF Good
    <2> QED BY <1>3, <1>4 DEF Closed
  <1>6. Turns(a) \subseteq Good
    <2>1. Good \subseteq Turns(a)
      OBVIOUS
    <2> HIDE DEF Good
    <2> QED BY <1>5, <2>1, TurnsInside
  <1> QED BY <1>6

\* A turn at k passes k and no other turn.
LEMMA OneTurn ==
  ASSUME NEW a, Len(a) \in Nat, NEW k \in Turns(a), NEW l \in Turns(a)
  PROVE  /\ k \in Nat /\ l \in Nat
         /\ l < k + Width(a, k) <=> l <= k
         /\ k + Width(a, k) <= l <=> k < l
  <1>1. k \in Nat /\ l \in Nat /\ Width(a, k) \in {1, 2}
    BY DEF Turns, Places, Width
  <1>2. k < l => k + Width(a, k) <= l
    BY Apart
  <1> QED BY <1>1, <1>2

-----------------------------------------------------------------------------
(* What a turn does, as far as the invariant can tell.                      *)

FileGrown(f, g) ==
  /\ DOMAIN g = DOMAIN f
  /\ \A n \in DOMAIN f : \/ g[n] = f[n]
                         \/ n = Default /\ f[n] = Missing /\ g[n] # Missing /\ g[n] \in Seq(Range(g[n]))

Turn ==
  /\ pc = "args" /\ i <= Len(args) /\ i + Width(args, i) <= Len(args) + 1
  /\ pc' = pc /\ i' = i + Width(args, i) /\ args' = args /\ edited' = edited
  /\ FileGrown(file, file') /\ Grown(heap, heap')
  /\ IF MakesProfile(args, i) THEN profile' \in DOMAIN heap' \ DOMAIN heap ELSE profile' = profile
  /\ IF MakesAddress(args, file, i) THEN address' \in DOMAIN heap' \ DOMAIN heap ELSE address' = address
  /\ url'.at = "heap" => IF MakesAddress(args, file, i) THEN url' = Block(address') ELSE url' = url
  /\ IF Specifies(args, i) THEN specified' <=> ~ (args[i] = "-f" /\ ~ There(file, args[i + 1]))
     ELSE specified' = specified

LEMMA UrlKept ==
  ASSUME NEW f, NEW g, FileGrown(f, g), NEW n, HasUrl(f, n)
  PROVE  f[n] # Missing /\ g[n] = f[n] /\ HasUrl(g, n)
  <1>1. f[n] # Missing
    <2>1. SUFFICES ASSUME f[n] = Missing PROVE FALSE
      OBVIOUS
    <2>2. PICK l \in DOMAIN f[n] : f[n][l].is = "udp"
      BY DEF HasUrl
    <2>3. l = 1 /\ Missing[1].is = "missing"
      BY <2>1, <2>2 DEF Missing
    <2> QED BY <2>1, <2>2, <2>3
  <1>2. g[n] = f[n]
    BY <1>1 DEF FileGrown, HasUrl
  <1> QED BY <1>1, <1>2 DEF HasUrl, FileGrown

LEMMA MadeStill ==
  ASSUME NEW f, NEW g, FileGrown(f, g), NEW a, NEW n
  PROVE  /\ \A k : MakesAddress(a, f, k) => MakesAddress(a, g, k)
         /\ MakesAddressAgain(a, f, n) => MakesAddressAgain(a, g, n)
  <1>1. \A k : MakesAddress(a, f, k) => MakesAddress(a, g, k)
    BY UrlKept DEF MakesAddress
  <1>2. ASSUME HasUrl(f, Default), Unspecified(a, f) PROVE HasUrl(g, Default) /\ Unspecified(a, g)
    <2>1. HasUrl(g, Default) /\ f[Default] # Missing /\ g[Default] = f[Default]
      BY <1>2, UrlKept
    <2>2. \A k : There(g, a[k + 1]) => There(f, a[k + 1])
      BY <2>1 DEF There, FileGrown
    <2> QED BY <1>2, <2>1, <2>2 DEF Unspecified
  <1> QED BY <1>1, <1>2 DEF MakesAddressAgain

LEMMA ArgsTyped == ASSUME Place PROVE Len(args) \in Nat /\ DOMAIN args = 1 .. Len(args)
  <1>1. args \in Seq(STRING)
    BY ArgumentsOK DEF Place
  <1> QED BY <1>1

LEMMA TurnKeeps == ASSUME IInv, Turn PROVE IInv'
  <1> USE DEF IInv
  <1>1. Len(args) \in Nat /\ i \in Turns(args) /\ pc = "args"
    BY ArgsTyped DEF Place, Turn
  <1>2. i' \in Turns(args)
    BY <1>1, NextTurn DEF Turn
  <1>3. \A l \in Turns(args) : i \in Nat /\ l \in Nat /\ (l < i' <=> l <= i) /\ (i' <= l <=> i < l)
    BY <1>1, OneTurn DEF Turn
  <1>4. Null \notin DOMAIN heap /\ Null \notin DOMAIN heap'
    BY HeapDomain DEF Blocks, Turn, Grown
  <1>5. Blocks'
    BY DEF Blocks, Turn, Grown
  <1>6. Place'
    <2>1. \A n \in DOMAIN file' : file'[n] \in Seq(Range(file'[n]))
      BY DEF Place, Turn, FileGrown
    <2>2. Default \in DOMAIN file'
      BY DEF Place, Turn, FileGrown
    <2> QED BY <1>2, <2>1, <2>2 DEF Place, Turn
  <1>7. Pointing'
    <2>1. SUFFICES ASSUME url'.at = "heap"
                   PROVE  address' # Null /\ url' = Block(address') /\ ~ heap'[address'].freed
      BY DEF Pointing
    <2>2. CASE MakesAddress(args, file, i)
      BY <1>4, <2>1, <2>2 DEF Turn, Grown
    <2>3. CASE ~ MakesAddress(args, file, i)
      BY <1>1, <2>1, <2>3 DEF Turn, Grown, Pointing, Blocks
    <2> QED BY <2>2, <2>3
  <1>8. SpecifiedByLast'
    <2>1. ASSUME \A k \in Turns(args) : k <= Len(args) => ~ Specifies(args, k) PROVE ~ specified'
      <3>1. ~ Specifies(args, i) /\ ~ specified
        BY <1>1, <2>1 DEF SpecifiedByLast, Turn
      <3> QED BY <3>1 DEF Turn
    <2>2. ASSUME NEW k \in Turns(args), LastSpecifies(args, k, i')
          PROVE  /\ specified' => args[k] # "-f" \/ There(file', args[k + 1])
                 /\ ~ specified' => args[k] = "-f" /\ (There(file', args[k + 1]) => args[k + 1] = Default)
      <3>1. \A n : There(file, n) => There(file', n)
        BY DEF There, Turn, FileGrown
      <3>2. \A n : There(file', n) /\ ~ There(file, n) => n = Default
        BY DEF There, Turn, FileGrown
      <3>3. k <= i /\ Specifies(args, k)
        BY <1>3, <2>2 DEF LastSpecifies
      <3>4. CASE k = i
        BY <3>1, <3>2, <3>3, <3>4 DEF Turn
      <3>5. CASE k < i
        <4>1. ~ Specifies(args, i)
          BY <1>1, <1>3, <2>2, <3>5 DEF LastSpecifies
        <4>2. LastSpecifies(args, k, i)
          <5>1. \A l \in Turns(args) : l < i => l < i'
            BY <1>3
          <5> QED BY <2>2, <3>5, <5>1 DEF LastSpecifies
        <4> QED BY <1>1, <3>1, <3>2, <4>1, <4>2 DEF Turn, SpecifiedByLast
      <3> QED BY <1>1, <1>3, <3>3, <3>4, <3>5
    <2> QED BY <2>1, <2>2 DEF SpecifiedByLast, Turn
  <1>9. ASSUME ~ edited PROVE MadeAgain'
    <2>1. profile' # Null => \E k \in Turns(args) : MakesProfile(args, k)
      BY <1>1, <1>9 DEF MadeAgain, Turn
    <2>2. address' # Null => MakesAddressAgain(args, file', 1)
      <3>1. CASE MakesAddress(args, file, i)
        <4>1. MakesAddress(args, file', i)
          BY <3>1, MadeStill DEF Turn
        <4>2. 1 <= i /\ i <= Len(args)
          BY <1>1 DEF Turn, Turns, Places
        <4> QED BY <1>1, <4>1, <4>2 DEF MakesAddressAgain
      <3>2. CASE ~ MakesAddress(args, file, i)
        BY <1>1, <1>9, <3>2, MadeStill DEF MadeAgain, Turn
      <3> QED BY <3>1, <3>2
    <2>3. ASSUME Stale(profile)' PROVE \E k \in Turns(args) : i' <= k /\ MakesProfile(args, k)
      <3>1. ~ MakesProfile(args, i) /\ profile' = profile
        BY <2>3 DEF Stale, Turn, Grown
      <3>2. Stale(profile)
        BY <2>3, <3>1 DEF Stale, Turn, Grown, Blocks
      <3>3. PICK k \in Turns(args) : i <= k /\ MakesProfile(args, k)
        BY <1>1, <1>9, <3>2 DEF MadeAgain
      <3> QED BY <1>1, <1>3, <3>1, <3>3
    <2>4. ASSUME Stale(address)' PROVE MakesAddressAgain(args, file', i')
      <3>1. ~ MakesAddress(args, file, i) /\ address' = address
        BY <2>4 DEF Stale, Turn, Grown
      <3>2. Stale(address)
        BY <2>4, <3>1 DEF Stale, Turn, Grown, Blocks
      <3>3. MakesAddressAgain(args, file, i)
        BY <1>1, <1>9, <3>2 DEF MadeAgain
      <3>4. MakesAddressAgain(args, file, i')
        <4>1. \A k \in Turns(args) : i <= k /\ MakesAddress(args, file, k) => i' <= k
          BY <1>1, <1>3, <3>1
        <4> QED BY <3>3, <4>1 DEF MakesAddressAgain
      <3> QED BY <3>4, MadeStill DEF Turn
    <2> QED BY <1>1, <2>1, <2>2, <2>3, <2>4 DEF MadeAgain, Turn
  <1>10. edited' = edited
    BY DEF Turn
  <1> QED BY <1>5, <1>6, <1>7, <1>8, <1>9, <1>10

-----------------------------------------------------------------------------
(* Each option makes such a turn.                                           *)

LEMMA HeapSame == ASSUME Blocks, heap' = heap PROVE Grown(heap, heap')
  BY Rewritten DEF Blocks

LEMMA FileSame == ASSUME file' = file PROVE FileGrown(file, file')
  BY DEF FileGrown

LEMMA AddressRewritten ==
  ASSUME Blocks, NEW u, Rewrite(u)
  PROVE  Grown(heap, heap')
  <1>1. heap' = [heap EXCEPT ![url.k].text = u] \/ heap' = heap
    BY DEF Rewrite
  <1> QED BY <1>1, Rewritten DEF Blocks

LEMMA NotOptions ==
  ASSUME NEW t, t \in DOMAIN UrlOf
  PROVE  t \notin {"-sp", "-cp", "-f", "-df"}
  BY ArgumentsOK

LEMMA Parameter ==
  ASSUME Place, i \in Nat, i >= 1, i <= Len(args), args[i] \in {"-sp", "-cp"}
  PROVE  i < Len(args)
  BY ArgsTyped, ArgumentsOK DEF Place

LEMMA ServerPortTurn == ASSUME IInv, ServerPort PROVE Turn
  <1>1. /\ pc = "args" /\ i <= Len(args) /\ args[i] = "-sp" /\ i' = i + 2 /\ pc' = pc /\ edited' = edited
        /\ args' = args /\ file' = file /\ heap' = heap /\ profile' = profile /\ address' = address
        /\ url' = url /\ specified' = TRUE
    BY DEF ServerPort, Option, inputs, history
  <1>2. i \in Nat /\ i >= 1 /\ Len(args) \in Nat
    BY <1>1, ArgsTyped DEF IInv, Place, Turns, Places
  <1>3. i < Len(args)
    BY <1>1, <1>2, Parameter DEF IInv
  <1>4. Width(args, i) = 2 /\ Specifies(args, i) /\ ~ MakesProfile(args, i) /\ ~ MakesAddress(args, file, i)
    BY <1>1, NotOptions DEF Width, Specifies, MakesProfile, MakesAddress
  <1> QED BY <1>1, <1>2, <1>3, <1>4, HeapSame, FileSame DEF IInv, Turn

LEMMA ChannelPortTurn == ASSUME IInv, ChannelPort PROVE Turn
  <1>1. /\ pc = "args" /\ i <= Len(args) /\ args[i] = "-cp" /\ i' = i + 2 /\ pc' = pc /\ edited' = edited
        /\ args' = args /\ file' = file /\ profile' = profile /\ address' = address
        /\ url' = url /\ specified' = TRUE
    BY DEF ChannelPort, Option, inputs, history
  <1>2. i \in Nat /\ i >= 1 /\ Len(args) \in Nat
    BY <1>1, ArgsTyped DEF IInv, Place, Turns, Places
  <1>3. i < Len(args)
    BY <1>1, <1>2, Parameter DEF IInv
  <1>4. Width(args, i) = 2 /\ Specifies(args, i) /\ ~ MakesProfile(args, i) /\ ~ MakesAddress(args, file, i)
    BY <1>1, NotOptions DEF Width, Specifies, MakesProfile, MakesAddress
  <1>5. Grown(heap, heap')
    BY AddressRewritten, HeapSame DEF ChannelPort, IInv
  <1> QED BY <1>1, <1>2, <1>3, <1>4, <1>5, FileSame DEF IInv, Turn

LEMMA ConfigFileTurn == ASSUME IInv, ConfigFile PROVE Turn
  <1> DEFINE n == args[i + 1]
             there == n \in DOMAIN file /\ file[n] # Missing
  <1>1. /\ pc = "args" /\ i < Len(args) /\ args[i] = "-f" /\ i' = i + 2 /\ pc' = pc /\ edited' = edited
        /\ args' = args /\ file' = file /\ profile' = profile /\ (specified' <=> there)
        /\ IF there THEN DecodeFile(file[n]) ELSE heap' = heap /\ address' = address /\ url' = url
    BY DEF ConfigFile, Option, inputs, history
  <1>2. i \in Nat /\ Len(args) \in Nat
    BY <1>1, ArgsTyped DEF IInv, Place, Turns, Places
  <1>3. /\ Width(args, i) = 2 /\ Specifies(args, i) /\ ~ MakesProfile(args, i)
        /\ MakesAddress(args, file, i) <=> HasUrl(file, n)
    BY <1>1, NotOptions DEF Width, Specifies, MakesProfile, MakesAddress
  <1>4. /\ Grown(heap, heap')
        /\ IF HasUrl(file, n) THEN address' \in DOMAIN heap' \ DOMAIN heap /\ url' = Block(address')
           ELSE address' = address /\ url' = url
    <2>1. CASE there
      <3>1. file[n] \in Seq(Range(file[n])) /\ DecodeFile(file[n]) /\ Blocks
        BY <1>1, <2>1 DEF IInv, Place
      <3>2. HasUrl(file, n) <=> \E j \in DOMAIN file[n] : file[n][j].is = "udp"
        BY <2>1 DEF HasUrl
      <3> HIDE DEF n
      <3> QED BY <3>1, <3>2, FileRead
    <2>2. CASE ~ there
      <3>1. ~ HasUrl(file, n)
        BY <2>2, FileSame, UrlKept, <1>1 DEF HasUrl
      <3> QED BY <1>1, <2>2, <3>1, HeapSame DEF IInv
    <2> QED BY <2>1, <2>2
  <1> QED BY <1>1, <1>2, <1>3, <1>4, FileSame DEF Turn, There

\* The default file is read, or written when it is not there.
LEMMA DefaultRead ==
  ASSUME IInv, FromDefaultFile
  PROVE  /\ FileGrown(file, file') /\ Grown(heap, heap') /\ args' = args /\ specified' = specified /\ profile' = profile
         /\ IF HasUrl(file, Default) THEN address' \in DOMAIN heap' \ DOMAIN heap /\ url' = Block(address')
            ELSE address' = address /\ url' = url
  <1>1. args' = args /\ specified' = specified /\ profile' = profile
    BY DEF FromDefaultFile
  <1>2. CASE file[Default] # Missing
    <2>1. file' = file /\ DecodeFile(file[Default]) /\ file[Default] \in Seq(Range(file[Default])) /\ Blocks
      BY <1>2 DEF FromDefaultFile, IInv, Place
    <2>2. HasUrl(file, Default) <=> \E j \in DOMAIN file[Default] : file[Default][j].is = "udp"
      BY DEF HasUrl, IInv, Place
    <2> QED BY <1>1, <2>1, <2>2, FileRead, FileSame
  <1>3. CASE file[Default] = Missing
    <2>1. file' = [file EXCEPT ![Default] = Generated] /\ heap' = heap /\ address' = address /\ url' = url
      BY <1>3 DEF FromDefaultFile
    <2>2. Generated # Missing /\ Generated \in Seq(Range(Generated))
      <3>1. PICK x, y : Generated = <<x, y>>
        BY DEF Generated
      <3>2. Generated \in Seq(Range(Generated)) /\ DOMAIN Generated = 1 .. 2
        BY <3>1, IsPair
      <3>3. DOMAIN Missing = 1 .. 1
        BY DEF Missing
      <3>4. 2 \in DOMAIN Generated /\ 2 \notin DOMAIN Missing
        BY <3>2, <3>3
      <3> QED BY <3>2, <3>4
    <2>3. FileGrown(file, file')
      BY <1>3, <2>1, <2>2 DEF FileGrown
    <2>4. ~ HasUrl(file, Default)
      BY <1>3, <2>3, UrlKept
    <2> QED BY <1>1, <2>1, <2>3, <2>4, HeapSame DEF IInv
  <1> QED BY <1>2, <1>3

LEMMA DefaultFileTurn == ASSUME IInv, DefaultFile PROVE Turn
  <1>1. /\ pc = "args" /\ i <= Len(args) /\ args[i] = "-df" /\ i' = i + 1 /\ pc' = pc /\ edited' = edited
        /\ FromDefaultFile
    BY DEF DefaultFile, Option, history
  <1>2. i \in Nat /\ Len(args) \in Nat
    BY <1>1, ArgsTyped DEF IInv, Place, Turns, Places
  <1>3. /\ Width(args, i) = 1 /\ ~ Specifies(args, i) /\ ~ MakesProfile(args, i)
        /\ MakesAddress(args, file, i) <=> HasUrl(file, Default)
    BY <1>1, NotOptions DEF Width, Specifies, MakesProfile, MakesAddress
  <1> QED BY <1>1, <1>2, <1>3, DefaultRead DEF Turn

LEMMA UdpAddressTurn == ASSUME IInv, UdpAddress PROVE Turn
  <1>1. /\ pc = "args" /\ i <= Len(args) /\ args[i] \in DOMAIN UrlOf /\ UrlOf[args[i]].kind = "udp"
        /\ i' = i + 1 /\ pc' = pc /\ edited' = edited
        /\ args' = args /\ file' = file /\ heap' = heap /\ profile' = profile /\ address' = address
        /\ url' = Argument(i) /\ specified' = TRUE
    BY DEF UdpAddress, Option, inputs, history
  <1>2. i \in Nat /\ Len(args) \in Nat
    BY <1>1, ArgsTyped DEF IInv, Place, Turns, Places
  <1>3. args[i] \notin {"-sp", "-cp", "-f", "-df"}
    BY <1>1, NotOptions
  <1>4. Width(args, i) = 1 /\ Specifies(args, i) /\ ~ MakesProfile(args, i) /\ ~ MakesAddress(args, file, i)
    BY <1>1, <1>3 DEF Width, Specifies, MakesProfile, MakesAddress
  <1>5. url'.at # "heap"
    BY <1>1 DEF Argument
  <1> QED BY <1>1, <1>2, <1>3, <1>4, <1>5, HeapSame, FileSame DEF IInv, Turn

LEMMA EthAddressTurn == ASSUME IInv, EthAddress PROVE Turn
  <1>1. /\ pc = "args" /\ i < Len(args) /\ args[i] \in DOMAIN UrlOf /\ UrlOf[args[i]].kind = "eth"
        /\ i' = i + 1 /\ pc' = pc /\ edited' = edited
        /\ args' = args /\ file' = file /\ heap' = Append(heap, [text |-> MainUrl, freed |-> FALSE])
        /\ profile' = Len(heap') /\ address' = address
        /\ url' = Argument(i) /\ specified' = TRUE
    BY DEF EthAddress, Option, inputs, history
  <1>2. i \in Nat /\ Len(args) \in Nat
    BY <1>1, ArgsTyped DEF IInv, Place, Turns, Places
  <1>3. args[i] \notin {"-sp", "-cp", "-f", "-df"}
    BY <1>1, NotOptions
  <1>4. Width(args, i) = 1 /\ Specifies(args, i) /\ MakesProfile(args, i) /\ ~ MakesAddress(args, file, i)
    BY <1>1, <1>3 DEF Width, Specifies, MakesProfile, MakesAddress
  <1>5. url'.at # "heap"
    BY <1>1 DEF Argument
  <1>6. Grown(heap, heap') /\ profile' \in DOMAIN heap' \ DOMAIN heap
    BY <1>1, Appended DEF IInv, Blocks
  <1> QED BY <1>1, <1>2, <1>3, <1>4, <1>5, <1>6, FileSame DEF Turn

LEMMA IgnoredTurn == ASSUME IInv, Ignored PROVE Turn
  <1>1. /\ pc = "args" /\ i <= Len(args) /\ args[i] \notin Known /\ i' = i + 1 /\ pc' = pc /\ edited' = edited
        /\ args' = args /\ file' = file /\ heap' = heap /\ profile' = profile /\ address' = address
        /\ url' = url /\ specified' = specified
    BY DEF Ignored, Option, inputs, history, statics, data
  <1>2. i \in Nat /\ Len(args) \in Nat
    BY <1>1, ArgsTyped DEF IInv, Place, Turns, Places
  <1>3. Width(args, i) = 1 /\ ~ Specifies(args, i) /\ ~ MakesProfile(args, i) /\ ~ MakesAddress(args, file, i)
    BY <1>1 DEF Width, Specifies, MakesProfile, MakesAddress, Known
  <1> QED BY <1>1, <1>2, <1>3, HeapSame, FileSame DEF IInv, Turn

-----------------------------------------------------------------------------
(* The other steps.                                                         *)

LEMMA BeginKeeps == ASSUME IInv, Begin PROVE IInv'
  <1> USE DEF IInv
  <1>1. /\ pc = "start" /\ pc' = "args" /\ i' = 1 /\ args' = args /\ file' = file /\ specified' = specified
        /\ profile' = profile /\ address' = address /\ heap' = heap /\ url' = Local /\ edited' = edited
    BY DEF Begin, inputs, statics, history
  <1>2. 1 \in Turns(args)
    BY ArgsTyped, FirstTurn
  <1>3. Blocks'
    BY <1>1 DEF Blocks
  <1>4. Place'
    BY <1>1, <1>2 DEF Place
  <1>5. Pointing'
    BY <1>1 DEF Pointing, Local
  <1>6. SpecifiedByLast'
    <2>1. \A k \in Turns(args) : ~ LastSpecifies(args, k, 1)
      BY DEF LastSpecifies, Turns, Places
    <2> QED BY <1>1, <2>1 DEF SpecifiedByLast
  <1>7. ASSUME ~ edited PROVE MadeAgain'
    <2>1. \A k \in Turns(args) : 1 <= k
      BY DEF Turns, Places
    <2>2. Stale(profile)' => profile # Null
      BY <1>1 DEF Stale
    <2>3. Stale(address)' => address # Null
      BY <1>1 DEF Stale
    <2> QED BY <1>1, <1>7, <2>1, <2>2, <2>3 DEF MadeAgain
  <1> QED BY <1>1, <1>3, <1>4, <1>5, <1>6, <1>7

LEMMA ExitKeeps == ASSUME IInv, ExitAtOnce PROVE IInv'
  <1>1. /\ pc = "args" /\ pc' = "exited" /\ args' = args /\ file' = file /\ specified' = specified
        /\ profile' = profile /\ address' = address /\ heap' = heap /\ edited' = edited
    BY DEF ExitAtOnce, inputs, statics, history
  <1> QED BY <1>1 DEF IInv, Blocks, Place, Pointing, SpecifiedByLast, MadeAgain

\* Of the turns that set inputSpecified there is a last one.
LEMMA LastOne ==
  ASSUME NEW a, Len(a) \in Nat, NEW l \in Turns(a), l <= Len(a), Specifies(a, l)
  PROVE  \E k \in Turns(a) : k <= Len(a) /\ LastSpecifies(a, k, Len(a) + 1)
  <1> DEFINE D == {n \in Nat : Len(a) - n \in Turns(a) /\ Specifies(a, Len(a) - n)}
  <1>1. Len(a) - l \in D
    <2>1. Len(a) - l \in Nat /\ Len(a) - (Len(a) - l) = l
      BY DEF Turns, Places
    <2> QED BY <2>1
  <1>2. PICK n \in D : \A m \in D : n <= m
    <2>1. D \subseteq Nat /\ D # {}
      BY <1>1
    <2> HIDE DEF D
    <2> QED BY <2>1, LeastNumber
  <1> DEFINE k == Len(a) - n
  <1>3. k \in Turns(a) /\ Specifies(a, k) /\ k <= Len(a)
    OBVIOUS
  <1>4. ASSUME NEW j \in Turns(a), k < j, j < Len(a) + 1 PROVE ~ Specifies(a, j)
    <2>1. Len(a) - j \in Nat /\ Len(a) - (Len(a) - j) = j /\ Len(a) - j < n
      BY <1>4 DEF Turns, Places
    <2>2. Len(a) - j \notin D
      BY <1>2, <2>1
    <2> QED BY <2>1, <2>2
  <1>5. LastSpecifies(a, k, Len(a) + 1)
    BY <1>3, <1>4 DEF LastSpecifies
  <1> QED BY <1>3, <1>5

LEMMA InterpretedKeeps == ASSUME IInv, Interpreted PROVE IInv'
  <1> USE DEF IInv
  <1>1. /\ pc = "args" /\ pc' = "running" /\ i > Len(args) /\ edited' = edited
        /\ specified => args' = args /\ file' = file /\ profile' = profile /\ address' = address /\ heap' = heap
                         /\ url' = url /\ specified' = specified
        /\ ~ specified => FromDefaultFile
    BY DEF Interpreted, inputs, statics, data
  <1>2. Len(args) \in Nat /\ i = Len(args) + 1 /\ \A k \in Turns(args) : k \in Nat
    BY <1>1, ArgsTyped DEF Place, Turns, Places
  <1> DEFINE reads == ~ specified /\ HasUrl(file, Default)
  <1>3. /\ FileGrown(file, file') /\ Grown(heap, heap') /\ args' = args /\ specified' = specified /\ profile' = profile
        /\ IF reads THEN address' \in DOMAIN heap' \ DOMAIN heap /\ url' = Block(address')
           ELSE address' = address /\ url' = url
    BY <1>1, DefaultRead, HeapSame, FileSame
  <1>4. Null \notin DOMAIN heap /\ Null \notin DOMAIN heap'
    BY <1>3, HeapDomain DEF Blocks, Grown
  <1>5. Blocks'
    BY <1>3 DEF Blocks, Grown
  <1>6. Place'
    BY <1>1, <1>3 DEF Place, FileGrown
  <1>7. Pointing'
    <2>1. CASE reads
      BY <1>3, <1>4, <2>1 DEF Pointing, Block, Grown
    <2>2. CASE ~ reads
      BY <1>1, <1>3, <2>2 DEF Pointing, Grown, Blocks
    <2> QED BY <2>1, <2>2
  <1>8. SpecifiedByLast'
    BY <1>1, <1>3 DEF SpecifiedByLast
  <1>9. ASSUME ~ edited PROVE MadeAgain'
    <2>1. ~ Stale(profile)' /\ (profile' # Null => \E k \in Turns(args) : MakesProfile(args, k))
      <3>1. ~ Stale(profile)
        BY <1>1, <1>2, <1>9 DEF MadeAgain, MakesProfile
      <3> QED BY <1>1, <1>3, <1>9, <3>1 DEF MadeAgain, Stale, Grown, Blocks
    <2>2. ~ Stale(address)'
      <3>1. CASE reads
        BY <1>3, <3>1 DEF Stale, Grown
      <3>2. CASE ~ reads
        <4>1. SUFFICES ASSUME Stale(address)' PROVE FALSE
          OBVIOUS
        <4>2. Stale(address)
          BY <1>3, <3>2, <4>1 DEF Stale, Grown, Blocks
        <4>3. MakesAddressAgain(args, file, i)
          BY <1>1, <1>9, <4>2 DEF MadeAgain
        <4>4. HasUrl(file, Default) /\ Unspecified(args, file)
          BY <1>2, <4>3 DEF MakesAddressAgain
        <4>5. ~ specified
          BY <1>1, <1>2, <1>9, <4>4 DEF Unspecified, SpecifiedByLast
        <4> QED BY <3>2, <4>4, <4>5
      <3> QED BY <3>1, <3>2
    <2>3. ASSUME address' # Null PROVE MakesAddressAgain(args, file', 1)
      <3>1. CASE reads
        <4>1. CASE \A k \in Turns(args) : k <= Len(args) => ~ Specifies(args, k)
          BY <3>1, <4>1, <1>3, MadeStill DEF MakesAddressAgain, Unspecified
        <4>2. CASE ~ \A k \in Turns(args) : k <= Len(args) => ~ Specifies(args, k)
          <5>1. PICK k \in Turns(args) : k <= Len(args) /\ LastSpecifies(args, k, Len(args) + 1)
            BY <1>2, <4>2, LastOne
          <5>2. args[k] = "-f" /\ (There(file, args[k + 1]) => args[k + 1] = Default)
            BY <1>1, <1>2, <1>9, <3>1, <5>1 DEF SpecifiedByLast
          <5>3. CASE ~ There(file, args[k + 1])
            BY <1>3, <3>1, <5>1, <5>2, <5>3, MadeStill DEF MakesAddressAgain, Unspecified
          <5>4. CASE There(file, args[k + 1])
            <6>1. k + 2 <= Len(args) + 1
              BY <1>1, <1>2, <5>1, <5>2, Apart DEF Place, Width
            <6>2. MakesAddress(args, file, k) /\ 1 <= k
              BY <1>2, <3>1, <5>1, <5>2, <5>4, <6>1 DEF MakesAddress, Turns, Places
            <6> QED BY <1>3, <5>1, <6>2, MadeStill DEF MakesAddressAgain
          <5> QED BY <5>3, <5>4
        <4> QED BY <4>1, <4>2
      <3>2. CASE ~ reads
        BY <1>1, <1>3, <1>9, <2>3, <3>2, MadeStill DEF MadeAgain
      <3> QED BY <3>1, <3>2
    <2> QED BY <1>1, <1>3, <2>1, <2>2, <2>3 DEF MadeAgain
  <1> QED BY <1>1, <1>5, <1>6, <1>7, <1>8, <1>9

LEMMA AddChannelKeeps == ASSUME IInv, NEW p, AddChannel(p) PROVE IInv'
  <1> USE DEF IInv
  <1>1. /\ pc = "running" /\ pc' = pc /\ args' = args /\ file' = file /\ specified' = specified
        /\ profile' = profile /\ address' = address /\ url' = url /\ edited' = edited
        /\ Rewrite(Digits(Text(url), p))
    BY DEF AddChannel, inputs, statics
  <1>2. Grown(heap, heap')
    BY <1>1, AddressRewritten
  <1>3. Blocks'
    BY <1>1, <1>2 DEF Blocks, Grown
  <1>4. Place'
    BY <1>1 DEF Place
  <1>5. Pointing'
    BY <1>1, <1>2 DEF Pointing, Grown, Blocks
  <1>6. SpecifiedByLast'
    BY <1>1 DEF SpecifiedByLast
  <1>7. ASSUME ~ edited PROVE MadeAgain'
    <2>1. ~ Stale(profile)' /\ ~ Stale(address)'
      BY <1>1, <1>2, <1>7 DEF MadeAgain, Stale, Grown, Blocks
    <2> QED BY <1>1, <1>7, <2>1 DEF MadeAgain
  <1> QED BY <1>1, <1>3, <1>4, <1>5, <1>6, <1>7

LEMMA EndRunKeeps == ASSUME IInv, NEW restart \in BOOLEAN, EndRun(restart) PROVE IInv'
  <1> USE DEF IInv
  <1> DEFINE next == IF restart THEN "start" ELSE "exited"
             freed == {profile, address} \ {Null}
             dangles == \E k \in freed : heap[k].freed
  <1>1. /\ pc = "running" /\ args' = args /\ file' = file /\ specified' = specified
        /\ profile' = profile /\ address' = address /\ edited' = edited
        /\ dangles => pc' = "aborted" /\ heap' = heap
        /\ ~ dangles => /\ pc' = next
                        /\ heap' = [k \in DOMAIN heap |->
                                      IF k \in freed THEN [heap[k] EXCEPT !.freed = TRUE] ELSE heap[k]]
    BY DEF EndRun, Cleanup, inputs, statics, data, history
  <1>2. IsHeap(heap') /\ DOMAIN heap' = DOMAIN heap
    <2>1. CASE dangles
      BY <1>1, <2>1 DEF Blocks
    <2>2. CASE ~ dangles
      <3> DEFINE T == {heap'[k] : k \in DOMAIN heap}
      <3>1. Len(heap) \in Nat /\ DOMAIN heap = 1 .. Len(heap)
        BY HeapDomain DEF Blocks
      <3> HIDE DEF freed, dangles
      <3>2. heap' \in [1 .. Len(heap) -> T] /\ DOMAIN heap' = DOMAIN heap
        BY <1>1, <2>2, <3>1
      <3> HIDE DEF T
      <3>3. heap' \in Seq(Range(heap'))
        BY <3>1, <3>2, IsSequence
      <3>4. ASSUME NEW k \in DOMAIN heap
            PROVE  heap'[k] = [text |-> heap'[k].text, freed |-> heap'[k].freed] /\ heap'[k].freed \in BOOLEAN
        <4>1. heap[k] = [text |-> heap[k].text, freed |-> heap[k].freed] /\ heap[k].freed \in BOOLEAN
          BY DEF Blocks, IsHeap
        <4>2. heap'[k] = IF k \in freed THEN [heap[k] EXCEPT !.freed = TRUE] ELSE heap[k]
          BY <1>1, <2>2
        <4>3. CASE k \in freed
          <5>1. heap'[k] = [text |-> heap[k].text, freed |-> TRUE]
            BY <4>1, <4>2, <4>3, Freed
          <5> QED BY <5>1
        <4>4. CASE k \notin freed
          BY <4>1, <4>2, <4>4
        <4> QED BY <4>3, <4>4
      <3> QED BY <3>2, <3>3, <3>4 DEF IsHeap
    <2> QED BY <2>1, <2>2
  <1>3. Blocks'
    BY <1>1, <1>2 DEF Blocks
  <1>4. pc' \in {"start", "exited", "aborted"}
    BY <1>1
  <1>5. Place' /\ Pointing'
    BY <1>1, <1>4 DEF Place, Pointing
  <1>6. SpecifiedByLast'
    BY <1>1, <1>4 DEF SpecifiedByLast
  <1>7. ASSUME ~ edited PROVE MadeAgain'
    <2>1. ~ dangles
      BY <1>1, <1>7 DEF MadeAgain, Stale
    <2>2. pc' \in {"start", "exited"}
      BY <1>1, <2>1
    <2> QED BY <1>1, <1>7, <2>2 DEF MadeAgain
  <1> QED BY <1>1, <1>3, <1>5, <1>6, <1>7

LEMMA EditFileKeeps == ASSUME IInv, NEW n \in DOMAIN Files, EditFile(n) PROVE IInv'
  <1>1. /\ pc = "running" /\ pc' = pc /\ args' = args /\ edited' = TRUE /\ heap' = heap /\ url' = url
        /\ profile' = profile /\ address' = address /\ specified' = specified
        /\ \E lines \in Files[n] : file' = [file EXCEPT ![n] = lines]
    BY DEF EditFile, statics, data
  <1>2. Place'
    BY <1>1, FilesTyped DEF IInv, Place
  <1> QED BY <1>1, <1>2 DEF IInv, Blocks, Pointing, SpecifiedByLast

-----------------------------------------------------------------------------

LEMMA InitIInv == Init => IInv
  <1> SUFFICES ASSUME Init PROVE IInv
    OBVIOUS
  <1>1. Blocks
    BY DEF Init, Blocks, IsHeap, Range
  <1>2. \A n \in DOMAIN file : n \in DOMAIN Files /\ file[n] \in Files[n]
    BY DEF Init
  <1>3. Default \in DOMAIN file
    BY ArgumentsOK DEF Init
  <1>4. Place
    BY <1>2, <1>3, FilesTyped DEF Init, Place
  <1> QED BY <1>1, <1>4 DEF Init, IInv, Pointing, SpecifiedByLast, MadeAgain

LEMMA NextIInv == IInv /\ [Next]_vars => IInv'
  <1> SUFFICES ASSUME IInv, [Next]_vars PROVE IInv'
    OBVIOUS
  <1>1. CASE Begin
    BY <1>1, BeginKeeps
  <1>2. CASE ServerPort \/ ChannelPort \/ ConfigFile \/ DefaultFile \/ UdpAddress \/ EthAddress \/ Ignored
    <2>1. Turn
      BY <1>2, ServerPortTurn, ChannelPortTurn, ConfigFileTurn, DefaultFileTurn, UdpAddressTurn, EthAddressTurn,
         IgnoredTurn
    <2> QED BY <2>1, TurnKeeps
  <1>3. CASE ExitAtOnce
    BY <1>3, ExitKeeps
  <1>4. CASE Interpreted
    BY <1>4, InterpretedKeeps
  <1>5. CASE \E p \in AddPort : AddChannel(p)
    BY <1>5, AddChannelKeeps
  <1>6. CASE \E restart \in BOOLEAN : EndRun(restart)
    BY <1>6, EndRunKeeps
  <1>7. CASE \E n \in DOMAIN Files : EditFile(n)
    BY <1>7, EditFileKeeps
  <1>8. CASE UNCHANGED vars
    BY <1>8 DEF vars, inputs, statics, data, history, IInv, Blocks, Place, Pointing, SpecifiedByLast, MadeAgain, Stale
  <1> QED BY <1>1, <1>2, <1>3, <1>4, <1>5, <1>6, <1>7, <1>8 DEF Next

LEMMA Invariance == Spec => []IInv
  BY InitIInv, NextIInv, PTL DEF Spec

(* The address a run uses is one of main's own, of the command line, or the *)
(* live block address_url points to, as long as the run lasts.              *)
THEOREM AddressStaysAlive == Spec => []AddressAlive
  <1>1. IInv => AddressAlive
    BY DEF IInv, Pointing, AddressAlive, Block
  <1> QED BY <1>1, Invariance, PTL

(* cleanup, which runs once for every run of main's loop and never clears   *)
(* the pointers, frees no string a second time, unless a file was edited.   *)
THEOREM FreedOnce == Spec => []NothingFreedTwice
  <1>1. IInv => NothingFreedTwice
    BY DEF IInv, MadeAgain, NothingFreedTwice
  <1> QED BY <1>1, Invariance, PTL

-----------------------------------------------------------------------------
(* What is said last.                                                       *)

LEMMA Greatest ==
  ASSUME NEW n \in Nat, NEW S, S \subseteq 1 .. n, S # {}
  PROVE  \E m \in S : \A k \in S : k <= m
  <1> DEFINE D == {d \in Nat : n - d \in S}
  <1>1. PICK s \in S : TRUE
    OBVIOUS
  <1>2. n - s \in D
    BY <1>1
  <1>3. PICK d \in D : \A e \in D : d <= e
    <2>1. D \subseteq Nat /\ D # {}
      BY <1>2
    <2> HIDE DEF D
    <2> QED BY <2>1, LeastNumber
  <1>4. ASSUME NEW k \in S PROVE k <= n - d
    <2>1. n - k \in D
      OBVIOUS
    <2>2. d <= n - k
      BY <1>3, <2>1
    <2> QED BY <2>2
  <1> QED BY <1>3, <1>4

LEMMA LastIs ==
  ASSUME NEW f, DOMAIN f \subseteq Int, NEW n \in DOMAIN f, f[n] # {}, \A k \in DOMAIN f : f[k] # {} => k <= n
  PROVE  LastSaid(f) = f[n]
  <1>1. ASSUME NEW k \in DOMAIN f, \A l \in DOMAIN f : f[l] # {} => l <= k PROVE f[k] \subseteq f[n]
    <2>1. n <= k /\ n \in Int /\ k \in Int
      BY <1>1
    <2>2. CASE k = n
      BY <2>2
    <2>3. CASE k # n
      BY <2>1, <2>3
    <2> QED BY <2>2, <2>3
  <1> QED BY <1>1 DEF LastSaid

LEMMA LastSame ==
  ASSUME NEW f, NEW g, \A k \in DOMAIN f : f[k] # {} => k \in DOMAIN g /\ g[k] = f[k],
         \A k \in DOMAIN g : g[k] # {} => k \in DOMAIN f /\ g[k] = f[k]
  PROVE  LastSaid(f) = LastSaid(g)
  <1>1. ASSUME NEW x PROVE x \in LastSaid(f) <=> x \in LastSaid(g)
    BY DEF LastSaid
  <1> QED BY <1>1

LEMMA LastFound ==
  ASSUME NEW n \in Nat, NEW f, DOMAIN f \subseteq 1 .. n, NEW k \in DOMAIN f, f[k] # {}
  PROVE  \E m \in DOMAIN f : /\ f[m] # {} /\ LastSaid(f) = f[m] /\ k <= m
                             /\ \A l \in DOMAIN f : f[l] # {} => l <= m
  <1> DEFINE S == {l \in DOMAIN f : f[l] # {}}
  <1>1. PICK m \in S : \A l \in S : l <= m
    <2>1. S \subseteq 1 .. n /\ S # {}
      OBVIOUS
    <2> HIDE DEF S
    <2> QED BY <2>1, Greatest
  <1>2. DOMAIN f \subseteq Int
    OBVIOUS
  <1> QED BY <1>1, <1>2, LastIs

LEMMA SaidSomewhere ==
  ASSUME NEW f, NEW x \in LastSaid(f)
  PROVE  \E k \in DOMAIN f : x \in f[k]
  BY DEF LastSaid

-----------------------------------------------------------------------------
(* The options are the words at which the loop turns.                       *)
LEMMA NoGap ==
  ASSUME NEW a, Len(a) \in Nat, NEW k \in 1 .. Len(a) + 1
  PROVE  k \in Turns(a) \/ (k - 1 \in Turns(a) /\ Width(a, k - 1) = 2)
  <1> DEFINE Good(n) == n \in Turns(a) \/ (n - 1 \in Turns(a) /\ Width(a, n - 1) = 2)
             S == {n \in Nat : n <= Len(a) => Good(n + 1)}
  <1>1. 0 \in S
    BY FirstTurn
  <1>2. ASSUME NEW n \in S \cap Nat PROVE n + 1 \in S
    <2>1. SUFFICES ASSUME n + 1 <= Len(a) PROVE Good(n + 2)
      OBVIOUS
    <2>2. Good(n + 1)
      BY <2>1
    <2>3. Width(a, n + 1) \in {1, 2} /\ (n + 1) - 1 = n /\ (n + 2) - 1 = n + 1
      BY DEF Width
    <2>4. CASE n + 1 \in Turns(a) /\ Width(a, n + 1) = 1
      <3>1. n + 1 + Width(a, n + 1) \in Turns(a)
        BY <2>1, <2>4, NextTurn
      <3> QED BY <2>4, <3>1
    <2>5. CASE n + 1 \in Turns(a) /\ Width(a, n + 1) = 2
      BY <2>3, <2>5
    <2>6. CASE n \in Turns(a) /\ Width(a, n) = 2
      <3>1. n + Width(a, n) \in Turns(a)
        BY <2>1, <2>6, NextTurn
      <3> QED BY <2>6, <3>1
    <2> HIDE DEF S
    <2> QED BY <2>2, <2>3, <2>4, <2>5, <2>6
  <1>3. Nat \subseteq S
    <2> HIDE DEF S
    <2> QED BY <1>1, <1>2, Induct
  <1>4. k - 1 \in Nat /\ k - 1 <= Len(a) /\ (k - 1) + 1 = k
    OBVIOUS
  <1>5. Good((k - 1) + 1)
    BY <1>3, <1>4
  <1> QED BY <1>4, <1>5

LEMMA TurnOrParameter ==
  ASSUME NEW a, Len(a) \in Nat, NEW k \in 2 .. Len(a)
  PROVE  k \in Turns(a) <=> ~ (k - 1 \in Turns(a) /\ a[k - 1] \in {"-sp", "-cp", "-f"})
  <1>1. k \in 1 .. Len(a) + 1 /\ k - 1 < k /\ k - 1 \in Int
    OBVIOUS
  <1>2. k \in Turns(a) \/ (k - 1 \in Turns(a) /\ Width(a, k - 1) = 2)
    BY <1>1, NoGap
  <1>3. k \in Turns(a) /\ k - 1 \in Turns(a) => (k - 1) + Width(a, k - 1) <= k
    BY <1>1, Apart
  <1>4. Width(a, k - 1) = 2 <=> a[k - 1] \in {"-sp", "-cp", "-f"}
    BY DEF Width
  <1>5. Width(a, k - 1) = 2 => ~ (k - 1) + Width(a, k - 1) <= k
    BY <1>1
  <1> QED BY <1>2, <1>3, <1>4, <1>5

LEMMA IsOptionDef ==
  ASSUME Len(args) \in Nat
  PROVE  IsOption = [k \in 1 .. Len(args) |-> k = 1 \/ ~ (IsOption[k - 1] /\ args[k - 1] \in {"-sp", "-cp", "-f"})]
  <1> DEFINE F(f) == [k \in 1 .. Len(args) |-> k = 1 \/ ~ (f[k - 1] /\ args[k - 1] \in {"-sp", "-cp", "-f"})]
             t == [k \in 1 .. Len(args) |-> IF k \in Turns(args) THEN TRUE ELSE FALSE]
  <1>1. ASSUME NEW k \in 1 .. Len(args) PROVE t[k] = F(t)[k]
    <2>1. CASE k = 1
      <3>1. 1 \in Turns(args)
        BY FirstTurn
      <3> QED BY <2>1, <3>1
    <2>2. CASE k # 1
      <3>1. k \in 2 .. Len(args) /\ k - 1 \in 1 .. Len(args)
        BY <2>2
      <3>2. k \in Turns(args) <=> ~ (k - 1 \in Turns(args) /\ args[k - 1] \in {"-sp", "-cp", "-f"})
        BY <3>1, TurnOrParameter
      <3>3. t[k - 1] <=> k - 1 \in Turns(args)
        BY <3>1
      <3> DEFINE w == args[k - 1] \in {"-sp", "-cp", "-f"}
      <3>4. F(t)[k] = (k = 1 \/ ~ (t[k - 1] /\ w))
        OBVIOUS
      <3>5. CASE k \in Turns(args)
        <4>1. t[k] = TRUE
          BY <3>5
        <4>2. ~ (t[k - 1] /\ w)
          BY <3>2, <3>3, <3>5
        <4> HIDE DEF t, w
        <4>3. F(t)[k] = TRUE
          BY <3>4, <4>2
        <4> QED BY <4>1, <4>3
      <3>6. CASE k \notin Turns(args)
        <4>1. t[k] = FALSE
          BY <3>6
        <4>2. t[k - 1] /\ w
          BY <3>2, <3>3, <3>6
        <4> HIDE DEF t, w
        <4>3. F(t)[k] = FALSE
          BY <2>2, <3>4, <4>2
        <4> QED BY <4>1, <4>3
      <3> QED BY <3>5, <3>6
    <2> QED BY <2>1, <2>2
  <1>2. t = F(t)
    BY <1>1
  <1>3. \E f : f = F(f)
    BY <1>2
  <1> HIDE DEF t
  <1>4. IsOption = F(IsOption)
    BY <1>3, Zenon DEF IsOption
  <1> QED BY <1>4

\* The options up to n.
UpTo(a, n) == {k \in Turns(a) : k < n}

LEMMA OptionsAre ==
  ASSUME Len(args) \in Nat, DOMAIN args = 1 .. Len(args)
  PROVE  Options = UpTo(args, Len(args) + 1)
  <1> DEFINE S == {n \in Nat : n < Len(args) => (IsOption[n + 1] <=> n + 1 \in Turns(args))}
  <1>0. IsOption = [k \in 1 .. Len(args) |-> k = 1 \/ ~ (IsOption[k - 1] /\ args[k - 1] \in {"-sp", "-cp", "-f"})]
    BY IsOptionDef
  <1>1. 0 \in S
    <2>1. SUFFICES ASSUME 0 < Len(args) PROVE IsOption[1] <=> 1 \in Turns(args)
      OBVIOUS
    <2>2. 1 \in 1 .. Len(args)
      BY <2>1
    <2>3. IsOption[1] = TRUE
      BY <1>0, <2>2
    <2> QED BY <2>3, FirstTurn
  <1>2. ASSUME NEW n \in S \cap Nat PROVE n + 1 \in S
    <2>1. SUFFICES ASSUME n + 1 < Len(args) PROVE IsOption[n + 2] <=> n + 2 \in Turns(args)
      OBVIOUS
    <2>2. n + 2 \in 2 .. Len(args) /\ n + 2 \in 1 .. Len(args) /\ (n + 2) - 1 = n + 1 /\ n + 2 # 1
      BY <2>1
    <2>3. IsOption[n + 2] <=> ~ (IsOption[n + 1] /\ args[n + 1] \in {"-sp", "-cp", "-f"})
      BY <1>0, <2>2
    <2>4. n + 2 \in Turns(args) <=> ~ (n + 1 \in Turns(args) /\ args[n + 1] \in {"-sp", "-cp", "-f"})
      BY <2>2, TurnOrParameter
    <2> QED BY <2>1, <2>3, <2>4
  <1>3. Nat \subseteq S
    <2> HIDE DEF S
    <2> QED BY <1>1, <1>2, Induct
  <1>4. ASSUME NEW k \in 1 .. Len(args) PROVE IsOption[k] <=> k \in Turns(args)
    <2>1. k - 1 \in Nat /\ k - 1 < Len(args) /\ (k - 1) + 1 = k
      OBVIOUS
    <2> QED BY <1>3, <2>1
  <1>5. \A k \in Turns(args) : k \in 1 .. Len(args) + 1
    BY DEF Turns, Places
  <1> QED BY <1>4, <1>5 DEF Options, UpTo

-----------------------------------------------------------------------------
(* What a file says is what reading it line by line makes of the address    *)
(* and the port.                                                            *)
LEMMA LastWithOneMore ==
  ASSUME NEW f, NEW g, NEW n \in Int, DOMAIN f \subseteq Int, DOMAIN g = DOMAIN f \cup {n},
         \A k \in DOMAIN f : k < n /\ g[k] = f[k]
  PROVE  LastSaid(g) = IF g[n] = {} THEN LastSaid(f) ELSE g[n]
  <1>1. CASE g[n] = {}
    <2>1. LastSaid(f) = LastSaid(g)
      BY <1>1, LastSame
    <2> QED BY <1>1, <2>1
  <1>2. CASE g[n] # {}
    <2>1. \A k \in DOMAIN g : k <= n
      OBVIOUS
    <2> QED BY <1>2, <2>1, LastIs
  <1> QED BY <1>1, <1>2

LEMMA ValidIs == ASSUME NEW n PROVE Valid(n) = IF ValidPort(n) THEN {n} ELSE {}
  BY DEF Valid, ValidPort

Ports(lines, k) == LastSaid([j \in 1 .. k |-> LinePort(lines[j])])
Urls(lines, k) == LastSaid([j \in 1 .. k |-> LineSays(lines[j])])

LEMMA OneLineMore ==
  ASSUME NEW lines, NEW k \in Nat
  PROVE  /\ Ports(lines, k + 1) = IF LinePort(lines[k + 1]) = {} THEN Ports(lines, k) ELSE LinePort(lines[k + 1])
         /\ Urls(lines, k + 1) = IF LineSays(lines[k + 1]) = {} THEN Urls(lines, k) ELSE LineSays(lines[k + 1])
  <1>1. k + 1 \in Int /\ 1 .. k + 1 = 1 .. k \cup {k + 1} /\ k + 1 \in 1 .. k + 1
    OBVIOUS
  <1>2. ASSUME NEW f, NEW g, f = [j \in 1 .. k |-> LinePort(lines[j])], g = [j \in 1 .. k + 1 |-> LinePort(lines[j])]
        PROVE  LastSaid(g) = IF g[k + 1] = {} THEN LastSaid(f) ELSE g[k + 1]
    BY <1>1, <1>2, LastWithOneMore
  <1>3. ASSUME NEW f, NEW g, f = [j \in 1 .. k |-> LineSays(lines[j])], g = [j \in 1 .. k + 1 |-> LineSays(lines[j])]
        PROVE  LastSaid(g) = IF g[k + 1] = {} THEN LastSaid(f) ELSE g[k + 1]
    BY <1>1, <1>3, LastWithOneMore
  <1> QED BY <1>1, <1>2, <1>3 DEF Ports, Urls

LEMMA NoLines == ASSUME NEW lines PROVE Ports(lines, 0) = {} /\ Urls(lines, 0) = {}
  BY DEF Ports, Urls, LastSaid

LEMMA InFile ==
  ASSUME NEW lines, lines \in Seq(Range(lines))
  PROVE  PortIn(lines) = Ports(lines, Len(lines)) /\ UrlIn(lines) = Urls(lines, Len(lines))
  <1>1. DOMAIN lines = 1 .. Len(lines)
    OBVIOUS
  <1> QED BY <1>1 DEF PortIn, UrlIn, Ports, Urls

LEMMA NothingIn == PortIn(<<>>) = {} /\ UrlIn(<<>>) = {}
  BY DEF PortIn, UrlIn, LastSaid

LEMMA LineTyped ==
  ASSUME NEW l \in Line
  PROVE  /\ l.is = "port" => l.number \in Nat
         /\ l.is = "udp" => l.url \in Url /\ l.indented \in BOOLEAN /\ LineUrl(l) \in Url
  <1>1. Blanks \in Url
    BY DEF Blanks, Url
  <1> QED BY <1>1 DEF Line, LineUrl

LEMMA AppendedThere ==
  ASSUME NEW h, IsHeap(h), NEW e, e = [text |-> e.text, freed |-> FALSE]
  PROVE  /\ DOMAIN Append(h, e) = DOMAIN h \cup {Len(h) + 1}
         /\ \A k \in DOMAIN h : Append(h, e)[k] = h[k]
         /\ Append(h, e)[Len(h) + 1] = e /\ Len(h) + 1 \notin DOMAIN h
  <1>1. Len(h) \in Nat /\ DOMAIN h = 1 .. Len(h)
    BY HeapDomain
  <1>2. Grown(h, Append(h, e)) /\ Len(Append(h, e)) = Len(h) + 1
    BY Appended
  <1>3. DOMAIN Append(h, e) = 1 .. Len(h) + 1
    BY <1>2, HeapDomain DEF Grown
  <1>4. h \in Seq(Range(h) \cup {e})
    <2>1. h \in [1 .. Len(h) -> Range(h)]
      BY DEF IsHeap
    <2>2. h \in [1 .. Len(h) -> Range(h) \cup {e}]
      BY <2>1
    <2> QED BY <1>1, <2>2
  <1>5. (\A k \in 1 .. Len(h) : Append(h, e)[k] = h[k]) /\ Append(h, e)[Len(h) + 1] = e
    BY <1>4, AppendProperties
  <1> QED BY <1>1, <1>3, <1>5

\* What the lines read so far say, and what they made of d.
ReadSoFar(d, e, lines, k) ==
  /\ e = [heap |-> e.heap, address |-> e.address, url |-> e.url, serverPort |-> e.serverPort] /\ IsHeap(e.heap)
  /\ e.serverPort \in OrElse(Ports(lines, k), d.serverPort)
  /\ DOMAIN d.heap \subseteq DOMAIN e.heap
  /\ \A b \in DOMAIN e.heap : IF b \in DOMAIN d.heap THEN e.heap[b] = d.heap[b] ELSE e.heap[b].text \in Url
  /\ IF Urls(lines, k) = {} THEN e.url = d.url
     ELSE \E b \in DOMAIN e.heap \ DOMAIN d.heap : e.url = Block(b) /\ e.heap[b].text \in Urls(lines, k)

LEMMA OneLineObeyed ==
  ASSUME NEW d, NEW c, NEW lines, NEW k \in Nat, ReadSoFar(d, c, lines, k), lines[k + 1] \in Line, 
         NEW e, e = DecodeLine(c, lines[k + 1])
  PROVE  ReadSoFar(d, e, lines, k + 1)
  <1> DEFINE l == lines[k + 1]
  <1>0. l.is = "port" => l.number \in Nat
    BY LineTyped
  <1>1. CASE l.is = "udp"
    <2> DEFINE b == [text |-> LineUrl(l), freed |-> FALSE]
               n == Len(c.heap) + 1
               h == Append(c.heap, b)
    <2>1. e = [heap |-> h, address |-> n, url |-> Block(n), serverPort |-> c.serverPort]
      BY <1>1 DEF DecodeLine, ReadSoFar
    <2>2. b = [text |-> b.text, freed |-> FALSE] /\ b.text = LineUrl(l)
      OBVIOUS
    <2>3. LineSays(l) = {LineUrl(l)} /\ LinePort(l) = {} /\ LineUrl(l) \in Url
      BY <1>1, LineTyped DEF LineSays, LinePort
    <2>4. Ports(lines, k + 1) = Ports(lines, k) /\ Urls(lines, k + 1) = {LineUrl(l)}
      BY <2>3, OneLineMore
    <2> HIDE DEF b, l
    <2>5. /\ DOMAIN h = DOMAIN c.heap \cup {n} /\ (\A x \in DOMAIN c.heap : h[x] = c.heap[x])
          /\ h[n] = b /\ n \notin DOMAIN c.heap
      BY <2>2, AppendedThere DEF ReadSoFar
    <2>6. IsHeap(h)
      BY <2>2, Appended DEF Grown, ReadSoFar
    <2> HIDE DEF h, n
    <2>7. e.heap = h /\ e.url = Block(n) /\ e.serverPort = c.serverPort
      BY <2>1
    <2>8. /\ e = [heap |-> e.heap, address |-> e.address, url |-> e.url, serverPort |-> e.serverPort]
      BY <2>1
    <2>9. \A x \in DOMAIN e.heap : IF x \in DOMAIN d.heap THEN e.heap[x] = d.heap[x] ELSE e.heap[x].text \in Url
      BY <2>2, <2>3, <2>5, <2>7 DEF ReadSoFar
    <2>10. n \in DOMAIN e.heap \ DOMAIN d.heap /\ e.heap[n].text \in Urls(lines, k + 1)
      BY <2>2, <2>4, <2>5, <2>7 DEF ReadSoFar
    <2> QED BY <2>4, <2>5, <2>6, <2>7, <2>8, <2>9, <2>10 DEF ReadSoFar
  <1>2. CASE l.is = "port" /\ ValidPort(l.number % UInt16)
    <2>1. e = [heap |-> c.heap, address |-> c.address, url |-> c.url, serverPort |-> l.number % UInt16]
      BY <1>2 DEF DecodeLine, ReadSoFar
    <2>2. LineSays(l) = {} /\ LinePort(l) = {l.number % UInt16}
      BY <1>2, ValidIs DEF LineSays, LinePort
    <2>3. Ports(lines, k + 1) = {l.number % UInt16} /\ Urls(lines, k + 1) = Urls(lines, k)
      BY <2>2, OneLineMore
    <2> HIDE DEF l
    <2>4. /\ e.heap = c.heap /\ e.url = c.url /\ e.serverPort = l.number % UInt16
          /\ e = [heap |-> e.heap, address |-> e.address, url |-> e.url, serverPort |-> e.serverPort]
      BY <2>1
    <2> QED BY <2>3, <2>4 DEF ReadSoFar, OrElse
  <1>3. CASE l.is # "udp" /\ ~ (l.is = "port" /\ ValidPort(l.number % UInt16))
    <2>1. e = c
      BY <1>3 DEF DecodeLine
    <2>2. LineSays(l) = {} /\ LinePort(l) = {}
      BY <1>3, ValidIs DEF LineSays, LinePort
    <2>3. Ports(lines, k + 1) = Ports(lines, k) /\ Urls(lines, k + 1) = Urls(lines, k)
      BY <2>2, OneLineMore
    <2> QED BY <2>1, <2>3 DEF ReadSoFar
  <1> QED BY <1>1, <1>2, <1>3

LEMMA FileObeyed ==
  ASSUME Blocks, NEW lines, lines \in Seq(Line), DecodeFile(lines)
  PROVE  /\ serverPort' \in OrElse(PortIn(lines), serverPort)
         /\ DOMAIN heap \subseteq DOMAIN heap'
         /\ \A b \in DOMAIN heap' : IF b \in DOMAIN heap THEN heap'[b] = heap[b] ELSE heap'[b].text \in Url
         /\ IF UrlIn(lines) = {} THEN url' = url
            ELSE \E b \in DOMAIN heap' \ DOMAIN heap : url' = Block(b) /\ heap'[b].text \in UrlIn(lines)
  <1> DEFINE d == [heap |-> heap, address |-> address, url |-> url, serverPort |-> serverPort]
             e == FoldLeft(DecodeLine, d, lines)
  <1>1. heap' = e.heap /\ address' = e.address /\ url' = e.url /\ serverPort' = e.serverPort
    BY DEF DecodeFile
  <1>2. Len(lines) \in Nat /\ lines \in [1 .. Len(lines) -> Line]
    OBVIOUS
  <1>3. lines \in Seq(Range(lines))
    BY <1>2, IsSequence
  <1>4. d = [heap |-> d.heap, address |-> d.address, url |-> d.url, serverPort |-> d.serverPort] /\ IsHeap(d.heap)
        /\ d.heap = heap /\ d.address = address /\ d.url = url /\ d.serverPort = serverPort
    BY DEF Blocks
  <1> HIDE DEF d
  <1>5. PICK r : /\ r[0] = d
                 /\ \A k \in 1 .. Len(lines) : r[k] = DecodeLine(r[k - 1], lines[k])
                 /\ r[Len(lines)] = e
    BY <1>3, FoldSteps
  <1> HIDE DEF e
  <1> DEFINE S == {k \in Nat : k <= Len(lines) => ReadSoFar(d, r[k], lines, k)}
  <1>6. 0 \in S
    BY <1>4, <1>5, NoLines DEF ReadSoFar, OrElse
  <1>7. ASSUME NEW k \in S \cap Nat PROVE k + 1 \in S
    <2>1. SUFFICES ASSUME k + 1 <= Len(lines) PROVE ReadSoFar(d, r[k + 1], lines, k + 1)
      OBVIOUS
    <2>2. k <= Len(lines) /\ k + 1 \in 1 .. Len(lines) /\ (k + 1) - 1 = k
      BY <1>2, <2>1
    <2>3. ReadSoFar(d, r[k], lines, k) /\ r[k + 1] = DecodeLine(r[k], lines[k + 1]) /\ lines[k + 1] \in Line
      BY <1>2, <1>5, <2>2
    <2> HIDE DEF S
    <2> QED BY <2>3, OneLineObeyed
  <1>8. Nat \subseteq S
    <2> HIDE DEF S
    <2> QED BY <1>6, <1>7, Induct
  <1>9. ReadSoFar(d, e, lines, Len(lines))
    BY <1>2, <1>5, <1>8
  <1>10. PortIn(lines) = Ports(lines, Len(lines)) /\ UrlIn(lines) = Urls(lines, Len(lines))
    BY <1>3, InFile
  <1> QED BY <1>1, <1>4, <1>9, <1>10 DEF ReadSoFar

-----------------------------------------------------------------------------
(* Addresses and the digits put into them.                                  *)

LEMMA UrlIs == ASSUME NEW u \in Url
  PROVE  /\ u = [kind |-> u.kind, port |-> u.port, slash |-> u.slash, sound |-> u.sound]
         /\ u.kind \in {"udp", "eth", "none"} /\ u.port \in Nat /\ u.slash \in BOOLEAN /\ u.sound \in BOOLEAN
  BY DEF Url

LEMMA DigitsTyped ==
  ASSUME NEW u \in Url, NEW p \in Nat
  PROVE  WithPort(u, p) \in Url /\ Digits(u, p) \in Url /\ WithPort(u, p).kind = u.kind
  <1>1. [u EXCEPT !.port = p] \in Url /\ [u EXCEPT !.port = p].kind = u.kind
    BY DEF Url
  <1>2. NotAnAddress(u) \in Url /\ NotAnAddress(u).kind = u.kind
    BY DEF Url, NotAnAddress
  <1> QED BY <1>1, <1>2 DEF WithPort, Digits

LEMMA LastDigits ==
  ASSUME NEW u \in Url, NEW p \in Nat, NEW q \in Nat
  PROVE  WithPort(WithPort(u, q), p) = WithPort(u, p)
  <1>1. CASE u.kind = "udp"
    <2>1. WithPort(u, q) = [u EXCEPT !.port = q] /\ WithPort(u, q).kind = "udp"
      BY <1>1, DigitsTyped DEF WithPort
    <2>2. WithPort(WithPort(u, q), p) = [[u EXCEPT !.port = q] EXCEPT !.port = p]
      BY <2>1 DEF WithPort
    <2>3. [[u EXCEPT !.port = q] EXCEPT !.port = p] = [u EXCEPT !.port = p]
      BY DEF Url
    <2> QED BY <1>1, <2>2, <2>3 DEF WithPort
  <1>2. CASE u.kind # "udp"
    <2>1. WithPort(u, q) = NotAnAddress(u) /\ WithPort(u, q).kind # "udp"
      BY <1>2, DigitsTyped DEF WithPort
    <2>2. NotAnAddress(NotAnAddress(u)) = NotAnAddress(u)
      BY DEF NotAnAddress, Url
    <2> QED BY <1>2, <2>1, <2>2 DEF WithPort
  <1> QED BY <1>1, <1>2

(* Said of an address and of its port up to some option, and what one       *)
(* option more, at n, does to it.                                           *)
OneMore(f, g, n) ==
  /\ n \in Int /\ DOMAIN f \subseteq Int /\ DOMAIN g = DOMAIN f \cup {n} /\ \A l \in DOMAIN f : l < n
Behind(f) == {k \in DOMAIN f : \A l \in DOMAIN f : f[l] # {} => l < k}
PortBehind(f, d) == LastSaid([k \in Behind(f) |-> d[k]])

BuiltFrom(base, port) == IF port = {} THEN base ELSE {WithPort(u, p) : u \in base, p \in port}
LEMMA BuiltIs ==
  ASSUME NEW f, NEW d
  PROVE  Built(f, d) = BuiltFrom(OrElse(LastSaid(f), MainUrl), PortBehind(f, d))
  BY DEF Built, PortBehind, Behind, BuiltFrom

LEMMA NewAddress ==
  ASSUME NEW f, NEW g, NEW n, OneMore(f, g, n), g[n] # {}, NEW d
  PROVE  Built(g, d) = g[n]
  <1>1. LastSaid(g) = g[n]
    <2>1. DOMAIN g \subseteq Int /\ n \in DOMAIN g /\ \A k \in DOMAIN g : k <= n
      BY DEF OneMore
    <2> QED BY <2>1, LastIs
  <1>2. Behind(g) = {}
    <2>1. \A k \in DOMAIN g : k \in Int /\ n \in Int /\ k <= n /\ n \in DOMAIN g
      BY DEF OneMore
    <2> QED BY <2>1 DEF Behind
  <1>3. PortBehind(g, d) = {}
    BY <1>2 DEF PortBehind, LastSaid
  <1> QED BY <1>1, <1>3, BuiltIs DEF OrElse, BuiltFrom

LEMMA BehindOneMore ==
  ASSUME NEW f, NEW g, NEW n, OneMore(f, g, n), g[n] = {}, \A l \in DOMAIN f : g[l] # {} <=> f[l] # {}
  PROVE  Behind(g) = Behind(f) \cup {n}
  BY DEF OneMore, Behind

LEMMA NoNewDigits ==
  ASSUME NEW f, NEW g, NEW n, OneMore(f, g, n), g[n] = {}, \A l \in DOMAIN f : g[l] = f[l],
         NEW d, NEW e, e[n] = {}, \A l \in DOMAIN f : e[l] = d[l]
  PROVE  Built(g, e) = Built(f, d)
  <1>1. Behind(g) = Behind(f) \cup {n} /\ Behind(f) \subseteq DOMAIN f
    BY BehindOneMore DEF Behind
  <1>2. LastSaid(f) = LastSaid(g)
    BY LastSame DEF OneMore
  <1>3. PortBehind(f, d) = PortBehind(g, e)
    BY <1>1, LastSame DEF PortBehind
  <1> QED BY <1>2, <1>3, BuiltIs

LEMMA PortNew ==
  ASSUME NEW f, NEW g, NEW n, OneMore(f, g, n), g[n] = {}, \A l \in DOMAIN f : g[l] # {} <=> f[l] # {},
         NEW e, e[n] # {}
  PROVE  PortBehind(g, e) = e[n]
  <1>1. Behind(g) = Behind(f) \cup {n} /\ Behind(f) \subseteq DOMAIN f
    BY BehindOneMore DEF Behind
  <1> DEFINE h == [k \in Behind(g) |-> e[k]]
  <1>2. DOMAIN h \subseteq Int /\ n \in DOMAIN h /\ h[n] = e[n] /\ \A k \in DOMAIN h : k <= n
    BY <1>1 DEF OneMore
  <1> HIDE DEF h
  <1>3. LastSaid(h) = h[n]
    BY <1>2, LastIs
  <1> QED BY <1>2, <1>3 DEF PortBehind, h

\* An address that another one follows may change.
LEMMA LastUnchanged ==
  ASSUME NEW f, NEW g, NEW n \in Nat, OneMore(f, g, n), DOMAIN f \subseteq 1 .. n, g[n] = {},
         \A l \in DOMAIN f : /\ g[l] # {} <=> f[l] # {}
                             /\ g[l] = f[l] \/ \E m \in DOMAIN f : l < m /\ f[m] # {}
  PROVE  LastSaid(f) = LastSaid(g)
  <1>1. CASE \A l \in DOMAIN f : f[l] = {}
    <2>1. \A l \in DOMAIN f : g[l] = {}
      BY <1>1
    <2>2. DOMAIN g = DOMAIN f \cup {n}
      BY DEF OneMore
    <2>3. \A l \in DOMAIN g : g[l] = {}
      BY <2>1, <2>2
    <2> QED BY <1>1, <2>3, LastSame
  <1>2. CASE \E l \in DOMAIN f : f[l] # {}
    <2>1. PICK k \in DOMAIN f : f[k] # {}
      BY <1>2
    <2>2. PICK m \in DOMAIN f : f[m] # {} /\ LastSaid(f) = f[m] /\ \A l \in DOMAIN f : f[l] # {} => l <= m
      BY <2>1, LastFound
    <2>3. \A l \in DOMAIN f : l \in Int
      BY DEF OneMore
    <2>4. g[m] = f[m]
      BY <2>2, <2>3
    <2>5. DOMAIN g \subseteq Int /\ m \in DOMAIN g /\ g[m] # {} /\ \A l \in DOMAIN g : g[l] # {} => l <= m
      BY <2>2, <2>4 DEF OneMore
    <2>6. LastSaid(g) = g[m]
      BY <2>5, LastIs
    <2> QED BY <2>2, <2>4, <2>6
  <1> QED BY <1>1, <1>2

LEMMA NewDigits ==
  ASSUME NEW f, NEW g, NEW n \in Nat, OneMore(f, g, n), DOMAIN f \subseteq 1 .. n, g[n] = {},
         \A l \in DOMAIN f : /\ f[l] \subseteq Url /\ (g[l] # {} <=> f[l] # {})
                             /\ g[l] = f[l] \/ \E m \in DOMAIN f : l < m /\ f[m] # {},
         NEW d, NEW e, NEW p \in Nat, e[n] = {p}, \A l \in DOMAIN f : d[l] \subseteq Nat,
         NEW t \in Built(f, d)
  PROVE  WithPort(t, p) \in Built(g, e)
  <1>1. LastSaid(f) = LastSaid(g)
    BY LastUnchanged
  <1>2. PortBehind(g, e) = {p}
    BY PortNew
  <1> DEFINE base == OrElse(LastSaid(f), MainUrl)
  <1>3. base \subseteq Url
    <2>1. \A x \in LastSaid(f) : x \in Url
      BY SaidSomewhere
    <2>2. MainUrl \in Url
      BY DEF MainUrl, Url
    <2> QED BY <2>1, <2>2 DEF OrElse
  <1>4. PortBehind(f, d) \subseteq Nat
    <2> DEFINE h == [k \in Behind(f) |-> d[k]]
    <2>1. \A k \in DOMAIN h : h[k] \subseteq Nat
      BY DEF Behind
    <2> HIDE DEF h
    <2>2. \A x \in LastSaid(h) : x \in Nat
      BY <2>1, SaidSomewhere
    <2> QED BY <2>2 DEF PortBehind, h
  <1>5. Built(g, e) = {WithPort(u, q) : u \in base, q \in {p}}
    <2>1. Built(g, e) = BuiltFrom(base, {p})
      BY <1>1, <1>2, BuiltIs
    <2> HIDE DEF base
    <2> QED BY <2>1 DEF BuiltFrom
  <1>6. PICK u \in base : t = u \/ \E q \in PortBehind(f, d) : t = WithPort(u, q)
    BY BuiltIs DEF BuiltFrom
  <1> HIDE DEF base
  <1>7. WithPort(t, p) = WithPort(u, p)
    BY <1>3, <1>4, <1>6, LastDigits
  <1> QED BY <1>5, <1>7

LEMMA DigitsInPlace ==
  ASSUME NEW f, NEW g, NEW n, OneMore(f, g, n), g[n] = {}, \A l \in DOMAIN f : g[l] # {} <=> f[l] # {},
         NEW k \in DOMAIN f, NEW p \in Nat, NEW t \in Url, g[k] = {WithPort(t, p)}, \A l \in DOMAIN f : f[l] # {} => l <= k,
         NEW e, e[n] = {p}
  PROVE  WithPort(t, p) \in Built(g, e)
  <1>1. PortBehind(g, e) = {p}
    BY PortNew
  <1>2. LastSaid(g) = g[k]
    <2>1. DOMAIN g \subseteq Int /\ k \in DOMAIN g /\ (\A l \in DOMAIN g : g[l] # {} => l <= k) /\ g[k] # {}
      BY DEF OneMore
    <2> QED BY <2>1, LastIs
  <1>3. Built(g, e) = {WithPort(u, q) : u \in {WithPort(t, p)}, q \in {p}}
    BY <1>1, <1>2, BuiltIs DEF OrElse, BuiltFrom
  <1> QED BY <1>3, LastDigits

-----------------------------------------------------------------------------
(* What the options say, given the command line a, the files f and the      *)
(* addresses v of the command line.                                         *)
Lines(f, n) == IF n \in DOMAIN f /\ f[n] # Missing THEN f[n] ELSE <<>>
LinesOf(a, f, k) == IF a[k] = "-df" THEN Lines(f, Default) ELSE IF a[k] = "-f" THEN Lines(f, a[k + 1]) ELSE <<>>
PortOf(a, f, k) == IF a[k] = "-sp" THEN Valid(Number[a[k + 1]] % UInt16) ELSE PortIn(LinesOf(a, f, k))
AddressOf(a, f, v, k) == IF a[k] \in DOMAIN UrlOf THEN {v[k]} ELSE UrlIn(LinesOf(a, f, k))
DigitsOf(a, k) ==
  IF a[k] = "-cp" /\ Valid(Number[a[k + 1]] % UInt16) # {} THEN {FirstFour[a[k + 1]]} ELSE {}

LEMMA SaidIs ==
  ASSUME NEW k
  PROVE  /\ PortSaid(k) = PortOf(args, file, k) /\ UrlSaid(k) = AddressOf(args, file, argv, k)
         /\ DigitsSaid(k) = DigitsOf(args, k)
  BY DEF PortSaid, PortOf, UrlSaid, AddressOf, DigitsSaid, DigitsOf, FileOf, LinesOf, Contents, Lines, Readable

\* The sets the invariant below and the properties are about.
SaidPorts(a, f, n) == [k \in UpTo(a, n) |-> PortOf(a, f, k)]
SaidAddresses(a, f, v, n) == [k \in UpTo(a, n) |-> AddressOf(a, f, v, k)]
SaidDigits(a, n) == [k \in UpTo(a, n) |-> DigitsOf(a, k)]

LEMMA SetsAre ==
  ASSUME Len(args) \in Nat, DOMAIN args = 1 .. Len(args)
  PROVE  /\ [k \in Options |-> PortSaid(k)] = SaidPorts(args, file, Len(args) + 1)
         /\ [k \in Options |-> UrlSaid(k)] = SaidAddresses(args, file, argv, Len(args) + 1)
         /\ [k \in Options |-> DigitsSaid(k)] = SaidDigits(args, Len(args) + 1)
         /\ Options = UpTo(args, Len(args) + 1)
  <1>1. Options = UpTo(args, Len(args) + 1)
    BY OptionsAre
  <1> QED BY <1>1, SaidIs DEF SaidPorts, SaidAddresses, SaidDigits

Pointed ==
  \/ url = Local
  \/ \E k \in DOMAIN argv : url = Argument(k)
  \/ \E k \in DOMAIN heap : url = Block(k)

Texts ==
  /\ local \in Url
  /\ DOMAIN argv = {k \in DOMAIN args : args[k] \in DOMAIN UrlOf} /\ \A k \in DOMAIN argv : argv[k] \in Url
  /\ \A k \in DOMAIN heap : heap[k].text \in Url
  /\ \A n \in DOMAIN file : file[n] \in Seq(Line)
  /\ serverPort \in PortNumbers
  /\ pc \in {"args", "running"} => Pointed

Configured ==
  pc = "args" =>
    /\ serverPort \in OrElse(LastSaid(SaidPorts(args, file, i)), DefaultPort)
    /\ Text(url) \in Built(SaidAddresses(args, file, argv, i), SaidDigits(args, i))
    /\ url.at = "argv" => url.k \in UpTo(args, i)

-----------------------------------------------------------------------------
(* One turn more.                                                           *)
LEMMA PortTurn ==
  ASSUME NEW f, NEW g, NEW n, OneMore(f, g, n), NEW default, NEW p \in OrElse(LastSaid(f), default),
         NEW q \in OrElse(g[n], p), g[n] = {} => \A l \in DOMAIN f : g[l] = f[l]
  PROVE  q \in OrElse(LastSaid(g), default)
  <1>1. CASE g[n] = {}
    <2>1. q = p
      BY <1>1 DEF OrElse
    <2>2. LastSaid(f) = LastSaid(g)
      BY <1>1, LastSame DEF OneMore
    <2> QED BY <2>1, <2>2
  <1>2. CASE g[n] # {}
    <2>1. DOMAIN g \subseteq Int /\ n \in DOMAIN g /\ \A k \in DOMAIN g : k <= n
      BY DEF OneMore
    <2>2. LastSaid(g) = g[n]
      BY <1>2, <2>1, LastIs
    <2> QED BY <1>2, <2>2 DEF OrElse
  <1> QED BY <1>1, <1>2

LEMMA UpToNext ==
  ASSUME NEW a, Len(a) \in Nat, NEW n \in Turns(a)
  PROVE  UpTo(a, n + Width(a, n)) = UpTo(a, n) \cup {n} /\ n \in Nat
  <1>1. \A l \in Turns(a) : l \in Nat /\ n \in Nat /\ (l < n + Width(a, n) <=> l <= n)
    BY OneTurn
  <1> QED BY <1>1 DEF UpTo

LEMMA OneMoreOption ==
  ASSUME NEW a, Len(a) \in Nat, NEW n \in Turns(a), NEW f, DOMAIN f = UpTo(a, n),
         NEW g, DOMAIN g = UpTo(a, n + Width(a, n))
  PROVE  OneMore(f, g, n) /\ n \in DOMAIN g
  <1>1. \A l \in Turns(a) : l \in Nat
    BY DEF Turns, Places
  <1> QED BY <1>1, UpToNext DEF OneMore, UpTo

LEMMA UrlsInFile ==
  ASSUME NEW lines, lines \in Seq(Line)
  PROVE  UrlIn(lines) \subseteq Url
  <1>1. ASSUME NEW x \in UrlIn(lines) PROVE x \in Url
    <2>1. PICK j \in DOMAIN lines : x \in LineSays(lines[j])
      BY <1>1, SaidSomewhere DEF UrlIn
    <2>2. lines[j] \in Line
      BY <2>1
    <2> QED BY <2>1, <2>2, LineTyped DEF LineSays
  <1> QED BY <1>1

LEMMA LinesTyped ==
  ASSUME NEW f, \A n \in DOMAIN f : f[n] \in Seq(Line), NEW n, NEW a, NEW k
  PROVE  Lines(f, n) \in Seq(Line) /\ LinesOf(a, f, k) \in Seq(Line)
  BY DEF Lines, LinesOf

\* What a turn of the loop does to the port, and to the address: one is said,
\* digits are put into the one there is, or neither.
AddressHeard ==
  /\ AddressOf(args, file', argv', i) # {} /\ Text(url)' \in AddressOf(args, file', argv', i)
  /\ argv' = argv /\ (url'.at = "argv" => url'.k = i \/ url' = url)
DigitsHeard(p) ==
  /\ AddressOf(args, file, argv, i) = {} /\ DigitsOf(args, i) = {p} /\ file' = file
  /\ url' = url /\ Text(url)' = WithPort(Text(url), p)
  /\ argv' = IF url.at = "argv" THEN [argv EXCEPT ![url.k] = WithPort(Text(url), p)] ELSE argv
NothingHeard ==
  /\ AddressOf(args, file', argv', i) = {} /\ DigitsOf(args, i) = {} /\ argv' = argv
  /\ url' = url /\ Text(url)' = Text(url)
  /\ \A l \in UpTo(args, i) : AddressOf(args, file', argv', l) = AddressOf(args, file, argv, l)
Heard ==
  /\ pc = "args" /\ i <= Len(args) /\ args' = args /\ i' = i + Width(args, i)
  /\ serverPort' \in OrElse(PortOf(args, file', i), serverPort)
  /\ PortOf(args, file', i) = {} => \A l \in UpTo(args, i) : PortOf(args, file', l) = PortOf(args, file, l)
  /\ AddressHeard \/ (\E p \in Nat : DigitsHeard(p)) \/ NothingHeard

LEMMA TextTyped == ASSUME Texts, pc \in {"args", "running"} PROVE Text(url) \in Url
  <1>1. CASE url = Local
    BY <1>1 DEF Texts, Text, Local
  <1>2. CASE \E k \in DOMAIN argv : url = Argument(k)
    BY <1>2 DEF Texts, Text, Argument
  <1>3. CASE \E k \in DOMAIN heap : url = Block(k)
    BY <1>3 DEF Texts, Text, Block
  <1> QED BY <1>1, <1>2, <1>3 DEF Texts, Pointed

LEMMA AddressesTyped ==
  ASSUME Texts, Place, NEW l \in DOMAIN args
  PROVE  AddressOf(args, file, argv, l) \subseteq Url
  <1>1. LinesOf(args, file, l) \in Seq(Line)
    BY LinesTyped DEF Texts
  <1> QED BY <1>1, UrlsInFile DEF AddressOf, Texts

LEMMA DigitsOfTyped ==
  ASSUME Place, NEW l \in DOMAIN args
  PROVE  DigitsOf(args, l) \subseteq Nat
  <1>1. CASE args[l] = "-cp"
    <2>1. args[l + 1] \in DOMAIN FirstFour
      BY <1>1, ArgumentsOK DEF Place
    <2>2. FirstFour[args[l + 1]] \in Nat
      BY <2>1, ArgumentsOK
    <2> QED BY <2>2 DEF DigitsOf
  <1>2. CASE args[l] # "-cp"
    BY <1>2 DEF DigitsOf
  <1> QED BY <1>1, <1>2

LEMMA HeardKeeps ==
  ASSUME Place, Texts, Configured, Heard
  PROVE  /\ serverPort' \in OrElse(LastSaid(SaidPorts(args, file', i')), DefaultPort)
         /\ Text(url)' \in Built(SaidAddresses(args, file', argv', i'), SaidDigits(args, i'))
         /\ url'.at = "argv" => url'.k \in UpTo(args, i')
  <1> DEFINE n == i + Width(args, i)
             sp == SaidPorts(args, file, i)
             sp1 == SaidPorts(args, file', n)
             f == SaidAddresses(args, file, argv, i)
             g == SaidAddresses(args, file', argv', n)
             d == SaidDigits(args, i)
             e == SaidDigits(args, n)
  <1>1. Len(args) \in Nat /\ DOMAIN args = 1 .. Len(args) /\ i \in Turns(args) /\ i' = n
    BY ArgsTyped DEF Place, Heard
  <1>2. UpTo(args, n) = UpTo(args, i) \cup {i} /\ i \in Nat /\ \A l \in UpTo(args, i) : l \in Nat /\ l < i
    BY <1>1, UpToNext DEF UpTo, Turns, Places
  <1>3. DOMAIN sp = UpTo(args, i) /\ DOMAIN sp1 = UpTo(args, n) /\ DOMAIN f = UpTo(args, i) /\ DOMAIN g = UpTo(args, n)
    BY DEF SaidPorts, SaidAddresses
  <1>4. OneMore(sp, sp1, i) /\ OneMore(f, g, i)
    BY <1>1, <1>3, OneMoreOption
  <1>5. \A l \in UpTo(args, i) :
          /\ sp[l] = PortOf(args, file, l) /\ sp1[l] = PortOf(args, file', l)
          /\ f[l] = AddressOf(args, file, argv, l) /\ g[l] = AddressOf(args, file', argv', l)
          /\ d[l] = DigitsOf(args, l) /\ e[l] = DigitsOf(args, l)
    BY <1>2 DEF SaidPorts, SaidAddresses, SaidDigits
  <1>6. sp1[i] = PortOf(args, file', i) /\ g[i] = AddressOf(args, file', argv', i) /\ e[i] = DigitsOf(args, i)
    BY <1>2 DEF SaidPorts, SaidAddresses, SaidDigits
  <1>7. /\ serverPort \in OrElse(LastSaid(sp), DefaultPort) /\ Text(url) \in Built(f, d)
        /\ url.at = "argv" => url.k \in UpTo(args, i)
    BY DEF Configured, Heard
  <1>8. Text(url) \in Url
    BY TextTyped DEF Heard
  <1>13. \A l \in UpTo(args, i) : l \in DOMAIN args
    BY <1>1, <1>2 DEF Heard, UpTo, Turns, Places
  <1>9. \A l \in UpTo(args, i) : f[l] \subseteq Url /\ d[l] \subseteq Nat
    BY <1>5, <1>13, AddressesTyped, DigitsOfTyped
  <1>12. DOMAIN f \subseteq 1 .. i
    <2>1. \A l \in UpTo(args, i) : l \in 1 .. i
      BY <1>2 DEF UpTo, Turns, Places
    <2> QED BY <1>3, <2>1
  <1> HIDE DEF n, sp, sp1, f, g, d, e
  <1>10. serverPort' \in OrElse(LastSaid(sp1), DefaultPort)
    <2>1. sp1[i] = {} => \A l \in DOMAIN sp : sp1[l] = sp[l]
      BY <1>3, <1>5, <1>6 DEF Heard
    <2>2. serverPort' \in OrElse(sp1[i], serverPort)
      BY <1>6 DEF Heard
    <2> QED BY <1>4, <1>7, <2>1, <2>2, PortTurn
  <1>11. Text(url)' \in Built(g, e) /\ (url'.at = "argv" => url'.k \in UpTo(args, n))
    <2>1. CASE AddressHeard
      <3>1. Built(g, e) = g[i]
        BY <1>4, <1>6, <2>1, NewAddress DEF AddressHeard
      <3> QED BY <1>2, <1>6, <1>7, <2>1, <3>1 DEF AddressHeard
    <2>2. ASSUME NEW p \in Nat, DigitsHeard(p)
          PROVE  Text(url)' \in Built(g, e) /\ (url'.at = "argv" => url'.k \in UpTo(args, n))
      <3>1. /\ file' = file /\ url' = url /\ Text(url)' = WithPort(Text(url), p) /\ DigitsOf(args, i) = {p}
            /\ AddressOf(args, file, argv, i) = {}
            /\ argv' = IF url.at = "argv" THEN [argv EXCEPT ![url.k] = WithPort(Text(url), p)] ELSE argv
        BY <2>2 DEF DigitsHeard
      <3>2. g[i] = {} /\ e[i] = {p}
        BY <1>6, <3>1 DEF AddressOf
      <3>3. CASE url.at = "argv"
        <4>1. PICK k \in DOMAIN argv : url = Argument(k) /\ url.k = k /\ Text(url) = argv[k]
          BY <3>3 DEF Texts, Pointed, Heard, Local, Block, Argument, Text
        <4>2. argv' = [argv EXCEPT ![k] = WithPort(Text(url), p)] /\ args[k] \in DOMAIN UrlOf
          BY <3>1, <3>3, <4>1 DEF Texts
        <4>3. k \in DOMAIN f /\ g[k] = {WithPort(Text(url), p)}
          BY <1>3, <1>5, <1>7, <3>3, <4>1, <4>2 DEF AddressOf
        <4>4. \A l \in DOMAIN f : g[l] # {} <=> f[l] # {}
          BY <1>3, <1>5, <3>1 DEF AddressOf
        <4>5. CASE \A l \in DOMAIN f : f[l] # {} => l <= k
          <5>1. WithPort(Text(url), p) \in Built(g, e)
            BY <1>4, <1>8, <3>2, <4>3, <4>4, <4>5, DigitsInPlace
          <5> QED BY <1>2, <1>7, <3>1, <3>3, <5>1
        <4>6. CASE \E m \in DOMAIN f : f[m] # {} /\ ~ (m <= k)
          <5>1. PICK m \in DOMAIN f : f[m] # {} /\ ~ (m <= k)
            BY <4>6
          <5>2. k < m
            BY <1>2, <1>3, <4>3, <5>1
          <5>3. \A l \in DOMAIN f : l # k => g[l] = f[l]
            <6>1. ASSUME NEW l \in DOMAIN f, l # k PROVE AddressOf(args, file, argv', l) = AddressOf(args, file, argv, l)
              <7>1. args[l] \in DOMAIN UrlOf => l \in DOMAIN argv
                BY <1>3, <1>13 DEF Texts
              <7>2. args[l] \in DOMAIN UrlOf => argv'[l] = argv[l]
                BY <4>2, <6>1, <7>1
              <7> QED BY <7>2 DEF AddressOf
            <6> QED BY <1>3, <1>5, <3>1, <6>1
          <5>4. \A l \in DOMAIN f : /\ f[l] \subseteq Url /\ d[l] \subseteq Nat /\ (g[l] # {} <=> f[l] # {})
                                    /\ g[l] = f[l] \/ \E x \in DOMAIN f : l < x /\ f[x] # {}
            BY <1>3, <1>9, <4>4, <5>1, <5>2, <5>3
          <5>5. WithPort(Text(url), p) \in Built(g, e)
            BY <1>2, <1>4, <1>7, <1>12, <3>2, <5>4, NewDigits
          <5> QED BY <1>2, <1>7, <3>1, <3>3, <5>5
        <4> QED BY <4>5, <4>6, Zenon
      <3>4. CASE url.at # "argv"
        <4>1. argv' = argv
          BY <3>1, <3>4
        <4>2. \A l \in DOMAIN f : g[l] = f[l] /\ f[l] \subseteq Url /\ d[l] \subseteq Nat
          BY <1>3, <1>5, <1>9, <3>1, <4>1
        <4>3. WithPort(Text(url), p) \in Built(g, e)
          BY <1>2, <1>4, <1>7, <1>12, <3>2, <4>2, NewDigits
        <4> QED BY <3>1, <3>4, <4>3
      <3> QED BY <3>3, <3>4
    <2>3. CASE NothingHeard
      <3>1. g[i] = {} /\ e[i] = {} /\ (\A l \in DOMAIN f : g[l] = f[l] /\ e[l] = d[l]) /\ url' = url /\ Text(url)' = Text(url)
        BY <1>3, <1>5, <1>6, <2>3 DEF NothingHeard
      <3>2. Built(g, e) = Built(f, d)
        BY <1>4, <3>1, NoNewDigits
      <3> QED BY <1>2, <1>3, <1>7, <3>1, <3>2
    <2> QED BY <2>1, <2>2, <2>3 DEF Heard
  <1> QED BY <1>1, <1>3, <1>5, <1>6, <1>10, <1>11 DEF n, sp1, g, e, SaidAddresses

-----------------------------------------------------------------------------
(* What each option says is heard.                                          *)

LEMMA PortsInFile ==
  ASSUME NEW lines
  PROVE  PortIn(lines) \subseteq PortNumbers
  <1>1. ASSUME NEW x \in PortIn(lines) PROVE x \in PortNumbers
    <2>1. PICK j \in DOMAIN lines : x \in LinePort(lines[j])
      BY <1>1, SaidSomewhere DEF PortIn
    <2> QED BY <2>1 DEF LinePort, Valid
  <1> QED BY <1>1

LEMMA TextSame ==
  ASSUME Pointed, url' = url, local' = local, argv' = argv, DOMAIN heap \subseteq DOMAIN heap',
         \A b \in DOMAIN heap : heap'[b] = heap[b]
  PROVE  Text(url)' = Text(url) /\ Pointed'
  <1>1. CASE url = Local
    BY <1>1 DEF Text, Local, Pointed
  <1>2. CASE \E k \in DOMAIN argv : url = Argument(k)
    BY <1>2 DEF Text, Argument, Pointed
  <1>3. CASE \E k \in DOMAIN heap : url = Block(k)
    <2>1. PICK k \in DOMAIN heap : url = Block(k)
      BY <1>3
    <2>2. k \in DOMAIN heap' /\ heap'[k] = heap[k] /\ url' = Block(k)
      BY <2>1
    <2>3. Text(url) = heap[k].text
      BY <2>1 DEF Text, Block
    <2>4. Text(url)' = heap'[k].text
      BY <2>2 DEF Text, Block
    <2> QED BY <2>2, <2>3, <2>4 DEF Pointed
  <1> QED BY <1>1, <1>2, <1>3 DEF Pointed

LEMMA FileHeard ==
  ASSUME Blocks, Texts, Pointed, NEW lines, lines \in Seq(Line), DecodeFile(lines), local' = local, argv' = argv
  PROVE  /\ serverPort' \in OrElse(PortIn(lines), serverPort) /\ serverPort' \in PortNumbers
         /\ Pointed' /\ \A k \in DOMAIN heap' : heap'[k].text \in Url
         /\ IF UrlIn(lines) = {} THEN url' = url /\ Text(url)' = Text(url)
            ELSE url'.at = "heap" /\ Text(url)' \in UrlIn(lines)
  <1>1. /\ serverPort' \in OrElse(PortIn(lines), serverPort)
        /\ DOMAIN heap \subseteq DOMAIN heap'
        /\ \A b \in DOMAIN heap' : IF b \in DOMAIN heap THEN heap'[b] = heap[b] ELSE heap'[b].text \in Url
        /\ IF UrlIn(lines) = {} THEN url' = url
           ELSE \E b \in DOMAIN heap' \ DOMAIN heap : url' = Block(b) /\ heap'[b].text \in UrlIn(lines)
    BY FileObeyed
  <1>2. serverPort' \in PortNumbers
    BY <1>1, PortsInFile DEF Texts, OrElse
  <1>3. \A k \in DOMAIN heap' : heap'[k].text \in Url
    BY <1>1 DEF Texts
  <1>4. CASE UrlIn(lines) = {}
    <2>1. url' = url /\ \A b \in DOMAIN heap : heap'[b] = heap[b]
      BY <1>1, <1>4
    <2> QED BY <1>1, <1>2, <1>3, <1>4, <2>1, TextSame
  <1>5. CASE UrlIn(lines) # {}
    <2>1. PICK b \in DOMAIN heap' \ DOMAIN heap : url' = Block(b) /\ heap'[b].text \in UrlIn(lines)
      BY <1>1, <1>5
    <2>2. url'.at = "heap" /\ Text(url)' = heap'[b].text
      BY <2>1 DEF Block, Text
    <2> QED BY <1>1, <1>2, <1>3, <1>5, <2>1, <2>2 DEF Pointed
  <1> QED BY <1>4, <1>5

LEMMA GeneratedSays ==
  ASSUME Texts, pc = "args"
  PROVE  /\ Generated \in Seq(Line) /\ Generated # Missing
         /\ PortIn(Generated) = {serverPort}
         /\ UrlIn(Generated) = IF Text(url).kind = "udp" THEN {Text(url)} ELSE {}
  <1> DEFINE t == Text(url)
             x == [is |-> t.kind, url |-> t, indented |-> FALSE]
             y == [is |-> "port", number |-> serverPort]
  <1>1. t \in Url /\ t.kind \in {"udp", "eth", "none"}
    BY TextTyped DEF Url
  <1>2. Generated = <<x, y>>
    BY DEF Generated
  <1>3. serverPort \in Nat /\ serverPort % UInt16 = serverPort /\ serverPort \in PortNumbers
    BY DEF Texts, PortNumbers, UInt16
  <1> HIDE DEF t
  <1>4. x \in Line /\ y \in Line
    BY <1>1, <1>3 DEF Line
  <1>5. LinePort(x) = {} /\ LinePort(y) = {serverPort}
    <2>1. x.is # "port" /\ y.is = "port" /\ y.number = serverPort
      BY <1>1
    <2>2. Valid(serverPort) = {serverPort}
      BY <1>3 DEF Valid
    <2> QED BY <1>3, <2>1, <2>2 DEF LinePort
  <1>6. LineSays(y) = {} /\ LineSays(x) = IF t.kind = "udp" THEN {t} ELSE {}
    BY DEF LineSays, LineUrl
  <1> HIDE DEF x, y
  <1>7. Generated \in Seq(Line) /\ Generated \in Seq(Range(Generated)) /\ Len(Generated) = 2
        /\ DOMAIN Generated = 1 .. 2 /\ Generated[1] = x /\ Generated[2] = y
    BY <1>2, <1>4, IsPair
  <1>8. Generated # Missing
    <2>1. DOMAIN Missing = 1 .. 1
      BY DEF Missing
    <2>2. 2 \in DOMAIN Generated /\ 2 \notin DOMAIN Missing
      BY <1>7, <2>1
    <2> QED BY <2>2
  <1>9. PortIn(Generated) = Ports(Generated, 2) /\ UrlIn(Generated) = Urls(Generated, 2)
    BY <1>7, InFile
  <1>10. /\ Ports(Generated, 0 + 1) = IF LinePort(Generated[0 + 1]) = {} THEN Ports(Generated, 0) ELSE LinePort(Generated[0 + 1])
         /\ Urls(Generated, 0 + 1) = IF LineSays(Generated[0 + 1]) = {} THEN Urls(Generated, 0) ELSE LineSays(Generated[0 + 1])
    BY OneLineMore
  <1>11. /\ Ports(Generated, 1 + 1) = IF LinePort(Generated[1 + 1]) = {} THEN Ports(Generated, 1) ELSE LinePort(Generated[1 + 1])
         /\ Urls(Generated, 1 + 1) = IF LineSays(Generated[1 + 1]) = {} THEN Urls(Generated, 1) ELSE LineSays(Generated[1 + 1])
    BY OneLineMore
  <1>12. 0 + 1 = 1 /\ 1 + 1 = 2
    OBVIOUS
  <1>13. Ports(Generated, 2) = {serverPort} /\ Urls(Generated, 2) = IF t.kind = "udp" THEN {t} ELSE {}
    BY <1>5, <1>6, <1>7, <1>10, <1>11, <1>12, NoLines
  <1> QED BY <1>7, <1>8, <1>9, <1>13 DEF t

LEMMA Remainder ==
  ASSUME NEW n \in Int, NEW m \in Nat, m > 0
  PROVE  n % m \in Int /\ 0 <= n % m /\ n % m < m
  OBVIOUS

LEMMA SignedIs ==
  ASSUME NEW n \in Int
  PROVE  Signed16(n) = IF (n % 65536) < 32768 THEN n % 65536 ELSE (n % 65536) - 65536
  BY SMT DEF Signed16, UInt16

LEMMA SamePort ==
  ASSUME NEW n \in Int
  PROVE  ValidPort(Signed16(n)) <=> n % UInt16 \in PortNumbers
  <1>1. PICK r : r = n % 65536
    OBVIOUS
  <1>2. r \in Int /\ 0 <= r /\ r < 65536
    BY <1>1, Remainder
  <1>3. Signed16(n) = IF r < 32768 THEN r ELSE r - 65536
    BY <1>1, SignedIs
  <1>4. Signed16(n) \in PortNumbers <=> r \in PortNumbers
    <2>1. PICK s : s = Signed16(n)
      OBVIOUS
    <2>2. s = IF r < 32768 THEN r ELSE r - 65536
      BY <1>3, <2>1
    <2>3. s \in PortNumbers <=> r \in PortNumbers
      BY <1>2, <2>2 DEF PortNumbers
    <2> QED BY <2>1, <2>3
  <1> QED BY <1>1, <1>4 DEF ValidPort, UInt16

\* Options that read no file say what they say whatever the files are.
LEMMA NoFile ==
  ASSUME NEW a, NEW f, NEW k, a[k] \notin {"-df", "-f"}
  PROVE  LinesOf(a, f, k) = <<>> /\ PortIn(LinesOf(a, f, k)) = {} /\ UrlIn(LinesOf(a, f, k)) = {}
  BY NothingIn DEF LinesOf

\* Where the loop is.
LEMMA AtOption ==
  ASSUME Place, pc = "args", i <= Len(args)
  PROVE  i \in DOMAIN args /\ i \in Nat /\ Len(args) \in Nat /\ DOMAIN args = 1 .. Len(args) /\ i \in Turns(args)
  BY ArgsTyped DEF Place, Turns, Places

LEMMA ServerPortHeard == ASSUME IInv, Texts, ServerPort PROVE Heard /\ Texts'
  <1>1. /\ pc = "args" /\ i <= Len(args) /\ args[i] = "-sp" /\ i' = i + 2 /\ pc' = pc
        /\ args' = args /\ file' = file /\ heap' = heap /\ argv' = argv /\ local' = local /\ url' = url
        /\ serverPort' = IF ValidPort(Number[args[i + 1]] % UInt16) THEN Number[args[i + 1]] % UInt16 ELSE serverPort
    BY DEF ServerPort, Option, inputs
  <1>2. Pointed
    BY <1>1 DEF Texts
  <1>3. Text(url)' = Text(url) /\ Pointed'
    BY <1>1, <1>2, TextSame
  <1>4. args[i] \notin DOMAIN UrlOf /\ Width(args, i) = 2
    BY <1>1, NotOptions DEF Width
  <1>5. PortOf(args, file, i) = Valid(Number[args[i + 1]] % UInt16)
    BY <1>1 DEF PortOf
  <1>6. AddressOf(args, file, argv, i) = {} /\ DigitsOf(args, i) = {}
    BY <1>1, <1>4, NoFile DEF AddressOf, DigitsOf
  <1>7. serverPort' \in OrElse(PortOf(args, file, i), serverPort)
    BY <1>1, <1>5, ValidIs DEF OrElse
  <1>8. NothingHeard
    BY <1>1, <1>3, <1>6 DEF NothingHeard
  <1>9. serverPort' \in PortNumbers
    BY <1>1 DEF Texts, ValidPort
  <1> QED BY <1>1, <1>3, <1>4, <1>7, <1>8, <1>9 DEF Heard, Texts

LEMMA ChannelPortHeard == ASSUME IInv, Texts, ChannelPort PROVE Heard /\ Texts'
  <1> DEFINE n == Number[args[i + 1]]
             p == FirstFour[args[i + 1]]
             u == WithPort(Text(url), p)
  <1>1. /\ pc = "args" /\ i <= Len(args) /\ args[i] = "-cp" /\ i' = i + 2 /\ pc' = pc
        /\ args' = args /\ file' = file /\ url' = url /\ serverPort' = serverPort
        /\ IF ValidPort(Signed16(n)) THEN Rewrite(u) ELSE local' = local /\ argv' = argv /\ heap' = heap
    BY DEF ChannelPort, Option, inputs
  <1>2. Pointed /\ Text(url) \in Url /\ i \in DOMAIN args
    BY <1>1, TextTyped, AtOption DEF Texts, IInv
  <1>3. n \in Int /\ p \in Nat
    <2>1. args[i + 1] \in DOMAIN Number \cap DOMAIN FirstFour
      BY <1>1, <1>2, ArgumentsOK DEF IInv, Place
    <2> QED BY <2>1, ArgumentsOK
  <1>4. args[i] \notin DOMAIN UrlOf /\ Width(args, i) = 2
    BY <1>1, NotOptions DEF Width
  <1>5. PortOf(args, file, i) = {} /\ AddressOf(args, file, argv, i) = {} /\ AddressOf(args, file, argv', i) = {}
    BY <1>1, <1>4, NoFile DEF PortOf, AddressOf
  <1>6. DigitsOf(args, i) = IF ValidPort(Signed16(n)) THEN {p} ELSE {}
    <2>1. Valid(n % UInt16) # {} <=> ValidPort(Signed16(n))
      BY <1>3, SamePort, ValidIs DEF ValidPort
    <2> QED BY <1>1, <2>1 DEF DigitsOf
  <1>7. u \in Url
    BY <1>2, <1>3, DigitsTyped
  <1>8. serverPort' \in OrElse(PortOf(args, file, i), serverPort)
    BY <1>1, <1>5 DEF OrElse
  <1> HIDE DEF n, p
  <1>9. CASE ValidPort(Signed16(n))
    <2> HIDE DEF u
    <2>1. /\ local' = IF url.at = "local" THEN u ELSE local
          /\ argv' = IF url.at = "argv" THEN [argv EXCEPT ![url.k] = u] ELSE argv
          /\ heap' = IF url.at = "heap" THEN [heap EXCEPT ![url.k].text = u] ELSE heap
      BY <1>1, <1>9 DEF Rewrite
    <2>2. Text(url)' = u /\ Pointed' /\ local' \in Url /\ DOMAIN argv' = DOMAIN argv
          /\ (\A k \in DOMAIN argv : argv'[k] \in Url) /\ DOMAIN heap' = DOMAIN heap /\ \A k \in DOMAIN heap : heap'[k].text \in Url
      <3>1. CASE url = Local
        BY <1>1, <1>7, <2>1, <3>1 DEF Local, Text, Pointed, Texts
      <3>2. CASE \E k \in DOMAIN argv : url = Argument(k)
        <4>1. PICK k \in DOMAIN argv : url = Argument(k)
          BY <3>2
        <4>2. url.at = "argv" /\ url.k = k
          BY <4>1 DEF Argument
        <4>3. local' = local /\ argv' = [argv EXCEPT ![k] = u] /\ heap' = heap
          BY <2>1, <4>2
        <4>4. argv'[k] = u /\ DOMAIN argv' = DOMAIN argv
          BY <4>3
        <4>5. Text(url)' = argv'[k]
          BY <1>1, <4>2 DEF Text
        <4>6. Pointed'
          BY <1>1, <4>1, <4>4 DEF Pointed
        <4> QED BY <1>7, <4>3, <4>4, <4>5, <4>6 DEF Texts
      <3>3. CASE \E k \in DOMAIN heap : url = Block(k)
        <4>1. PICK k \in DOMAIN heap : url = Block(k)
          BY <3>3
        <4>2. url.at = "heap" /\ url.k = k
          BY <4>1 DEF Block
        <4>3. local' = local /\ argv' = argv /\ heap' = [heap EXCEPT ![k].text = u]
          BY <2>1, <4>2
        <4>4. heap[k] = [text |-> heap[k].text, freed |-> heap[k].freed]
          BY <4>1 DEF IInv, Blocks, IsHeap
        <4>5. DOMAIN heap' = DOMAIN heap /\ heap'[k] = [heap[k] EXCEPT !.text = u]
              /\ \A x \in DOMAIN heap : x # k => heap'[x] = heap[x]
          BY <4>3
        <4>6. heap'[k].text = u
          BY <4>4, <4>5
        <4>7. Text(url)' = heap'[k].text
          BY <1>1, <4>2 DEF Text
        <4>8. Pointed'
          BY <1>1, <4>1, <4>5 DEF Pointed
        <4> QED BY <1>7, <4>3, <4>5, <4>6, <4>7, <4>8 DEF Texts
      <3> QED BY <1>2, <3>1, <3>2, <3>3 DEF Pointed
    <2>3. DigitsHeard(p)
      BY <1>1, <1>5, <1>6, <1>9, <2>1, <2>2 DEF DigitsHeard, u
    <2>4. Heard
      BY <1>1, <1>3, <1>4, <1>5, <1>8, <2>3 DEF Heard
    <2> QED BY <1>1, <2>2, <2>4 DEF Texts
  <1>10. CASE ~ ValidPort(Signed16(n))
    <2>1. local' = local /\ argv' = argv /\ heap' = heap
      BY <1>1, <1>10
    <2>2. Text(url)' = Text(url) /\ Pointed'
      BY <1>1, <1>2, <2>1, TextSame
    <2>3. NothingHeard
      BY <1>1, <1>5, <1>6, <1>10, <2>1, <2>2 DEF NothingHeard
    <2>4. Heard
      BY <1>1, <1>4, <1>8, <2>3 DEF Heard
    <2> QED BY <1>1, <2>1, <2>2, <2>4 DEF Texts
  <1> QED BY <1>9, <1>10

LEMMA UdpAddressHeard == ASSUME IInv, Texts, UdpAddress PROVE Heard /\ Texts'
  <1>1. /\ pc = "args" /\ i <= Len(args) /\ args[i] \in DOMAIN UrlOf /\ i' = i + 1 /\ pc' = pc
        /\ args' = args /\ file' = file /\ heap' = heap /\ argv' = argv /\ local' = local /\ serverPort' = serverPort
        /\ url' = Argument(i)
    BY DEF UdpAddress, Option, inputs
  <1>2. i \in DOMAIN argv
    BY <1>1, AtOption DEF Texts, IInv
  <1>3. args[i] \notin {"-sp", "-cp", "-f", "-df"} /\ Width(args, i) = 1
    BY <1>1, NotOptions DEF Width
  <1>4. PortOf(args, file, i) = {} /\ AddressOf(args, file, argv, i) = {argv[i]}
    BY <1>1, <1>3, NoFile DEF PortOf, AddressOf
  <1>5. url'.at = "argv" /\ url'.k = i /\ Text(url)' = argv[i] /\ Pointed'
    BY <1>1, <1>2 DEF Argument, Text, Pointed
  <1>6. AddressHeard
    BY <1>1, <1>4, <1>5 DEF AddressHeard
  <1>7. serverPort' \in OrElse(PortOf(args, file, i), serverPort)
    BY <1>1, <1>4 DEF OrElse
  <1>8. Heard
    BY <1>1, <1>3, <1>6, <1>7 DEF Heard
  <1> QED BY <1>1, <1>5, <1>8 DEF Texts

LEMMA EthAddressHeard == ASSUME IInv, Texts, EthAddress PROVE Heard /\ Texts'
  <1> DEFINE b == [text |-> MainUrl, freed |-> FALSE]
  <1>1. /\ pc = "args" /\ i <= Len(args) /\ args[i] \in DOMAIN UrlOf /\ i' = i + 1 /\ pc' = pc
        /\ args' = args /\ file' = file /\ argv' = argv /\ local' = local /\ serverPort' = serverPort
        /\ url' = Argument(i) /\ heap' = Append(heap, b)
    BY DEF EthAddress, Option, inputs
  <1>2. i \in DOMAIN argv
    BY <1>1, AtOption DEF Texts, IInv
  <1>3. args[i] \notin {"-sp", "-cp", "-f", "-df"} /\ Width(args, i) = 1
    BY <1>1, NotOptions DEF Width
  <1>4. PortOf(args, file, i) = {} /\ AddressOf(args, file, argv, i) = {argv[i]}
    BY <1>1, <1>3, NoFile DEF PortOf, AddressOf
  <1>5. url'.at = "argv" /\ url'.k = i /\ Text(url)' = argv[i] /\ Pointed'
    BY <1>1, <1>2 DEF Argument, Text, Pointed
  <1>6. AddressHeard
    BY <1>1, <1>4, <1>5 DEF AddressHeard
  <1>7. serverPort' \in OrElse(PortOf(args, file, i), serverPort)
    BY <1>1, <1>4 DEF OrElse
  <1>8. Heard
    BY <1>1, <1>3, <1>6, <1>7 DEF Heard
  <1>9. \A k \in DOMAIN heap' : heap'[k].text \in Url
    <2>1. b = [text |-> b.text, freed |-> FALSE] /\ b.text = MainUrl /\ MainUrl \in Url
      BY DEF MainUrl, Url
    <2> HIDE DEF b
    <2>2. /\ DOMAIN heap' = DOMAIN heap \cup {Len(heap) + 1} /\ heap'[Len(heap) + 1] = b
          /\ \A k \in DOMAIN heap : heap'[k] = heap[k]
      BY <1>1, <2>1, AppendedThere DEF IInv, Blocks
    <2> QED BY <2>1, <2>2 DEF Texts
  <1> QED BY <1>1, <1>5, <1>8, <1>9 DEF Texts

LEMMA IgnoredHeard == ASSUME IInv, Texts, Ignored PROVE Heard /\ Texts'
  <1>1. /\ pc = "args" /\ i <= Len(args) /\ args[i] \notin Known /\ i' = i + 1 /\ pc' = pc
        /\ args' = args /\ file' = file /\ heap' = heap /\ argv' = argv /\ local' = local /\ url' = url
        /\ serverPort' = serverPort
    BY DEF Ignored, Option, inputs, data, statics
  <1>2. Pointed
    BY <1>1 DEF Texts
  <1>3. Text(url)' = Text(url) /\ Pointed'
    BY <1>1, <1>2, TextSame
  <1>4. args[i] \notin DOMAIN UrlOf /\ args[i] \notin {"-sp", "-cp", "-f", "-df"} /\ Width(args, i) = 1
    BY <1>1 DEF Known, Width
  <1>5. PortOf(args, file, i) = {} /\ AddressOf(args, file, argv, i) = {} /\ DigitsOf(args, i) = {}
    BY <1>1, <1>4, NoFile DEF PortOf, AddressOf, DigitsOf
  <1>6. serverPort' \in OrElse(PortOf(args, file, i), serverPort)
    BY <1>1, <1>5 DEF OrElse
  <1>7. NothingHeard
    BY <1>1, <1>3, <1>5 DEF NothingHeard
  <1> QED BY <1>1, <1>3, <1>4, <1>6, <1>7 DEF Heard, Texts

LEMMA ConfigFileHeard == ASSUME IInv, Texts, ConfigFile PROVE Heard /\ Texts'
  <1> DEFINE n == args[i + 1]
             lines == Lines(file, n)
  <1>1. /\ pc = "args" /\ i < Len(args) /\ args[i] = "-f" /\ i' = i + 2 /\ pc' = pc
        /\ args' = args /\ file' = file /\ argv' = argv /\ local' = local
        /\ IF n \in DOMAIN file /\ file[n] # Missing THEN DecodeFile(file[n])
           ELSE heap' = heap /\ url' = url /\ serverPort' = serverPort
    BY DEF ConfigFile, Option, inputs
  <1>2. Pointed /\ Blocks /\ i \in Nat /\ Len(args) \in Nat
    BY <1>1, ArgsTyped DEF Texts, IInv, Place, Turns, Places
  <1>3. args[i] \notin DOMAIN UrlOf /\ Width(args, i) = 2
    BY <1>1, NotOptions DEF Width
  <1>4. /\ PortOf(args, file, i) = PortIn(lines) /\ AddressOf(args, file, argv, i) = UrlIn(lines)
        /\ DigitsOf(args, i) = {}
    BY <1>1, <1>3 DEF PortOf, AddressOf, DigitsOf, LinesOf
  <1>5. lines \in Seq(Line)
    BY LinesTyped DEF Texts
  <1>6. /\ serverPort' \in OrElse(PortIn(lines), serverPort) /\ serverPort' \in PortNumbers
        /\ Pointed' /\ \A k \in DOMAIN heap' : heap'[k].text \in Url
        /\ IF UrlIn(lines) = {} THEN url' = url /\ Text(url)' = Text(url)
           ELSE url'.at = "heap" /\ Text(url)' \in UrlIn(lines)
    <2>1. CASE n \in DOMAIN file /\ file[n] # Missing
      <3>1. lines = file[n] /\ DecodeFile(lines)
        BY <1>1, <2>1 DEF Lines
      <3> HIDE DEF lines
      <3> QED BY <1>1, <1>2, <1>5, <3>1, FileHeard
    <2>2. CASE ~ (n \in DOMAIN file /\ file[n] # Missing)
      <3>1. lines = <<>> /\ heap' = heap /\ url' = url /\ serverPort' = serverPort
        BY <1>1, <2>2 DEF Lines
      <3>2. PortIn(lines) = {} /\ UrlIn(lines) = {}
        BY <3>1, NothingIn
      <3>3. Text(url)' = Text(url) /\ Pointed'
        BY <1>1, <1>2, <3>1, TextSame
      <3> HIDE DEF lines
      <3> QED BY <3>1, <3>2, <3>3 DEF OrElse, Texts
    <2> QED BY <2>1, <2>2
  <1> HIDE DEF lines
  <1>7. AddressHeard \/ NothingHeard
    BY <1>1, <1>4, <1>6 DEF AddressHeard, NothingHeard
  <1>8. Heard
    BY <1>1, <1>2, <1>3, <1>4, <1>6, <1>7 DEF Heard
  <1> QED BY <1>1, <1>6, <1>8 DEF Texts

\* The default file: read, or written.
LEMMA DefaultDone ==
  ASSUME IInv, Texts, pc = "args", FromDefaultFile
  PROVE  /\ args' = args /\ argv' = argv /\ local' = local /\ specified' = specified
         /\ serverPort' \in PortNumbers /\ Pointed' /\ \A k \in DOMAIN heap' : heap'[k].text \in Url
         /\ \A n \in DOMAIN file' : file'[n] \in Seq(Line)
         /\ serverPort' \in OrElse(PortIn(Lines(file, Default)), serverPort)
         /\ IF UrlIn(Lines(file, Default)) = {} THEN url' = url /\ Text(url)' = Text(url)
            ELSE url'.at = "heap" /\ Text(url)' \in UrlIn(Lines(file, Default))
         /\ IF file[Default] # Missing THEN file' = file
            ELSE /\ file' = [file EXCEPT ![Default] = Generated]
                 /\ Lines(file, Default) = <<>> /\ url' = url /\ serverPort' = serverPort
  <1>1. Pointed /\ Blocks /\ Default \in DOMAIN file
    BY DEF Texts, IInv, Place
  <1>2. args' = args /\ argv' = argv /\ local' = local /\ specified' = specified
    BY DEF FromDefaultFile
  <1>3. CASE file[Default] # Missing
    <2>1. file' = file /\ DecodeFile(file[Default]) /\ Lines(file, Default) = file[Default]
      BY <1>1, <1>3 DEF FromDefaultFile, Lines
    <2>2. file[Default] \in Seq(Line)
      BY <1>1 DEF Texts
    <2> QED BY <1>1, <1>2, <1>3, <2>1, <2>2, FileHeard DEF Texts
  <1>4. CASE file[Default] = Missing
    <2>1. /\ file' = [file EXCEPT ![Default] = Generated] /\ heap' = heap /\ url' = url /\ serverPort' = serverPort
          /\ Lines(file, Default) = <<>>
      BY <1>4 DEF FromDefaultFile, Lines
    <2>2. Text(url)' = Text(url) /\ Pointed'
      BY <1>1, <1>2, <2>1, TextSame
    <2>3. PortIn(<<>>) = {} /\ UrlIn(<<>>) = {}
      BY NothingIn
    <2>4. \A n \in DOMAIN file' : file'[n] \in Seq(Line)
      BY <2>1, GeneratedSays DEF Texts
    <2>5. serverPort' \in OrElse(PortIn(Lines(file, Default)), serverPort)
      BY <2>1, <2>3 DEF OrElse
    <2> QED BY <1>2, <1>4, <2>1, <2>2, <2>3, <2>4, <2>5 DEF Texts
  <1> QED BY <1>3, <1>4

\* What the options say once the default file is written.
LEMMA OnceWritten ==
  ASSUME IInv, Texts, pc = "args", file[Default] = Missing, file' = [file EXCEPT ![Default] = Generated], NEW k
  PROVE  /\ Lines(file', Default) = Generated
         /\ \/ LinesOf(args, file', k) = LinesOf(args, file, k)
            \/ LinesOf(args, file, k) = <<>> /\ LinesOf(args, file', k) = Generated
  <1>1. Default \in DOMAIN file /\ Generated # Missing
    BY GeneratedSays DEF IInv, Place
  <1>2. \A n : Lines(file', n) = IF n = Default THEN Generated ELSE Lines(file, n)
    BY <1>1 DEF Lines
  <1>3. Lines(file, Default) = <<>>
    BY DEF Lines
  <1> QED BY <1>2, <1>3 DEF LinesOf

LEMMA DefaultFileHeard == ASSUME IInv, Texts, DefaultFile PROVE Heard /\ Texts'
  <1>1. /\ pc = "args" /\ i <= Len(args) /\ args[i] = "-df" /\ i' = i + 1 /\ pc' = pc /\ FromDefaultFile
    BY DEF DefaultFile, Option
  <1>2. args[i] \notin DOMAIN UrlOf /\ Width(args, i) = 1 /\ DigitsOf(args, i) = {}
    BY <1>1, NotOptions DEF Width, DigitsOf
  <1>3. \A f : PortOf(args, f, i) = PortIn(Lines(f, Default)) /\ AddressOf(args, f, argv, i) = UrlIn(Lines(f, Default))
    BY <1>1, <1>2 DEF PortOf, AddressOf, LinesOf
  <1> DEFINE lines == Lines(file, Default)
  <1>4. /\ args' = args /\ argv' = argv /\ local' = local
        /\ serverPort' \in PortNumbers /\ Pointed' /\ \A k \in DOMAIN heap' : heap'[k].text \in Url
        /\ \A n \in DOMAIN file' : file'[n] \in Seq(Line)
        /\ serverPort' \in OrElse(PortIn(lines), serverPort)
        /\ IF UrlIn(lines) = {} THEN url' = url /\ Text(url)' = Text(url)
           ELSE url'.at = "heap" /\ Text(url)' \in UrlIn(lines)
        /\ IF file[Default] # Missing THEN file' = file
           ELSE file' = [file EXCEPT ![Default] = Generated] /\ lines = <<>> /\ url' = url /\ serverPort' = serverPort
    BY <1>1, DefaultDone
  <1> HIDE DEF lines
  <1>5. Heard
    <2>1. CASE file[Default] # Missing
      <3>1. file' = file
        BY <1>4, <2>1
      <3>2. PortOf(args, file', i) = PortIn(lines) /\ AddressOf(args, file', argv', i) = UrlIn(lines)
            /\ AddressOf(args, file, argv, i) = UrlIn(lines)
        BY <1>3, <1>4, <3>1 DEF lines
      <3>3. AddressHeard \/ NothingHeard
        BY <1>2, <1>4, <3>1, <3>2 DEF AddressHeard, NothingHeard
      <3> QED BY <1>1, <1>2, <1>4, <3>1, <3>2, <3>3 DEF Heard
    <2>2. CASE file[Default] = Missing
      <3>1. /\ file' = [file EXCEPT ![Default] = Generated] /\ lines = <<>> /\ url' = url /\ serverPort' = serverPort
            /\ Text(url)' = Text(url)
        BY <1>4, <2>2, NothingIn
      <3>2. \A k : \/ LinesOf(args, file', k) = LinesOf(args, file, k)
                   \/ LinesOf(args, file, k) = <<>> /\ LinesOf(args, file', k) = Generated
        BY <1>1, <2>2, <3>1, OnceWritten
      <3>3. Lines(file', Default) = Generated
        BY <1>1, <2>2, <3>1, OnceWritten
      <3>4. PortIn(Generated) = {serverPort} /\ UrlIn(Generated) = IF Text(url).kind = "udp" THEN {Text(url)} ELSE {}
        BY <1>1, GeneratedSays
      <3>5. PortOf(args, file', i) = {serverPort} /\ AddressOf(args, file', argv', i) = UrlIn(Generated)
        BY <1>3, <1>4, <3>3, <3>4
      <3>6. CASE Text(url).kind = "udp"
        <4>0. argv' = argv
          BY <1>4
        <4>1. AddressHeard
          BY <3>1, <3>4, <3>5, <3>6, <4>0 DEF AddressHeard
        <4> QED BY <1>1, <1>2, <1>4, <3>1, <3>5, <4>1 DEF Heard, OrElse
      <3>7. CASE Text(url).kind # "udp"
        <4>1. \A l : AddressOf(args, file', argv', l) = AddressOf(args, file, argv, l)
          <5>1. UrlIn(Generated) = {} /\ UrlIn(<<>>) = {}
            BY <3>4, <3>7, NothingIn
          <5> QED BY <1>4, <3>2, <5>1 DEF AddressOf
        <4>2. NothingHeard
          BY <1>4, <1>2, <3>1, <3>4, <3>5, <3>7, <4>1 DEF NothingHeard
        <4> QED BY <1>1, <1>2, <1>4, <3>1, <3>5, <4>2 DEF Heard, OrElse
      <3> QED BY <3>6, <3>7
    <2> QED BY <2>1, <2>2
  <1> QED BY <1>1, <1>4, <1>5 DEF Texts

-----------------------------------------------------------------------------
(* The other steps keep the texts.                                          *)

LEMMA InterpretedTexts == ASSUME IInv, Texts, Interpreted PROVE Texts'
  <1>1. /\ pc = "args" /\ pc' = "running" /\ (~ specified => FromDefaultFile)
        /\ specified => args' = args /\ file' = file /\ argv' = argv /\ heap' = heap /\ local' = local
                         /\ url' = url /\ serverPort' = serverPort
    BY DEF Interpreted, inputs, statics, data
  <1>2. CASE specified
    <2>1. Pointed'
      BY <1>1, <1>2 DEF Texts, Pointed
    <2> QED BY <1>1, <1>2, <2>1 DEF Texts
  <1>3. CASE ~ specified
    BY <1>1, <1>3, DefaultDone DEF Texts
  <1> QED BY <1>2, <1>3

LEMMA RewriteTexts ==
  ASSUME Blocks, Texts, Pointed, NEW u \in Url, Rewrite(u), url' = url
  PROVE  /\ Pointed' /\ local' \in Url /\ DOMAIN argv' = DOMAIN argv /\ (\A k \in DOMAIN argv : argv'[k] \in Url)
         /\ \A k \in DOMAIN heap' : heap'[k].text \in Url
  <1>1. /\ local' = IF url.at = "local" THEN u ELSE local
        /\ argv' = IF url.at = "argv" THEN [argv EXCEPT ![url.k] = u] ELSE argv
        /\ heap' = IF url.at = "heap" THEN [heap EXCEPT ![url.k].text = u] ELSE heap
    BY DEF Rewrite
  <1>2. DOMAIN argv' = DOMAIN argv /\ DOMAIN heap' = DOMAIN heap
    BY <1>1
  <1>3. Pointed'
    BY <1>2 DEF Pointed
  <1>4. ASSUME NEW k \in DOMAIN heap PROVE heap'[k].text \in Url
    <2>1. heap[k] = [text |-> heap[k].text, freed |-> heap[k].freed]
      BY DEF Blocks, IsHeap
    <2>2. heap'[k] = [heap[k] EXCEPT !.text = u] \/ heap'[k] = heap[k]
      BY <1>1
    <2>3. heap'[k].text = u \/ heap'[k].text = heap[k].text
      BY <2>1, <2>2
    <2> QED BY <2>3 DEF Texts
  <1> QED BY <1>1, <1>2, <1>3, <1>4 DEF Texts

LEMMA AddChannelTexts == ASSUME IInv, Texts, NEW p \in AddPort, AddChannel(p) PROVE Texts'
  <1>1. /\ pc = "running" /\ pc' = pc /\ args' = args /\ file' = file /\ url' = url /\ serverPort' = serverPort
        /\ Rewrite(Digits(Text(url), p))
    BY DEF AddChannel, inputs, statics
  <1>2. Digits(Text(url), p) \in Url
    <2>1. Text(url) \in Url /\ p \in Nat
      BY <1>1, TextTyped, ArgumentsOK
    <2> QED BY <2>1, DigitsTyped
  <1>3. Pointed /\ Blocks
    BY <1>1 DEF Texts, IInv
  <1> QED BY <1>1, <1>2, <1>3, RewriteTexts DEF Texts

LEMMA EndRunTexts == ASSUME IInv, Texts, NEW restart \in BOOLEAN, EndRun(restart) PROVE Texts'
  <1> DEFINE freed == {profile, address} \ {Null}
  <1>1. /\ pc' \in {"start", "exited", "aborted"} /\ args' = args /\ file' = file /\ argv' = argv /\ local' = local
        /\ serverPort' = serverPort
        /\ \/ heap' = heap
           \/ heap' = [k \in DOMAIN heap |-> IF k \in freed THEN [heap[k] EXCEPT !.freed = TRUE] ELSE heap[k]]
    BY DEF EndRun, Cleanup, inputs, data
  <1> HIDE DEF freed
  <1>2. DOMAIN heap' = DOMAIN heap
    BY <1>1
  <1>3. ASSUME NEW k \in DOMAIN heap PROVE heap'[k].text = heap[k].text
    <2>1. heap[k] = [text |-> heap[k].text, freed |-> heap[k].freed]
      BY DEF IInv, Blocks, IsHeap
    <2>2. heap'[k] = [heap[k] EXCEPT !.freed = TRUE] \/ heap'[k] = heap[k]
      BY <1>1
    <2> QED BY <2>1, <2>2
  <1> QED BY <1>1, <1>2, <1>3 DEF Texts

LEMMA EditFileTexts == ASSUME IInv, Texts, NEW n \in DOMAIN Files, EditFile(n) PROVE Texts'
  <1>1. /\ pc = "running" /\ pc' = pc /\ args' = args /\ argv' = argv /\ heap' = heap /\ url' = url /\ local' = local
        /\ serverPort' = serverPort /\ \E lines \in Files[n] : file' = [file EXCEPT ![n] = lines]
    BY DEF EditFile, statics, data
  <1>2. \A m \in DOMAIN file' : file'[m] \in Seq(Line)
    BY <1>1, ArgumentsOK DEF Texts
  <1>3. Pointed'
    BY <1>1 DEF Texts, Pointed
  <1> QED BY <1>1, <1>2, <1>3 DEF Texts

LEMMA BeginTexts == ASSUME IInv, Texts, Begin PROVE Texts' /\ Configured'
  <1>1. /\ pc' = "args" /\ i' = 1 /\ args' = args /\ file' = file /\ argv' = argv /\ heap' = heap
        /\ local' = MainUrl /\ url' = Local /\ serverPort' = DefaultPort
    BY DEF Begin, inputs, statics
  <1>2. MainUrl \in Url /\ DefaultPort \in PortNumbers
    BY DEF MainUrl, Url, DefaultPort, PortNumbers
  <1>3. Texts'
    BY <1>1, <1>2 DEF Texts, Pointed
  <1>4. UpTo(args, 1) = {}
    BY DEF UpTo, Turns, Places
  <1>5. LastSaid(SaidPorts(args, file, 1)) = {}
    BY <1>4 DEF LastSaid, SaidPorts
  <1>6. Built(SaidAddresses(args, file, argv, 1), SaidDigits(args, 1)) = {MainUrl}
    <2> DEFINE f == SaidAddresses(args, file, argv, 1)
               d == SaidDigits(args, 1)
    <2>1. DOMAIN f = {}
      BY <1>4 DEF SaidAddresses
    <2> HIDE DEF f, d
    <2>2. LastSaid(f) = {} /\ PortBehind(f, d) = {}
      BY <2>1 DEF LastSaid, PortBehind, Behind
    <2>3. Built(f, d) = {MainUrl}
      BY <2>2, BuiltIs DEF BuiltFrom, OrElse
    <2> QED BY <2>3 DEF f, d
  <1>7. url'.at = "local" /\ Text(url)' = MainUrl
    BY <1>1 DEF Local, Text
  <1> QED BY <1>1, <1>3, <1>5, <1>6, <1>7 DEF Configured, OrElse

\* As long as the default file is missing, no -df has been read.
NotWritten == pc = "args" /\ file[Default] = Missing => \A l \in UpTo(args, i) : args[l] # "-df"

LEMMA OptionHeard ==
  ASSUME IInv, Texts, Configured, NotWritten, Heard, Turn, args[i] = "-df" => file'[Default] # Missing
  PROVE  Configured' /\ NotWritten'
  <1>1. Configured'
    BY HeardKeeps DEF Heard, Configured, IInv
  <1>2. Len(args) \in Nat /\ i \in Turns(args) /\ Default \in DOMAIN file
    BY ArgsTyped DEF IInv, Place, Turn
  <1>3. UpTo(args, i') = UpTo(args, i) \cup {i}
    BY <1>2, UpToNext DEF Turn
  <1>4. file'[Default] = Missing => file[Default] = Missing
    BY <1>2 DEF Turn, FileGrown
  <1>5. NotWritten'
    BY <1>3, <1>4 DEF NotWritten, Turn
  <1> QED BY <1>1, <1>5

\* Where the loop is not, nothing is said of it.
LEMMA Elsewhere == pc # "args" => Configured /\ NotWritten
  BY DEF Configured, NotWritten

LEMMA DefaultThere == ASSUME IInv, Texts, pc = "args", FromDefaultFile PROVE file'[Default] # Missing
  <1>1. Default \in DOMAIN file /\ Generated # Missing
    BY GeneratedSays DEF IInv, Place
  <1> QED BY <1>1, DefaultDone

Said == Texts /\ Configured /\ NotWritten

LEMMA InitSaid == Init => Said
  <1> SUFFICES ASSUME Init PROVE Said
    OBVIOUS
  <1>1. /\ args \in CommandLines /\ pc = "start" /\ heap = <<>> /\ local = MainUrl /\ serverPort = DefaultPort
        /\ argv = [k \in {x \in DOMAIN args : args[x] \in DOMAIN UrlOf} |-> UrlOf[args[k]]]
        /\ \A n \in DOMAIN file : n \in DOMAIN Files /\ file[n] \in Files[n]
    BY DEF Init
  <1>2. MainUrl \in Url /\ DefaultPort \in PortNumbers
    BY DEF MainUrl, Url, DefaultPort, PortNumbers
  <1>3. \A k \in DOMAIN argv : argv[k] \in Url
    BY <1>1, ArgumentsOK
  <1>4. \A n \in DOMAIN file : file[n] \in Seq(Line)
    BY <1>1, ArgumentsOK
  <1>5. Texts
    BY <1>1, <1>2, <1>3, <1>4 DEF Texts
  <1> QED BY <1>1, <1>5, Elsewhere DEF Said

LEMMA NextSaid == IInv /\ Said /\ [Next]_vars => Said'
  <1> SUFFICES ASSUME IInv, Said, [Next]_vars PROVE Said'
    OBVIOUS
  <1>0. Texts /\ Configured /\ NotWritten
    BY DEF Said
  <1>9. (pc # "args" => Configured /\ NotWritten)'
    BY Elsewhere, PTL
  <1>1. CASE Begin
    <2>1. UpTo(args, 1) = {}
      BY DEF UpTo, Turns, Places
    <2>2. NotWritten'
      BY <1>1, <2>1 DEF NotWritten, Begin, inputs
    <2> QED BY <1>0, <1>1, <2>2, BeginTexts DEF Said
  <1>2. CASE ServerPort \/ ChannelPort \/ ConfigFile \/ DefaultFile \/ UdpAddress \/ EthAddress \/ Ignored
    <2>1. Turn
      BY <1>2, ServerPortTurn, ChannelPortTurn, ConfigFileTurn, DefaultFileTurn, UdpAddressTurn, EthAddressTurn,
         IgnoredTurn
    <2>2. Heard /\ Texts'
      BY <1>0, <1>2, ServerPortHeard, ChannelPortHeard, ConfigFileHeard, DefaultFileHeard, UdpAddressHeard,
         EthAddressHeard, IgnoredHeard
    <2>3. args[i] = "-df" => file'[Default] # Missing
      <3>1. CASE DefaultFile
        BY <1>0, <3>1, DefaultThere DEF DefaultFile, Option
      <3>2. CASE ServerPort \/ ChannelPort \/ ConfigFile
        BY <3>2 DEF ServerPort, ChannelPort, ConfigFile, Option
      <3>3. CASE UdpAddress \/ EthAddress
        <4>1. args[i] \in DOMAIN UrlOf
          BY <3>3 DEF UdpAddress, EthAddress, Option
        <4> QED BY <4>1, NotOptions
      <3>4. CASE Ignored
        BY <3>4 DEF Ignored, Option, Known
      <3> QED BY <1>2, <3>1, <3>2, <3>3, <3>4
    <2> QED BY <1>0, <2>1, <2>2, <2>3, OptionHeard DEF Said
  <1>3. CASE ExitAtOnce
    <2>1. /\ pc' = "exited" /\ args' = args /\ file' = file /\ argv' = argv /\ heap' = heap /\ local' = local
          /\ url' = url /\ serverPort' = serverPort
      BY <1>3 DEF ExitAtOnce, inputs, statics, data
    <2> QED BY <1>0, <1>9, <2>1 DEF Said, Texts
  <1>4. CASE Interpreted
    <2>1. pc' = "running"
      BY <1>4 DEF Interpreted
    <2> QED BY <1>0, <1>4, <1>9, <2>1, InterpretedTexts DEF Said
  <1>5. CASE \E p \in AddPort : AddChannel(p)
    <2>1. pc' = "running"
      BY <1>5 DEF AddChannel
    <2> QED BY <1>0, <1>5, <1>9, <2>1, AddChannelTexts DEF Said
  <1>6. CASE \E restart \in BOOLEAN : EndRun(restart)
    <2>1. pc' # "args"
      BY <1>6 DEF EndRun, Cleanup
    <2> QED BY <1>0, <1>6, <1>9, <2>1, EndRunTexts DEF Said
  <1>7. CASE \E n \in DOMAIN Files : EditFile(n)
    <2>1. pc' = "running"
      BY <1>7 DEF EditFile
    <2> QED BY <1>0, <1>7, <1>9, <2>1, EditFileTexts DEF Said
  <1>8. CASE UNCHANGED vars
    <2>1. /\ pc' = pc /\ args' = args /\ file' = file /\ argv' = argv /\ heap' = heap /\ local' = local
          /\ url' = url /\ serverPort' = serverPort /\ i' = i
      BY <1>8 DEF vars, inputs, statics, data, history
    <2>2. Texts'
      BY <1>0, <2>1 DEF Texts, Pointed
    <2>3. Text(url)' = Text(url)
      BY <2>1 DEF Text
    <2> QED BY <1>0, <2>1, <2>2, <2>3 DEF Said, Configured, NotWritten
  <1> QED BY <1>1, <1>2, <1>3, <1>4, <1>5, <1>6, <1>7, <1>8 DEF Next

-----------------------------------------------------------------------------
(* PortSet and UrlSet of the words, the files and the addresses.            *)
OthersIn(a) == {k \in UpTo(a, Len(a) + 1) : Specifies(a, k)}
DefaultLastIn(a, f) ==
  \A k \in OthersIn(a) : (\A l \in OthersIn(a) : l <= k) => a[k] = "-f" /\ ~ There(f, a[k + 1])
PortsBy(a, f) ==
  IF DefaultLastIn(a, f) /\ PortIn(Lines(f, Default)) # {} THEN PortIn(Lines(f, Default))
  ELSE OrElse(LastSaid(SaidPorts(a, f, Len(a) + 1)), DefaultPort)
AddressesBy(a, f, v) ==
  IF DefaultLastIn(a, f) /\ UrlIn(Lines(f, Default)) # {} THEN UrlIn(Lines(f, Default))
  ELSE Built(SaidAddresses(a, f, v, Len(a) + 1), SaidDigits(a, Len(a) + 1))

LEMMA SetIs == Place => PortSet = PortsBy(args, file) /\ UrlSet = AddressesBy(args, file, argv)
  <1> SUFFICES ASSUME Place PROVE PortSet = PortsBy(args, file) /\ UrlSet = AddressesBy(args, file, argv)
    OBVIOUS
  <1>1. /\ [k \in Options |-> PortSaid(k)] = SaidPorts(args, file, Len(args) + 1)
        /\ [k \in Options |-> UrlSaid(k)] = SaidAddresses(args, file, argv, Len(args) + 1)
        /\ [k \in Options |-> DigitsSaid(k)] = SaidDigits(args, Len(args) + 1)
        /\ Options = UpTo(args, Len(args) + 1)
    BY ArgsTyped, SetsAre
  <1>2. Others = OthersIn(args)
    BY <1>1 DEF Others, OthersIn, Specifies
  <1>3. DefaultLast <=> DefaultLastIn(args, file)
    BY <1>2 DEF DefaultLast, DefaultLastIn, There, Readable
  <1>4. Contents(Default) = Lines(file, Default)
    BY DEF Contents, Lines, Readable
  <1>5. PortSet = PortsBy(args, file)
    BY <1>1, <1>3, <1>4 DEF PortSet, PortsBy
  <1>6. UrlSet = AddressesBy(args, file, argv)
    BY <1>1, <1>3, <1>4 DEF UrlSet, AddressesBy
  <1> QED BY <1>5, <1>6

\* What only one value is said of from some option on.
LEMMA TailSaid ==
  ASSUME NEW n \in Nat, NEW f, DOMAIN f \subseteq 1 .. n, NEW k \in DOMAIN f, NEW V, V # {}, f[k] = V,
         \A l \in DOMAIN f : k < l => f[l] \in {V, {}}
  PROVE  LastSaid(f) = V
  <1>1. PICK m \in DOMAIN f : f[m] # {} /\ LastSaid(f) = f[m] /\ k <= m
    BY LastFound
  <1>2. k = m \/ k < m
    BY <1>1
  <1> QED BY <1>1, <1>2

LEMMA TailBuilt ==
  ASSUME NEW n \in Nat, NEW f, DOMAIN f \subseteq 1 .. n, NEW k \in DOMAIN f, NEW V, V # {}, f[k] = V,
         \A l \in DOMAIN f : k < l => f[l] \in {V, {}},
         NEW d, \A l \in DOMAIN f : k < l => d[l] = {}
  PROVE  Built(f, d) = V
  <1>1. LastSaid(f) = V
    BY TailSaid
  <1>2. PortBehind(f, d) = {}
    <2> DEFINE h == [l \in Behind(f) |-> d[l]]
    <2>1. \A l \in DOMAIN h : h[l] = {}
      BY DEF Behind
    <2> HIDE DEF h
    <2>2. LastSaid(h) = {}
      BY <2>1 DEF LastSaid
    <2> QED BY <2>2 DEF PortBehind, h
  <1> QED BY <1>1, <1>2, BuiltIs DEF BuiltFrom, OrElse

LEMMA UpToInside ==
  ASSUME NEW a, Len(a) \in Nat
  PROVE  UpTo(a, Len(a) + 1) \subseteq 1 .. Len(a)
  BY DEF UpTo, Turns, Places

\* The last of the options that set inputSpecified decides.
LEMMA Decides ==
  ASSUME NEW a, Len(a) \in Nat, NEW f
  PROVE  \/ /\ \A k \in Turns(a) : k <= Len(a) => ~ Specifies(a, k)
            /\ DefaultLastIn(a, f)
         \/ \E k \in UpTo(a, Len(a) + 1) :
              /\ LastSpecifies(a, k, Len(a) + 1) /\ Specifies(a, k) /\ k <= Len(a)
              /\ \A l \in UpTo(a, Len(a) + 1) : k < l => ~ Specifies(a, l)
              /\ \A g : DefaultLastIn(a, g) <=> a[k] = "-f" /\ ~ There(g, a[k + 1])
  <1>0. \A k \in Turns(a) : k \in Nat
    BY DEF Turns, Places
  <1>1. CASE \A k \in Turns(a) : k <= Len(a) => ~ Specifies(a, k)
    <2>1. OthersIn(a) = {}
      BY <1>0, <1>1 DEF OthersIn, UpTo
    <2> QED BY <1>1, <2>1 DEF DefaultLastIn
  <1>2. CASE \E k \in Turns(a) : k <= Len(a) /\ Specifies(a, k)
    <2>1. PICK k \in Turns(a) : k <= Len(a) /\ LastSpecifies(a, k, Len(a) + 1)
      BY <1>2, LastOne
    <2>2. k \in OthersIn(a) /\ k \in UpTo(a, Len(a) + 1) /\ Specifies(a, k)
      BY <1>0, <2>1 DEF OthersIn, UpTo, LastSpecifies
    <2>3. \A l \in UpTo(a, Len(a) + 1) : k < l => ~ Specifies(a, l)
      BY <2>1 DEF LastSpecifies, UpTo
    <2>4. \A l \in OthersIn(a) : l <= k
      BY <1>0, <2>3 DEF OthersIn, UpTo
    <2>5. \A j \in OthersIn(a) : (\A l \in OthersIn(a) : l <= j) <=> j = k
      BY <1>0, <2>2, <2>4 DEF OthersIn, UpTo
    <2>6. \A g : DefaultLastIn(a, g) <=> a[k] = "-f" /\ ~ There(g, a[k + 1])
      BY <2>2, <2>5 DEF DefaultLastIn
    <2> QED BY <2>1, <2>2, <2>3, <2>6
  <1> QED BY <1>1, <1>2

\* When the last of them is a -f of the default file, nothing but that file is
\* said from there on.
LEMMA DefaultSaid ==
  ASSUME NEW a, Len(a) \in Nat, NEW k \in UpTo(a, Len(a) + 1), a[k] = "-f", a[k + 1] = Default,
         \A l \in UpTo(a, Len(a) + 1) : k < l => ~ Specifies(a, l), NEW f, NEW v
  PROVE  /\ PortIn(Lines(f, Default)) # {} => PortIn(Lines(f, Default)) = LastSaid(SaidPorts(a, f, Len(a) + 1))
         /\ UrlIn(Lines(f, Default)) # {} =>
              UrlIn(Lines(f, Default)) = Built(SaidAddresses(a, f, v, Len(a) + 1), SaidDigits(a, Len(a) + 1))
  <1> DEFINE N == Len(a) + 1
             L == Lines(f, Default)
             p == SaidPorts(a, f, N)
             u == SaidAddresses(a, f, v, N)
             d == SaidDigits(a, N)
  <1>1. DOMAIN p = UpTo(a, N) /\ DOMAIN u = UpTo(a, N) /\ UpTo(a, N) \subseteq 1 .. Len(a) /\ k \in UpTo(a, N)
    BY UpToInside DEF SaidPorts, SaidAddresses
  <1>2. \A l \in UpTo(a, N) : p[l] = PortOf(a, f, l) /\ u[l] = AddressOf(a, f, v, l) /\ d[l] = DigitsOf(a, l)
    BY DEF SaidPorts, SaidAddresses, SaidDigits
  <1>3. PortOf(a, f, k) = PortIn(L) /\ AddressOf(a, f, v, k) = UrlIn(L)
    BY NotOptions DEF PortOf, AddressOf, LinesOf
  <1>4. ASSUME NEW l \in UpTo(a, N), k < l
        PROVE  PortOf(a, f, l) \in {PortIn(L), {}} /\ AddressOf(a, f, v, l) \in {UrlIn(L), {}} /\ DigitsOf(a, l) = {}
    <2>1. a[l] \notin {"-sp", "-cp", "-f"} /\ a[l] \notin DOMAIN UrlOf
      BY <1>4 DEF Specifies
    <2>2. LinesOf(a, f, l) = L \/ LinesOf(a, f, l) = <<>>
      BY <2>1 DEF LinesOf
    <2>3. PortOf(a, f, l) = PortIn(LinesOf(a, f, l)) /\ AddressOf(a, f, v, l) = UrlIn(LinesOf(a, f, l))
      BY <2>1 DEF PortOf, AddressOf
    <2>4. DigitsOf(a, l) = {}
      BY <2>1 DEF DigitsOf
    <2> QED BY <2>2, <2>3, <2>4, NothingIn
  <1> HIDE DEF p, u, d, L, N
  <1>5. ASSUME PortIn(L) # {} PROVE LastSaid(p) = PortIn(L)
    BY <1>1, <1>2, <1>3, <1>4, <1>5, TailSaid
  <1>6. ASSUME UrlIn(L) # {} PROVE Built(u, d) = UrlIn(L)
    BY <1>1, <1>2, <1>3, <1>4, <1>6, TailBuilt
  <1> QED BY <1>5, <1>6 DEF p, u, d, L, N

\* What Interpreted does.
LEMMA InterpretedDoes ==
  ASSUME IInv, Said, Interpreted
  PROVE  /\ pc = "args" /\ i = Len(args) + 1 /\ Len(args) \in Nat /\ args' = args /\ argv' = argv
         /\ specified => file' = file /\ serverPort' = serverPort /\ Text(url)' = Text(url)
         /\ ~ specified => FromDefaultFile
         /\ serverPort \in OrElse(LastSaid(SaidPorts(args, file, Len(args) + 1)), DefaultPort)
         /\ Text(url) \in Built(SaidAddresses(args, file, argv, Len(args) + 1), SaidDigits(args, Len(args) + 1))
  <1>1. /\ pc = "args" /\ i > Len(args) /\ (~ specified => FromDefaultFile)
        /\ specified => args' = args /\ file' = file /\ argv' = argv /\ heap' = heap /\ local' = local
                         /\ url' = url /\ serverPort' = serverPort
    BY DEF Interpreted, inputs, statics, data
  <1>2. Len(args) \in Nat /\ i = Len(args) + 1
    BY <1>1, ArgsTyped DEF IInv, Place, Turns, Places
  <1>3. args' = args /\ argv' = argv
    BY <1>1, DefaultDone DEF Said
  <1>4. specified => Text(url)' = Text(url)
    BY <1>1 DEF Text
  <1> QED BY <1>1, <1>2, <1>3, <1>4 DEF Said, Configured

LEMMA InterpretedWins ==
  ASSUME IInv, Said, Interpreted, file' = file
  PROVE  serverPort' \in PortsBy(args, file) /\ Text(url)' \in AddressesBy(args, file, argv)
  <1> DEFINE N == Len(args) + 1
             L == Lines(file, Default)
  <1>1. /\ pc = "args" /\ Len(args) \in Nat /\ i = Len(args) + 1
        /\ specified => serverPort' = serverPort /\ Text(url)' = Text(url)
        /\ ~ specified => FromDefaultFile
        /\ serverPort \in OrElse(LastSaid(SaidPorts(args, file, N)), DefaultPort)
        /\ Text(url) \in Built(SaidAddresses(args, file, argv, N), SaidDigits(args, N))
    BY InterpretedDoes
  <1>2. ASSUME ~ specified
        PROVE  /\ serverPort' \in OrElse(PortIn(L), serverPort)
               /\ IF UrlIn(L) = {} THEN Text(url)' = Text(url) ELSE Text(url)' \in UrlIn(L)
    BY <1>1, <1>2, DefaultDone DEF Said
  <1>3. PICK b \in BOOLEAN : b <=> DefaultLastIn(args, file)
    <2>1. CASE DefaultLastIn(args, file)
      BY <2>1
    <2>2. CASE ~ DefaultLastIn(args, file)
      BY <2>2
    <2> QED BY <2>1, <2>2
  <1>4. CASE specified
    <2>1. ~ DefaultLastIn(args, file)
      <3>1. PICK k \in UpTo(args, N) :
              /\ LastSpecifies(args, k, N) /\ Specifies(args, k)
              /\ \A g : DefaultLastIn(args, g) <=> args[k] = "-f" /\ ~ There(g, args[k + 1])
        BY <1>1, <1>4, Decides DEF IInv, SpecifiedByLast
      <3>2. k \in Turns(args)
        BY DEF UpTo
      <3>3. args[k] # "-f" \/ There(file, args[k + 1])
        BY <1>1, <1>4, <3>1, <3>2 DEF IInv, SpecifiedByLast
      <3> QED BY <3>1, <3>3
    <2> QED BY <1>1, <1>4, <2>1 DEF PortsBy, AddressesBy
  <1>5. CASE ~ specified /\ DefaultLastIn(args, file)
    <2>1. serverPort' \in PortsBy(args, file)
      <3>1. CASE PortIn(L) = {}
        BY <1>1, <1>2, <1>5, <3>1 DEF PortsBy, OrElse
      <3>2. CASE PortIn(L) # {}
        BY <1>2, <1>5, <3>2 DEF PortsBy, OrElse
      <3> QED BY <3>1, <3>2
    <2>2. Text(url)' \in AddressesBy(args, file, argv)
      <3>1. CASE UrlIn(L) = {}
        BY <1>1, <1>2, <1>5, <3>1 DEF AddressesBy
      <3>2. CASE UrlIn(L) # {}
        BY <1>2, <1>5, <3>2 DEF AddressesBy
      <3> QED BY <3>1, <3>2
    <2> QED BY <2>1, <2>2
  <1>6. CASE ~ specified /\ ~ DefaultLastIn(args, file)
    <2>1. PICK k \in UpTo(args, N) :
            /\ LastSpecifies(args, k, N) /\ Specifies(args, k)
            /\ \A l \in UpTo(args, N) : k < l => ~ Specifies(args, l)
            /\ \A g : DefaultLastIn(args, g) <=> args[k] = "-f" /\ ~ There(g, args[k + 1])
      BY <1>1, <1>6, Decides
    <2>2. k \in Turns(args)
      BY DEF UpTo
    <2>3. args[k] = "-f" /\ (There(file, args[k + 1]) => args[k + 1] = Default)
      BY <1>1, <1>6, <2>1, <2>2 DEF IInv, SpecifiedByLast
    <2>4. args[k + 1] = Default
      BY <1>6, <2>1, <2>3
    <2>5. /\ PortIn(L) # {} => PortIn(L) = LastSaid(SaidPorts(args, file, N))
          /\ UrlIn(L) # {} => UrlIn(L) = Built(SaidAddresses(args, file, argv, N), SaidDigits(args, N))
      BY <1>1, <2>1, <2>3, <2>4, DefaultSaid
    <2>6. serverPort' \in PortsBy(args, file)
      <3>1. CASE PortIn(L) = {}
        BY <1>1, <1>2, <1>6, <3>1 DEF PortsBy, OrElse
      <3>2. CASE PortIn(L) # {}
        BY <1>2, <1>6, <2>5, <3>2 DEF PortsBy, OrElse
      <3> QED BY <3>1, <3>2
    <2>7. Text(url)' \in AddressesBy(args, file, argv)
      <3>1. CASE UrlIn(L) = {}
        BY <1>1, <1>2, <1>6, <3>1 DEF AddressesBy
      <3>2. CASE UrlIn(L) # {}
        BY <1>2, <1>6, <2>5, <3>2 DEF AddressesBy
      <3> QED BY <3>1, <3>2
    <2> QED BY <2>6, <2>7
  <1> QED BY <1>4, <1>5, <1>6

LEMMA SaidInvariance == Spec => [](IInv /\ Said)
  BY InitIInv, NextIInv, InitSaid, NextSaid, PTL DEF Spec

LEMMA InterpretedOnly ==
  ASSUME [Next]_vars, pc = "args", pc' = "running"
  PROVE  Interpreted
  BY DEF Next, vars, Begin, ServerPort, ChannelPort, ConfigFile, DefaultFile, UdpAddress, EthAddress, Ignored,
     ExitAtOnce, AddChannel, EndRun, EditFile, Option

(* The last option that says something about the server's port, the address *)
(* or its port is obeyed, and the default file where it has the last word.  *)
THEOREM OptionsObeyed == Spec => LastOptionWins
  <1>1. ASSUME IInv /\ Said, [Next]_vars
        PROVE  [pc = "args" /\ pc' = "running" /\ file' = file => serverPort' \in PortSet /\ Text(url)' \in UrlSet]_vars
    <2>1. SUFFICES ASSUME pc = "args", pc' = "running", file' = file PROVE serverPort' \in PortSet /\ Text(url)' \in UrlSet
      OBVIOUS
    <2>2. serverPort' \in PortsBy(args, file) /\ Text(url)' \in AddressesBy(args, file, argv)
      BY <1>1, <2>1, InterpretedOnly, InterpretedWins
    <2> QED BY <1>1, <2>2, SetIs DEF IInv
  <1> QED BY <1>1, SaidInvariance, PTL DEF Spec, LastOptionWins

\* A port put into an address of the command line once more: when the last
\* address is that one, the last port behind it is put in again.
PutAgain(n, f, g, d, k, j, t, p) ==
  /\ n \in Nat /\ DOMAIN f \subseteq 1 .. n /\ DOMAIN g = DOMAIN f
  /\ k \in DOMAIN f /\ j \in DOMAIN f /\ k < j /\ t \in Url /\ p \in Nat
  /\ f[k] = {t} /\ g[k] = {WithPort(t, p)} /\ (\A l \in DOMAIN f : l # k => g[l] = f[l])
  /\ d[j] = {p} /\ \A l \in DOMAIN f : d[l] \subseteq Nat

LEMMA DigitsAgain ==
  ASSUME NEW n, NEW f, NEW g, NEW d, NEW k, NEW c, NEW t, NEW p, PutAgain(n, f, g, d, k, c, t, p)
  PROVE  Built(f, d) = Built(g, d)
  <1> USE DEF PutAgain
  <1>1. PICK m \in DOMAIN f : f[m] # {} /\ LastSaid(f) = f[m] /\ k <= m /\ \A l \in DOMAIN f : f[l] # {} => l <= m
    <2>1. n \in Nat /\ DOMAIN f \subseteq 1 .. n /\ k \in DOMAIN f /\ f[k] # {}
      OBVIOUS
    <2> QED BY <2>1, LastFound
  <1>2. \A l \in DOMAIN f : g[l] # {} <=> f[l] # {}
    OBVIOUS
  <1>3. Behind(g) = Behind(f)
    BY <1>2 DEF Behind
  <1>4. PortBehind(g, d) = PortBehind(f, d)
    BY <1>3 DEF PortBehind
  <1>5. LastSaid(g) = g[m]
    <2>1. DOMAIN g \subseteq Int /\ m \in DOMAIN g /\ g[m] # {} /\ \A l \in DOMAIN g : g[l] # {} => l <= m
      BY <1>1, <1>2
    <2> QED BY <2>1, LastIs
  <1>6. CASE m # k
    <2>1. LastSaid(f) = LastSaid(g)
      BY <1>1, <1>5, <1>6
    <2>2. Built(f, d) = BuiltFrom(OrElse(LastSaid(g), MainUrl), PortBehind(g, d))
      BY <1>4, <2>1, BuiltIs
    <2> QED BY <2>2, BuiltIs
  <1>7. CASE m = k
    <2> DEFINE h == [l \in Behind(f) |-> d[l]]
               P == PortBehind(f, d)
    <2>1. c \in Behind(f)
      <3>1. \A l \in DOMAIN f : f[l] # {} => l < c
        BY <1>1, <1>7
      <3> QED BY <3>1 DEF Behind
    <2>2. DOMAIN h \subseteq 1 .. n /\ c \in DOMAIN h /\ h[c] # {} /\ \A l \in DOMAIN h : h[l] \subseteq Nat
      BY <2>1 DEF Behind
    <2> HIDE DEF h
    <2>3. PICK j \in DOMAIN h : h[j] # {} /\ LastSaid(h) = h[j]
      BY <2>2, LastFound
    <2>4. P # {} /\ P \subseteq Nat
      BY <2>2, <2>3 DEF PortBehind, h
    <2> HIDE DEF P
    <2>5. LastSaid(f) = {t} /\ LastSaid(g) = {WithPort(t, p)}
      BY <1>1, <1>5, <1>7
    <2>6. Built(f, d) = BuiltFrom({t}, P) /\ Built(g, d) = BuiltFrom({WithPort(t, p)}, P)
      BY <1>4, <2>5, BuiltIs DEF OrElse, P
    <2>7. \A q \in P : WithPort(WithPort(t, p), q) = WithPort(t, q)
      BY <2>4, LastDigits
    <2>8. /\ BuiltFrom({t}, P) = {WithPort(t, q) : q \in P}
          /\ BuiltFrom({WithPort(t, p)}, P) = {WithPort(WithPort(t, p), q) : q \in P}
      BY <2>4 DEF BuiltFrom
    <2> QED BY <2>6, <2>7, <2>8
  <1> QED BY <1>6, <1>7

-----------------------------------------------------------------------------
(* There is one port and one address to be obeyed.                          *)
Single(S) == \A x, y \in S : x = y

LEMMA LastSingle ==
  ASSUME NEW n \in Nat, NEW f, DOMAIN f \subseteq 1 .. n, \A k \in DOMAIN f : Single(f[k])
  PROVE  Single(LastSaid(f))
  <1>1. CASE \E k \in DOMAIN f : f[k] # {}
    <2>1. PICK k \in DOMAIN f : f[k] # {}
      BY <1>1
    <2>2. PICK m \in DOMAIN f : LastSaid(f) = f[m]
      BY <2>1, LastFound
    <2> QED BY <2>2
  <1>2. CASE \A k \in DOMAIN f : f[k] = {}
    <2>1. LastSaid(f) = {}
      BY <1>2 DEF LastSaid
    <2> QED BY <2>1 DEF Single
  <1> QED BY <1>1, <1>2

LEMMA FileSingle ==
  ASSUME NEW lines, lines \in Seq(Line)
  PROVE  Single(PortIn(lines)) /\ Single(UrlIn(lines))
  <1> DEFINE p == [j \in DOMAIN lines |-> LinePort(lines[j])]
             u == [j \in DOMAIN lines |-> LineSays(lines[j])]
  <1>1. DOMAIN p \subseteq 1 .. Len(lines) /\ DOMAIN u \subseteq 1 .. Len(lines) /\ Len(lines) \in Nat
    OBVIOUS
  <1>2. \A k \in DOMAIN p : Single(p[k])
    BY DEF Single, LinePort, Valid
  <1>3. \A k \in DOMAIN u : Single(u[k])
    BY DEF Single, LineSays
  <1> HIDE DEF p, u
  <1>4. Single(LastSaid(p)) /\ Single(LastSaid(u))
    BY <1>1, <1>2, <1>3, LastSingle
  <1> QED BY <1>4 DEF PortIn, UrlIn, p, u

LEMMA BuiltSingle ==
  ASSUME NEW n \in Nat, NEW f, DOMAIN f \subseteq 1 .. n, NEW d, \A k \in DOMAIN f : Single(f[k]) /\ Single(d[k])
  PROVE  Single(Built(f, d))
  <1> DEFINE h == [l \in Behind(f) |-> d[l]]
             B == OrElse(LastSaid(f), MainUrl)
             P == PortBehind(f, d)
  <1>1. DOMAIN h \subseteq 1 .. n /\ \A k \in DOMAIN h : Single(h[k])
    BY DEF Behind
  <1>2. Single(LastSaid(f))
    BY LastSingle
  <1>3. Single(B)
    BY <1>2 DEF OrElse, Single
  <1> HIDE DEF h
  <1>4. Single(LastSaid(h))
    BY <1>1, LastSingle
  <1>5. Single(P)
    BY <1>4 DEF PortBehind, h
  <1>6. Built(f, d) = BuiltFrom(B, P)
    BY BuiltIs
  <1> HIDE DEF B, P
  <1>7. Single(BuiltFrom(B, P))
    BY <1>3, <1>5 DEF Single, BuiltFrom
  <1> QED BY <1>6, <1>7

LEMMA SetsSingle ==
  ASSUME Place, Texts
  PROVE  Single(PortsBy(args, file)) /\ Single(AddressesBy(args, file, argv))
  <1> DEFINE N == Len(args) + 1
             p == SaidPorts(args, file, N)
             u == SaidAddresses(args, file, argv, N)
             d == SaidDigits(args, N)
  <1>1. Len(args) \in Nat /\ DOMAIN p \subseteq 1 .. Len(args) /\ DOMAIN u \subseteq 1 .. Len(args)
    BY ArgsTyped, UpToInside DEF SaidPorts, SaidAddresses
  <1>2. \A k : LinesOf(args, file, k) \in Seq(Line) /\ Lines(file, Default) \in Seq(Line)
    BY LinesTyped DEF Texts
  <1>3. \A k : Single(PortOf(args, file, k))
    BY <1>2, FileSingle DEF PortOf, Valid, Single
  <1>4. \A k : Single(AddressOf(args, file, argv, k))
    BY <1>2, FileSingle DEF AddressOf, Single
  <1>5. \A k : Single(DigitsOf(args, k))
    BY DEF DigitsOf, Single
  <1>6. \A k \in DOMAIN p : Single(p[k])
    BY <1>3 DEF SaidPorts
  <1>7. \A k \in DOMAIN u : Single(u[k]) /\ Single(d[k])
    BY <1>4, <1>5 DEF SaidAddresses, SaidDigits
  <1> HIDE DEF p, u, d, N
  <1>8. Single(LastSaid(p)) /\ Single(Built(u, d))
    BY <1>1, <1>6, <1>7, LastSingle, BuiltSingle
  <1>9. Single(OrElse(LastSaid(p), DefaultPort))
    BY <1>8 DEF OrElse, Single
  <1>10. Single(PortIn(Lines(file, Default))) /\ Single(UrlIn(Lines(file, Default)))
    BY <1>2, FileSingle
  <1> QED BY <1>8, <1>9, <1>10 DEF PortsBy, AddressesBy, p, u, d, N

-----------------------------------------------------------------------------
(* From the first run on, its port and its address are what the command     *)
(* line and the files say, the generated default file included; and what is *)
(* missing still will not be generated.                                     *)
FirstObeyed ==
  /\ first = [serverPort |-> first.serverPort, url |-> first.url]
  /\ first.serverPort \in PortsBy(args, file) /\ first.url \in AddressesBy(args, file, argv)
  /\ file[Default] = Missing => /\ \A k \in UpTo(args, Len(args) + 1) : args[k] # "-df"
                                /\ ~ Unspecified(args, file)

FirstKept ==
  /\ runs \in Nat /\ (pc \in {"args", "running"} => runs # 0)
  /\ ~ edited /\ ~ rewritten =>
       /\ pc = "start" /\ runs # 0 => FirstObeyed
       /\ pc = "args" /\ runs > 1 => FirstObeyed
       /\ pc = "running" => FirstObeyed

LEMMA ObeyedStill ==
  ASSUME FirstObeyed, first' = first, args' = args, file' = file, AddressesBy(args, file, argv') = AddressesBy(args, file, argv)
  PROVE  FirstObeyed'
  BY DEF FirstObeyed

LEMMA TurnObeyed ==
  ASSUME IInv, Said, FirstObeyed, Turn, Heard, file' = file \/ (args[i] = "-df" /\ file[Default] = Missing), first' = first
  PROVE  FirstObeyed'
  <1> DEFINE N == Len(args) + 1
             f == SaidAddresses(args, file, argv, N)
             g == SaidAddresses(args, file, argv', N)
             d == SaidDigits(args, N)
  <1>1. Len(args) \in Nat /\ i \in Turns(args) /\ i \in Nat /\ i <= Len(args) /\ args' = args /\ DOMAIN args = 1 .. Len(args)
    BY ArgsTyped DEF IInv, Place, Turn, Turns, Places
  <1>2. i \in UpTo(args, N)
    BY <1>1 DEF UpTo
  <1>3. file' = file
    BY <1>2 DEF FirstObeyed
  <1>4. CASE argv' = argv
    BY <1>1, <1>3, <1>4, ObeyedStill
  <1>5. CASE \E p \in Nat : DigitsHeard(p)
    <2>1. PICK p \in Nat : DigitsHeard(p)
      BY <1>5
    <2>2. CASE url.at # "argv"
      <3>1. argv' = argv
        BY <2>1, <2>2 DEF DigitsHeard
      <3> QED BY <1>4, <3>1
    <2>3. CASE url.at = "argv"
      <3>1. PICK k \in DOMAIN argv : url = Argument(k) /\ url.k = k /\ Text(url) = argv[k]
        BY <2>3 DEF Said, Texts, Pointed, Turn, Local, Block, Argument, Text
      <3>2. argv' = [argv EXCEPT ![k] = WithPort(argv[k], p)] /\ DigitsOf(args, i) = {p}
        BY <2>1, <2>3, <3>1 DEF DigitsHeard
      <3>3. k \in UpTo(args, i) /\ args[k] \in DOMAIN UrlOf /\ argv[k] \in Url
        BY <2>3, <3>1 DEF Said, Configured, Texts, Turn
      <3>4. UpTo(args, N) \subseteq 1 .. Len(args) /\ DOMAIN f = UpTo(args, N) /\ DOMAIN g = UpTo(args, N)
        BY <1>1, UpToInside DEF SaidAddresses
      <3>5. k \in UpTo(args, N) /\ k < i
        BY <1>1, <3>3 DEF UpTo, Turns, Places
      <3>6. f[k] = {argv[k]} /\ g[k] = {WithPort(argv[k], p)} /\ d[i] = {p}
        BY <1>2, <3>1, <3>2, <3>3, <3>5 DEF SaidAddresses, SaidDigits, AddressOf
      <3>7. ASSUME NEW l \in UpTo(args, N), l # k PROVE g[l] = f[l]
        <4>1. args[l] \in DOMAIN UrlOf => l \in DOMAIN argv
          BY <1>1, <3>4 DEF Said, Texts
        <4>2. args[l] \in DOMAIN UrlOf => argv'[l] = argv[l]
          BY <3>2, <3>7, <4>1
        <4>3. AddressOf(args, file, argv', l) = AddressOf(args, file, argv, l)
          BY <4>2 DEF AddressOf
        <4> QED BY <4>3 DEF SaidAddresses
      <3>8. \A l \in UpTo(args, N) : d[l] \subseteq Nat
        BY <1>1, <3>4, DigitsOfTyped DEF SaidDigits, IInv
      <3> HIDE DEF f, g, d, N
      <3>9. Built(f, d) = Built(g, d)
        <4>1. /\ DOMAIN f \subseteq 1 .. Len(args) /\ DOMAIN g = DOMAIN f /\ k \in DOMAIN f /\ i \in DOMAIN f
              /\ \A l \in DOMAIN f : l # k => g[l] = f[l]
              /\ \A l \in DOMAIN f : d[l] \subseteq Nat
          BY <1>2, <3>4, <3>5, <3>7, <3>8
        <4>2. PutAgain(Len(args), f, g, d, k, i, argv[k], p)
          BY <1>1, <3>3, <3>5, <3>6, <4>1 DEF PutAgain
        <4> QED BY <4>2, DigitsAgain
      <3>10. AddressesBy(args, file, argv') = AddressesBy(args, file, argv)
        BY <3>9 DEF AddressesBy, f, g, d, N
      <3> QED BY <1>1, <1>3, <3>10, ObeyedStill
    <2> QED BY <2>2, <2>3
  <1> QED BY <1>4, <1>5 DEF Heard, AddressHeard, NothingHeard

\* The default file is written at the end of the arguments, and says what was
\* obeyed.
LEMMA WrittenObeyed ==
  ASSUME IInv, Said, Interpreted, ~ specified, file[Default] = Missing
  PROVE  /\ file'[Default] # Missing
         /\ serverPort' \in PortsBy(args, file') /\ Text(url)' \in AddressesBy(args, file', argv)
  <1> DEFINE N == Len(args) + 1
  <1>1. /\ pc = "args" /\ Len(args) \in Nat /\ i = N /\ FromDefaultFile
        /\ serverPort \in OrElse(LastSaid(SaidPorts(args, file, N)), DefaultPort)
        /\ Text(url) \in Built(SaidAddresses(args, file, argv, N), SaidDigits(args, N))
    BY InterpretedDoes
  <1>2. file' = [file EXCEPT ![Default] = Generated] /\ serverPort' = serverPort /\ Text(url)' = Text(url)
    BY <1>1, DefaultDone, NothingIn DEF Said
  <1>3. /\ Lines(file', Default) = Generated
        /\ \A k : \/ LinesOf(args, file', k) = LinesOf(args, file, k)
                  \/ LinesOf(args, file, k) = <<>> /\ LinesOf(args, file', k) = Generated
    BY <1>1, <1>2, OnceWritten DEF Said
  <1>4. PortIn(Generated) = {serverPort} /\ UrlIn(Generated) = IF Text(url).kind = "udp" THEN {Text(url)} ELSE {}
    BY <1>1, GeneratedSays DEF Said
  <1>5. file'[Default] # Missing
    BY <1>1, DefaultThere DEF Said
  <1>6. UrlIn(Generated) = {} => SaidAddresses(args, file', argv, N) = SaidAddresses(args, file, argv, N)
    <2>1. ASSUME UrlIn(Generated) = {}, NEW k PROVE AddressOf(args, file', argv, k) = AddressOf(args, file, argv, k)
      BY <1>3, <2>1, NothingIn DEF AddressOf
    <2> QED BY <2>1 DEF SaidAddresses
  <1>7. UrlIn(Generated) # {} => UrlIn(Generated) = {Text(url)}
    BY <1>4
  <1>8. CASE DefaultLastIn(args, file')
    <2>1. PortsBy(args, file') = {serverPort}
      BY <1>3, <1>4, <1>8 DEF PortsBy
    <2>2. Text(url) \in AddressesBy(args, file', argv)
      <3>1. CASE UrlIn(Generated) = {}
        BY <1>1, <1>3, <1>6, <1>8, <3>1 DEF AddressesBy
      <3>2. CASE UrlIn(Generated) # {}
        BY <1>3, <1>7, <1>8, <3>2 DEF AddressesBy
      <3> QED BY <3>1, <3>2
    <2> QED BY <1>2, <1>5, <2>1, <2>2
  <1>9. CASE ~ DefaultLastIn(args, file')
    <2>1. PICK k \in UpTo(args, N) :
            /\ LastSpecifies(args, k, N) /\ Specifies(args, k)
            /\ \A l \in UpTo(args, N) : k < l => ~ Specifies(args, l)
            /\ \A g : DefaultLastIn(args, g) <=> args[k] = "-f" /\ ~ There(g, args[k + 1])
      BY <1>1, <1>9, Decides
    <2>2. k \in Turns(args)
      BY DEF UpTo
    <2>3. args[k] = "-f" /\ (There(file, args[k + 1]) => args[k + 1] = Default)
      BY <1>1, <2>1, <2>2 DEF IInv, SpecifiedByLast
    <2>4. args[k + 1] = Default
      <3>1. There(file', args[k + 1])
        BY <1>9, <2>1, <2>3
      <3> QED BY <1>2, <2>3, <3>1 DEF There
    <2>5. /\ PortIn(Generated) = LastSaid(SaidPorts(args, file', N))
          /\ UrlIn(Generated) # {} =>
               UrlIn(Generated) = Built(SaidAddresses(args, file', argv, N), SaidDigits(args, N))
      BY <1>1, <1>3, <1>4, <2>1, <2>3, <2>4, DefaultSaid
    <2>6. PortsBy(args, file') = {serverPort}
      BY <1>4, <1>9, <2>5 DEF PortsBy, OrElse
    <2>7. Text(url) \in AddressesBy(args, file', argv)
      <3>1. CASE UrlIn(Generated) = {}
        BY <1>1, <1>6, <1>9, <3>1 DEF AddressesBy
      <3>2. CASE UrlIn(Generated) # {}
        BY <1>7, <1>9, <2>5, <3>2 DEF AddressesBy
      <3> QED BY <3>1, <3>2
    <2> QED BY <1>2, <1>5, <2>6, <2>7
  <1> QED BY <1>8, <1>9

\* Without input that is counted as such, the default file is wanted.
LEMMA WantsDefault ==
  ASSUME IInv, pc = "args", i = Len(args) + 1, Len(args) \in Nat, file[Default] = Missing
  PROVE  ~ specified <=> Unspecified(args, file)
  <1>1. CASE \A k \in Turns(args) : k <= Len(args) => ~ Specifies(args, k)
    BY <1>1 DEF IInv, SpecifiedByLast, Unspecified
  <1>2. CASE ~ \A k \in Turns(args) : k <= Len(args) => ~ Specifies(args, k)
    <2>1. PICK k \in Turns(args) : k <= Len(args) /\ LastSpecifies(args, k, Len(args) + 1)
      BY <1>2, LastOne
    <2>2. /\ specified => args[k] # "-f" \/ There(file, args[k + 1])
          /\ ~ specified => args[k] = "-f" /\ (There(file, args[k + 1]) => args[k + 1] = Default)
      BY <2>1 DEF IInv, SpecifiedByLast
    <2>3. ~ There(file, Default)
      BY DEF There
    <2>4. \A j \in Turns(args) : LastSpecifies(args, j, Len(args) + 1) => j = k
      BY <2>1 DEF LastSpecifies, Turns, Places
    <2>5. Unspecified(args, file) <=> args[k] = "-f" /\ ~ There(file, args[k + 1])
      BY <1>2, <2>1, <2>4 DEF Unspecified
    <2> QED BY <2>2, <2>3, <2>5
  <1> QED BY <1>1, <1>2

\* An option changes no file but the default file, when it was missing.
LEMMA FilesKept ==
  ASSUME IInv, Said, ServerPort \/ ChannelPort \/ ConfigFile \/ DefaultFile \/ UdpAddress \/ EthAddress \/ Ignored
  PROVE  file' = file \/ (args[i] = "-df" /\ file[Default] = Missing)
  <1>1. CASE DefaultFile
    BY <1>1, DefaultDone DEF DefaultFile, Option, Said
  <1>2. CASE ServerPort \/ ChannelPort \/ ConfigFile \/ UdpAddress \/ EthAddress \/ Ignored
    BY <1>2 DEF ServerPort, ChannelPort, ConfigFile, UdpAddress, EthAddress, Ignored, inputs
  <1> QED BY <1>1, <1>2

LEMMA FirstInterpreted ==
  ASSUME IInv, Said, Interpreted, runs = 1
  PROVE  FirstObeyed'
  <1>1. /\ pc = "args" /\ Len(args) \in Nat /\ i = Len(args) + 1 /\ args' = args /\ argv' = argv
        /\ specified => file' = file
        /\ ~ specified => FromDefaultFile
    BY InterpretedDoes
  <1>2. first' = [serverPort |-> serverPort', url |-> Text(url)']
    BY DEF Interpreted, Text
  <1>3. serverPort' \in PortsBy(args, file') /\ Text(url)' \in AddressesBy(args, file', argv)
    <2>1. CASE file' = file
      BY <2>1, InterpretedWins
    <2>2. CASE file' # file
      <3>1. ~ specified /\ file[Default] = Missing
        BY <1>1, <2>2, DefaultDone DEF Said
      <3> QED BY <3>1, WrittenObeyed
    <2> QED BY <2>1, <2>2
  <1>4. ASSUME file'[Default] = Missing
        PROVE  (\A k \in UpTo(args, Len(args) + 1) : args[k] # "-df") /\ ~ Unspecified(args, file')
    <2>1. specified /\ file' = file
      BY <1>1, <1>4, DefaultThere DEF Said
    <2>2. \A k \in UpTo(args, Len(args) + 1) : args[k] # "-df"
      BY <1>1, <1>4, <2>1 DEF Said, NotWritten
    <2>3. ~ Unspecified(args, file)
      BY <1>1, <1>4, <2>1, WantsDefault
    <2> QED BY <2>1, <2>2, <2>3
  <1>5. first'.serverPort = serverPort' /\ first'.url = Text(url)' /\ first' = [serverPort |-> first'.serverPort, url |-> first'.url]
    BY <1>2
  <1> QED BY <1>1, <1>3, <1>4, <1>5 DEF FirstObeyed

LEMMA LaterInterpreted ==
  ASSUME IInv, Said, Interpreted, FirstObeyed
  PROVE  file' = file /\ args' = args /\ argv' = argv
  <1>1. /\ pc = "args" /\ Len(args) \in Nat /\ i = Len(args) + 1 /\ args' = args /\ argv' = argv
        /\ specified => file' = file
        /\ ~ specified => FromDefaultFile
    BY InterpretedDoes
  <1>2. CASE ~ specified
    <2>1. file[Default] # Missing
      BY <1>1, <1>2, WantsDefault DEF FirstObeyed
    <2> QED BY <1>1, <1>2, <2>1, DefaultDone DEF Said
  <1> QED BY <1>1, <1>2

LEMMA InitFirst == Init => FirstKept
  BY DEF Init, FirstKept

LEMMA NextFirst == IInv /\ Said /\ FirstKept /\ [Next]_vars => FirstKept'
  <1> SUFFICES ASSUME IInv, Said, FirstKept, [Next]_vars PROVE FirstKept'
    OBVIOUS
  <1>1. CASE Begin
    <2>1. /\ pc = "start" /\ pc' = "args" /\ runs' = runs + 1 /\ args' = args /\ file' = file /\ argv' = argv
          /\ first' = first /\ edited' = edited /\ rewritten' = rewritten
      BY <1>1 DEF Begin, inputs, history
    <2>2. FirstObeyed => FirstObeyed'
      BY <2>1 DEF FirstObeyed
    <2> QED BY <2>1, <2>2 DEF FirstKept
  <1>2. CASE ServerPort \/ ChannelPort \/ ConfigFile \/ DefaultFile \/ UdpAddress \/ EthAddress \/ Ignored
    <2>1. Turn
      BY <1>2, ServerPortTurn, ChannelPortTurn, ConfigFileTurn, DefaultFileTurn, UdpAddressTurn, EthAddressTurn,
         IgnoredTurn
    <2>2. Heard
      BY <1>2, ServerPortHeard, ChannelPortHeard, ConfigFileHeard, DefaultFileHeard, UdpAddressHeard,
         EthAddressHeard, IgnoredHeard DEF Said
    <2>3. /\ pc = "args" /\ pc' = "args" /\ runs' = runs /\ first' = first /\ edited' = edited /\ rewritten' = rewritten
      BY <1>2 DEF ServerPort, ChannelPort, ConfigFile, DefaultFile, UdpAddress, EthAddress, Ignored, Option, history
    <2>4. FirstObeyed => FirstObeyed'
      BY <1>2, <2>1, <2>2, <2>3, FilesKept, TurnObeyed
    <2> QED BY <2>3, <2>4 DEF FirstKept
  <1>3. CASE ExitAtOnce
    BY <1>3 DEF ExitAtOnce, FirstKept, history
  <1>4. CASE Interpreted
    <2>1. /\ pc = "args" /\ pc' = "running" /\ runs' = runs /\ edited' = edited /\ rewritten' = rewritten
      BY <1>4 DEF Interpreted
    <2>2. CASE runs = 1
      BY <1>4, <2>1, <2>2, FirstInterpreted DEF FirstKept
    <2>3. CASE runs # 1 /\ ~ edited /\ ~ rewritten
      <3>1. FirstObeyed
        BY <2>1, <2>3 DEF FirstKept
      <3>2. first' = first
        BY <1>4, <2>3 DEF Interpreted
      <3>3. FirstObeyed'
        BY <1>4, <3>1, <3>2, LaterInterpreted, ObeyedStill
      <3> QED BY <2>1, <3>3 DEF FirstKept
    <2>4. CASE runs # 1 /\ (edited \/ rewritten)
      BY <2>1, <2>4 DEF FirstKept
    <2> QED BY <2>2, <2>3, <2>4
  <1>5. CASE \E p \in AddPort : AddChannel(p)
    <2>1. PICK p \in AddPort : AddChannel(p)
      BY <1>5
    <2>2. /\ pc = "running" /\ pc' = pc /\ runs' = runs /\ first' = first /\ edited' = edited /\ args' = args /\ file' = file
          /\ rewritten' = (rewritten \/ url.at = "argv") /\ Rewrite(Digits(Text(url), p))
      BY <2>1 DEF AddChannel, inputs
    <2>3. ~ rewritten' => argv' = argv /\ ~ rewritten
      BY <2>2 DEF Rewrite
    <2>4. FirstObeyed /\ argv' = argv => FirstObeyed'
      BY <2>2 DEF FirstObeyed
    <2> QED BY <2>2, <2>3, <2>4 DEF FirstKept
  <1>6. CASE \E restart \in BOOLEAN : EndRun(restart)
    <2>1. /\ pc = "running" /\ pc' \in {"start", "exited", "aborted"} /\ args' = args /\ file' = file /\ argv' = argv
          /\ runs' = runs /\ first' = first /\ edited' = edited /\ rewritten' = rewritten
      BY <1>6 DEF EndRun, Cleanup, inputs, history
    <2>2. FirstObeyed => FirstObeyed'
      BY <2>1 DEF FirstObeyed
    <2> QED BY <2>1, <2>2 DEF FirstKept
  <1>7. CASE \E n \in DOMAIN Files : EditFile(n)
    BY <1>7 DEF EditFile, FirstKept
  <1>8. CASE UNCHANGED vars
    <2>1. /\ pc' = pc /\ args' = args /\ file' = file /\ argv' = argv /\ runs' = runs /\ first' = first
          /\ edited' = edited /\ rewritten' = rewritten
      BY <1>8 DEF vars, inputs, statics, data, history
    <2>2. FirstObeyed => FirstObeyed'
      BY <2>1 DEF FirstObeyed
    <2> QED BY <2>1, <2>2 DEF FirstKept
  <1> QED BY <1>1, <1>2, <1>3, <1>4, <1>5, <1>6, <1>7, <1>8 DEF Next

LEMMA FirstInvariance == Spec => []FirstKept
  BY SaidInvariance, InitFirst, NextFirst, PTL DEF Spec

(* restart restarts with the port and the address the program was started   *)
(* with, whatever statics, argv and the files kept of the runs before.      *)
THEOREM RestartObeysAgain == Spec => RestartReproduces
  <1>1. ASSUME IInv, Said, FirstKept, [Next]_vars
        PROVE  [pc = "args" /\ pc' = "running" /\ runs > 1 /\ ~ edited /\ ~ rewritten =>
                  [serverPort |-> serverPort, url |-> Text(url)]' = first]_vars
    <2>1. SUFFICES ASSUME pc = "args", pc' = "running", runs > 1, ~ edited, ~ rewritten
                   PROVE  [serverPort |-> serverPort, url |-> Text(url)]' = first
      OBVIOUS
    <2>2. FirstObeyed
      BY <1>1, <2>1 DEF FirstKept
    <2>3. Interpreted
      BY <1>1, <2>1, InterpretedOnly
    <2>4. serverPort' \in PortsBy(args, file) /\ Text(url)' \in AddressesBy(args, file, argv)
      BY <1>1, <2>2, <2>3, LaterInterpreted, InterpretedWins
    <2>5. Single(PortsBy(args, file)) /\ Single(AddressesBy(args, file, argv))
      BY <1>1, SetsSingle DEF IInv, Said
    <2>6. first.serverPort = serverPort' /\ first.url = Text(url)'
      BY <2>2, <2>4, <2>5 DEF FirstObeyed, Single
    <2> QED BY <2>2, <2>6 DEF FirstObeyed
  <1> QED BY <1>1, SaidInvariance, FirstInvariance, PTL DEF Spec, RestartReproduces
=============================================================================
