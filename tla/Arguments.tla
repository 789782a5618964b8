------------------------------ MODULE Arguments -----------------------------
(***************************************************************************)
(* What a run of main starts with: the command line and the configuration   *)
(* files (InputArguments), and the address they leave for the Publisher,    *)
(* over restarts, each of which reads them again.                           *)
(*                                                                         *)
(* inputSpecified and the two strings to free are static and outlive a run; *)
(* an address given on the command line is changed in place in argv, and    *)
(* stays changed; a missing default file is written.  An address is         *)
(* abstracted to its kind, its port, whether it ends with '/', and whether  *)
(* it is still an address; blanks have no kind.  A program path is reduced  *)
(* to its directory in place, twice as well as once; the directory is left  *)
(* out.                                                                     *)
(***************************************************************************)
EXTENDS Integers, SequencesExt

CONSTANTS
  CommandLines,  \* argv[1], argv[2], ...: sequences of tokens
  Number,        \* token |-> atoi of it
  FirstFour,     \* token |-> its first four characters, as a port
  UrlOf,         \* token "opc.udp://..." or "opc.eth://..." |-> the address
  Files,         \* name |-> contents it may have: sets of sequences of lines
  AddPort,       \* ports of Channels the user adds
  MaxRuns,       \* bound: runs of main's loop
  MaxEdits       \* bound: changes of a file while the program runs

Default == "default_config.txt"
Missing == <<[is |-> "missing"]>>

Url == [kind : {"udp", "eth", "none"}, port : Nat, slash : BOOLEAN, sound : BOOLEAN]
Blanks == [kind |-> "none", port |-> 0, slash |-> FALSE, sound |-> FALSE]
NotAnAddress(u) == [u EXCEPT !.sound = FALSE]

\* A line is an address, the server's port or neither.
Line == [is : {"udp", "eth", "none"}, url : Url, indented : BOOLEAN]
        \cup [is : {"port"}, number : Nat] \cup [is : {"other", "missing"}]

ASSUME ArgumentsOK ==
  /\ Number \in [DOMAIN Number -> Int] /\ FirstFour \in [DOMAIN FirstFour -> Nat]
  /\ UrlOf \in [DOMAIN UrlOf -> Url] /\ \A t \in DOMAIN UrlOf : UrlOf[t].kind # "none"
  /\ CommandLines \subseteq Seq(STRING)
  /\ DOMAIN UrlOf \cap {"-sp", "-cp", "-f", "-df", "-h", "-n"} = {}
  /\ Default \in DOMAIN Files
  /\ \A n \in DOMAIN Files : Files[n] \subseteq Seq(Line)
  /\ AddPort \subseteq Nat
  \* -sp and -cp read the token behind them without looking
  /\ \A args \in CommandLines : \A k \in DOMAIN args :
       args[k] \in {"-sp", "-cp"} => k < Len(args) /\ args[k + 1] \in DOMAIN Number \cap DOMAIN FirstFour

VARIABLES
  args,        \* the command line
  argv,        \* index of an address in args |-> what it is by now
  file,        \* name |-> its lines, or Missing
  specified,   \* inputSpecified
  profile,     \* transport_profile and
  address,     \* address_url: blocks of heap, or Null
  heap,        \* the strings strdup made: [text, freed]
  local,       \* main's char url[]
  url,         \* the place data.networkAddressUrl points to
  serverPort,
  pc, i, runs,
  first,       \* history: server port and address of the first run
  edited,      \* history: a file was edited
  rewritten,   \* history: adding a Channel changed an argument
  opened       \* history: port asked for and address of the last connection

inputs == <<args, file>>
statics == <<specified, profile, address>>
data == <<local, url, serverPort>>
history == <<first, edited, rewritten, opened>>
vars == <<inputs, argv, statics, heap, data, pc, i, runs, history>>

Null == 0
UInt16 == 65536
Signed16(n) == ((n + 32768) % UInt16) - 32768
PortNumbers == 1000 .. 9999
ValidPort(n) == n \in PortNumbers
DefaultPort == 4840
MainUrl == [kind |-> "udp", port |-> 4840, slash |-> TRUE, sound |-> TRUE]

\* The places an address may be at.
Local == [at |-> "local", k |-> 0]
Argument(k) == [at |-> "argv", k |-> k]
Block(k) == [at |-> "heap", k |-> k]

Text(place) ==
  CASE place.at = "local" -> local
    [] place.at = "argv" -> argv[place.k]
    [] OTHER -> heap[place.k].text

\* The address is changed where it is.
Rewrite(u) ==
  /\ local' = IF url.at = "local" THEN u ELSE local
  /\ argv' = IF url.at = "argv" THEN [argv EXCEPT ![url.k] = u] ELSE argv
  /\ heap' = IF url.at = "heap" THEN [heap EXCEPT ![url.k].text = u] ELSE heap

-----------------------------------------------------------------------------
Init ==
  /\ args \in CommandLines
  /\ argv = [k \in {x \in DOMAIN args : args[x] \in DOMAIN UrlOf} |-> UrlOf[args[k]]]
  /\ file \in {f \in [DOMAIN Files -> UNION Range(Files)] : \A n \in DOMAIN Files : f[n] \in Files[n]}
  /\ specified = FALSE /\ profile = Null /\ address = Null /\ heap = <<>>
  /\ local = MainUrl /\ url = Local /\ serverPort = DefaultPort
  /\ pc = "start" /\ i = 1 /\ runs = 0
  /\ first = [serverPort |-> 0, url |-> MainUrl] /\ edited = FALSE /\ rewritten = FALSE
  /\ opened = [asked |-> DefaultPort, at |-> Local, url |-> MainUrl]

\* Mutant: data is declared before the loop.
BeginWithOldData ==
  /\ pc = "start"
  /\ pc' = "args" /\ i' = 1 /\ runs' = runs + 1
  /\ UNCHANGED <<inputs, argv, statics, heap, data, history>>

\* The top of main's loop.
Begin ==
  /\ pc = "start"
  /\ local' = MainUrl /\ url' = Local /\ serverPort' = DefaultPort
  /\ pc' = "args" /\ i' = 1 /\ runs' = runs + 1
  /\ UNCHANGED <<inputs, argv, statics, heap, history>>

-----------------------------------------------------------------------------
(* Configuration files.  d holds what the lines read so far made of data,   *)
(* address_url and the heap.  Of a line that begins with blanks             *)
(* stripWhitespace leaves the blanks.  A line about the port has a digit:   *)
(* without one findNumber takes a substring from npos, which throws, and    *)
(* nothing catches that.                                                    *)
LineUrl(l) == IF l.indented THEN Blanks ELSE l.url

\* Mutant: an invalid port is not taken back.
DecodeLineUnchecked(d, l) ==
  CASE l.is = "udp" -> [d EXCEPT !.heap = Append(@, [text |-> LineUrl(l), freed |-> FALSE]),
                                 !.address = Len(d.heap) + 1, !.url = Block(Len(d.heap) + 1)]
    [] l.is = "port" -> [d EXCEPT !.serverPort = l.number % UInt16]
    [] OTHER -> d

DecodeLine(d, l) ==
  CASE l.is = "udp" -> [d EXCEPT !.heap = Append(@, [text |-> LineUrl(l), freed |-> FALSE]),
                                 !.address = Len(d.heap) + 1, !.url = Block(Len(d.heap) + 1)]
    [] l.is = "port" /\ ValidPort(l.number % UInt16) -> [d EXCEPT !.serverPort = l.number % UInt16]
    [] OTHER -> d

DecodeFile(lines) ==
  LET d == FoldLeft(DecodeLine, [heap |-> heap, address |-> address, url |-> url, serverPort |-> serverPort], lines)
  IN  heap' = d.heap /\ address' = d.address /\ url' = d.url /\ serverPort' = d.serverPort

\* Mutant: the port of the server is written as it was before any option.
GeneratedAsDefault == <<[is |-> Text(url).kind, url |-> Text(url), indented |-> FALSE],
                        [is |-> "port", number |-> DefaultPort]>>

\* A default file that is not there is written from data.
Generated == <<[is |-> Text(url).kind, url |-> Text(url), indented |-> FALSE],
               [is |-> "port", number |-> serverPort]>>

\* Mutant: reading the default file counts as input.
FromDefaultFileAndSpecified ==
  /\ IF file[Default] # Missing THEN DecodeFile(file[Default]) /\ UNCHANGED file
     ELSE file' = [file EXCEPT ![Default] = Generated] /\ UNCHANGED <<heap, address, url, serverPort>>
  /\ specified' = TRUE
  /\ UNCHANGED <<args, argv, profile, local>>

FromDefaultFile ==
  /\ IF file[Default] # Missing THEN DecodeFile(file[Default]) /\ UNCHANGED file
     ELSE file' = [file EXCEPT ![Default] = Generated] /\ UNCHANGED <<heap, address, url, serverPort>>
  /\ UNCHANGED <<args, argv, specified, profile, local>>

-----------------------------------------------------------------------------
(* One turn of the loop over argv; an option with a parameter takes two.    *)
Option(Is(_), n) ==
  /\ pc = "args" /\ i <= Len(args) /\ Is(args[i])
  /\ pc' = pc /\ i' = i + n /\ UNCHANGED <<runs, history>>

ServerPort ==
  /\ Option(LAMBDA t : t = "-sp", 2)
  /\ LET n == Number[args[i + 1]] % UInt16
     IN  serverPort' = IF ValidPort(n) THEN n ELSE serverPort
  /\ specified' = TRUE
  /\ UNCHANGED <<inputs, argv, profile, address, heap, local, url>>

\* The digits go to the end of an address, before its '/'; "opc.eth" has no port there.
WithPort(u, p) == IF u.kind = "udp" THEN [u EXCEPT !.port = p] ELSE NotAnAddress(u)

\* The port is tested as an Int16 of the parameter; its first four characters are copied.
ChannelPort ==
  /\ Option(LAMBDA t : t = "-cp", 2)
  /\ IF ValidPort(Signed16(Number[args[i + 1]]))
     THEN Rewrite(WithPort(Text(url), FirstFour[args[i + 1]])) ELSE UNCHANGED <<local, argv, heap>>
  /\ specified' = TRUE
  /\ UNCHANGED <<inputs, profile, address, url, serverPort>>

\* inputSpecified becomes whether the file could be read, also when it was true.
ConfigFile ==
  /\ Option(LAMBDA t : t = "-f", 2) /\ i < Len(args)
  /\ LET there == args[i + 1] \in DOMAIN file /\ file[args[i + 1]] # Missing
     IN  /\ IF there THEN DecodeFile(file[args[i + 1]]) ELSE UNCHANGED <<heap, address, url, serverPort>>
         /\ specified' = there
  /\ UNCHANGED <<inputs, argv, profile, local>>

DefaultFile == Option(LAMBDA t : t = "-df", 1) /\ FromDefaultFile

UdpAddress ==
  /\ Option(LAMBDA t : t \in DOMAIN UrlOf /\ UrlOf[t].kind = "udp", 1)
  /\ url' = Argument(i) /\ specified' = TRUE
  /\ UNCHANGED <<inputs, argv, profile, address, heap, local, serverPort>>

\* The interface behind it is looked at once more as an option of its own.
EthAddress ==
  /\ Option(LAMBDA t : t \in DOMAIN UrlOf /\ UrlOf[t].kind = "eth", 1) /\ i < Len(args)
  /\ url' = Argument(i) /\ specified' = TRUE
  /\ heap' = Append(heap, [text |-> MainUrl, freed |-> FALSE]) /\ profile' = Len(heap')
  /\ UNCHANGED <<inputs, argv, address, local, serverPort>>

Known == {"-sp", "-cp", "-f", "-df", "-h", "-n"} \cup DOMAIN UrlOf
Ignored ==
  /\ Option(LAMBDA t : t \notin Known, 1)
  /\ UNCHANGED <<inputs, argv, statics, heap, data>>

\* -h and -n, and -f and an Ethernet address with nothing behind them, end the program.
ExitAtOnce ==
  /\ pc = "args" /\ i <= Len(args)
  /\ \/ args[i] \in {"-h", "-n"}
     \/ i = Len(args) /\ (args[i] = "-f" \/ (args[i] \in DOMAIN UrlOf /\ UrlOf[args[i]].kind = "eth"))
  /\ pc' = "exited"
  /\ UNCHANGED <<inputs, argv, statics, heap, data, i, runs, history>>

\* The end of interpretArguments.
Interpreted ==
  /\ pc = "args" /\ i > Len(args)
  /\ IF specified THEN UNCHANGED <<inputs, argv, statics, heap, data>> ELSE FromDefaultFile
  /\ pc' = "running"
  /\ UNCHANGED <<i, runs, edited, rewritten, opened>>
  /\ first' = IF runs = 1 THEN [serverPort |-> serverPort',
                                url |-> (CASE url'.at = "local" -> local' [] url'.at = "argv" -> argv'[url'.k]
                                           [] OTHER -> heap'[url'.k].text)]
              ELSE first

-----------------------------------------------------------------------------
\* setChannelPort writes the four places before the last one.
Digits(u, p) == IF u.kind = "udp" /\ u.slash THEN [u EXCEPT !.port = p] ELSE NotAnAddress(u)

AddChannel(p) ==
  /\ pc = "running"
  /\ Rewrite(Digits(Text(url), p))
  /\ opened' = [asked |-> p, at |-> url, url |-> Digits(Text(url), p)]
  /\ rewritten' = (rewritten \/ url.at = "argv")
  /\ UNCHANGED <<inputs, statics, url, serverPort, pc, i, runs, first, edited>>

(* cleanup frees the two pointers and keeps them.  Freeing a string twice   *)
(* is undefined; the C library at hand notices and aborts.                  *)
Cleanup(next) ==
  LET freed == {profile, address} \ {Null}
  IN  IF \E k \in freed : heap[k].freed THEN pc' = "aborted" /\ UNCHANGED heap
      ELSE /\ pc' = next
           /\ heap' = [k \in DOMAIN heap |-> IF k \in freed THEN [heap[k] EXCEPT !.freed = TRUE] ELSE heap[k]]

\* run has returned after exit or restart.
EndRun(restart) ==
  /\ pc = "running" /\ (restart => runs < MaxRuns)
  /\ Cleanup(IF restart THEN "start" ELSE "exited")
  /\ UNCHANGED <<inputs, argv, statics, data, i, runs, history>>

\* While the program runs the user may change a file.
EditFile(n) ==
  /\ pc = "running" /\ runs <= MaxEdits
  /\ \E lines \in Files[n] : file' = [file EXCEPT ![n] = lines]
  /\ edited' = TRUE
  /\ UNCHANGED <<args, argv, statics, heap, data, pc, i, runs, first, rewritten, opened>>

Next ==
  \/ Begin \/ ServerPort \/ ChannelPort \/ ConfigFile \/ DefaultFile \/ UdpAddress \/ EthAddress
  \/ Ignored \/ ExitAtOnce \/ Interpreted
  \/ \E p \in AddPort : AddChannel(p)
  \/ \E restart \in BOOLEAN : EndRun(restart)
  \/ \E n \in DOMAIN Files : EditFile(n)

Spec == Init /\ [][Next]_vars

-----------------------------------------------------------------------------
(* What each option says of the server's port, the address and its port: a *)
(* set of one value, or none.                                               *)
IsOption[k \in 1 .. Len(args)] ==
  k = 1 \/ ~ (IsOption[k - 1] /\ args[k - 1] \in {"-sp", "-cp", "-f"})
Options == {k \in DOMAIN args : IsOption[k]}

Readable(n) == n \in DOMAIN file /\ file[n] # Missing
Contents(n) == IF Readable(n) THEN file[n] ELSE <<>>
FileOf(k) == IF args[k] = "-df" THEN Contents(Default)
             ELSE IF args[k] = "-f" THEN Contents(args[k + 1]) ELSE <<>>

\* Of what is said at the indices of a function or a sequence, the last.
LastSaid(said) == UNION {said[k] : k \in {k \in DOMAIN said : \A l \in DOMAIN said : said[l] # {} => l <= k}}
OrElse(S, default) == IF S = {} THEN {default} ELSE S

Valid(n) == {n} \cap PortNumbers
LinePort(l) == IF l.is = "port" THEN Valid(l.number % UInt16) ELSE {}
LineSays(l) == IF l.is = "udp" THEN {LineUrl(l)} ELSE {}
PortIn(lines) == LastSaid([j \in DOMAIN lines |-> LinePort(lines[j])])
UrlIn(lines) == LastSaid([j \in DOMAIN lines |-> LineSays(lines[j])])

PortSaid(k) == IF args[k] = "-sp" THEN Valid(Number[args[k + 1]] % UInt16) ELSE PortIn(FileOf(k))
UrlSaid(k) == IF args[k] \in DOMAIN UrlOf THEN {argv[k]} ELSE UrlIn(FileOf(k))
DigitsSaid(k) == IF args[k] = "-cp" /\ Valid(Number[args[k + 1]] % UInt16) # {} THEN {FirstFour[args[k + 1]]} ELSE {}

(* Left to right, the last option that says something about the server's    *)
(* port, the address or its port is obeyed, as the help's "loads default    *)
(* config file and then you can override" has it; the default file has the  *)
(* last word when nothing but -df was given, or the last of the others is a *)
(* -f without its file.  Numbers are taken modulo 2^16.                     *)
Others == {k \in Options : args[k] \in {"-sp", "-cp", "-f"} \cup DOMAIN UrlOf}
DefaultLast == \A k \in Others : (\A l \in Others : l <= k) => args[k] = "-f" /\ ~ Readable(args[k + 1])

PortSet ==
  LET last == IF DefaultLast THEN PortIn(Contents(Default)) ELSE {}
  IN  IF last # {} THEN last ELSE OrElse(LastSaid([k \in Options |-> PortSaid(k)]), DefaultPort)

\* The last address with the last digits behind it.
Built(urls, digits) ==
  LET base == OrElse(LastSaid(urls), MainUrl)
      behind == {k \in DOMAIN urls : \A l \in DOMAIN urls : urls[l] # {} => l < k}
      port == LastSaid([k \in behind |-> digits[k]])
  IN  IF port = {} THEN base ELSE {WithPort(u, p) : u \in base, p \in port}

UrlSet ==
  LET last == IF DefaultLast THEN UrlIn(Contents(Default)) ELSE {}
  IN  IF last # {} THEN last ELSE Built([k \in Options |-> UrlSaid(k)], [k \in Options |-> DigitsSaid(k)])

LastOptionWins ==
  [][pc = "args" /\ pc' = "running" /\ file' = file => serverPort' \in PortSet /\ Text(url)' \in UrlSet]_vars

(* restart restarts with the configuration the program was started with,    *)
(* although statics, argv and the generated default file outlived the first *)
(* run: unless the user edited a file, or added a Channel on an address     *)
(* that is kept in argv.                                                    *)
RestartReproduces ==
  [][pc = "args" /\ pc' = "running" /\ runs > 1 /\ ~ edited /\ ~ rewritten =>
       [serverPort |-> serverPort, url |-> Text(url)]' = first]_vars

(* The address of a run is not freed before the run has ended.              *)
AddressAlive == pc \in {"args", "running"} /\ url.at = "heap" => ~ heap[url.k].freed /\ url.k = address

(* cleanup frees no string twice although it never clears the pointers: a   *)
(* restart sets again what the first run had set.  Only after a file was    *)
(* edited it need not, and the second cleanup frees the strings of the      *)
(* first run once more.                                                     *)
NothingFreedTwice == pc = "aborted" => edited

(* "Establishing/Removing Connections on a specific UDP port" (README): a   *)
(* Channel added on a port is opened on that port, whatever address the     *)
(* user gave.  It is not, when the address does not end with '/', which -cp *)
(* allows for and setChannelPort does not.                                  *)
OnPortAsked == opened.url.kind = "udp" => opened.url.sound /\ opened.url.port = opened.asked
=============================================================================
