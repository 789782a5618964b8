----------------------------- MODULE Lifecycle ------------------------------
(***************************************************************************)
(* The two threads of the publisher and the signal handler: main builds a   *)
(* server, detaches an input thread and runs the server until running is    *)
(* cleared; the input thread reads commands, works on the static tree and   *)
(* on whatever server the static pub points to, and ends the run with exit  *)
(* or restart.  restart is one variable of main that every input thread has *)
(* a pointer to; running, pub and tree are static and outlive a run.        *)
(*                                                                         *)
(* What a command does is in Console; here one that adds a node stands for  *)
(* all that call the server.  Every read and write of a shared variable is  *)
(* a step.  A signal before the first run, while the handlers are not yet   *)
(* installed, kills the process and is left out.                            *)
(***************************************************************************)
EXTENDS Integers, FiniteSets, Functions

CONSTANTS
  MaxRuns,    \* bound: runs of main's loop
  MaxNodes,   \* bound: nodes in the tree at a time
  MaxSignals  \* bound: SIGINTs and SIGTERMs

ASSUME LifecycleOK == MaxRuns \in Nat \ {0} /\ MaxNodes \in Nat /\ MaxSignals \in Nat

Runs == 1 .. MaxRuns

VARIABLES
  main,      \* the statement main is at
  run,       \* the turn of main's loop
  restart,   \* main's variable
  running,   \* Publisher::running
  servers,   \* runs whose UA_Server has not been deleted
  pub,       \* UserInput::pub and TreeTrunk::pub, the run they point to
  thread,    \* the statement the input thread of each run is at
  tree,      \* node |-> run whose server holds its objects
  asked,     \* what the user typed last: "nothing", "exit" or "restart"
  restarts,  \* number of restarts typed
  signals,   \* number of signals handled
  failed     \* a server could not be started

vars == <<main, run, restart, running, servers, pub, thread, tree, asked, restarts, signals, failed>>

mainVars == <<main, run, servers>>
inputVars == <<pub, thread, tree, asked, restarts>>
-----------------------------------------------------------------------------
Init ==
  /\ main = "begin" /\ run = 1
  /\ restart \in BOOLEAN /\ running = TRUE
  /\ servers = {} /\ pub = 0
  /\ thread = [t \in Runs |-> "none"]
  /\ tree = <<>>
  /\ asked = "nothing" /\ restarts = 0 /\ signals = 0 /\ failed = FALSE

(* main: do { restart = false; ... Publisher pub(&data); thread t(...);     *)
(* t.detach(); pub.run(); if(restart) resetRunning(); } while(restart)      *)
Main(from, to) == main = from /\ main' = to

\* Mutant: restart keeps its value.
BeginAsItIs ==
  /\ Main("begin", "spawn")
  /\ UNCHANGED <<run, restart, running, servers, signals, inputVars, failed>>

Begin ==
  /\ Main("begin", "spawn")
  /\ restart' = FALSE
  /\ UNCHANGED <<run, running, servers, signals, inputVars, failed>>

Spawn ==
  /\ Main("spawn", "run")
  /\ servers' = servers \cup {run}
  /\ thread' = [thread EXCEPT ![run] = "init"]
  /\ UNCHANGED <<run, restart, running, pub, tree, asked, restarts, signals, failed>>

\* UA_Server_run returns once it finds running cleared.
RunReturns ==
  /\ Main("run", "delete") /\ ~ running
  /\ UNCHANGED <<run, restart, running, servers, signals, inputVars, failed>>

\* UA_Server_run returns an error when the server cannot be started.  That run
\* finds no server configured cannot happen: initServerConfig ends with true.
RunFails ==
  /\ Main("run", "delete")
  /\ failed' = TRUE
  /\ UNCHANGED <<run, restart, running, servers, signals, inputVars>>

DeleteServer ==
  /\ Main("delete", "ifRestart")
  /\ servers' = servers \ {run}
  /\ UNCHANGED <<run, restart, running, signals, inputVars, failed>>

\* Mutant: running is not set again.
IfRestartIgnored ==
  /\ Main("ifRestart", "whileRestart")
  /\ UNCHANGED <<run, restart, running, servers, signals, inputVars, failed>>

IfRestart ==
  /\ Main("ifRestart", IF restart THEN "reset" ELSE "whileRestart")
  /\ UNCHANGED <<run, restart, running, servers, signals, inputVars, failed>>

ResetRunning ==
  /\ Main("reset", "whileRestart")
  /\ running' = TRUE
  /\ UNCHANGED <<run, restart, servers, signals, inputVars, failed>>

\* Mutant: the runs are counted at the end, too.
WhileRestartCounting ==
  /\ Main("whileRestart", IF restart THEN "begin" ELSE "ended")
  /\ run' = run + 1
  /\ UNCHANGED <<restart, running, servers, signals, inputVars, failed>>

WhileRestart ==
  /\ Main("whileRestart", IF restart THEN "begin" ELSE "ended")
  /\ run' = IF restart THEN run + 1 ELSE run
  /\ UNCHANGED <<restart, running, servers, signals, inputVars, failed>>

-----------------------------------------------------------------------------
(* The input thread t: handlingUserInput.  All threads end with the process.*)
Input(t, from, to) ==
  /\ main # "ended"
  /\ thread[t] = from /\ thread' = [thread EXCEPT ![t] = to]

\* UserInput::pub = pub; TreeTrunk::init(pub)
InitThread(t) ==
  /\ Input(t, "init", "while")
  /\ pub' = t
  /\ UNCHANGED <<mainVars, restart, running, tree, asked, restarts, signals, failed>>

WhileRunning(t) ==
  /\ Input(t, "while", IF running THEN "getline" ELSE "done")
  /\ UNCHANGED <<mainVars, restart, running, pub, tree, asked, restarts, signals, failed>>

ReadCommand(t) ==
  /\ Input(t, "getline", "decode")
  /\ UNCHANGED <<mainVars, restart, running, pub, tree, asked, restarts, signals, failed>>

Decode(t) ==
  /\ Input(t, "decode", "while")
  /\ \E n \in 1 .. MaxNodes \ DOMAIN tree :
       tree' = [m \in DOMAIN tree \cup {n} |-> IF m = n THEN pub ELSE tree[m]]
  /\ UNCHANGED <<mainVars, restart, running, pub, asked, restarts, signals, failed>>

\* A command that adds nothing.
DecodeNothing(t) ==
  /\ Input(t, "decode", "while")
  /\ UNCHANGED <<mainVars, restart, running, pub, tree, asked, restarts, signals, failed>>

\* Mutant: the run is stopped before the tree is emptied.
ReadExitStopping(t) ==
  /\ Input(t, "getline", "deleteAll")
  /\ asked' = "exit"
  /\ running' = FALSE
  /\ UNCHANGED <<mainVars, restart, pub, tree, restarts, signals, failed>>

ReadExit(t) ==
  /\ Input(t, "getline", "deleteAll")
  /\ asked' = "exit"
  /\ UNCHANGED <<mainVars, restart, running, pub, tree, restarts, signals, failed>>

ReadRestart(t) ==
  /\ restarts < MaxRuns - 1
  /\ Input(t, "getline", "setRestart")
  /\ asked' = "restart"
  /\ restarts' = restarts + 1
  /\ UNCHANGED <<mainVars, restart, running, pub, tree, signals, failed>>

\* *restart = true
SetRestart(t) ==
  /\ Input(t, "setRestart", "deleteAll")
  /\ restart' = TRUE
  /\ UNCHANGED <<mainVars, running, pub, tree, asked, restarts, signals, failed>>

\* tree.deleteAllConnections(), one node after the other, and what follows it
DeleteOne(t) ==
  /\ Input(t, "deleteAll", "deleteAll")
  /\ \E n \in DOMAIN tree :
       /\ \A m \in DOMAIN tree : n <= m
       /\ tree' = Restrict(tree, DOMAIN tree \ {n})
  /\ UNCHANGED <<mainVars, restart, running, pub, asked, restarts, signals, failed>>

\* Mutant: nodes are left.
DeletedSome(t) ==
  /\ Input(t, "deleteAll", "stop")
  /\ UNCHANGED <<mainVars, restart, running, pub, tree, asked, restarts, signals, failed>>

DeletedAll(t) ==
  /\ Input(t, "deleteAll", "stop")
  /\ tree = <<>>
  /\ UNCHANGED <<mainVars, restart, running, pub, tree, asked, restarts, signals, failed>>

\* Mutant: the break is missing.
StopRunningAndGoOn(t) ==
  /\ Input(t, "stop", "while")
  /\ running' = FALSE
  /\ UNCHANGED <<mainVars, restart, pub, tree, asked, restarts, signals, failed>>

StopRunning(t) ==
  /\ Input(t, "stop", "done")
  /\ running' = FALSE
  /\ UNCHANGED <<mainVars, restart, pub, tree, asked, restarts, signals, failed>>

-----------------------------------------------------------------------------
\* stopHandler, on any thread at any time once run has installed it
Signal ==
  /\ main # "ended" /\ signals < MaxSignals
  /\ run > 1 \/ main \notin {"begin", "spawn"}
  /\ running' = FALSE
  /\ signals' = signals + 1
  /\ UNCHANGED <<mainVars, restart, inputVars, failed>>

MainStep ==
  Begin \/ Spawn \/ RunReturns \/ DeleteServer \/ IfRestart \/ ResetRunning \/ WhileRestart

\* What the thread does by itself; the user types when he likes.
InputStep(t) ==
  \/ InitThread(t) \/ WhileRunning(t) \/ Decode(t) \/ DecodeNothing(t)
  \/ SetRestart(t) \/ DeleteOne(t) \/ DeletedAll(t) \/ StopRunning(t)

Type(t) == ReadCommand(t) \/ ReadExit(t) \/ ReadRestart(t)

Next == MainStep \/ RunFails \/ (\E t \in Runs : InputStep(t) \/ Type(t)) \/ Signal

\* Both threads are scheduled; nobody has to type and no signal has to come.
Spec == Init /\ [][Next]_vars /\ WF_vars(MainStep) /\ \A t \in Runs : WF_vars(InputStep(t))

-----------------------------------------------------------------------------
(* Type of the variables.                                                   *)
LifecycleTypeOK ==
  /\ main \in {"begin", "spawn", "run", "delete", "ifRestart", "reset", "whileRestart", "ended"}
  /\ run \in Runs
  /\ restart \in BOOLEAN /\ running \in BOOLEAN
  /\ servers \subseteq Runs
  /\ pub \in 0 .. MaxRuns
  /\ thread \in [Runs -> {"none", "init", "while", "getline", "decode", "setRestart", "deleteAll",
                          "stop", "done"}]
  /\ tree \in [DOMAIN tree -> Runs] /\ DOMAIN tree \subseteq 1 .. MaxNodes
  /\ asked \in {"nothing", "exit", "restart"}
  /\ restarts \in 0 .. MaxRuns - 1 /\ signals \in 0 .. MaxSignals /\ failed \in BOOLEAN

(* As long as no signal interferes and servers start, a command works on a  *)
(* server that is there: exit and restart empty the tree before they stop   *)
(* the run, and the new thread points pub to the new server before it reads *)
(* anything.                                                                *)
CallsReachServer ==
  signals = 0 /\ ~ failed =>
    \A t \in Runs : thread[t] \in {"decode", "deleteAll"} => pub \in servers

(* And the nodes of the static tree belong to that server: no NodeId of a   *)
(* deleted server survives in the tree over a restart.                      *)
NodesOfThisServer ==
  signals = 0 /\ ~ failed =>
    \A n \in DOMAIN tree : tree[n] \in servers /\ tree[n] = pub

(* Signals or not, two input threads never wait for the same line: an old   *)
(* one never returns to getline once main has gone on to the next run.      *)
OneReader ==
  main # "ended" => \A t \in Runs : thread[t] \in {"while", "getline", "decode"} => t = run

(* exit ends the program, even when signals and earlier restarts interfere. *)
ExitEnds == asked = "exit" ~> main = "ended"

(* A restart leads to a run of its own, with the console in its hands,      *)
(* unless a signal interferes or a server does not start.                   *)
RestartRuns ==
  \A n \in Runs : thread[n] = "setRestart" ~>
    signals > 0 \/ failed \/ (run > n /\ main = "run" /\ running /\ thread[run] \in {"getline", "decode"})

(* A signal ends the program, unless a restart is asked for.                *)
SignalEnds == signals > 0 ~> main = "ended" \/ restarts > 0
=============================================================================
