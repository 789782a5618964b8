-------------------------- MODULE LifecycleProofs ---------------------------
(***************************************************************************)
(* The safety properties of Lifecycle for any number of runs, nodes and     *)
(* signals.                                                                 *)
(***************************************************************************)
EXTENDS Lifecycle, TLAPS

-----------------------------------------------------------------------------
(* What holds with signals and failing servers.  A thread of an earlier run *)
(* is past its last getline; restart is set only by the thread of this run, *)
(* on its way out; and main goes round once for a restart typed.            *)
Leaving == {"deleteAll", "stop", "done"}

ThreadsInTurn ==
  /\ \A t \in Runs : (t > run => thread[t] = "none") /\ (t < run => thread[t] \in Leaving)
  /\ main \in {"begin", "spawn"} => thread[run] = "none"

RestartLast == restart /\ main # "begin" => thread[run] \in Leaving

RunsCounted ==
  /\ run <= restarts + 1
  /\ main # "begin" /\ (restart \/ thread[run] = "setRestart") => run <= restarts

PubSet == \A t \in Runs : thread[t] \notin {"none", "init"} => pub # 0

Base == LifecycleTypeOK /\ ThreadsInTurn /\ RestartLast /\ RunsCounted /\ PubSet

(* What holds besides as long as no signal came and every server started:   *)
(* main and the thread take turns.                                          *)
Quiet == signals = 0 /\ ~ failed

TakingTurns ==
  /\ \A t \in Runs : t < run => thread[t] = "done"
  /\ main \notin {"begin", "spawn", "run"} => thread[run] = "done"
  /\ ~ running => thread[run] = "done"
  /\ main \in {"begin", "spawn"} => running
  /\ main = "whileRestart" /\ restart => running
  /\ main = "run" => run \in servers
  /\ thread[run] \notin {"none", "init"} => pub = run
  /\ thread[run] \in {"none", "init", "stop", "done"} => tree = <<>>
  /\ \A n \in DOMAIN tree : tree[n] = run

IInv == Base /\ (Quiet => TakingTurns)

-----------------------------------------------------------------------------
LEMMA RunsNumbered == MaxRuns \in Nat \ {0} /\ 1 \in Runs
  BY LifecycleOK DEF Runs

LEMMA InitInv == Init => IInv
  <1> SUFFICES ASSUME Init PROVE IInv
    OBVIOUS
  <1>1. tree \in [DOMAIN tree -> Runs] /\ DOMAIN tree = {}
    BY DEF Init
  <1>2. LifecycleTypeOK
    <2>1. thread \in [Runs -> {"none"}]
      BY DEF Init
    <2>2. run \in Runs /\ pub \in 0 .. MaxRuns /\ restarts \in 0 .. MaxRuns - 1 /\ signals \in 0 .. MaxSignals
      BY RunsNumbered, LifecycleOK DEF Init
    <2> QED
      BY <1>1, <2>1, <2>2 DEF Init, LifecycleTypeOK
  <1>3. ThreadsInTurn /\ RestartLast /\ RunsCounted /\ PubSet
    BY RunsNumbered DEF Init, ThreadsInTurn, RestartLast, RunsCounted, PubSet, Runs
  <1>4. TakingTurns
    BY RunsNumbered, <1>1 DEF Init, TakingTurns, Runs
  <1> QED
    BY <1>2, <1>3, <1>4 DEF IInv, Base

-----------------------------------------------------------------------------
(* The type.                                                                *)
LEMMA TypeMain == Base /\ (MainStep \/ RunFails) => LifecycleTypeOK'
  <1> SUFFICES ASSUME Base, MainStep \/ RunFails PROVE LifecycleTypeOK'
    OBVIOUS
  <1> USE RunsNumbered DEF Base, LifecycleTypeOK, Main, Runs, inputVars
  <1>1. CASE Begin BY <1>1 DEF Begin
  <1>2. CASE Spawn BY <1>2 DEF Spawn
  <1>3. CASE RunReturns BY <1>3 DEF RunReturns
  <1>4. CASE DeleteServer BY <1>4 DEF DeleteServer
  <1>5. CASE IfRestart BY <1>5 DEF IfRestart
  <1>6. CASE ResetRunning BY <1>6 DEF ResetRunning
  <1>7. CASE WhileRestart BY <1>7 DEF WhileRestart, RunsCounted
  <1>8. CASE RunFails BY <1>8 DEF RunFails
  <1> QED
    BY <1>1, <1>2, <1>3, <1>4, <1>5, <1>6, <1>7, <1>8 DEF MainStep

LEMMA TypeInput ==
  ASSUME Base, NEW t \in Runs, InputStep(t) \/ Type(t)
  PROVE  LifecycleTypeOK'
  <1> USE RunsNumbered DEF Base, LifecycleTypeOK, Input, mainVars
  <1>1. CASE InitThread(t) BY <1>1 DEF InitThread, Runs
  <1>2. CASE WhileRunning(t) BY <1>2 DEF WhileRunning
  <1>3. CASE Decode(t)
    <2>1. PICK n \in 1 .. MaxNodes \ DOMAIN tree :
            tree' = [m \in DOMAIN tree \cup {n} |-> IF m = n THEN pub ELSE tree[m]]
      BY <1>3 DEF Decode
    <2>2. pub \in Runs
      <3>1. thread[t] = "decode" /\ pub # 0
        BY <1>3 DEF Decode, PubSet
      <3> QED
        BY <3>1 DEF Runs
    <2> QED
      BY <1>3, <2>1, <2>2 DEF Decode
  <1>4. CASE DecodeNothing(t) BY <1>4 DEF DecodeNothing
  <1>5. CASE SetRestart(t) BY <1>5 DEF SetRestart
  <1>6. CASE DeleteOne(t) BY <1>6 DEF DeleteOne, Restrict
  <1>7. CASE DeletedAll(t) BY <1>7 DEF DeletedAll
  <1>8. CASE StopRunning(t) BY <1>8 DEF StopRunning
  <1>9. CASE ReadCommand(t) BY <1>9 DEF ReadCommand
  <1>10. CASE ReadExit(t) BY <1>10 DEF ReadExit
  <1>11. CASE ReadRestart(t) BY <1>11 DEF ReadRestart
  <1> QED
    BY <1>1, <1>2, <1>3, <1>4, <1>5, <1>6, <1>7, <1>8, <1>9, <1>10, <1>11 DEF InputStep, Type

-----------------------------------------------------------------------------
(* Threads, restart and the count of runs.                                  *)
Turns == ThreadsInTurn /\ RestartLast /\ RunsCounted /\ PubSet

LEMMA TurnsMain == Base /\ (MainStep \/ RunFails) => Turns'
  <1> SUFFICES ASSUME Base, MainStep \/ RunFails PROVE Turns'
    OBVIOUS
  <1> USE RunsNumbered DEF Base, Turns, LifecycleTypeOK, ThreadsInTurn, RestartLast, RunsCounted, PubSet,
                           Leaving, Main, Runs, inputVars
  <1>1. CASE Begin BY <1>1 DEF Begin
  <1>2. CASE Spawn BY <1>2 DEF Spawn
  <1>3. CASE RunReturns BY <1>3 DEF RunReturns
  <1>4. CASE DeleteServer BY <1>4 DEF DeleteServer
  <1>5. CASE IfRestart BY <1>5 DEF IfRestart
  <1>6. CASE ResetRunning BY <1>6 DEF ResetRunning
  <1>7. CASE WhileRestart BY <1>7 DEF WhileRestart
  <1>8. CASE RunFails BY <1>8 DEF RunFails
  <1> QED
    BY <1>1, <1>2, <1>3, <1>4, <1>5, <1>6, <1>7, <1>8 DEF MainStep

LEMMA TurnsInput ==
  ASSUME Base, NEW t \in Runs, InputStep(t) \/ Type(t)
  PROVE  Turns'
  <1> USE RunsNumbered DEF Base, Turns, LifecycleTypeOK, ThreadsInTurn, RestartLast, RunsCounted, PubSet,
                           Leaving, Input, Runs, mainVars
  <1>1. CASE InitThread(t) BY <1>1 DEF InitThread
  <1>2. CASE WhileRunning(t) BY <1>2 DEF WhileRunning
  <1>3. CASE Decode(t) BY <1>3 DEF Decode
  <1>4. CASE DecodeNothing(t) BY <1>4 DEF DecodeNothing
  <1>5. CASE SetRestart(t) BY <1>5 DEF SetRestart
  <1>6. CASE DeleteOne(t) BY <1>6 DEF DeleteOne
  <1>7. CASE DeletedAll(t) BY <1>7 DEF DeletedAll
  <1>8. CASE StopRunning(t) BY <1>8 DEF StopRunning
  <1>9. CASE ReadCommand(t) BY <1>9 DEF ReadCommand
  <1>10. CASE ReadExit(t) BY <1>10 DEF ReadExit
  <1>11. CASE ReadRestart(t) BY <1>11 DEF ReadRestart
  <1> QED
    BY <1>1, <1>2, <1>3, <1>4, <1>5, <1>6, <1>7, <1>8, <1>9, <1>10, <1>11 DEF InputStep, Type

LEMMA BaseNext == Base /\ [Next]_vars => Base'
  <1> SUFFICES ASSUME Base, [Next]_vars PROVE Base'
    OBVIOUS
  <1>1. CASE MainStep \/ RunFails
    BY <1>1, TypeMain, TurnsMain DEF Base, Turns
  <1>2. CASE \E t \in Runs : InputStep(t) \/ Type(t)
    BY <1>2, TypeInput, TurnsInput DEF Base, Turns
  <1>3. CASE Signal
    <2>1. UNCHANGED <<main, run, servers, restart, pub, thread, tree, asked, restarts, failed>>
      BY <1>3 DEF Signal, mainVars, inputVars
    <2>2. running' = FALSE /\ signals' \in 0 .. MaxSignals
      BY <1>3, LifecycleOK DEF Signal, Base, LifecycleTypeOK
    <2> QED
      BY <2>1, <2>2 DEF Base, LifecycleTypeOK, ThreadsInTurn, RestartLast, RunsCounted, PubSet
  <1>4. CASE UNCHANGED vars
    BY <1>4 DEF vars, Base, LifecycleTypeOK, ThreadsInTurn, RestartLast, RunsCounted, PubSet
  <1> QED
    BY <1>1, <1>2, <1>3, <1>4 DEF Next

-----------------------------------------------------------------------------
(* Runs without signals and failures.                                       *)
LEMMA QuietMain ==
  ASSUME Base, Quiet, TakingTurns, MainStep
  PROVE  TakingTurns'
  <1> USE RunsNumbered DEF Base, LifecycleTypeOK, ThreadsInTurn, RestartLast, TakingTurns,
                           Leaving, Main, Runs, inputVars
  <1>1. CASE Begin BY <1>1 DEF Begin
  <1>2. CASE Spawn BY <1>2 DEF Spawn
  <1>3. CASE RunReturns BY <1>3 DEF RunReturns
  <1>4. CASE DeleteServer BY <1>4 DEF DeleteServer
  <1>5. CASE IfRestart BY <1>5 DEF IfRestart
  <1>6. CASE ResetRunning BY <1>6 DEF ResetRunning
  <1>7. CASE WhileRestart
    <2>1. CASE restart
      <3>1. main' = "begin" /\ run' = run + 1 /\ run' \in Runs
        BY <1>7, <2>1 DEF WhileRestart, RunsCounted
      <3>2. thread'[run'] = "none" /\ tree' = <<>>
        BY <1>7, <3>1 DEF WhileRestart
      <3> QED
        BY <1>7, <2>1, <3>1, <3>2 DEF WhileRestart
    <2>2. CASE ~ restart
      BY <1>7, <2>2 DEF WhileRestart
    <2> QED
      BY <2>1, <2>2
  <1> QED
    BY <1>1, <1>2, <1>3, <1>4, <1>5, <1>6, <1>7 DEF MainStep

\* A thread that is at a statement of its own is this run's, and main runs the server.
LEMMA QuietThread ==
  ASSUME Base, TakingTurns, NEW t \in Runs, thread[t] \notin {"none", "done"}, main # "ended"
  PROVE  t = run /\ main = "run"
  BY RunsNumbered DEF Base, LifecycleTypeOK, ThreadsInTurn, TakingTurns, Runs

LEMMA QuietInput ==
  ASSUME Base, Quiet, TakingTurns, NEW t \in Runs, InputStep(t) \/ Type(t)
  PROVE  TakingTurns'
  <1>1. thread[t] \notin {"none", "done"} /\ main # "ended"
    BY DEF InputStep, Type, Input, InitThread, WhileRunning, Decode, DecodeNothing, SetRestart, DeleteOne,
           DeletedAll, StopRunning, ReadCommand, ReadExit, ReadRestart
  <1>2. t = run /\ main = "run"
    BY <1>1, QuietThread
  <1> USE <1>2, RunsNumbered DEF Base, LifecycleTypeOK, TakingTurns, Input, Runs, mainVars
  <1>3. CASE InitThread(t) BY <1>3 DEF InitThread
  <1>4. CASE WhileRunning(t) BY <1>4 DEF WhileRunning
  <1>5. CASE Decode(t) BY <1>5 DEF Decode
  <1>6. CASE DecodeNothing(t) BY <1>6 DEF DecodeNothing
  <1>7. CASE SetRestart(t) BY <1>7 DEF SetRestart
  <1>8. CASE DeleteOne(t) BY <1>8 DEF DeleteOne, Restrict
  <1>9. CASE DeletedAll(t) BY <1>9 DEF DeletedAll
  <1>10. CASE StopRunning(t) BY <1>10 DEF StopRunning
  <1>11. CASE ReadCommand(t) BY <1>11 DEF ReadCommand
  <1>12. CASE ReadExit(t) BY <1>12 DEF ReadExit
  <1>13. CASE ReadRestart(t) BY <1>13 DEF ReadRestart
  <1> QED
    BY <1>3, <1>4, <1>5, <1>6, <1>7, <1>8, <1>9, <1>10, <1>11, <1>12, <1>13 DEF InputStep, Type

LEMMA QuietNext == Base /\ (Quiet => TakingTurns) /\ [Next]_vars => (Quiet => TakingTurns)'
  <1> SUFFICES ASSUME Base, Quiet => TakingTurns, [Next]_vars, Quiet' PROVE TakingTurns'
    OBVIOUS
  <1>1. CASE MainStep
    <2>1. Quiet
      BY <1>1 DEF Quiet, MainStep, Begin, Spawn, RunReturns, DeleteServer, IfRestart, ResetRunning, WhileRestart
    <2> QED
      BY <1>1, <2>1, QuietMain
  <1>2. CASE \E t \in Runs : InputStep(t) \/ Type(t)
    <2>1. Quiet
      BY <1>2 DEF Quiet, InputStep, Type, InitThread, WhileRunning, Decode, DecodeNothing, SetRestart, DeleteOne,
                  DeletedAll, StopRunning, ReadCommand, ReadExit, ReadRestart
    <2> QED
      BY <1>2, <2>1, QuietInput
  <1>3. CASE RunFails
    BY <1>3 DEF RunFails, Quiet
  <1>4. CASE Signal
    BY <1>4 DEF Signal, Quiet, Base, LifecycleTypeOK
  <1>5. CASE UNCHANGED vars
    BY <1>5 DEF vars, Quiet, TakingTurns
  <1> QED
    BY <1>1, <1>2, <1>3, <1>4, <1>5 DEF Next

-----------------------------------------------------------------------------
LEMMA Invariance == Spec => []IInv
  <1>1. IInv /\ [Next]_vars => IInv'
    BY BaseNext, QuietNext DEF IInv
  <1> QED
    BY InitInv, <1>1, PTL DEF Spec

(* The two threads keep the types of main's and the input threads'          *)
(* variables; there are never more runs than restarts were typed.           *)
THEOREM LifecycleTypes == Spec => []LifecycleTypeOK
  <1>1. IInv => LifecycleTypeOK
    BY DEF IInv, Base
  <1> QED
    BY Invariance, <1>1, PTL

(* Two input threads never wait for the same line, however often signals    *)
(* come and servers fail: handlingUserInput breaks out of its loop after    *)
(* restart, and nothing else lets main go on to another run.                *)
THEOREM OneReaderAtATime == Spec => []OneReader
  <1>1. IInv => OneReader
    BY DEF IInv, Base, LifecycleTypeOK, ThreadsInTurn, Leaving, OneReader, Runs
  <1> QED
    BY Invariance, <1>1, PTL

(* Without signals and failures no command works on a deleted server.       *)
THEOREM ServerReached == Spec => []CallsReachServer
  <1>1. IInv => CallsReachServer
    <2> SUFFICES ASSUME IInv, Quiet, NEW t \in Runs, thread[t] \in {"decode", "deleteAll"}
                 PROVE  pub \in servers
      BY DEF CallsReachServer, Quiet
    <2>1. t = run /\ main = "run"
      BY RunsNumbered DEF IInv, Base, LifecycleTypeOK, ThreadsInTurn, TakingTurns, Runs
    <2> QED
      BY <2>1 DEF IInv, TakingTurns
  <1> QED
    BY Invariance, <1>1, PTL

(* Without signals and failures the static tree holds nodes of the server   *)
(* that runs, over any number of restarts.                                  *)
THEOREM NodesKnown == Spec => []NodesOfThisServer
  <1>1. IInv => NodesOfThisServer
    <2> SUFFICES ASSUME IInv, Quiet, NEW n \in DOMAIN tree
                 PROVE  tree[n] \in servers /\ tree[n] = pub
      BY DEF NodesOfThisServer, Quiet
    <2>1. thread[run] \notin {"none", "init", "stop", "done"}
      BY DEF IInv, TakingTurns
    <2>2. main = "run"
      BY <2>1 DEF IInv, Base, LifecycleTypeOK, ThreadsInTurn, TakingTurns
    <2> QED
      BY <2>1, <2>2 DEF IInv, TakingTurns
  <1> QED
    BY Invariance, <1>1, PTL
=============================================================================
