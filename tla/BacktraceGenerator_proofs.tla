---------------------- MODULE BacktraceGenerator_proofs ----------------------
(***************************************************************************)
(* What TLAPS proves of BacktraceGenerator: its types for every value of   *)
(* the constants, and the safety of one crash's debugging on a machine     *)
(* whose memory is never cramped, for either debugger (what is only true   *)
(* of gdb says so), any number of starts and of pressure signals and       *)
(* whatever other drkonqis do with the lock file.  NotCramped is needed:   *)
(* with it false, the developer page's Retry calls start() while a         *)
(* debugger runs and a second one follows.                                 *)
(***************************************************************************)
EXTENDS BacktraceGenerator, FiniteSetTheorems, TLAPS

\* The fence never picks the smallest profile: at least 3 GiB are to spare.
NotCramped == "Cramped" \notin Sizes

-----------------------------------------------------------------------------
(* The parts of the inductive invariant.                                   *)

\* Loading is one of four stages, each of which excludes the others.
InPreparation == /\ preparing /\ ~prepared /\ ~locked
                 /\ fence = 0 /\ proc = None /\ live = {} /\ watcher = "none"
InLockWait    == /\ ~preparing /\ fence = 0 /\ proc = None /\ live = {}
                 /\ watcher # "none" /\ (watcher = "waiting" => ~locked)
InFence       == /\ ~preparing /\ fence = 1 /\ proc = None /\ live = {}
                 /\ watcher = "none"
InDebugger    == /\ ~preparing /\ fence = 0 /\ proc = spawned /\ proc # None
                 /\ live = {proc} /\ watcher = "none"

\* Outside of Loading nothing is under way; at most one discarded debugger is
\* still alive, and it has reported its start.
AtRest        == /\ ~preparing /\ fence = 0 /\ proc = None /\ watcher = "none"
                 /\ ~locked
                 /\ doomed = live /\ live \subseteq started
                 /\ \A p, q \in live : p = q

StageInv ==
  app = "up" =>
    /\ state = "Loading" => /\ doomed = {}
                            /\ InPreparation \/ InLockWait \/ InFence \/ InDebugger
    /\ state # "Loading" => AtRest

\* The message that offers the unguarded Retry is never shown.
Roomy == ~cramped

\* drkonqi only ever ends by being quit, and leaves nothing behind that it knows
\* to be running.
DownInv ==
  app # "up" => /\ app = "quit" /\ fence = 0 /\ ~locked /\ live \cap started = {}
                /\ \A p, q \in live : p = q

\* The level is High only if that was heard since the last debugger was made.
PressureInv == /\ level = "High" => pressureAt = spawned
               /\ PressureBlameIsFresh

\* If no output ends inside a line and there is no line of a detached lldb, behind
\* which nothing is read, nothing is left over for the next run, whose parser starts
\* empty.
OutputInv ==
  WholeLines /\ Debugger = "gdb" =>
    /\ residue = {}
    /\ fence > 0 => lines = {}
    /\ proc # None => lines \subseteq {spawned}
    /\ TraceFromOneRun

IInv == TypeOK /\ Roomy /\ StageInv /\ DownInv /\ ManagerKnows /\ PressureInv /\ OutputInv

-----------------------------------------------------------------------------
\* A detached lldb ends its run with a verdict, whether or not it died of itself,
\* and may leave some of its output in m_output (slotReadInput()).
LEMMA Detached ==
  ASSUME LldbDetached
  PROVE  /\ app = "up" /\ Debugger = "lldb" /\ proc \in started \cap live
         /\ proc' = None /\ locked' = FALSE /\ debuggerRunning' = FALSE
         /\ live' \in {live, live \ {proc}} /\ doomed' = (doomed \cup {proc}) \cap live'
         /\ state' \in {"Loaded", "Failed", "MemoryPressure"}
         /\ state' = "MemoryPressure" => level = "High"
         /\ lines' = lines \cup residue \cup {proc} /\ residue' \in {{}, {proc}}
         /\ trace' \in {trace, lines'}
         /\ UNCHANGED <<starts, preparing, prepared, foreign, watcher, fence, spawned, started,
                        level, queuedPressure, pressureAt, cramped, app>>
BY DEF LldbDetached, ReadToDetached, ResetProcessAndUnlock, Conclude, BlameFor, prepVars,
   pressureVars

-----------------------------------------------------------------------------
(* Types.                                                                  *)

\* Initially every variable has its type (the constructor, and the machine's
\* other drkonqis anywhere in their work).
LEMMA TypeInit == Init => TypeOK
<1> SUFFICES ASSUME Init PROVE TypeOK
  OBVIOUS
<1>1. FlagsOK /\ NamesOK /\ CountsOK
  BY DEF Init, FlagsOK, NamesOK, CountsOK, States
<1>2. ProcsOK /\ OutputOK
  BY DEF Init, ProcsOK, OutputOK, None
<1> QED
  BY <1>1, <1>2 DEF TypeOK

\* No handler leaves a flag undefined.
LEMMA FlagsStep ==
  FlagsOK /\ [Next]_vars => FlagsOK'
<1> SUFFICES ASSUME FlagsOK, [Next]_vars PROVE FlagsOK'
  OBVIOUS
<1> USE DEF prepVars, lockVars, procVars, outputVars, pressureVars
<1>1. CASE Start
  BY <1>1 DEF FlagsOK, Start, StartWithoutDebugger, StartPrepared, StartUnprepared,
     StartPreparing, LockAndStart, StartProcess
<1>2. CASE SetBackendPrepared
  BY <1>2 DEF FlagsOK, SetBackendPrepared, LockAndStart, StartProcess
<1>3. CASE SetBackendFailedToPrepare
  BY <1>3 DEF FlagsOK, SetBackendFailedToPrepare
<1>4. CASE LockThreadReturns
  BY <1>4 DEF FlagsOK, LockThreadReturns, TryLock
<1>5. CASE LockWatcherFinished
  BY <1>5 DEF FlagsOK, LockWatcherFinished, StartProcess
<1>6. CASE FenceLoaded
  BY <1>6 DEF FlagsOK, FenceLoaded, MemoryConstrainProc
<1>7. ASSUME NEW p \in live, Started(p) PROVE FlagsOK'
  BY <1>7 DEF FlagsOK, Started
<1>8. ASSUME NEW whole \in BOOLEAN, NEW tail \in BOOLEAN, SlotReadInput(whole, tail)
      PROVE  FlagsOK'
  BY <1>8 DEF FlagsOK, SlotReadInput
<1>9. CASE LldbDetached
  BY <1>9, Detached DEF FlagsOK
<1>10. ASSUME NEW p \in live, NEW cleanly \in BOOLEAN, SlotProcessExited(p, cleanly)
      PROVE  FlagsOK'
  BY <1>10 DEF FlagsOK, SlotProcessExited, ResetProcessAndUnlock, Conclude
<1>11. ASSUME NEW p \in live, FailedToStart(p) PROVE FlagsOK'
  BY <1>11 DEF FlagsOK, FailedToStart, ResetProcessAndUnlock, Conclude
<1>12. ASSUME NEW p \in live, ReadError(p) PROVE FlagsOK'
  BY <1>12 DEF FlagsOK, ReadError, ResetProcessAndUnlock, Conclude
<1>13. CASE PressureRaised \/ PressureDelivered \/ ForeignLock
  BY <1>13 DEF FlagsOK, PressureRaised, PressureDelivered, ForeignLock
<1>14. CASE Quit
  BY <1>14 DEF FlagsOK, Quit, TerminateDebugger
<1>15. CASE UNCHANGED vars
  BY <1>15 DEF FlagsOK, vars
<1> QED
  BY <1>1, <1>2, <1>3, <1>4, <1>5, <1>6, <1>7, <1>8, <1>9, <1>10, <1>11, <1>12,
     <1>13, <1>14, <1>15 DEF Next, DebuggerEnds

\* m_state, the watcher, the level and drkonqi itself take only the values that
\* have a name.
LEMMA NamesStep ==
  NamesOK /\ [Next]_vars => NamesOK'
<1> SUFFICES ASSUME NamesOK, [Next]_vars PROVE NamesOK'
  OBVIOUS
<1> USE DEF prepVars, lockVars, procVars, outputVars, pressureVars
<1>1. CASE Start
  BY <1>1 DEF NamesOK, States, Failures, Start, StartWithoutDebugger, StartPrepared,
     StartUnprepared, StartPreparing, LockAndStart, StartProcess
<1>2. CASE SetBackendPrepared
  BY <1>2 DEF NamesOK, States, Failures, SetBackendPrepared, LockAndStart,
     StartProcess
<1>3. CASE SetBackendFailedToPrepare
  BY <1>3 DEF NamesOK, States, Failures, SetBackendFailedToPrepare
<1>4. CASE LockThreadReturns
  BY <1>4 DEF NamesOK, States, Failures, LockThreadReturns, TryLock
<1>5. CASE LockWatcherFinished
  BY <1>5 DEF NamesOK, States, Failures, LockWatcherFinished, StartProcess
<1>6. CASE FenceLoaded
  BY <1>6 DEF NamesOK, States, Failures, FenceLoaded, MemoryConstrainProc
<1>7. ASSUME NEW p \in live, Started(p) PROVE NamesOK'
  BY <1>7 DEF NamesOK, States, Failures, Started
<1>8. ASSUME NEW whole \in BOOLEAN, NEW tail \in BOOLEAN, SlotReadInput(whole, tail)
      PROVE  NamesOK'
  BY <1>8 DEF NamesOK, States, Failures, SlotReadInput
<1>9. CASE LldbDetached
  BY <1>9, Detached DEF NamesOK, States, Failures
<1>10. ASSUME NEW p \in live, NEW cleanly \in BOOLEAN, SlotProcessExited(p, cleanly)
      PROVE  NamesOK'
  BY <1>10 DEF NamesOK, States, Failures, SlotProcessExited, ResetProcessAndUnlock,
     Conclude, BlameFor
<1>11. ASSUME NEW p \in live, FailedToStart(p) PROVE NamesOK'
  BY <1>11 DEF NamesOK, States, Failures, FailedToStart, ResetProcessAndUnlock,
     Conclude, BlameFor
<1>12. ASSUME NEW p \in live, ReadError(p) PROVE NamesOK'
  BY <1>12 DEF NamesOK, States, Failures, ReadError, ResetProcessAndUnlock,
     Conclude, BlameFor
<1>13. CASE PressureRaised \/ PressureDelivered \/ ForeignLock
  BY <1>13 DEF NamesOK, States, Failures, PressureRaised, PressureDelivered,
     ForeignLock
<1>14. CASE Quit
  BY <1>14 DEF NamesOK, States, Failures, Quit, TerminateDebugger
<1>15. CASE UNCHANGED vars
  BY <1>15 DEF NamesOK, States, Failures, vars
<1> QED
  BY <1>1, <1>2, <1>3, <1>4, <1>5, <1>6, <1>7, <1>8, <1>9, <1>10, <1>11, <1>12,
     <1>13, <1>14, <1>15 DEF Next, DebuggerEnds

\* The counters stay natural numbers: fence is only taken down from above 0.
LEMMA CountsStep ==
  CountsOK /\ [Next]_vars => CountsOK'
<1> SUFFICES ASSUME CountsOK, [Next]_vars PROVE CountsOK'
  OBVIOUS
<1> USE DEF prepVars, lockVars, procVars, outputVars, pressureVars
<1>1. CASE Start
  BY <1>1 DEF CountsOK, Start, StartWithoutDebugger, StartPrepared, StartUnprepared,
     StartPreparing, LockAndStart, StartProcess
<1>2. CASE SetBackendPrepared
  BY <1>2 DEF CountsOK, SetBackendPrepared, LockAndStart, StartProcess
<1>3. CASE SetBackendFailedToPrepare
  BY <1>3 DEF CountsOK, SetBackendFailedToPrepare
<1>4. CASE LockThreadReturns
  BY <1>4 DEF CountsOK, LockThreadReturns, TryLock
<1>5. CASE LockWatcherFinished
  BY <1>5 DEF CountsOK, LockWatcherFinished, StartProcess
<1>6. CASE FenceLoaded
  BY <1>6 DEF CountsOK, FenceLoaded, MemoryConstrainProc
<1>7. ASSUME NEW p \in live, Started(p) PROVE CountsOK'
  BY <1>7 DEF CountsOK, Started
<1>8. ASSUME NEW whole \in BOOLEAN, NEW tail \in BOOLEAN, SlotReadInput(whole, tail)
      PROVE  CountsOK'
  BY <1>8 DEF CountsOK, SlotReadInput
<1>9. CASE LldbDetached
  BY <1>9, Detached DEF CountsOK
<1>10. ASSUME NEW p \in live, NEW cleanly \in BOOLEAN, SlotProcessExited(p, cleanly)
      PROVE  CountsOK'
  BY <1>10 DEF CountsOK, SlotProcessExited, ResetProcessAndUnlock, Conclude
<1>11. ASSUME NEW p \in live, FailedToStart(p) PROVE CountsOK'
  BY <1>11 DEF CountsOK, FailedToStart, ResetProcessAndUnlock, Conclude
<1>12. ASSUME NEW p \in live, ReadError(p) PROVE CountsOK'
  BY <1>12 DEF CountsOK, ReadError, ResetProcessAndUnlock, Conclude
<1>13. CASE PressureRaised \/ PressureDelivered \/ ForeignLock
  BY <1>13 DEF CountsOK, PressureRaised, PressureDelivered, ForeignLock
<1>14. CASE Quit
  BY <1>14 DEF CountsOK, Quit, TerminateDebugger
<1>15. CASE UNCHANGED vars
  BY <1>15 DEF CountsOK, vars
<1> QED
  BY <1>1, <1>2, <1>3, <1>4, <1>5, <1>6, <1>7, <1>8, <1>9, <1>10, <1>11, <1>12,
     <1>13, <1>14, <1>15 DEF Next, DebuggerEnds

\* Processes are numbered in the order they are made, and a QProcess waits for
\* its deletion only while its debugger is alive.
LEMMA ProcsStep ==
  CountsOK /\ ProcsOK /\ [Next]_vars => ProcsOK'
<1> SUFFICES ASSUME CountsOK, ProcsOK, [Next]_vars PROVE ProcsOK'
  OBVIOUS
<1> USE DEF prepVars, lockVars, procVars, outputVars, pressureVars
<1>1. CASE Start
  BY <1>1 DEF ProcsOK, CountsOK, None, Start, StartWithoutDebugger, StartPrepared,
     StartUnprepared, StartPreparing, LockAndStart, StartProcess
<1>2. CASE SetBackendPrepared
  BY <1>2 DEF ProcsOK, CountsOK, None, SetBackendPrepared, LockAndStart,
     StartProcess
<1>3. CASE SetBackendFailedToPrepare
  BY <1>3 DEF ProcsOK, CountsOK, None, SetBackendFailedToPrepare
<1>4. CASE LockThreadReturns
  BY <1>4 DEF ProcsOK, CountsOK, None, LockThreadReturns, TryLock
<1>5. CASE LockWatcherFinished
  BY <1>5 DEF ProcsOK, CountsOK, None, LockWatcherFinished, StartProcess
<1>6. CASE FenceLoaded
  BY <1>6 DEF ProcsOK, CountsOK, None, FenceLoaded, MemoryConstrainProc
<1>7. ASSUME NEW p \in live, Started(p) PROVE ProcsOK'
  BY <1>7 DEF ProcsOK, CountsOK, None, Started
<1>8. ASSUME NEW whole \in BOOLEAN, NEW tail \in BOOLEAN, SlotReadInput(whole, tail)
      PROVE  ProcsOK'
  BY <1>8 DEF ProcsOK, CountsOK, None, SlotReadInput
<1>9. CASE LldbDetached
  <2>1. /\ proc' = None /\ spawned' = spawned /\ started' = started
        /\ live' \subseteq live /\ doomed' \subseteq live'
    BY <1>9, Detached
  <2> QED
    BY <2>1 DEF ProcsOK, CountsOK, None
<1>10. ASSUME NEW p \in live, NEW cleanly \in BOOLEAN, SlotProcessExited(p, cleanly)
      PROVE  ProcsOK'
  BY <1>10 DEF ProcsOK, CountsOK, None, SlotProcessExited, ResetProcessAndUnlock,
     Conclude
<1>11. ASSUME NEW p \in live, FailedToStart(p) PROVE ProcsOK'
  <2>1. CASE proc = None
    BY <1>11, <2>1 DEF ProcsOK, FailedToStart, None
  <2>2. CASE proc # None
    <3>1. live' = live \ {p} /\ proc' = None /\ spawned' = spawned /\ started' = started
          /\ doomed' = (doomed \cup {proc}) \cap (live \ {p})
      BY <1>11, <2>2 DEF FailedToStart, ResetProcessAndUnlock
    <3> QED
      BY <3>1 DEF ProcsOK, CountsOK, None
  <2> QED
    BY <2>1, <2>2
<1>12. ASSUME NEW p \in live, ReadError(p) PROVE ProcsOK'
  BY <1>12 DEF ProcsOK, CountsOK, None, ReadError, ResetProcessAndUnlock, Conclude
<1>13. CASE PressureRaised \/ PressureDelivered \/ ForeignLock
  BY <1>13 DEF ProcsOK, CountsOK, None, PressureRaised, PressureDelivered,
     ForeignLock
<1>14. CASE Quit
  BY <1>14 DEF ProcsOK, CountsOK, None, Quit, TerminateDebugger
<1>15. CASE UNCHANGED vars
  BY <1>15 DEF ProcsOK, CountsOK, None, vars
<1> QED
  BY <1>1, <1>2, <1>3, <1>4, <1>5, <1>6, <1>7, <1>8, <1>9, <1>10, <1>11, <1>12,
     <1>13, <1>14, <1>15 DEF Next, DebuggerEnds

\* All output in the parser, in m_output and in the trace comes from a debugger
\* that was made.
LEMMA OutputStep ==
  CountsOK /\ ProcsOK /\ OutputOK /\ [Next]_vars => OutputOK'
<1> SUFFICES ASSUME CountsOK, ProcsOK, OutputOK, [Next]_vars PROVE OutputOK'
  OBVIOUS
<1> USE DEF prepVars, lockVars, procVars, outputVars, pressureVars
<1>1. CASE Start
  BY <1>1 DEF OutputOK, ProcsOK, CountsOK, Start, StartWithoutDebugger,
     StartPrepared, StartUnprepared, StartPreparing, LockAndStart, StartProcess
<1>2. CASE SetBackendPrepared
  BY <1>2 DEF OutputOK, ProcsOK, CountsOK, SetBackendPrepared, LockAndStart,
     StartProcess
<1>3. CASE SetBackendFailedToPrepare
  BY <1>3 DEF OutputOK, ProcsOK, CountsOK, SetBackendFailedToPrepare
<1>4. CASE LockThreadReturns
  BY <1>4 DEF OutputOK, ProcsOK, CountsOK, LockThreadReturns, TryLock
<1>5. CASE LockWatcherFinished
  BY <1>5 DEF OutputOK, ProcsOK, CountsOK, LockWatcherFinished, StartProcess
<1>6. CASE FenceLoaded
  BY <1>6 DEF OutputOK, ProcsOK, CountsOK, FenceLoaded, MemoryConstrainProc
<1>7. ASSUME NEW p \in live, Started(p) PROVE OutputOK'
  BY <1>7 DEF OutputOK, ProcsOK, CountsOK, Started
<1>8. ASSUME NEW whole \in BOOLEAN, NEW tail \in BOOLEAN, SlotReadInput(whole, tail)
      PROVE  OutputOK'
  BY <1>8 DEF OutputOK, ProcsOK, CountsOK, SlotReadInput
<1>9. CASE LldbDetached
  BY <1>9, Detached DEF OutputOK, ProcsOK, CountsOK
<1>10. ASSUME NEW p \in live, NEW cleanly \in BOOLEAN, SlotProcessExited(p, cleanly)
      PROVE  OutputOK'
  BY <1>10 DEF OutputOK, ProcsOK, CountsOK, SlotProcessExited,
     ResetProcessAndUnlock, Conclude
<1>11. ASSUME NEW p \in live, FailedToStart(p) PROVE OutputOK'
  BY <1>11 DEF OutputOK, ProcsOK, CountsOK, FailedToStart, ResetProcessAndUnlock,
     Conclude
<1>12. ASSUME NEW p \in live, ReadError(p) PROVE OutputOK'
  BY <1>12 DEF OutputOK, ProcsOK, CountsOK, ReadError, ResetProcessAndUnlock,
     Conclude
<1>13. CASE PressureRaised \/ PressureDelivered \/ ForeignLock
  BY <1>13 DEF OutputOK, ProcsOK, CountsOK, PressureRaised, PressureDelivered,
     ForeignLock
<1>14. CASE Quit
  BY <1>14 DEF OutputOK, ProcsOK, CountsOK, Quit, TerminateDebugger
<1>15. CASE UNCHANGED vars
  BY <1>15 DEF OutputOK, ProcsOK, CountsOK, vars
<1> QED
  BY <1>1, <1>2, <1>3, <1>4, <1>5, <1>6, <1>7, <1>8, <1>9, <1>10, <1>11, <1>12,
     <1>13, <1>14, <1>15 DEF Next, DebuggerEnds

\* TypeOK is inductive by itself.
LEMMA TypeStep == TypeOK /\ [Next]_vars => TypeOK'
  BY FlagsStep, NamesStep, CountsStep, ProcsStep, OutputStep DEF TypeOK

\* Type correctness of the generator, for every value of the constants, cramped
\* machines and lldb included.
THEOREM TypeCorrect == Spec => []TypeOK
<1>1. Init => TypeOK
  BY TypeInit
<1>2. TypeOK /\ [Next]_vars => TypeOK'
  BY TypeStep
<1> QED
  BY <1>1, <1>2, PTL DEF Spec

-----------------------------------------------------------------------------
(* The inductive invariant.                                                *)

\* It holds when drkonqi starts.
LEMMA IInvInit == Init => IInv
<1> SUFFICES ASSUME Init PROVE IInv
  OBVIOUS
<1>1. TypeOK
  BY TypeInit
<1>2. StageInv
  BY DEF Init, StageInv, AtRest, None
<1>3. Roomy /\ DownInv /\ ManagerKnows
  BY DEF Init, Roomy, DownInv, ManagerKnows, None
<1>4. PressureInv /\ OutputInv
  BY DEF Init, PressureInv, PressureBlameIsFresh, OutputInv, TraceFromOneRun, None
<1> QED
  BY <1>1, <1>2, <1>3, <1>4 DEF IInv

\* m_crampedMemory is set by memoryConstrainProc() alone, from the fence's
\* size.
LEMMA RoomyStep ==
  ASSUME NotCramped
  PROVE  Roomy /\ [Next]_vars => Roomy'
<1> SUFFICES ASSUME Roomy, [Next]_vars PROVE Roomy'
  OBVIOUS
<1> USE DEF prepVars, lockVars, procVars, outputVars, pressureVars
<1>1. CASE Start
  BY <1>1 DEF Roomy, Start, StartWithoutDebugger, StartPrepared, StartUnprepared,
     StartPreparing, LockAndStart, StartProcess
<1>2. CASE SetBackendPrepared
  BY <1>2 DEF Roomy, SetBackendPrepared, LockAndStart, StartProcess
<1>3. CASE SetBackendFailedToPrepare
  BY <1>3 DEF Roomy, SetBackendFailedToPrepare
<1>4. CASE LockThreadReturns
  BY <1>4 DEF Roomy, LockThreadReturns, TryLock
<1>5. CASE LockWatcherFinished
  BY <1>5 DEF Roomy, LockWatcherFinished, StartProcess
<1>6. CASE FenceLoaded
  BY <1>6 DEF Roomy, FenceLoaded, MemoryConstrainProc, NotCramped
<1>7. ASSUME NEW p \in live, Started(p) PROVE Roomy'
  BY <1>7 DEF Roomy, Started
<1>8. ASSUME NEW whole \in BOOLEAN, NEW tail \in BOOLEAN, SlotReadInput(whole, tail)
      PROVE  Roomy'
  BY <1>8 DEF Roomy, SlotReadInput
<1>9. CASE LldbDetached
  BY <1>9, Detached DEF Roomy
<1>10. ASSUME NEW p \in live, NEW cleanly \in BOOLEAN, SlotProcessExited(p, cleanly)
      PROVE  Roomy'
  BY <1>10 DEF Roomy, SlotProcessExited, ResetProcessAndUnlock, Conclude
<1>11. ASSUME NEW p \in live, FailedToStart(p) PROVE Roomy'
  BY <1>11 DEF Roomy, FailedToStart, ResetProcessAndUnlock, Conclude
<1>12. ASSUME NEW p \in live, ReadError(p) PROVE Roomy'
  BY <1>12 DEF Roomy, ReadError, ResetProcessAndUnlock, Conclude
<1>13. CASE PressureRaised \/ PressureDelivered \/ ForeignLock
  BY <1>13 DEF Roomy, PressureRaised, PressureDelivered, ForeignLock
<1>14. CASE Quit
  BY <1>14 DEF Roomy, Quit, TerminateDebugger
<1>15. CASE UNCHANGED vars
  BY <1>15 DEF Roomy, vars
<1> QED
  BY <1>1, <1>2, <1>3, <1>4, <1>5, <1>6, <1>7, <1>8, <1>9, <1>10, <1>11, <1>12,
     <1>13, <1>14, <1>15 DEF Next, DebuggerEnds

\* The stages follow each other.  Roomy keeps start() out of Loading, and
\* nothing else makes a second lock watcher, fence or debugger.
LEMMA StageStep ==
  TypeOK /\ Roomy /\ StageInv /\ [Next]_vars => StageInv'
<1> SUFFICES ASSUME TypeOK, Roomy, StageInv, [Next]_vars PROVE StageInv'
  OBVIOUS
<1> USE DEF prepVars, lockVars, procVars, outputVars, pressureVars
<1>1. CASE Start
  BY <1>1 DEF StageInv, None, InPreparation, InLockWait, InFence, InDebugger,
     AtRest, Start, StartWithoutDebugger, StartPrepared, StartUnprepared,
     StartPreparing, LockAndStart, StartProcess, MayStart, Roomy
<1>2. CASE SetBackendPrepared
  BY <1>2 DEF StageInv, None, InPreparation, InLockWait, InFence, InDebugger,
     AtRest, SetBackendPrepared, LockAndStart, StartProcess
<1>3. CASE SetBackendFailedToPrepare
  BY <1>3 DEF StageInv, None, InPreparation, InLockWait, InFence, InDebugger,
     AtRest, SetBackendFailedToPrepare
<1>4. CASE LockThreadReturns
  BY <1>4 DEF StageInv, None, InPreparation, InLockWait, InFence, InDebugger,
     AtRest, LockThreadReturns, TryLock
<1>5. CASE LockWatcherFinished
  BY <1>5 DEF StageInv, None, InPreparation, InLockWait, InFence, InDebugger,
     AtRest, LockWatcherFinished, StartProcess
<1>6. CASE FenceLoaded
  <2>1. state = "Loading" /\ live = {} /\ doomed = {} /\ fence = 1
        /\ ~preparing /\ watcher = "none" /\ spawned \in Nat
    BY <1>6 DEF FenceLoaded, TypeOK, CountsOK, StageInv, AtRest, InPreparation,
       InLockWait, InFence, InDebugger
  <2>2. InDebugger' /\ doomed' = {} /\ state' = "Loading"
    BY <1>6, <2>1 DEF FenceLoaded, InDebugger, None
  <2> QED
    BY <2>2 DEF StageInv
<1>7. ASSUME NEW p \in live, Started(p) PROVE StageInv'
  BY <1>7 DEF StageInv, None, InPreparation, InLockWait, InFence, InDebugger,
     AtRest, Started, ProcsOK, CountsOK, TypeOK
<1>8. ASSUME NEW whole \in BOOLEAN, NEW tail \in BOOLEAN, SlotReadInput(whole, tail)
      PROVE  StageInv'
  BY <1>8 DEF StageInv, None, InPreparation, InLockWait, InFence, InDebugger,
     AtRest, SlotReadInput, ProcsOK, TypeOK
<1>9. CASE LldbDetached
  BY <1>9, Detached DEF StageInv, None, InPreparation, InLockWait, InFence, InDebugger,
     AtRest, ProcsOK, TypeOK
<1>10. ASSUME NEW p \in live, NEW cleanly \in BOOLEAN, SlotProcessExited(p, cleanly)
      PROVE  StageInv'
  BY <1>10 DEF StageInv, None, InPreparation, InLockWait, InFence, InDebugger,
     AtRest, SlotProcessExited, ResetProcessAndUnlock, Conclude, BlameFor, Failures,
     ProcsOK, CountsOK, TypeOK
<1>11. ASSUME NEW p \in live, FailedToStart(p) PROVE StageInv'
  BY <1>11 DEF StageInv, None, InPreparation, InLockWait, InFence, InDebugger,
     AtRest, FailedToStart, ResetProcessAndUnlock, Conclude, BlameFor, Failures,
     ProcsOK, CountsOK, TypeOK
<1>12. ASSUME NEW p \in live, ReadError(p) PROVE StageInv'
  BY <1>12 DEF StageInv, None, InPreparation, InLockWait, InFence, InDebugger,
     AtRest, ReadError, ResetProcessAndUnlock, Conclude, BlameFor, Failures,
     ProcsOK, CountsOK, TypeOK
<1>13. CASE PressureRaised \/ PressureDelivered \/ ForeignLock
  BY <1>13 DEF StageInv, None, InPreparation, InLockWait, InFence, InDebugger,
     AtRest, PressureRaised, PressureDelivered, ForeignLock
<1>14. CASE Quit
  BY <1>14 DEF StageInv, None, InPreparation, InLockWait, InFence, InDebugger,
     AtRest, Quit, TerminateDebugger
<1>15. CASE UNCHANGED vars
  BY <1>15 DEF StageInv, None, InPreparation, InLockWait, InFence, InDebugger,
     AtRest, vars
<1> QED
  BY <1>1, <1>2, <1>3, <1>4, <1>5, <1>6, <1>7, <1>8, <1>9, <1>10, <1>11, <1>12,
     <1>13, <1>14, <1>15 DEF Next, DebuggerEnds

\* Once drkonqi is gone nothing moves; Started never meets a null m_proc; and
\* Quit ends a debugger that has reported its start.
LEMMA DownStep ==
  TypeOK /\ StageInv /\ DownInv /\ [Next]_vars => DownInv'
<1> SUFFICES ASSUME TypeOK, StageInv, DownInv, [Next]_vars PROVE DownInv'
  OBVIOUS
<1> USE DEF prepVars, lockVars, procVars, outputVars, pressureVars
<1>1. CASE Start
  BY <1>1 DEF DownInv, Start, StartWithoutDebugger, StartPrepared, StartUnprepared,
     StartPreparing, LockAndStart, StartProcess
<1>2. CASE SetBackendPrepared
  BY <1>2 DEF DownInv, SetBackendPrepared, LockAndStart, StartProcess
<1>3. CASE SetBackendFailedToPrepare
  BY <1>3 DEF DownInv, SetBackendFailedToPrepare
<1>4. CASE LockThreadReturns
  BY <1>4 DEF DownInv, LockThreadReturns, TryLock
<1>5. CASE LockWatcherFinished
  BY <1>5 DEF DownInv, LockWatcherFinished, StartProcess
<1>6. CASE FenceLoaded
  BY <1>6 DEF DownInv, FenceLoaded, MemoryConstrainProc
<1>7. ASSUME NEW p \in live, Started(p) PROVE DownInv'
  BY <1>7 DEF DownInv, Started, StageInv, None, TypeOK, ProcsOK, InPreparation,
     InLockWait, InFence, InDebugger, AtRest
<1>8. ASSUME NEW whole \in BOOLEAN, NEW tail \in BOOLEAN, SlotReadInput(whole, tail)
      PROVE  DownInv'
  BY <1>8 DEF DownInv, SlotReadInput
<1>9. CASE LldbDetached
  BY <1>9, Detached DEF DownInv
<1>10. ASSUME NEW p \in live, NEW cleanly \in BOOLEAN, SlotProcessExited(p, cleanly)
      PROVE  DownInv'
  BY <1>10 DEF DownInv, SlotProcessExited, ResetProcessAndUnlock, Conclude
<1>11. ASSUME NEW p \in live, FailedToStart(p) PROVE DownInv'
  BY <1>11 DEF DownInv, FailedToStart, ResetProcessAndUnlock, Conclude
<1>12. ASSUME NEW p \in live, ReadError(p) PROVE DownInv'
  BY <1>12 DEF DownInv, ReadError, ResetProcessAndUnlock, Conclude
<1>13. CASE PressureRaised \/ PressureDelivered \/ ForeignLock
  BY <1>13 DEF DownInv, PressureRaised, PressureDelivered, ForeignLock
<1>14. CASE Quit
  BY <1>14 DEF DownInv, Quit, TerminateDebugger, StageInv, None, TypeOK, ProcsOK,
     InPreparation, InLockWait, InFence, InDebugger, AtRest
<1>15. CASE UNCHANGED vars
  BY <1>15 DEF DownInv, vars
<1> QED
  BY <1>1, <1>2, <1>3, <1>4, <1>5, <1>6, <1>7, <1>8, <1>9, <1>10, <1>11, <1>12,
     <1>13, <1>14, <1>15 DEF Next, DebuggerEnds

\* The manager's flag goes up with startProcess() and down with each verdict,
\* of which there is one for each start.
LEMMA ManagerStep ==
  TypeOK /\ Roomy /\ StageInv /\ ManagerKnows /\ [Next]_vars => ManagerKnows'
<1> SUFFICES ASSUME TypeOK, Roomy, StageInv, ManagerKnows, [Next]_vars PROVE ManagerKnows'
  OBVIOUS
<1> USE DEF prepVars, lockVars, procVars, outputVars, pressureVars
<1>1. CASE Start
  BY <1>1 DEF ManagerKnows, Start, StartWithoutDebugger, StartPrepared,
     StartUnprepared, StartPreparing, LockAndStart, StartProcess, StageInv, None,
     InPreparation, InLockWait, InFence, InDebugger, AtRest, MayStart, Roomy
<1>2. CASE SetBackendPrepared
  BY <1>2 DEF ManagerKnows, SetBackendPrepared, LockAndStart, StartProcess,
     StageInv, None, InPreparation, InLockWait, InFence, InDebugger, AtRest, TypeOK,
     CountsOK
<1>3. CASE SetBackendFailedToPrepare
  BY <1>3 DEF ManagerKnows, SetBackendFailedToPrepare, StageInv, None,
     InPreparation, InLockWait, InFence, InDebugger, AtRest
<1>4. CASE LockThreadReturns
  BY <1>4 DEF ManagerKnows, LockThreadReturns, TryLock
<1>5. CASE LockWatcherFinished
  BY <1>5 DEF ManagerKnows, LockWatcherFinished, StartProcess, StageInv, None,
     InPreparation, InLockWait, InFence, InDebugger, AtRest, TypeOK, CountsOK
<1>6. CASE FenceLoaded
  BY <1>6 DEF ManagerKnows, FenceLoaded, MemoryConstrainProc, StageInv, None,
     InPreparation, InLockWait, InFence, InDebugger, AtRest, TypeOK, CountsOK
<1>7. ASSUME NEW p \in live, Started(p) PROVE ManagerKnows'
  BY <1>7 DEF ManagerKnows, Started
<1>8. ASSUME NEW whole \in BOOLEAN, NEW tail \in BOOLEAN, SlotReadInput(whole, tail)
      PROVE  ManagerKnows'
  BY <1>8 DEF ManagerKnows, SlotReadInput
<1>9. CASE LldbDetached
  BY <1>9, Detached DEF ManagerKnows, StageInv,
     None, InPreparation, InLockWait, InFence, InDebugger, AtRest
<1>10. ASSUME NEW p \in live, NEW cleanly \in BOOLEAN, SlotProcessExited(p, cleanly)
      PROVE  ManagerKnows'
  BY <1>10 DEF ManagerKnows, SlotProcessExited, ResetProcessAndUnlock, Conclude,
     StageInv, None, InPreparation, InLockWait, InFence, InDebugger, AtRest
<1>11. ASSUME NEW p \in live, FailedToStart(p) PROVE ManagerKnows'
  BY <1>11 DEF ManagerKnows, FailedToStart, ResetProcessAndUnlock, Conclude,
     StageInv, None, InPreparation, InLockWait, InFence, InDebugger, AtRest
<1>12. ASSUME NEW p \in live, ReadError(p) PROVE ManagerKnows'
  BY <1>12 DEF ManagerKnows, ReadError, ResetProcessAndUnlock, Conclude, StageInv,
     None, InPreparation, InLockWait, InFence, InDebugger, AtRest
<1>13. CASE PressureRaised \/ PressureDelivered \/ ForeignLock
  BY <1>13 DEF ManagerKnows, PressureRaised, PressureDelivered, ForeignLock
<1>14. CASE Quit
  BY <1>14 DEF ManagerKnows, Quit, TerminateDebugger
<1>15. CASE UNCHANGED vars
  BY <1>15 DEF ManagerKnows, vars
<1> QED
  BY <1>1, <1>2, <1>3, <1>4, <1>5, <1>6, <1>7, <1>8, <1>9, <1>10, <1>11, <1>12,
     <1>13, <1>14, <1>15 DEF Next, DebuggerEnds

\* A High level never outlives the run in which it was heard: the next
\* memoryConstrainProc() lowers it before a debugger exists.
LEMMA PressureStep ==
  StageInv /\ PressureInv /\ [Next]_vars => PressureInv'
<1> SUFFICES ASSUME StageInv, PressureInv, [Next]_vars PROVE PressureInv'
  OBVIOUS
<1> USE DEF prepVars, lockVars, procVars, outputVars, pressureVars
<1>1. CASE Start
  BY <1>1 DEF PressureInv, PressureBlameIsFresh, Start, StartWithoutDebugger,
     StartPrepared, StartUnprepared, StartPreparing, LockAndStart, StartProcess
<1>2. CASE SetBackendPrepared
  BY <1>2 DEF PressureInv, PressureBlameIsFresh, SetBackendPrepared, LockAndStart,
     StartProcess
<1>3. CASE SetBackendFailedToPrepare
  BY <1>3 DEF PressureInv, PressureBlameIsFresh, SetBackendFailedToPrepare
<1>4. CASE LockThreadReturns
  BY <1>4 DEF PressureInv, PressureBlameIsFresh, LockThreadReturns, TryLock
<1>5. CASE LockWatcherFinished
  BY <1>5 DEF PressureInv, PressureBlameIsFresh, LockWatcherFinished, StartProcess
<1>6. CASE FenceLoaded
  BY <1>6 DEF PressureInv, PressureBlameIsFresh, FenceLoaded, MemoryConstrainProc,
     StageInv, None, InPreparation, InLockWait, InFence, InDebugger, AtRest
<1>7. ASSUME NEW p \in live, Started(p) PROVE PressureInv'
  BY <1>7 DEF PressureInv, PressureBlameIsFresh, Started
<1>8. ASSUME NEW whole \in BOOLEAN, NEW tail \in BOOLEAN, SlotReadInput(whole, tail)
      PROVE  PressureInv'
  BY <1>8 DEF PressureInv, PressureBlameIsFresh, SlotReadInput
<1>9. CASE LldbDetached
  BY <1>9, Detached DEF PressureInv, PressureBlameIsFresh
<1>10. ASSUME NEW p \in live, NEW cleanly \in BOOLEAN, SlotProcessExited(p, cleanly)
      PROVE  PressureInv'
  BY <1>10 DEF PressureInv, PressureBlameIsFresh, SlotProcessExited,
     ResetProcessAndUnlock, Conclude, BlameFor
<1>11. ASSUME NEW p \in live, FailedToStart(p) PROVE PressureInv'
  BY <1>11 DEF PressureInv, PressureBlameIsFresh, FailedToStart,
     ResetProcessAndUnlock, Conclude, BlameFor
<1>12. ASSUME NEW p \in live, ReadError(p) PROVE PressureInv'
  BY <1>12 DEF PressureInv, PressureBlameIsFresh, ReadError, ResetProcessAndUnlock,
     Conclude, BlameFor
<1>13. CASE PressureRaised \/ PressureDelivered \/ ForeignLock
  BY <1>13 DEF PressureInv, PressureBlameIsFresh, PressureRaised, PressureDelivered,
     ForeignLock
<1>14. CASE Quit
  BY <1>14 DEF PressureInv, PressureBlameIsFresh, Quit, TerminateDebugger
<1>15. CASE UNCHANGED vars
  BY <1>15 DEF PressureInv, PressureBlameIsFresh, vars
<1> QED
  BY <1>1, <1>2, <1>3, <1>4, <1>5, <1>6, <1>7, <1>8, <1>9, <1>10, <1>11, <1>12,
     <1>13, <1>14, <1>15 DEF Next, DebuggerEnds

\* starting() empties the parser before each debugger, and m_output has nothing
\* for the next one when every output of gdb ends with its line.
LEMMA OutputInvStep ==
  TypeOK /\ Roomy /\ StageInv /\ OutputInv /\ [Next]_vars => OutputInv'
<1> SUFFICES ASSUME TypeOK, Roomy, StageInv, OutputInv, [Next]_vars PROVE OutputInv'
  OBVIOUS
<1> USE DEF prepVars, lockVars, procVars, outputVars, pressureVars
<1>1. CASE Start
  BY <1>1 DEF OutputInv, TraceFromOneRun, None, Start, StartWithoutDebugger,
     StartPrepared, StartUnprepared, StartPreparing, LockAndStart, StartProcess,
     StageInv, InPreparation, InLockWait, InFence, InDebugger, AtRest, TypeOK,
     CountsOK, ProcsOK, MayStart, Roomy
<1>2. CASE SetBackendPrepared
  BY <1>2 DEF OutputInv, TraceFromOneRun, None, SetBackendPrepared, LockAndStart,
     StartProcess, StageInv, InPreparation, InLockWait, InFence, InDebugger, AtRest,
     TypeOK, CountsOK, ProcsOK
<1>3. CASE SetBackendFailedToPrepare
  BY <1>3 DEF OutputInv, TraceFromOneRun, None, SetBackendFailedToPrepare
<1>4. CASE LockThreadReturns
  BY <1>4 DEF OutputInv, TraceFromOneRun, None, LockThreadReturns, TryLock
<1>5. CASE LockWatcherFinished
  BY <1>5 DEF OutputInv, TraceFromOneRun, None, LockWatcherFinished, StartProcess,
     StageInv, InPreparation, InLockWait, InFence, InDebugger, AtRest, TypeOK,
     CountsOK, ProcsOK
<1>6. CASE FenceLoaded
  BY <1>6 DEF OutputInv, TraceFromOneRun, None, FenceLoaded, MemoryConstrainProc,
     StageInv, InPreparation, InLockWait, InFence, InDebugger, AtRest, TypeOK,
     CountsOK, ProcsOK
<1>7. ASSUME NEW p \in live, Started(p) PROVE OutputInv'
  BY <1>7 DEF OutputInv, TraceFromOneRun, None, Started
<1>8. ASSUME NEW whole \in BOOLEAN, NEW tail \in BOOLEAN, SlotReadInput(whole, tail)
      PROVE  OutputInv'
  BY <1>8 DEF OutputInv, TraceFromOneRun, None, SlotReadInput, StageInv,
     InPreparation, InLockWait, InFence, InDebugger, AtRest, TypeOK, CountsOK,
     ProcsOK
<1>9. CASE LldbDetached
  BY <1>9, Detached DEF OutputInv
<1>10. ASSUME NEW p \in live, NEW cleanly \in BOOLEAN, SlotProcessExited(p, cleanly)
      PROVE  OutputInv'
  BY <1>10 DEF OutputInv, TraceFromOneRun, None, SlotProcessExited,
     ResetProcessAndUnlock, Conclude, BlameFor, StageInv, InPreparation, InLockWait,
     InFence, InDebugger, AtRest, TypeOK, CountsOK, ProcsOK
<1>11. ASSUME NEW p \in live, FailedToStart(p) PROVE OutputInv'
  BY <1>11 DEF OutputInv, TraceFromOneRun, None, FailedToStart,
     ResetProcessAndUnlock, Conclude, BlameFor, StageInv, InPreparation, InLockWait,
     InFence, InDebugger, AtRest, TypeOK, CountsOK, ProcsOK
<1>12. ASSUME NEW p \in live, ReadError(p) PROVE OutputInv'
  BY <1>12 DEF OutputInv, TraceFromOneRun, None, ReadError, ResetProcessAndUnlock,
     Conclude, BlameFor, StageInv, InPreparation, InLockWait, InFence, InDebugger,
     AtRest, TypeOK, CountsOK, ProcsOK
<1>13. CASE PressureRaised \/ PressureDelivered \/ ForeignLock
  BY <1>13 DEF OutputInv, TraceFromOneRun, None, PressureRaised, PressureDelivered,
     ForeignLock
<1>14. CASE Quit
  BY <1>14 DEF OutputInv, TraceFromOneRun, None, Quit, TerminateDebugger
<1>15. CASE UNCHANGED vars
  BY <1>15 DEF OutputInv, TraceFromOneRun, None, vars
<1> QED
  BY <1>1, <1>2, <1>3, <1>4, <1>5, <1>6, <1>7, <1>8, <1>9, <1>10, <1>11, <1>12,
     <1>13, <1>14, <1>15 DEF Next, DebuggerEnds

\* Every step keeps the inductive invariant.
LEMMA IInvStep ==
  ASSUME NotCramped
  PROVE  IInv /\ [Next]_vars => IInv'
  BY TypeStep, RoomyStep, StageStep, DownStep, ManagerStep, PressureStep,
     OutputInvStep
     DEF IInv

LEMMA Invariance ==
  ASSUME NotCramped
  PROVE  Spec => []IInv
<1>1. Init => IInv
  BY IInvInit
<1>2. IInv /\ [Next]_vars => IInv'
  BY IInvStep
<1> QED
  BY <1>1, <1>2, PTL DEF Spec

-----------------------------------------------------------------------------
(* What the inductive invariant gives.                                     *)

\* There is never a second debugger, however often the user retries and whatever
\* happens around startProcessInternal() and resetProcessAndUnlock().
THEOREM OneDebugger ==
  ASSUME NotCramped
  PROVE  Spec => []SingleDebugger
<1>1. IInv => SingleDebugger
  BY DEF IInv, StageInv, DownInv, SingleDebugger, InPreparation, InLockWait,
     InFence, InDebugger, AtRest
<1> QED
  BY <1>1, Invariance, PTL

\* startProcessInternal() always finds the generator as start() promised it.
THEOREM FenceIsAwaited ==
  ASSUME NotCramped
  PROVE  Spec => []FenceFindsNoDebugger
<1>1. IInv => FenceFindsNoDebugger
  BY DEF IInv, StageInv, DownInv, FenceFindsNoDebugger, InPreparation, InLockWait,
     InFence, InDebugger, AtRest
<1> QED
  BY <1>1, Invariance, PTL

\* Other drkonqis are kept waiting only by a run that is under way.
THEOREM LockIsGivenBack ==
  ASSUME NotCramped
  PROVE  Spec => []LockOnlyWhileLoading
<1>1. IInv => LockOnlyWhileLoading
  BY DEF IInv, StageInv, DownInv, LockOnlyWhileLoading, TypeOK, NamesOK,
     InPreparation, InLockWait, InFence, InDebugger, AtRest
<1> QED
  BY <1>1, Invariance, PTL

\* The reports, the status notifier and KCrashBackend can rely on what
\* DebuggerManager says of the debugger.
THEOREM ManagerIsRight ==
  ASSUME NotCramped
  PROVE  Spec => []ManagerKnows
<1>1. IInv => ManagerKnows
  BY DEF IInv
<1> QED
  BY <1>1, Invariance, PTL

\* The handler of QProcess::started may follow m_proc.
THEOREM ProcessIsThere ==
  ASSUME NotCramped
  PROVE  Spec => []NoNullProcess
<1>1. IInv => NoNullProcess
  BY DEF IInv, DownInv, NoNullProcess
<1> QED
  BY <1>1, Invariance, PTL

\* The destructors clean up after every run, whatever stage it is in.
THEOREM QuitIsClean ==
  ASSUME NotCramped
  PROVE  Spec => []QuitLeavesNothing
<1>1. IInv => QuitLeavesNothing
  BY DEF IInv, DownInv, QuitLeavesNothing
<1> QED
  BY <1>1, Invariance, PTL

\* The user is told of memory pressure only when there was some.
THEOREM BlameIsFresh ==
  ASSUME NotCramped
  PROVE  Spec => []PressureBlameIsFresh
<1>1. IInv => PressureBlameIsFresh
  BY DEF IInv, PressureInv
<1> QED
  BY <1>1, Invariance, PTL

\* A page that says "loading" has somebody who is still to call back.
THEOREM LoadingIsDriven ==
  ASSUME NotCramped
  PROVE  Spec => []LoadingIsUnderWay
<1>1. IInv => LoadingIsUnderWay
  BY DEF IInv, StageInv, InPreparation, InLockWait, InFence, InDebugger,
     LoadingIsUnderWay
<1> QED
  BY <1>1, Invariance, PTL

\* With a gdb that ends what it writes with a newline, the parsed trace is the trace
\* of the run the user sees, not a mixture with an earlier one, however often start()
\* is called.  Of lldb that does not hold: see LldbDetached.
THEOREM TraceIsOfOneRun ==
  ASSUME NotCramped, WholeLines, Debugger = "gdb"
  PROVE  Spec => []TraceFromOneRun
<1>1. IInv => TraceFromOneRun
  BY DEF IInv, OutputInv
<1> QED
  BY <1>1, Invariance, PTL

-----------------------------------------------------------------------------
(* The verdict is final, and the generator implements TraceRequest.        *)

\* Before the first start there is no process, and with gdb, a run that is loaded
\* has seen the end of its only one.
LoadedInv ==
  app = "up" => /\ state = "NotLoaded" => live = {}
                /\ Debugger = "gdb" /\ state = "Loaded" => live = {}

\* A doomed process cannot exit cleanly, so the process that loads a trace is
\* the last one.
LEMMA LoadedStep ==
  Roomy /\ StageInv /\ LoadedInv /\ [Next]_vars => LoadedInv'
<1> SUFFICES ASSUME Roomy, StageInv, LoadedInv, [Next]_vars PROVE LoadedInv'
  OBVIOUS
<1> USE DEF prepVars, lockVars, procVars, outputVars, pressureVars
<1>1. CASE Start
  BY <1>1 DEF LoadedInv, Start, StartWithoutDebugger, StartPrepared,
     StartUnprepared, StartPreparing, LockAndStart, StartProcess, StageInv, None,
     InPreparation, InLockWait, InFence, InDebugger, AtRest, MayStart, Roomy
<1>2. CASE SetBackendPrepared
  BY <1>2 DEF LoadedInv, SetBackendPrepared, LockAndStart, StartProcess
<1>3. CASE SetBackendFailedToPrepare
  BY <1>3 DEF LoadedInv, SetBackendFailedToPrepare
<1>4. CASE LockThreadReturns
  BY <1>4 DEF LoadedInv, LockThreadReturns, TryLock
<1>5. CASE LockWatcherFinished
  BY <1>5 DEF LoadedInv, LockWatcherFinished, StartProcess
<1>6. CASE FenceLoaded
  BY <1>6 DEF LoadedInv, FenceLoaded, MemoryConstrainProc, StageInv, None,
     InPreparation, InLockWait, InFence, InDebugger, AtRest
<1>7. ASSUME NEW p \in live, Started(p) PROVE LoadedInv'
  BY <1>7 DEF LoadedInv, Started
<1>8. ASSUME NEW whole \in BOOLEAN, NEW tail \in BOOLEAN, SlotReadInput(whole, tail)
      PROVE  LoadedInv'
  BY <1>8 DEF LoadedInv, SlotReadInput
<1>9. CASE LldbDetached
  BY <1>9, Detached DEF LoadedInv
<1>10. ASSUME NEW p \in live, NEW cleanly \in BOOLEAN, SlotProcessExited(p, cleanly)
      PROVE  LoadedInv'
  BY <1>10 DEF LoadedInv, SlotProcessExited, ResetProcessAndUnlock, Conclude,
     BlameFor, StageInv, None, InPreparation, InLockWait, InFence, InDebugger,
     AtRest
<1>11. ASSUME NEW p \in live, FailedToStart(p) PROVE LoadedInv'
  BY <1>11 DEF LoadedInv, FailedToStart, ResetProcessAndUnlock, Conclude, BlameFor,
     StageInv, None, InPreparation, InLockWait, InFence, InDebugger, AtRest
<1>12. ASSUME NEW p \in live, ReadError(p) PROVE LoadedInv'
  BY <1>12 DEF LoadedInv, ReadError, ResetProcessAndUnlock, Conclude, BlameFor,
     StageInv, None, InPreparation, InLockWait, InFence, InDebugger, AtRest
<1>13. CASE PressureRaised \/ PressureDelivered \/ ForeignLock
  BY <1>13 DEF LoadedInv, PressureRaised, PressureDelivered, ForeignLock
<1>14. CASE Quit
  BY <1>14 DEF LoadedInv, Quit, TerminateDebugger
<1>15. CASE UNCHANGED vars
  BY <1>15 DEF LoadedInv, vars
<1> QED
  BY <1>1, <1>2, <1>3, <1>4, <1>5, <1>6, <1>7, <1>8, <1>9, <1>10, <1>11, <1>12,
     <1>13, <1>14, <1>15 DEF Next, DebuggerEnds

\* Once gdb's trace is loaded, nothing but the user's next start changes the
\* verdict; for lldb the run detach shows the contrary.
THEOREM GdbVerdictIsFinal ==
  ASSUME NotCramped, Debugger = "gdb"
  PROVE  Spec => LoadedIsFinal
<1>1. Init => LoadedInv
  BY DEF Init, LoadedInv
<1>2. IInv /\ LoadedInv /\ [Next]_vars => LoadedInv'
  BY LoadedStep DEF IInv
<1>3. IInv /\ LoadedInv /\ [Next]_vars
        => [state = "Loaded" /\ state' # "Loaded" => starts' # starts]_vars
  <2> SUFFICES ASSUME TypeOK, StageInv, LoadedInv, [Next]_vars, state = "Loaded",
                      state' # "Loaded"
               PROVE  starts' # starts
    BY DEF IInv
  <2>1. CASE Start
    BY <2>1 DEF Start, TypeOK, CountsOK
  <2>2. CASE app = "up" /\ ~Start
    <3>1. live = {} /\ fence = 0 /\ ~preparing /\ watcher = "none" /\ proc = None
      BY <2>2 DEF StageInv, AtRest, LoadedInv
    <3>2. state' = state
      BY <2>2, <3>1 DEF Next, SetBackendPrepared, SetBackendFailedToPrepare,
         LockThreadReturns, LockWatcherFinished, FenceLoaded, Started,
         SlotReadInput, LldbDetached, DebuggerEnds, ReadError, PressureRaised,
         PressureDelivered, ForeignLock, Quit, vars
    <3> QED
      BY <3>2
  <2>3. CASE app # "up"
    BY <2>3 DEF Next, Start, SetBackendPrepared, SetBackendFailedToPrepare,
       LockThreadReturns, LockWatcherFinished, FenceLoaded, Started, SlotReadInput,
       LldbDetached, DebuggerEnds, SlotProcessExited, FailedToStart, ReadError,
       PressureRaised, PressureDelivered, ForeignLock, Quit, vars
  <2> QED
    BY <2>1, <2>2, <2>3
<1> QED
  BY <1>1, <1>2, <1>3, Invariance, PTL DEF Spec, LoadedIsFinal

-----------------------------------------------------------------------------
(* The generator implements TraceRequest.                                  *)

\* How many debuggers are at work, where every live one is doomed and where
\* there is just one.
LEMMA Workers ==
  ASSUME NEW p, NEW L, NEW D
  PROVE  /\ L = D => Cardinality(L \ D) = 0
         /\ L = {p} /\ D = {} => Cardinality(L \ D) = 1
<1>1. ASSUME L = D PROVE Cardinality(L \ D) = 0
  <2>1. L \ D = {}
    BY <1>1
  <2> QED
    BY <2>1, FS_EmptySet
<1>2. ASSUME L = {p}, D = {} PROVE Cardinality(L \ D) = 1
  <2>1. L \ D = {p}
    BY <1>2
  <2> QED
    BY <2>1, FS_Singleton
<1> QED
  BY <1>1, <1>2

\* The count follows from the stage.
LEMMA WorkersOfStage ==
  ASSUME TypeOK, StageInv, app = "up"
  PROVE  /\ AtWork = IF proc = None THEN 0 ELSE 1
         /\ proc # None => state = "Loading"
<1>1. CASE proc = None
  <2>1. live = doomed
    BY <1>1 DEF StageInv, AtRest, InPreparation, InLockWait, InFence, InDebugger
  <2> QED
    BY <1>1, <2>1, Workers DEF AtWork
<1>2. CASE proc # None
  <2>1. live = {proc} /\ doomed = {} /\ state = "Loading"
    BY <1>2 DEF StageInv, AtRest, InPreparation, InLockWait, InFence, InDebugger
  <2> QED
    BY <1>2, <2>1, Workers DEF AtWork
<1> QED
  BY <1>1, <1>2

\* The same in the next state.
LEMMA WorkersNext ==
  TypeOK' /\ StageInv' /\ app' = "up"
    => AtWork' = IF proc' = None THEN 0 ELSE 1
<1> SUFFICES ASSUME TypeOK', StageInv', app' = "up"
             PROVE  AtWork' = IF proc' = None THEN 0 ELSE 1
  OBVIOUS
<1>1. CASE proc' = None
  <2>1. live' = doomed'
    BY <1>1 DEF StageInv, AtRest, InPreparation, InLockWait, InFence, InDebugger
  <2> QED
    BY <1>1, <2>1, Workers DEF AtWork
<1>2. CASE proc' # None
  <2>1. live' = {proc'} /\ doomed' = {}
    BY <1>2 DEF StageInv, AtRest, InPreparation, InLockWait, InFence, InDebugger
  <2> QED
    BY <1>2, <2>1, Workers DEF AtWork
<1> QED
  BY <1>1, <1>2

\* A step of the generator is a step of the request or none.
LEMMA RequestStep ==
  ASSUME TypeOK, Roomy, StageInv, LoadedInv, DownInv, TypeOK', StageInv',
         Debugger = "gdb", [Next]_vars
  PROVE  [Request!Next]_(Request!vars)
<1> USE DEF prepVars, lockVars, procVars, outputVars, pressureVars,
            Request!Next, Request!vars, Phase
<1>0. app = "up" => /\ AtWork = IF proc = None THEN 0 ELSE 1
                    /\ proc # None => state = "Loading"
  BY WorkersOfStage
<1>1. CASE Start
  <2>1. AtWork = 0 /\ AtWork' = 0 /\ app' = "up"
    BY <1>0, <1>1, WorkersNext DEF Start, MayStart, Roomy
  <2>2. state # "Loading" /\ state' \in {"Loading", "FailedToStart", "FailedToPrepare"}
    BY <1>1 DEF Start, MayStart, Roomy, StartWithoutDebugger, StartPrepared,
       StartUnprepared, StartPreparing
  <2> QED
    BY <1>1, <2>1, <2>2 DEF Start, Request!Request
<1>2. CASE SetBackendPrepared
  <2>1. proc' = proc /\ state' = state /\ app' = app /\ app = "up"
    BY <1>2 DEF SetBackendPrepared
  <2> QED
    BY <1>0, <2>1, WorkersNext
<1>3. CASE SetBackendFailedToPrepare
  <2>1. state = "Loading" /\ state' = "FailedToPrepare" /\ AtWork' = 0
        /\ app = "up" /\ app' = app
    BY <1>3, WorkersNext DEF SetBackendFailedToPrepare, StageInv, AtRest
  <2> QED
    BY <2>1 DEF Request!Conclude
<1>4. CASE LockThreadReturns \/ LockWatcherFinished \/ PressureRaised
           \/ PressureDelivered \/ ForeignLock
  BY <1>4 DEF LockThreadReturns, LockWatcherFinished, PressureRaised,
     PressureDelivered, ForeignLock, AtWork
<1>5. CASE FenceLoaded
  <2>1. state = "Loading" /\ proc = None /\ spawned \in Nat
    BY <1>5 DEF FenceLoaded, TypeOK, CountsOK, StageInv, AtRest, InPreparation,
       InLockWait, InFence, InDebugger
  <2>2. state' = state /\ proc' # None /\ app = "up" /\ app' = app
    BY <1>5, <2>1 DEF FenceLoaded, None
  <2> QED
    BY <1>0, <2>1, <2>2, WorkersNext DEF Request!Launch
<1>6. ASSUME NEW p \in live, Started(p) PROVE UNCHANGED Request!vars
  <2>1. app' = app
    BY <1>6 DEF Started, StageInv, AtRest, InPreparation, InLockWait, InFence,
       InDebugger, None
  <2> QED
    BY <1>6, <2>1 DEF Started, AtWork
<1>7. ASSUME NEW whole \in BOOLEAN, NEW tail \in BOOLEAN, SlotReadInput(whole, tail)
      PROVE  UNCHANGED Request!vars
  BY <1>7 DEF SlotReadInput, AtWork
<1>8. CASE LldbDetached
  BY <1>8 DEF LldbDetached
<1>9. ASSUME NEW p \in live, NEW cleanly \in BOOLEAN, SlotProcessExited(p, cleanly)
      PROVE  [Request!Next]_(Request!vars)
  <2>1. app = "up" /\ app' = app /\ AtWork' = 0
    BY <1>9, WorkersNext DEF SlotProcessExited, ResetProcessAndUnlock
  <2>2. CASE proc = None
    <3>1. state \notin {"NotLoaded", "Loading", "Loaded"} /\ p \in doomed
      BY <1>9, <2>1, <2>2 DEF StageInv, AtRest, InPreparation, InLockWait, InFence,
         InDebugger, LoadedInv
    <3>2. state \in Failures /\ state' \in Failures
      BY <1>9, <3>1 DEF SlotProcessExited, TypeOK, NamesOK, States, Failures,
         Conclude, BlameFor
    <3> QED
      BY <1>0, <2>1, <2>2, <3>2 DEF Failures
  <2>3. CASE proc # None
    <3>1. /\ state = "Loading" /\ AtWork = 1
          /\ state' \in {"Loaded", "Failed", "MemoryPressure"}
      BY <1>0, <1>9, <2>1, <2>3 DEF SlotProcessExited, Conclude, BlameFor
    <3> QED
      BY <2>1, <3>1 DEF Request!Conclude
  <2> QED
    BY <2>2, <2>3
<1>10. ASSUME NEW p \in live, FailedToStart(p) \/ ReadError(p)
       PROVE  [Request!Next]_(Request!vars)
  <2>1. app = "up" /\ app' = app /\ proc # None
    BY <1>10 DEF FailedToStart, ReadError, StageInv, AtRest, InPreparation,
       InLockWait, InFence, InDebugger
  <2>2. /\ state = "Loading" /\ AtWork' = 0
        /\ state' \in {"Failed", "FailedToStart", "MemoryPressure"}
    BY <1>0, <1>10, <2>1, WorkersNext DEF FailedToStart, ReadError,
       ResetProcessAndUnlock, Conclude, BlameFor
  <2> QED
    BY <2>1, <2>2 DEF Request!Conclude
<1>11. CASE Quit
  <2>1. app = "up" /\ app' = "quit" /\ state' = state /\ doomed' = {} /\ doomed = {}
    BY <1>11 DEF Quit
  <2>2. live' = live \/ live' = {}
    BY <1>11, <2>1 DEF Quit, TerminateDebugger, StageInv, AtRest, InPreparation,
       InLockWait, InFence, InDebugger
  <2>3. AtWork' \in {0, AtWork}
    BY <2>1, <2>2, FS_EmptySet DEF AtWork
  <2> QED
    BY <2>1, <2>3 DEF Request!Close
<1>12. CASE UNCHANGED vars
  BY <1>12 DEF vars, AtWork
<1> QED
  BY <1>1, <1>2, <1>3, <1>4, <1>5, <1>6, <1>7, <1>8, <1>9, <1>10, <1>11, <1>12
     DEF Next, DebuggerEnds

\* The generator does nothing its users were not promised: a verdict needs a request,
\* a second debugger never appears, and a good verdict needs a debugger.
THEOREM KeepsSafePromise ==
  ASSUME NotCramped, Debugger = "gdb"
  PROVE  Spec => Request!Spec
<1>1. Init => Request!Init
  <2> SUFFICES ASSUME Init PROVE Request!Init
    OBVIOUS
  <2>1. live \ doomed = {}
    BY DEF Init
  <2> QED
    BY <2>1, FS_EmptySet DEF Init, Request!Init, Phase, AtWork
<1>2. Init => LoadedInv
  BY DEF Init, LoadedInv
<1>3. IInv /\ LoadedInv /\ [Next]_vars => LoadedInv'
  BY LoadedStep DEF IInv
<1>4. IInv /\ IInv' /\ LoadedInv /\ [Next]_vars => [Request!Next]_(Request!vars)
  BY RequestStep DEF IInv
<1> QED
  BY <1>1, <1>2, <1>3, <1>4, Invariance, PTL DEF Spec, Request!Spec

=============================================================================
