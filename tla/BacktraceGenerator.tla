------------------------- MODULE BacktraceGenerator -------------------------
(***************************************************************************)
(* The life of one backtrace inside one drkonqi process: the generator     *)
(* (backtracegenerator.cpp), the manager that forwards its signals         *)
(* (debuggermanager.cpp), the lock that keeps several drkonqis from        *)
(* debugging at once, the memory fence and the memory pressure level.      *)
(*                                                                         *)
(* Every handler runs to its end on the main thread, so a handler is one   *)
(* action; what is concurrent is outside of it: the user, the debugger     *)
(* processes, the thread waiting for the lock file, systemd's D-Bus        *)
(* replies and the pressure thread's queued signals.  m_proc and m_temp    *)
(* are always set and reset together and are one variable, proc.           *)
(* Assertions are not executed: this is the release build.                 *)
(*                                                                         *)
(* A definition named X_Fault... is X with a seeded fault: Spec does not    *)
(* use it, it is there to see that a property notices the fault.           *)
(***************************************************************************)
EXTENDS Naturals, FiniteSets

CONSTANTS
  Debugger,      \* code name of the preferred debugger: "gdb" or "lldb"
  Sizes,         \* fence sizes that the memory of this machine can lead to
  UsesLockFile,  \* FALSE when the lock directory could not be made
  WholeLines,    \* TRUE if a debugger's output never ends inside a line
  MaxStarts,     \* bound: calls of start()
  MaxPressure    \* bound: pressure signals queued to the main thread

FenceSizes == {"Cramped", "Little", "Some", "Spacious"}

ASSUME ConstantsAssumption ==
  /\ Debugger \in {"gdb", "lldb"}
  /\ Sizes \subseteq FenceSizes
  /\ Sizes # {}
  /\ UsesLockFile \in BOOLEAN
  /\ WholeLines \in BOOLEAN
  /\ MaxStarts \in Nat
  /\ MaxPressure \in Nat

VARIABLES
  state,            \* m_state
  starts,           \* calls of start() so far
  preparing,        \* the backend is extracting the core, its answer is due
  prepared,         \* a core has been extracted before: the next answer is immediate
  locked,           \* m_lockFile is locked by this drkonqi
  foreign,          \* another drkonqi holds the lock file
  watcher,          \* m_lockWatcher: none, its thread waits, its finished() is queued
  fence,            \* surroundMe() calls whose loaded() has not come yet
  proc,             \* m_proc (and m_temp): None or the debugger it points to
  spawned,          \* debuggers created so far, numbered from 1
  live,             \* debuggers not yet known to have ended
  started,          \* debuggers whose started() has been handled
  doomed,           \* live debuggers whose QProcess is to be deleted
  lines,            \* debuggers whose output is in the parser's lines
  residue,          \* debuggers whose output is in m_output
  trace,            \* debuggers whose output is in m_parsedBacktrace
  level,            \* MemoryPressure::level
  queuedPressure,   \* underPressure signals not delivered yet
  pressureAt,       \* value of spawned when level was last raised
  cramped,          \* m_crampedMemory
  debuggerRunning,  \* DebuggerManager::Private::debuggerRunning
  app               \* drkonqi itself: up, quit, or crashed on a null pointer

lockVars     == <<locked, foreign, watcher>>
procVars     == <<proc, spawned, live, started, doomed>>
outputVars   == <<lines, residue, trace>>
pressureVars == <<level, queuedPressure, pressureAt>>
prepVars     == <<preparing, prepared>>

vars == <<state, starts, prepVars, lockVars, fence, procVars, outputVars,
          pressureVars, cramped, debuggerRunning, app>>

None     == 0
Failures == {"Failed", "FailedToPrepare", "FailedToStart", "MemoryPressure"}
States   == {"NotLoaded", "Loading", "Loaded"} \cup Failures

Init ==
  /\ state = "NotLoaded" /\ starts = 0
  /\ preparing = FALSE /\ prepared = FALSE
  /\ locked = FALSE /\ foreign \in BOOLEAN /\ (foreign => UsesLockFile)
  /\ watcher = "none"
  /\ fence = 0
  /\ proc = None /\ spawned = 0 /\ live = {} /\ started = {} /\ doomed = {}
  /\ lines = {} /\ residue = {} /\ trace = {}
  /\ level = "Low" /\ queuedPressure = 0 /\ pressureAt = 0
  /\ cramped = FALSE
  /\ debuggerRunning = FALSE
  /\ app = "up"

-----------------------------------------------------------------------------
(* Starting: start(), the backend's answer, the lock, the fence.           *)

StartProcess_FaultNoReset ==
  /\ debuggerRunning' = TRUE
  /\ fence' = fence + 1
  /\ UNCHANGED lines

\* startProcess(): starting() resets the parser and sets the manager's flag,
\* then the fence is asked to size up the memory.
StartProcess ==
  /\ debuggerRunning' = TRUE
  /\ lines' = {}
  /\ fence' = fence + 1

\* setBackendPrepared(): one of four ways to get on with or without the lock.
LockAndStart ==
  \/ /\ ~UsesLockFile \/ locked
     /\ StartProcess
     /\ UNCHANGED <<locked, watcher>>
  \/ /\ UsesLockFile /\ ~locked /\ watcher # "none"
     /\ UNCHANGED <<locked, watcher, debuggerRunning, lines, fence>>
  \/ /\ UsesLockFile /\ ~locked /\ watcher = "none" /\ ~foreign
     /\ locked' = TRUE
     /\ StartProcess
     /\ UNCHANGED watcher
  \/ /\ UsesLockFile /\ ~locked /\ watcher = "none" /\ foreign
     /\ watcher' = "waiting"
     /\ UNCHANGED <<locked, debuggerRunning, lines, fence>>

MayStart_FaultAnytime == doomed = {}

\* The user interface offers start() when nothing is loading; the developer
\* page's "very limited" message offers it whenever m_crampedMemory is set.
\* Deferred deletions are posted events and go before the user's next click.
MayStart == (state # "Loading" \/ cramped) /\ doomed = {}

\* start() that finds no usable debugger.
StartWithoutDebugger ==
  /\ state' = "FailedToStart"
  /\ debuggerRunning' = FALSE
  /\ UNCHANGED <<prepVars, lockVars, fence, lines>>

\* start() with a backend that answers within prepareForDebugger().
StartPrepared ==
  /\ state' = "Loading"
  /\ prepared' = TRUE
  /\ LockAndStart
  /\ UNCHANGED <<preparing, foreign>>

StartUnprepared_FaultSilent ==
  /\ ~prepared
  /\ state' = "Loading"
  /\ UNCHANGED <<prepVars, lockVars, fence, lines, debuggerRunning>>

\* start() with a backend that fails within prepareForDebugger().
StartUnprepared ==
  /\ ~prepared
  /\ state' = "FailedToPrepare"
  /\ debuggerRunning' = FALSE
  /\ UNCHANGED <<prepVars, lockVars, fence, lines>>

\* start() with a backend that has to extract the core first.
StartPreparing ==
  /\ ~prepared
  /\ state' = "Loading"
  /\ preparing' = TRUE
  /\ UNCHANGED <<prepared, lockVars, fence, lines, debuggerRunning>>

Start ==
  /\ app = "up" /\ MayStart /\ starts < MaxStarts
  /\ starts' = starts + 1
  /\ trace' = {}
  /\ \/ StartWithoutDebugger
     \/ StartPrepared
     \/ StartUnprepared
     \/ StartPreparing
  /\ UNCHANGED <<procVars, residue, pressureVars, cramped, app>>

\* The backend announces the core: preparedForDebugger -> setBackendPrepared().
SetBackendPrepared ==
  /\ app = "up" /\ preparing
  /\ preparing' = FALSE /\ prepared' = TRUE
  /\ LockAndStart
  /\ UNCHANGED <<state, starts, foreign, procVars, residue, trace, pressureVars,
                 cramped, app>>

\* The backend gives up: failedToPrepare -> setBackendFailedToPrepare().
SetBackendFailedToPrepare ==
  /\ app = "up" /\ preparing
  /\ preparing' = FALSE
  /\ proc' = None
  /\ state' = "FailedToPrepare"
  /\ debuggerRunning' = FALSE
  /\ UNCHANGED <<starts, prepared, lockVars, fence, spawned, live, started, doomed,
                 outputVars, pressureVars, cramped, app>>

TryLock_FaultNoTimeout == ~foreign /\ locked' = TRUE

\* The thread's tryLock(5 to 15 min) gets the lock file, or runs out of time.
TryLock == \/ ~foreign /\ locked' = TRUE
           \/ foreign  /\ UNCHANGED locked

LockThreadReturns ==
  /\ app = "up" /\ watcher = "waiting"
  /\ watcher' = "returned"
  /\ TryLock
  /\ UNCHANGED <<state, starts, prepVars, foreign, fence, procVars, outputVars,
                 pressureVars, cramped, debuggerRunning, app>>

LockWatcherFinished_FaultKept ==
  /\ app = "up" /\ watcher = "returned"
  /\ StartProcess
  /\ UNCHANGED <<state, starts, prepVars, lockVars, procVars, residue, trace,
                 pressureVars, cramped, app>>

\* The watcher's finished(): the debugger starts, lock or no lock.
LockWatcherFinished ==
  /\ app = "up" /\ watcher = "returned"
  /\ watcher' = "none"
  /\ StartProcess
  /\ UNCHANGED <<state, starts, prepVars, locked, foreign, procVars, residue, trace,
                 pressureVars, cramped, app>>

MemoryConstrainProc_FaultStale ==
  /\ \E size \in Sizes : cramped' = (size = "Cramped")
  /\ UNCHANGED level

\* memoryConstrainProc(): the level starts over, the fence picks the profile.
MemoryConstrainProc ==
  /\ level' = "Low"
  /\ \E size \in Sizes : cramped' = (size = "Cramped")

\* MemoryFence::loaded -> startProcessInternal().
FenceLoaded ==
  /\ app = "up" /\ fence > 0
  /\ fence' = fence - 1
  /\ spawned' = spawned + 1
  /\ proc' = spawned + 1
  /\ live' = live \cup {spawned + 1}
  /\ MemoryConstrainProc
  /\ UNCHANGED <<state, starts, prepVars, lockVars, started, doomed, outputVars,
                 queuedPressure, pressureAt, debuggerRunning, app>>

-----------------------------------------------------------------------------
(* The debugger: its QProcess signals and the deletion of its QProcess.    *)

ResetProcess_FaultKeepsLock(stillLive) ==
  /\ proc' = None
  /\ live' = stillLive
  /\ doomed' = (doomed \cup {proc}) \cap stillLive
  /\ UNCHANGED locked

\* resetProcessAndUnlock(), with stillLive the debuggers alive after the event.
ResetProcessAndUnlock(stillLive) ==
  /\ proc' = None
  /\ live' = stillLive
  /\ doomed' = (doomed \cup {proc}) \cap stillLive
  /\ locked' = FALSE

\* What a run that ended badly is called.
BlameFor(failure) == IF level = "High" THEN "MemoryPressure" ELSE failure

Conclude_FaultQuiet(verdict) ==
  /\ state' = verdict
  /\ UNCHANGED debuggerRunning

\* Verdict: stateChanged, then done, someError or failedToStart to the manager.
Conclude(verdict) ==
  /\ state' = verdict
  /\ debuggerRunning' = FALSE

\* QProcess::started: the handler looks at m_proc, whoever sent the signal.
Started(p) ==
  /\ app = "up" /\ p \in live \ started
  /\ started' = started \cup {p}
  /\ app' = IF proc = None THEN "crashed" ELSE app
  /\ UNCHANGED <<state, starts, prepVars, lockVars, fence, proc, spawned, live, doomed,
                 outputVars, pressureVars, cramped, debuggerRunning>>

\* readyReadStandardOutput -> slotReadInput(): reads from m_proc.  The output
\* may hold the end of a line (whole) and may stop inside of one (tail).
SlotReadInput(whole, tail) ==
  /\ app = "up" /\ proc \in started \cap live
  /\ whole \/ tail
  /\ WholeLines => ~tail
  /\ lines' = IF whole THEN lines \cup residue \cup {proc} ELSE lines
  /\ residue' = CASE whole /\ tail  -> {proc}
                  [] whole /\ ~tail -> {}
                  [] OTHER          -> residue \cup {proc}
  /\ UNCHANGED <<state, starts, prepVars, lockVars, fence, procVars, trace,
                 pressureVars, cramped, debuggerRunning, app>>

\* The line is handed on, and what was read with it and follows stays in m_output.
ReadToDetached ==
  /\ lines' = lines \cup residue \cup {proc}
  /\ residue' \in {{}, {proc}}

\* lldb wrote "Process ... detached".  Either terminate() ends it within 500 ms, and its
\* finished() comes from within; or it is killed, and slotProcessExited(0, NormalExit)
\* is called for it.
LldbDetached ==
  /\ app = "up" /\ Debugger = "lldb" /\ proc \in started \cap live
  /\ ReadToDetached
  /\ \/ /\ ResetProcessAndUnlock(live) \/ ResetProcessAndUnlock(live \ {proc})
        /\ Conclude("Loaded") /\ trace' = lines'
     \/ /\ ResetProcessAndUnlock(live \ {proc})
        /\ Conclude(BlameFor("Failed")) /\ UNCHANGED trace
  /\ UNCHANGED <<starts, prepVars, foreign, watcher, fence, spawned, started,
                 pressureVars, cramped, app>>

\* finished -> slotProcessExited().  After a crash errorOccurred comes first,
\* and slotOnErrorOccurred() does what slotProcessExited() then does again.
\* Deleting a doomed QProcess kills its debugger: a finished() of this kind.
SlotProcessExited(p, cleanly) ==
  /\ app = "up" /\ p \in started \cap live
  /\ cleanly => p \notin doomed
  /\ ResetProcessAndUnlock(live \ {p})
  /\ \/ cleanly  /\ Conclude("Loaded") /\ trace' = lines
     \/ ~cleanly /\ Conclude(BlameFor("Failed")) /\ UNCHANGED trace
  /\ UNCHANGED <<starts, prepVars, foreign, watcher, fence, spawned, started,
                 lines, residue, pressureVars, cramped, app>>

\* errorOccurred(FailedToStart) -> slotOnErrorOccurred().
FailedToStart(p) ==
  /\ app = "up" /\ p \in live \ started
  /\ \/ /\ proc = None
        /\ live' = live \ {p} /\ doomed' = doomed \ {p}
        /\ UNCHANGED <<state, debuggerRunning, proc, locked>>
     \/ /\ proc # None
        /\ ResetProcessAndUnlock(live \ {p})
        /\ Conclude(BlameFor("FailedToStart"))
  /\ UNCHANGED <<starts, prepVars, foreign, watcher, fence, spawned, started,
                 outputVars, pressureVars, cramped, app>>

\* errorOccurred(ReadError) -> slotOnErrorOccurred(): the debugger still runs.
ReadError(p) ==
  /\ app = "up" /\ p \in started \cap live /\ proc # None
  /\ ResetProcessAndUnlock(live)
  /\ Conclude(BlameFor("Failed"))
  /\ UNCHANGED <<starts, prepVars, foreign, watcher, fence, spawned, started,
                 outputVars, pressureVars, cramped, app>>

-----------------------------------------------------------------------------
(* Surroundings.                                                           *)

\* The pressure thread emits underPressure.
PressureRaised ==
  /\ app = "up" /\ queuedPressure < MaxPressure
  /\ queuedPressure' = queuedPressure + 1
  /\ UNCHANGED <<state, starts, prepVars, lockVars, fence, procVars, outputVars,
                 level, pressureAt, cramped, debuggerRunning, app>>

\* The main thread handles it.
PressureDelivered ==
  /\ app = "up" /\ queuedPressure > 0
  /\ queuedPressure' = queuedPressure - 1
  /\ level' = "High" /\ pressureAt' = spawned
  /\ UNCHANGED <<state, starts, prepVars, lockVars, fence, procVars, outputVars,
                 cramped, debuggerRunning, app>>

\* Another drkonqi takes or leaves the lock file.
ForeignLock ==
  /\ app = "up" /\ UsesLockFile /\ ~locked
  /\ foreign' = ~foreign
  /\ UNCHANGED <<state, starts, prepVars, locked, watcher, fence, procVars, outputVars,
                 pressureVars, cramped, debuggerRunning, app>>

TerminateDebugger_FaultLeft == live' = live

\* A running m_proc is terminated, one that has not reported started() is not.
TerminateDebugger == live' = live \ ({proc} \cap started)

\* ~DebuggerManager and ~BacktraceGenerator: the lock is given back as well.
Quit ==
  /\ app = "up" /\ doomed = {}
  /\ app' = "quit"
  /\ TerminateDebugger
  /\ proc' = None
  /\ locked' = FALSE /\ watcher' = "none" /\ fence' = 0 /\ preparing' = FALSE
  /\ debuggerRunning' = (debuggerRunning /\ state # "Loading")
  /\ UNCHANGED <<state, starts, prepared, foreign, spawned, started, doomed,
                 outputVars, pressureVars, cramped>>

DebuggerEnds ==
  \E p \in live : \/ \E cleanly \in BOOLEAN : SlotProcessExited(p, cleanly)
                  \/ FailedToStart(p)

Next ==
  \/ Start
  \/ SetBackendPrepared \/ SetBackendFailedToPrepare
  \/ LockThreadReturns \/ LockWatcherFinished
  \/ FenceLoaded
  \/ \E p \in live : Started(p)
  \/ \E whole, tail \in BOOLEAN : SlotReadInput(whole, tail)
  \/ LldbDetached
  \/ DebuggerEnds
  \/ \E p \in live : ReadError(p)
  \/ PressureRaised \/ PressureDelivered
  \/ ForeignLock
  \/ Quit

\* The backend answers, tryLock has a timeout, D-Bus calls are answered or
\* time out, an event loop delivers what is queued.  That a debugger ends is
\* assumed of the debugger: the code sets it no time limit.
Fairness ==
  /\ WF_vars(SetBackendPrepared \/ SetBackendFailedToPrepare)
  /\ WF_vars(LockThreadReturns)
  /\ WF_vars(LockWatcherFinished)
  /\ WF_vars(FenceLoaded)
  /\ WF_vars(DebuggerEnds)

Spec     == Init /\ [][Next]_vars
FairSpec == Spec /\ Fairness

-----------------------------------------------------------------------------
(* Invariants.                                                             *)

\* Every variable has its type; debuggers are numbered in the order they were
\* made, and only one that is still alive waits for its QProcess's deletion.
FlagsOK  == /\ preparing \in BOOLEAN /\ prepared \in BOOLEAN
            /\ locked \in BOOLEAN /\ foreign \in BOOLEAN
            /\ cramped \in BOOLEAN /\ debuggerRunning \in BOOLEAN
NamesOK  == /\ state \in States
            /\ watcher \in {"none", "waiting", "returned"}
            /\ level \in {"Low", "High"}
            /\ app \in {"up", "quit", "crashed"}
CountsOK == /\ starts \in Nat /\ fence \in Nat /\ spawned \in Nat
            /\ queuedPressure \in Nat /\ pressureAt \in Nat
ProcsOK  == /\ proc \in 0..spawned
            /\ live \subseteq 1..spawned /\ started \subseteq 1..spawned
            /\ doomed \subseteq live
OutputOK == /\ lines \subseteq 1..spawned /\ residue \subseteq 1..spawned
            /\ trace \subseteq 1..spawned

TypeOK == FlagsOK /\ NamesOK /\ CountsOK /\ ProcsOK /\ OutputOK

\* Retrying, waiting for the lock and waiting for the fence never lead to two
\* debuggers on one crash: debugging memory hungry processes is the reason for
\* the lock in the first place.
SingleDebugger == \A p, q \in live : p = q

\* A loaded() that is still due finds the generator loading, without a debugger
\* and without another start under way, so startProcessInternal() overwrites nothing.
FenceFindsNoDebugger ==
  fence > 0 => /\ fence = 1 /\ proc = None /\ live = {}
               /\ state = "Loading"
               /\ ~preparing /\ watcher = "none"

\* Every verdict gives the lock file back: outside of Loading this drkonqi keeps
\* no other one from debugging.
LockOnlyWhileLoading == locked => state = "Loading" /\ (fence = 1 \/ proc # None
                                                        \/ watcher = "returned")

\* What DebuggerManager tells (debuggerIsRunning) is the truth about the generator:
\* the flag is set from startProcess() to the verdict.
ManagerKnows == app = "up" => (debuggerRunning <=> (fence > 0 \/ proc # None))

\* No started() is handled after its process was discarded, which would follow a
\* null m_proc.
NoNullProcess == app # "crashed"

\* drkonqi that quit leaves neither a debugger that reported its start nor the lock.
QuitLeavesNothing == app = "quit" => live \cap started = {} /\ ~locked

\* Memory pressure is blamed only when it was reported during the failed run, not
\* for a level that an earlier run left behind.
PressureBlameIsFresh == state = "MemoryPressure" => pressureAt = spawned

\* A trace is put together from the output of one debugger, the last one.
TraceFromOneRun == state = "Loaded" => trace \subseteq {spawned}

\* While the page says that the trace is being loaded, somebody is still to call the
\* generator back: the backend that prepares, the watcher of the lock, the fence or the
\* debugger's process.  None of its handlers returns early and leaves it loading alone.
LoadingIsUnderWay ==
  state = "Loading" /\ app = "up" =>
    preparing \/ watcher # "none" \/ fence > 0 \/ proc \in live

\* A loaded trace stays the verdict until the user asks for another one.
LoadedIsFinal ==
  [][state = "Loaded" /\ state' # "Loaded" => starts' # starts]_vars

\* Whatever other drkonqis do with the lock file, a start ends in a verdict.
VerdictReached == (state = "Loading") ~> (state # "Loading" \/ app # "up")

-----------------------------------------------------------------------------
(* The promise.                                                            *)

\* What the user interface makes of m_state.
Phase == CASE state = "NotLoaded" -> "Idle"
           [] state = "Loading"   -> "Working"
           [] state = "Loaded"    -> "Good"
           [] OTHER               -> "Bad"

\* Debuggers that work on the request.
AtWork == Cardinality(live \ doomed)

Request == INSTANCE TraceRequest
           WITH phase <- Phase, debuggers <- AtWork, closed <- app # "up"

\* The generator keeps the promise of TraceRequest, its liveness included.
KeepsPromise == Request!FairSpec
=============================================================================
