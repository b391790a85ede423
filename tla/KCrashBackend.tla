---------------------------- MODULE KCrashBackend ----------------------------
(***************************************************************************)
(* drkonqi started by KCrash in the crashed process itself: the process    *)
(* waits for drkonqi to end.  Meanwhile it is stopped, so that its other   *)
(* threads use no processor time, except while a debugger works on it.     *)
(* The debuggers run inside the memory fence and under the eyes of the     *)
(* pressure monitor, both of module MemoryGuard.  How the generator comes  *)
(* to its verdict is BacktraceGenerator's subject.                         *)
(***************************************************************************)
EXTENDS MemoryGuard, Sequences

VARIABLES
    app,        \* drkonqi: new, up, leaving (after exec()), gone, crashed, killed
    keepRunning,\* --keeprunning
    debugger,   \* what init() takes for it, "null" when it has no data
    process,    \* the crashed process: running, stopped, ended
    m_state,    \* what the backend takes its state to be
    stopDue,    \* the timer that stops it after 2 seconds
    starts,     \* debugger rounds so far
    round,      \* idle, locking, fencing, debugging
    live        \* debuggers that run

choices == <<keepRunning, debugger>>
backendVars == <<app, choices, process, m_state, stopDue>>
roundVars == <<starts, round, live>>
kcrashVars == <<backendVars, roundVars, guardVars>>

(* The debugger.                                                            *)

AvailableInternalDebuggers == <<"gdb", "lldb">>
Installations == SUBSET {"gdb", "lldb"}

\* The one that is asked for, unless another one is installed and it is not.  Of a name
\* that is not on the list, Settings::debugger() says what it likes, there is no data,
\* and to ask such a debugger whether it is installed dereferences a null pointer.
FindDebugger(list, wanted, installed) ==
    LET known == {i \in DOMAIN list : list[i] = wanted}
        good  == {i \in DOMAIN list : list[i] \in installed}
    IN IF known = {} THEN "null"
       ELSE IF wanted \in installed \/ good = {} THEN wanted
       ELSE list[CHOOSE i \in good : \A j \in good : i <= j]

-----------------------------------------------------------------------------
KCrashInit ==
    /\ app = "new" /\ keepRunning \in BOOLEAN
    /\ \E wanted \in {"gdb", "lldb", "other"}, installed \in Installations :
           debugger = FindDebugger(AvailableInternalDebuggers, wanted, installed)
    /\ process \in {"running", "ended"} /\ m_state = "ProcessRunning"
    /\ stopDue = FALSE
    /\ starts = 0 /\ round = "idle" /\ live = {}
    /\ GuardInit

KCrashTypeOK ==
    /\ app \in {"new", "up", "leaving", "gone", "crashed", "killed"} /\ keepRunning \in BOOLEAN
    /\ debugger \in {"gdb", "lldb", "null"}
    /\ process \in {"running", "stopped", "ended"}
    /\ m_state \in {"ProcessRunning", "ProcessStopped", "DebuggerRunning"}
    /\ stopDue \in BOOLEAN
    /\ starts \in 0..MaxRounds /\ round \in {"idle", "locking", "fencing", "debugging"}
    /\ live \subseteq Rounds /\ posted \subseteq Rounds
    /\ call \in [Rounds -> {"none", "GetUnitByPID", "GetAll", "SetProperties", "loaded"}]
    /\ level \in {"Low", "High"} /\ queued \in 0..MaxPressure

-----------------------------------------------------------------------------
(* kill(2) with SIGSTOP and SIGCONT.                                        *)

Signalled(to) == IF process = "ended" THEN process ELSE to

StopAttachedProcess ==
    /\ process' = IF m_state = "ProcessRunning" THEN Signalled("stopped") ELSE process
    /\ m_state' = IF m_state = "ProcessRunning" THEN "ProcessStopped" ELSE m_state

ContinueAttachedProcess ==
    /\ process' = IF m_state = "ProcessStopped" THEN Signalled("running") ELSE process
    /\ m_state' = IF m_state = "ProcessStopped" THEN "ProcessRunning" ELSE m_state

OnDebuggerStarting_FaultForgets == ContinueAttachedProcess

OnDebuggerStarting ==
    /\ process' = IF m_state = "ProcessStopped" THEN Signalled("running") ELSE process
    /\ m_state' = "DebuggerRunning"

\* Whatever the state was, it counts as running and is stopped.
OnDebuggerFinished ==
    /\ process' = Signalled("stopped")
    /\ m_state' = "ProcessStopped"

\* debuggerStarting and debuggerFinished as the backend hears them once init()
\* has connected them.
HearsStarting ==
    IF keepRunning THEN UNCHANGED <<process, m_state>> ELSE OnDebuggerStarting

HearsFinished ==
    IF keepRunning THEN ContinueAttachedProcess ELSE OnDebuggerFinished

-----------------------------------------------------------------------------
(* KCrashBackend::init()                                                    *)

\* BacktraceGenerator::start() asks again whether the debugger is installed.
StartGenerator(installed) == round' = IF debugger \in installed THEN "locking" ELSE "idle"

\* The debugger without data: drkonqi crashes, before it has an emergency save function.
InitCrashes ==
    /\ app = "new" /\ debugger = "null"
    /\ app' = "crashed"
    /\ UNCHANGED <<choices, process, m_state, stopDue, roundVars, guardVars>>

Constructed == app = "new" /\ debugger # "null"

\* The process is gone already or belongs to somebody else: drkonqi ends.
InitFails ==
    /\ Constructed
    /\ app' = "gone"
    /\ UNCHANGED <<choices, process, m_state, stopDue, roundVars, guardVars>>

\* --keeprunning: stop, start the debugger, and only then connect to its end.
\* A debugger that is not installed has failed before anybody listens.
InitKeepRunning ==
    /\ Constructed /\ keepRunning /\ process # "ended" /\ MaxRounds > 0
    /\ StopAttachedProcess
    /\ \E installed \in Installations : StartGenerator(installed)
    /\ starts' = IF round' = "idle" THEN starts ELSE starts + 1
    /\ app' = "up"
    /\ UNCHANGED <<choices, stopDue, live, guardVars>>

InitStopLater ==
    /\ Constructed /\ ~keepRunning /\ process # "ended"
    /\ stopDue' = TRUE /\ app' = "up"
    /\ UNCHANGED <<choices, process, m_state, roundVars, guardVars>>

StopTimer ==
    /\ app = "up" /\ stopDue
    /\ stopDue' = FALSE
    /\ StopAttachedProcess
    /\ UNCHANGED <<app, choices, roundVars, guardVars>>

-----------------------------------------------------------------------------
(* A round with the debugger.                                               *)

\* BacktraceGenerator::start(), by the user or because a report needs a trace.
Start ==
    /\ app = "up" /\ round = "idle" /\ starts < MaxRounds
    /\ starts' = starts + 1
    /\ \E installed \in Installations : StartGenerator(installed)
    /\ IF round' = "idle" THEN HearsFinished ELSE UNCHANGED <<process, m_state>>
    /\ UNCHANGED <<app, choices, stopDue, live, guardVars>>

\* startProcess(): the lock is there, or was waited for long enough.
StartProcess ==
    /\ app = "up" /\ round = "locking"
    /\ round' = "fencing"
    /\ HearsStarting
    /\ SurroundMe(starts)
    /\ UNCHANGED <<app, choices, stopDue, starts, live, monitorVars>>

\* startProcessInternal(): the fence stands, the debugger's process is made.
FenceReply ==
    /\ app = "up" /\ round = "fencing" /\ FenceStep(starts)
    /\ IF Loaded(starts)
       THEN round' = "debugging" /\ live' = live \cup {starts} /\ Reset
       ELSE UNCHANGED <<round, live, monitorVars>>
    /\ UNCHANGED <<backendVars, starts>>

\* QProcess::started: the monitor is told.
DebuggerStarted ==
    /\ app = "up" /\ starts \in live \ posted
    /\ Monitoring(starts)
    /\ UNCHANGED <<backendVars, roundVars, fenceVars>>

\* The debugger failed to start, ended, was killed or crashed.
DebuggerEnded ==
    /\ app = "up" /\ round = "debugging"
    /\ round' = "idle" /\ live' = live \ {starts}
    /\ HearsFinished
    /\ UNCHANGED <<app, choices, stopDue, starts, guardVars>>

\* The kernel's pressure: what the monitor knows of is killed there and then,
\* the level rises when the main thread comes to it.
PressureKills ==
    /\ app \in {"up", "leaving"} /\ OnPressure
    /\ live' = live \ Pids
    /\ UNCHANGED <<backendVars, starts, round, fenceVars>>

PressureMonitorStep ==
    /\ app = "up"
    /\ Run \/ UnderPressure
    /\ UNCHANGED <<backendVars, roundVars, fenceVars>>

-----------------------------------------------------------------------------
(* Ends.                                                                    *)

\* Somebody else ends the crashed process.
ProcessEnds ==
    /\ process # "ended" /\ app \in {"up", "leaving"}
    /\ process' = "ended"
    /\ UNCHANGED <<app, choices, m_state, stopDue, roundVars, guardVars>>

\* exec() returned; the statics are destroyed, MemoryPressure before DrKonqi,
\* which was made first.  A crash in here is drkonqi's own.
Leave ==
    /\ app = "up"
    /\ stopDue' = FALSE
    /\ \E survives \in BOOLEAN :
         /\ ExitEventLoop(survives)
         /\ app' = IF survives THEN "leaving" ELSE "crashed"
         /\ process' = IF survives THEN process ELSE "ended"
    /\ UNCHANGED <<choices, m_state, roundVars, fenceVars>>

DestroyBackend_FaultNoContinue ==
    /\ app = "leaving"
    /\ app' = "gone" /\ live' = {} /\ round' = "idle"
    /\ UNCHANGED <<choices, process, m_state, stopDue, starts, guardVars>>

\* ~KCrashBackend() continues the process; the debugger manager, its child, is
\* destroyed after that and ends a debugger whose signals nobody receives now.
DestroyBackend ==
    /\ app = "leaving"
    /\ ContinueAttachedProcess
    /\ app' = "gone" /\ live' = {} /\ round' = "idle"
    /\ UNCHANGED <<choices, stopDue, starts, guardVars>>

\* drkonqi crashes: the process, whatever its state, is killed.
EmergencySave ==
    /\ app \in {"up", "leaving"}
    /\ app' = "crashed" /\ process' = "ended"
    /\ UNCHANGED <<choices, m_state, stopDue, roundVars, guardVars>>

\* SIGTERM, SIGKILL or the lack of memory: neither a destructor nor the
\* emergency save function runs.  main() watches only for SIGINT, which leaves.
KilledFromOutside ==
    /\ app \in {"new", "up", "leaving"}
    /\ app' = "killed"
    /\ UNCHANGED <<choices, process, m_state, stopDue, roundVars, guardVars>>

KCrashNext ==
    \/ InitCrashes \/ InitFails \/ InitKeepRunning \/ InitStopLater \/ StopTimer
    \/ Start \/ StartProcess \/ FenceReply \/ DebuggerStarted \/ DebuggerEnded
    \/ PressureKills \/ PressureMonitorStep
    \/ ProcessEnds \/ Leave \/ DestroyBackend \/ EmergencySave
    \/ KilledFromOutside

KCrashSpec == KCrashInit /\ [][KCrashNext]_kcrashVars

-----------------------------------------------------------------------------
\* The crashed process is stopped exactly while no debugger needs it, once the
\* two seconds are over: it neither burns processor time beside an open window
\* nor is it stopped under the debugger (drkonqibackends.cpp:97-108, 209-219).
StoppedWhileIdle ==
    app = "up" /\ ~keepRunning /\ ~stopDue /\ process # "ended" =>
        (process = "stopped" <=> round \in {"idle", "locking"})

\* Where drkonqi ends by itself, crashed or not, the crashed process is not left
\* stopped behind: it was continued, so that KCrash can end it, or it was killed
\* (64-67, 225-231).  A drkonqi that is killed does leave it stopped, but not if a
\* debugger was at work on it, unless it is to keep running.
NotLeftStopped ==
    process = "stopped" =>
        \/ app \in {"up", "leaving"}
        \/ app = "killed" /\ (keepRunning \/ round \in {"idle", "locking"})
=============================================================================
