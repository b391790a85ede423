----------------------------- MODULE MemoryGuard -----------------------------
(***************************************************************************)
(* What keeps a debugger from using up the memory: the fence, which asks   *)
(* systemd for drkonqi's unit and its memory and sets MemoryHigh before a  *)
(* debugger starts, and the pressure monitor, a thread that runs an        *)
(* sd-event loop of its own.  KCrashBackend joins them to the debuggers;   *)
(* the live debuggers are therefore a parameter here.                      *)
(***************************************************************************)
EXTENDS Naturals, FiniteSets

CONSTANTS
    GiB,            \* one GiB in the unit memory is counted in, an even number
    Word,           \* memory is counted modulo this, 2^64 bytes
    MemoryUses,     \* values of MemoryCurrent; Word - 1 when it is not accounted for
    FreeRAMs,       \* values of freeRAM(); Unknown when there is none
    Unknown,
    MaxRounds,      \* bound: calls of surroundMe(), each followed by a debugger
    MaxPressure     \* bound: times the kernel reports pressure

Rounds == 1..MaxRounds

ASSUME MemoryAssumption ==
    /\ GiB \in Nat \ {0} /\ GiB % 2 = 0
    /\ Word \in Nat /\ MemoryUses \subseteq 0..(Word - 1)
    /\ FreeRAMs \subseteq 0..(Word - 1) \cup {Unknown} /\ Unknown \notin Nat
    /\ MaxRounds \in Nat /\ MaxPressure \in Nat

VARIABLES
    unitKnown,      \* m_unitPath is not empty
    call,           \* for each round the D-Bus call it waits for
    size,           \* m_size
    fenced,         \* history: use and free memory at the last fence, and MemoryHigh
    thread,         \* SDPressureMonitor's thread
    posted,         \* pids emitted by monitoring()
    level,          \* MemoryPressure::level
    queued,         \* underPressure signals on their way to the main thread
    pressures       \* how often the kernel reported pressure

fenceVars == <<unitKnown, call, size, fenced>>
monitorVars == <<thread, posted, level, queued, pressures>>
guardVars == <<fenceVars, monitorVars>>

GuardInit ==
    /\ unitKnown = FALSE
    /\ call = [r \in Rounds |-> "none"]
    /\ size = "Spacious"
    /\ fenced = [use |-> 0, free |-> 0, high |-> 0]
    /\ thread = "none" /\ posted = {} /\ level = "Low" /\ queued = 0 /\ pressures = 0

-----------------------------------------------------------------------------
(* The fence.  Every way through it ends with the signal loaded.            *)

\* getUnit(): GetUnitByPID once, GetAll on the unit from then on.
SurroundMe(r) ==
    /\ call' = [call EXCEPT ![r] = IF unitKnown THEN "GetAll" ELSE "GetUnitByPID"]
    /\ UNCHANGED <<unitKnown, size, fenced>>

Loaded(r) == call'[r] = "loaded"

GetUnitByPIDReturns(r) ==
    /\ call[r] = "GetUnitByPID"
    /\ \/ /\ call' = [call EXCEPT ![r] = "loaded"]
          /\ UNCHANGED unitKnown
       \/ /\ call' = [call EXCEPT ![r] = "GetAll"]
          /\ unitKnown' = TRUE
    /\ UNCHANGED <<size, fenced>>

\* The least a unit is taken to use, 512 MiB.
MemoryCurrent(use) == IF use > GiB \div 2 THEN use ELSE GiB \div 2

MemoryAvailable_FaultAtGiB(free) == IF free >= GiB THEN free - GiB ELSE free

\* The system keeps one GiB to breathe if there is more than that.
MemoryAvailable(free) == IF free > GiB THEN free - GiB ELSE free

SizeFor(gib) ==
    IF gib > 12 THEN "Spacious" ELSE IF gib > 4 THEN "Some" ELSE IF gib > 2 THEN "Little" ELSE "Cramped"

\* applyProperties()
ApplyProperties(r, use, free) ==
    /\ size' = SizeFor(MemoryAvailable(free) \div GiB)
    /\ fenced' = [use  |-> use, free |-> free,
                  high |-> (MemoryCurrent(use) + MemoryAvailable(free)) % Word]
    /\ call' = [call EXCEPT ![r] = "SetProperties"]

\* getMemory(): no properties or no idea of the free memory means no fence.
GetAllReturns(r) ==
    /\ call[r] = "GetAll"
    /\ \/ /\ call' = [call EXCEPT ![r] = "loaded"]
          /\ UNCHANGED <<size, fenced>>
       \/ \E use \in MemoryUses, free \in FreeRAMs \ {Unknown} :
             ApplyProperties(r, use, free)
    /\ UNCHANGED unitKnown

\* SetProperties: an error is logged only.
SetPropertiesReturns(r) ==
    /\ call[r] = "SetProperties"
    /\ call' = [call EXCEPT ![r] = "loaded"]
    /\ UNCHANGED <<unitKnown, size, fenced>>

FenceStep(r) == GetUnitByPIDReturns(r) \/ GetAllReturns(r) \/ SetPropertiesReturns(r)

-----------------------------------------------------------------------------
(* The pressure monitor.                                                    *)

\* MemoryPressure::instance(), on first use, and reset().
Reset ==
    /\ level' = "Low"
    /\ thread' = IF thread = "none" THEN "starting" ELSE thread
    /\ UNCHANGED <<posted, queued, pressures>>

\* run(): without support for pressure events it returns, else it loops.
Run ==
    /\ thread = "starting"
    /\ thread' \in {"looping", "returned"}
    /\ UNCHANGED <<posted, level, queued, pressures>>

\* monitoring(pid), a queued call of SDPressureContext::onMonitor().
Monitoring(r) ==
    /\ posted' = posted \cup {r}
    /\ UNCHANGED <<thread, level, queued, pressures>>

\* The context's m_pids.  onMonitor() and onPidReset() are posted to the thread,
\* whose run() has an sd-event loop and none of Qt's to deliver them.
Pids == {}

\* onPressure(): Killed are the debuggers it kills.
OnPressure ==
    /\ thread = "looping" /\ pressures < MaxPressure
    /\ pressures' = pressures + 1
    /\ queued' = queued + 1
    /\ UNCHANGED <<thread, posted, level>>

\* underPressure arrives at the main thread.
UnderPressure ==
    /\ queued > 0
    /\ queued' = queued - 1
    /\ level' = "High"
    /\ UNCHANGED <<thread, posted, pressures>>

\* ~MemoryPressure(): exitEventLoop() signals the thread, which is waited for and
\* terminated.  A thread that had returned long before is signalled just the same:
\* what pthread_kill() does with its identifier then is undefined.
ExitEventLoop(survives) ==
    /\ ~survives => thread = "returned"
    /\ thread' = IF thread = "none" THEN "none" ELSE "gone"
    /\ queued' = 0
    /\ UNCHANGED <<posted, level, pressures>>

-----------------------------------------------------------------------------
\* The fence leaves the debugger more than what the unit uses already, whatever
\* is free: a limit at or below it throttles drkonqi before the debugger starts.
\* A unit whose memory is not accounted for reports the largest number, with
\* which the sum overflows; without accounting the limit has no effect either.
FenceLeavesRoom ==
    fenced.free > 0 /\ fenced.use # Word - 1 => fenced.high > MemoryCurrent(fenced.use)
=============================================================================
