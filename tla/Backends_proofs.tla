---------------------------- MODULE Backends_proofs ----------------------------
(***************************************************************************)
(* What TLAPS proves of the two ways in which a debugger gets at a crash:  *)
(* the process that KCrash keeps for it (KCrashBackend, with MemoryGuard), *)
(* and the core that is unpacked for it (CoredumpViewer, with Excavation). *)
(* They share nothing but this module; each has an invariant of its own.   *)
(*                                                                         *)
(* Of KCrashBackend: its types, that the crashed process is stopped when   *)
(* it should be and left so only by a drkonqi that is killed, and what the *)
(* fence leaves, for any number of debugger rounds and of reports of       *)
(* pressure and any values of memory.  The fence's theorem has one more    *)
(* premise, that the sum of what is used and what is free is a number of   *)
(* bytes there can be.                                                     *)
(*                                                                         *)
(* Of CoredumpViewer, for any patients and any number of attempts: the     *)
(* process that runs is always that of the patient shown, as another       *)
(* choice meanwhile ends the viewer; a core that was unpacked is whole, or *)
(* was cut by the flush at its end, and nobody writes it; one that is not  *)
(* unpacked is not given away.                                             *)
(***************************************************************************)
EXTENDS KCrashBackend, CoredumpViewer, TLAPS

-----------------------------------------------------------------------------
(* The crashed process.                                                    *)

\* What the backend takes the process for is what it is, while it can be signalled, and
\* before init() it runs.
StateIsTrue ==
    /\ app = "new" => m_state = "ProcessRunning" /\ process # "stopped"
                      /\ round = "idle" /\ starts = 0
    /\ app \in {"up", "leaving"} /\ process # "ended" =>
           (process = "stopped" <=> m_state = "ProcessStopped")

\* Without --keeprunning the state follows the debugger's rounds.
StateFollows ==
    ~keepRunning =>
        /\ app \in {"up", "leaving"} =>
             (round \in {"fencing", "debugging"} <=> m_state = "DebuggerRunning")
        /\ app = "up" /\ round \in {"idle", "locking"} /\ ~stopDue => m_state = "ProcessStopped"

\* A round that is under way has a number, and so has every pressure that is reported.
Counted ==
    /\ round # "idle" => starts \in Rounds
    /\ pressures \in 0..MaxPressure /\ queued <= pressures

KCrashInv == KCrashTypeOK /\ Counted /\ StateIsTrue /\ StateFollows /\ NotLeftStopped

-----------------------------------------------------------------------------
(* What the signals do. *)

\* Stopping is remembered, and so is continuing; neither touches what a debugger works on.
LEMMA StopIsTrue ==
  ASSUME KCrashInv, StopAttachedProcess, app \in {"new", "up"}
  PROVE  /\ process' \in {"running", "stopped", "ended"} /\ (process' = "ended" <=> process = "ended")
         /\ m_state' = IF m_state = "ProcessRunning" THEN "ProcessStopped" ELSE m_state
         /\ process' # "ended" => (process' = "stopped" <=> m_state' = "ProcessStopped")
BY DEF KCrashInv, KCrashTypeOK, StateIsTrue, StopAttachedProcess, Signalled

LEMMA ContinueIsTrue ==
  ASSUME KCrashInv, ContinueAttachedProcess, app \in {"up", "leaving"}
  PROVE  /\ process' \in {"running", "stopped", "ended"} /\ (process' = "ended" <=> process = "ended")
         /\ m_state' \in {"ProcessRunning", "DebuggerRunning"}
         /\ process' # "stopped"
BY DEF KCrashInv, KCrashTypeOK, StateIsTrue, ContinueAttachedProcess, Signalled

\* The end of a round, as heard.
LEMMA FinishedIsTrue ==
  ASSUME KCrashInv, HearsFinished, app = "up"
  PROVE  /\ process' \in {"running", "stopped", "ended"}
         /\ m_state' \in {"ProcessRunning", "ProcessStopped", "DebuggerRunning"}
         /\ process' # "ended" => (process' = "stopped" <=> m_state' = "ProcessStopped")
         /\ ~keepRunning => m_state' = "ProcessStopped"
<1>1. CASE keepRunning
  BY <1>1, ContinueIsTrue DEF HearsFinished
<1>2. CASE ~keepRunning
  BY <1>2 DEF HearsFinished, OnDebuggerFinished, Signalled, KCrashInv, KCrashTypeOK
<1> QED BY <1>1, <1>2

\* The beginning of one, as heard.
LEMMA StartingIsTrue ==
  ASSUME KCrashInv, HearsStarting, app = "up"
  PROVE  /\ process' \in {"running", "stopped", "ended"}
         /\ m_state' \in {"ProcessRunning", "ProcessStopped", "DebuggerRunning"}
         /\ process' # "ended" => (process' = "stopped" <=> m_state' = "ProcessStopped")
         /\ ~keepRunning => m_state' = "DebuggerRunning"
<1>1. CASE keepRunning
  BY <1>1 DEF HearsStarting, KCrashInv, KCrashTypeOK, StateIsTrue
<1>2. CASE ~keepRunning
  BY <1>2 DEF HearsStarting, OnDebuggerStarting, Signalled, KCrashInv, KCrashTypeOK, StateIsTrue
<1> QED BY <1>1, <1>2

-----------------------------------------------------------------------------
(* The invariant, action by action. *)

\* Initially the process runs or is gone, and nothing is under way.
LEMMA KCrashInitOK == KCrashInit => KCrashInv
<1> SUFFICES ASSUME KCrashInit PROVE KCrashInv
  OBVIOUS
<1>1. debugger \in {"gdb", "lldb", "null"}
  <2>1. PICK wanted \in {"gdb", "lldb", "other"}, installed \in Installations :
             debugger = FindDebugger(AvailableInternalDebuggers, wanted, installed)
    BY DEF KCrashInit
  <2> DEFINE list == AvailableInternalDebuggers
             known == {i \in DOMAIN list : list[i] = wanted}
             good == {i \in DOMAIN list : list[i] \in installed}
             first == CHOOSE i \in good : \A j \in good : i <= j
  <2>2. DOMAIN list = {1, 2} /\ list[1] = "gdb" /\ list[2] = "lldb"
    BY DEF AvailableInternalDebuggers
  <2>3. CASE known = {}
    BY <2>1, <2>3 DEF FindDebugger
  <2>4. CASE known # {} /\ (wanted \in installed \/ good = {})
    <3>1. wanted \in {"gdb", "lldb"}
      BY <2>2, <2>4
    <3> QED BY <2>1, <2>4, <3>1 DEF FindDebugger
  <2>5. CASE known # {} /\ ~(wanted \in installed \/ good = {})
    <3>1. \E i \in good : \A j \in good : i <= j
      BY <2>2, <2>5
    <3>2. first \in {1, 2}
      BY <2>2, <3>1
    <3> QED BY <2>1, <2>2, <2>5, <3>2 DEF FindDebugger
  <2> QED BY <2>3, <2>4, <2>5
<1>2. /\ call \in [Rounds -> {"none", "GetUnitByPID", "GetAll", "SetProperties", "loaded"}]
      /\ starts \in 0..MaxRounds /\ queued \in 0..MaxPressure /\ pressures \in 0..MaxPressure
      /\ queued <= pressures
  BY MemoryAssumption DEF KCrashInit, GuardInit
<1> QED BY <1>1, <1>2 DEF KCrashInit, GuardInit, KCrashInv, KCrashTypeOK, Counted,
           StateIsTrue, StateFollows,
     NotLeftStopped

\* init(), in each of its ways.
LEMMA InitStep ==
  ASSUME KCrashInv, InitCrashes \/ InitFails \/ InitKeepRunning \/ InitStopLater
  PROVE  KCrashInv'
<1> USE DEF choices, roundVars, guardVars, fenceVars, monitorVars
<1>1. CASE InitCrashes \/ InitFails
  BY <1>1 DEF InitCrashes, InitFails, Constructed, KCrashInv, KCrashTypeOK, Counted,
     StateIsTrue,
     StateFollows, NotLeftStopped
<1>2. CASE InitKeepRunning
  <2>1. /\ app = "new" /\ app' = "up" /\ keepRunning /\ MaxRounds > 0 /\ StopAttachedProcess
        /\ round' \in {"idle", "locking"} /\ starts = 0
        /\ starts' = IF round' = "idle" THEN starts ELSE starts + 1
        /\ UNCHANGED <<keepRunning, debugger, stopDue, live, guardVars>>
    BY <1>2 DEF InitKeepRunning, Constructed, StartGenerator, KCrashInv, StateIsTrue
  <2>2. starts' \in 0..MaxRounds /\ (round' # "idle" => starts' \in Rounds)
    BY <2>1, MemoryAssumption DEF Rounds
  <2>3. /\ process' \in {"running", "stopped", "ended"} /\ m_state' = "ProcessStopped"
        /\ process' # "ended" => process' = "stopped"
    BY <2>1, StopIsTrue DEF KCrashInv, StateIsTrue
  <2>4. KCrashTypeOK' /\ Counted'
    BY <2>1, <2>2, <2>3 DEF KCrashInv, KCrashTypeOK, Counted
  <2>5. StateIsTrue' /\ StateFollows' /\ NotLeftStopped'
    BY <2>1, <2>3 DEF StateIsTrue, StateFollows, NotLeftStopped
  <2> QED BY <2>4, <2>5 DEF KCrashInv
<1>3. CASE InitStopLater
  BY <1>3 DEF InitStopLater, Constructed, KCrashInv, KCrashTypeOK, Counted, StateIsTrue,
     StateFollows,
     NotLeftStopped
<1> QED BY <1>1, <1>2, <1>3

\* The timer and the rounds.
LEMMA RoundStep ==
  ASSUME KCrashInv, StopTimer \/ Start \/ StartProcess \/ FenceReply \/ DebuggerStarted \/ DebuggerEnded
  PROVE  KCrashInv'
<1> USE DEF choices, backendVars, roundVars, guardVars, fenceVars, monitorVars
<1>1. CASE StopTimer
  <2>1. app = "up" /\ StopAttachedProcess /\ stopDue' = FALSE
        /\ UNCHANGED <<app, choices, roundVars, guardVars>>
    BY <1>1 DEF StopTimer
  <2>2. /\ process' \in {"running", "stopped", "ended"}
        /\ m_state' = IF m_state = "ProcessRunning" THEN "ProcessStopped" ELSE m_state
        /\ process' # "ended" => (process' = "stopped" <=> m_state' = "ProcessStopped")
    BY <2>1, StopIsTrue
  <2>3. KCrashTypeOK' /\ Counted'
    BY <2>1, <2>2 DEF KCrashInv, KCrashTypeOK, Counted
  <2>4. StateIsTrue' /\ NotLeftStopped'
    BY <2>1, <2>2 DEF StateIsTrue, NotLeftStopped
  <2>5. StateFollows'
    BY <2>1, <2>2 DEF KCrashInv, KCrashTypeOK, StateFollows
  <2> QED BY <2>3, <2>4, <2>5 DEF KCrashInv
<1>2. CASE Start
  <2>1. /\ app = "up" /\ round = "idle" /\ starts < MaxRounds /\ starts' = starts + 1
        /\ round' \in {"idle", "locking"}
        /\ IF round' = "idle" THEN HearsFinished ELSE UNCHANGED <<process, m_state>>
        /\ UNCHANGED <<app, choices, stopDue, live, guardVars>>
    BY <1>2 DEF Start, StartGenerator
  <2>2. starts' \in 0..MaxRounds /\ starts' \in Rounds
    BY <2>1, MemoryAssumption DEF Rounds, KCrashInv, KCrashTypeOK
  <2>3. CASE round' = "idle"
    <3>1. /\ process' \in {"running", "stopped", "ended"}
          /\ m_state' \in {"ProcessRunning", "ProcessStopped", "DebuggerRunning"}
          /\ process' # "ended" => (process' = "stopped" <=> m_state' = "ProcessStopped")
          /\ ~keepRunning => m_state' = "ProcessStopped"
      BY <2>1, <2>3, FinishedIsTrue
    <3>2. app = "up" /\ round' = "idle" /\ UNCHANGED <<app, choices, stopDue, live, guardVars>>
      BY <2>1, <2>3
    <3>3. KCrashTypeOK' /\ Counted'
      BY <2>2, <3>1, <3>2 DEF KCrashInv, KCrashTypeOK, Counted
    <3>4. StateIsTrue' /\ StateFollows' /\ NotLeftStopped'
      BY <3>1, <3>2 DEF KCrashInv, StateIsTrue, StateFollows, NotLeftStopped
    <3> QED BY <3>3, <3>4 DEF KCrashInv
  <2>4. CASE round' = "locking"
    BY <2>1, <2>2, <2>4 DEF KCrashInv, KCrashTypeOK, Counted, StateIsTrue, StateFollows,
       NotLeftStopped
  <2> QED BY <2>1, <2>3, <2>4
<1>3. CASE StartProcess
  <2>1. app = "up" /\ round = "locking" /\ round' = "fencing" /\ HearsStarting
        /\ SurroundMe(starts) /\ UNCHANGED <<app, choices, stopDue, starts, live, monitorVars>>
    BY <1>3 DEF StartProcess
  <2>2. call' \in [Rounds -> {"none", "GetUnitByPID", "GetAll", "SetProperties", "loaded"}]
    BY <2>1 DEF SurroundMe, KCrashInv, KCrashTypeOK
  <2> QED BY <2>1, <2>2, StartingIsTrue DEF KCrashInv, KCrashTypeOK, Counted, StateIsTrue,
             StateFollows, NotLeftStopped
<1>4. CASE FenceReply
  <2>1. app = "up" /\ round = "fencing" /\ FenceStep(starts)
        /\ round' \in {"fencing", "debugging"}
        /\ live' \in {live, live \cup {starts}} /\ level' \in {level, "Low"}
        /\ UNCHANGED <<backendVars, starts, posted, queued, pressures>>
    BY <1>4 DEF FenceReply, Reset
  <2>2. call' \in [Rounds -> {"none", "GetUnitByPID", "GetAll", "SetProperties", "loaded"}]
    BY <2>1 DEF FenceStep, GetUnitByPIDReturns, GetAllReturns, SetPropertiesReturns,
       ApplyProperties, KCrashInv, KCrashTypeOK
  <2>3. starts \in Rounds /\ live' \subseteq Rounds
    BY <2>1 DEF KCrashInv, KCrashTypeOK, Counted
  <2> QED BY <2>1, <2>2, <2>3 DEF KCrashInv, KCrashTypeOK, Counted, StateIsTrue,
             StateFollows, NotLeftStopped
<1>5. CASE DebuggerStarted
  BY <1>5 DEF DebuggerStarted, Monitoring, KCrashInv, KCrashTypeOK, Counted, StateIsTrue,
     StateFollows,
     NotLeftStopped
<1>6. CASE DebuggerEnded
  <2>1. app = "up" /\ round' = "idle" /\ live' \subseteq live /\ HearsFinished
        /\ UNCHANGED <<app, choices, stopDue, starts, guardVars>>
    BY <1>6 DEF DebuggerEnded
  <2> QED BY <2>1, FinishedIsTrue DEF KCrashInv, KCrashTypeOK, Counted, StateIsTrue,
             StateFollows, NotLeftStopped
<1> QED BY <1>1, <1>2, <1>3, <1>4, <1>5, <1>6

\* Pressure leaves the process alone.
LEMMA PressureStep ==
  ASSUME KCrashInv, PressureKills \/ PressureMonitorStep
  PROVE  KCrashInv'
<1> USE DEF choices, backendVars, roundVars, guardVars, fenceVars, monitorVars
<1>1. /\ UNCHANGED <<backendVars, starts, round, call, posted>> /\ live' \subseteq live
      /\ level' \in {level, "High"}
      /\ queued' \in 0..MaxPressure /\ pressures' \in 0..MaxPressure /\ queued' <= pressures'
  <2>1. CASE PressureKills
    BY <2>1, MemoryAssumption DEF PressureKills, OnPressure, KCrashInv, KCrashTypeOK, Counted
  <2>2. CASE PressureMonitorStep
    BY <2>2, MemoryAssumption DEF PressureMonitorStep, Run, UnderPressure, KCrashInv,
       KCrashTypeOK, Counted
  <2> QED BY <2>1, <2>2
<1> QED BY <1>1 DEF KCrashInv, KCrashTypeOK, Counted, StateIsTrue, StateFollows, NotLeftStopped

\* The ends.
LEMMA EndStep ==
  ASSUME KCrashInv, ProcessEnds \/ Leave \/ DestroyBackend \/ EmergencySave \/ KilledFromOutside
  PROVE  KCrashInv'
<1> USE DEF choices, backendVars, roundVars, guardVars, fenceVars, monitorVars
<1>1. CASE ProcessEnds
  BY <1>1 DEF ProcessEnds, KCrashInv, KCrashTypeOK, Counted, StateIsTrue, StateFollows,
     NotLeftStopped
<1>2. CASE Leave
  <2>1. /\ app = "up" /\ stopDue' = FALSE /\ queued' = 0
        /\ \/ app' = "leaving" /\ process' = process
           \/ app' = "crashed" /\ process' = "ended"
        /\ UNCHANGED <<choices, m_state, roundVars, fenceVars, posted, level, pressures>>
    BY <1>2 DEF Leave, ExitEventLoop
  <2>2. queued' \in 0..MaxPressure /\ queued' <= pressures'
    BY <2>1, MemoryAssumption DEF KCrashInv, Counted
  <2> QED BY <2>1, <2>2 DEF KCrashInv, KCrashTypeOK, Counted, StateIsTrue, StateFollows,
             NotLeftStopped
<1>3. CASE DestroyBackend
  <2>1. app = "leaving" /\ ContinueAttachedProcess
        /\ app' = "gone" /\ live' = {} /\ round' = "idle"
        /\ UNCHANGED <<choices, stopDue, starts, guardVars>>
    BY <1>3 DEF DestroyBackend
  <2> QED BY <2>1, ContinueIsTrue DEF KCrashInv, KCrashTypeOK, Counted, StateIsTrue,
             StateFollows, NotLeftStopped
<1>4. CASE EmergencySave
  BY <1>4 DEF EmergencySave, KCrashInv, KCrashTypeOK, Counted, StateIsTrue, StateFollows,
     NotLeftStopped
<1>5. CASE KilledFromOutside
  <2>1. /\ app \in {"new", "up", "leaving"} /\ app' = "killed"
        /\ UNCHANGED <<choices, process, m_state, stopDue, roundVars, guardVars>>
    BY <1>5 DEF KilledFromOutside
  <2>2. KCrashTypeOK' /\ Counted'
    BY <2>1 DEF KCrashInv, KCrashTypeOK, Counted
  <2>3. StateIsTrue' /\ StateFollows'
    BY <2>1 DEF StateIsTrue, StateFollows
  <2>4. process = "stopped" => keepRunning \/ round \in {"idle", "locking"}
    BY <2>1 DEF KCrashInv, KCrashTypeOK, StateIsTrue, StateFollows
  <2>5. NotLeftStopped'
    BY <2>1, <2>4 DEF NotLeftStopped
  <2> QED BY <2>2, <2>3, <2>5 DEF KCrashInv
<1> QED BY <1>1, <1>2, <1>3, <1>4, <1>5

\* The invariant is inductive.
LEMMA KCrashInvStep == KCrashInv /\ [KCrashNext]_kcrashVars => KCrashInv'
<1> SUFFICES ASSUME KCrashInv, [KCrashNext]_kcrashVars PROVE KCrashInv'
  OBVIOUS
<1>1. CASE KCrashNext
  BY <1>1, InitStep, RoundStep, PressureStep, EndStep DEF KCrashNext
<1>2. CASE UNCHANGED kcrashVars
  BY <1>2 DEF kcrashVars, choices, backendVars, roundVars, guardVars, fenceVars, monitorVars,
     KCrashInv,
     KCrashTypeOK,
     Counted, StateIsTrue, StateFollows, NotLeftStopped
<1> QED BY <1>1, <1>2

-----------------------------------------------------------------------------
(* The theorems. *)

\* Types, in every behaviour: of the backend, the rounds and what guards the memory.
THEOREM KCrashTypesHold == KCrashSpec => []KCrashTypeOK
<1>1. KCrashInv => KCrashTypeOK
  BY DEF KCrashInv
<1> QED BY <1>1, KCrashInitOK, KCrashInvStep, PTL DEF KCrashSpec

\* Once its two seconds are over, the crashed process is stopped exactly while no debugger
\* works on it, for any number of rounds that fail wherever they can.
THEOREM ProcessIsStoppedWhileIdle == KCrashSpec => []StoppedWhileIdle
<1>1. KCrashInv => StoppedWhileIdle
  BY DEF KCrashInv, KCrashTypeOK, StateIsTrue, StateFollows, StoppedWhileIdle
<1> QED BY <1>1, KCrashInitOK, KCrashInvStep, PTL DEF KCrashSpec

\* Wherever in any number of rounds drkonqi ends by itself, it leaves no stopped process
\* behind, and where it is killed only one that no debugger worked on.
THEOREM ProcessIsNotLeftStopped == KCrashSpec => []NotLeftStopped
<1>1. KCrashInv => NotLeftStopped
  BY DEF KCrashInv
<1> QED BY <1>1, KCrashInitOK, KCrashInvStep, PTL DEF KCrashSpec

\* What is used and what is free together are a number of bytes there can be.
NoOverflow ==
    \A use \in MemoryUses \ {Word - 1}, free \in FreeRAMs \ {Unknown} :
        MemoryCurrent(use) + free < Word

\* One fence leaves room.
LEMMA FenceRoom ==
  ASSUME NoOverflow, NEW use \in MemoryUses, NEW free \in FreeRAMs \ {Unknown},
         free > 0, use # Word - 1
  PROVE  (MemoryCurrent(use) + MemoryAvailable(free)) % Word > MemoryCurrent(use)
<1>1. use \in Nat /\ free \in Nat /\ GiB \in Nat /\ GiB > 0 /\ Word \in Nat
  BY MemoryAssumption
<1>2. MemoryCurrent(use) \in Nat
  BY <1>1, MemoryAssumption DEF MemoryCurrent
<1>3. MemoryAvailable(free) \in Nat /\ 0 < MemoryAvailable(free) /\ MemoryAvailable(free) <= free
  BY <1>1 DEF MemoryAvailable
<1>4. MemoryCurrent(use) + free < Word
  BY DEF NoOverflow
<1>5. MemoryCurrent(use) + MemoryAvailable(free) \in 0..(Word - 1)
  BY <1>1, <1>2, <1>3, <1>4
<1>6. (MemoryCurrent(use) + MemoryAvailable(free)) % Word = MemoryCurrent(use) + MemoryAvailable(free)
  BY <1>1, <1>5
<1> QED BY <1>2, <1>3, <1>6

\* The limit is above what the unit uses already, for whatever is used and free, if their
\* sum does not overflow; that of a unit without accounting does, and is excepted.
THEOREM FenceAlwaysLeavesRoom ==
  ASSUME NoOverflow
  PROVE  KCrashSpec => []FenceLeavesRoom
<1>1. KCrashInit => FenceLeavesRoom
  BY DEF KCrashInit, GuardInit, FenceLeavesRoom
<1>2. FenceLeavesRoom /\ [KCrashNext]_kcrashVars => FenceLeavesRoom'
  <2> SUFFICES ASSUME FenceLeavesRoom, [KCrashNext]_kcrashVars PROVE FenceLeavesRoom'
    OBVIOUS
  <2>1. CASE \E use \in MemoryUses, free \in FreeRAMs \ {Unknown} :
                fenced' = [use |-> use, free |-> free,
                           high |-> (MemoryCurrent(use) + MemoryAvailable(free)) % Word]
    <3>1. PICK use \in MemoryUses, free \in FreeRAMs \ {Unknown} :
                fenced' = [use |-> use, free |-> free,
                           high |-> (MemoryCurrent(use) + MemoryAvailable(free)) % Word]
      BY <2>1
    <3> QED BY <3>1, FenceRoom DEF FenceLeavesRoom
  <2>2. CASE fenced' = fenced
    BY <2>2 DEF FenceLeavesRoom
  <2>3. FenceReply => fenced' = fenced
                      \/ \E use \in MemoryUses, free \in FreeRAMs \ {Unknown} :
                           fenced' = [use |-> use, free |-> free,
                                      high |-> (MemoryCurrent(use) + MemoryAvailable(free)) % Word]
    BY DEF FenceReply, FenceStep, GetUnitByPIDReturns, GetAllReturns, SetPropertiesReturns,
       ApplyProperties
  <2>4. [KCrashNext]_kcrashVars /\ ~FenceReply => fenced' = fenced
    BY DEF kcrashVars, roundVars, guardVars, fenceVars, KCrashNext, InitCrashes, InitFails,
       InitKeepRunning,
       InitStopLater, StopTimer, Start, StartProcess, SurroundMe, DebuggerStarted, DebuggerEnded,
       PressureKills, PressureMonitorStep, ProcessEnds, Leave, DestroyBackend, EmergencySave,
       KilledFromOutside
  <2> QED BY <2>1, <2>2, <2>3, <2>4
<1> QED BY <1>1, <1>2, PTL DEF KCrashSpec

-----------------------------------------------------------------------------
(* The excavators. *)

Outcomes == [said : Signals, core : Contents, job : Jobs]

\* coredumpctl came to its end; only the flush after it may have failed.
Dug == {"whole", "cut"}

\* "excavated" is said of such a core, after its writer has gone.
Sober(outcome) == outcome.said = "excavated" => outcome.core \in Dug /\ outcome.job = "none"

\* A new excavator has nothing to say that is good.
LEMMA FirstOutcomes ==
  ASSUME NEW from \in {"readable", "unreadable", "missing"},
         NEW outcome \in ExcavateFrom(NewExcavator, from)
  PROVE  outcome \in Outcomes /\ Sober(outcome)
<1>1. outcome \in CannotOpen \cup OpenCore(from)
  BY DEF ExcavateFrom, NewExcavator
<1>2. CASE outcome \in CannotOpen
  BY <1>2 DEF CannotOpen, Outcome, Outcomes, Signals, Contents, Jobs, Sober
<1>3. CASE from = "missing" /\ outcome \in OpenCore(from)
  BY <1>3 DEF OpenCore, Outcome, Outcomes, Signals, Contents, Jobs, Sober
<1>4. CASE from = "readable" /\ outcome \in OpenCore(from)
  BY <1>4 DEF OpenCore, Outcome, Outcomes, Signals, Contents, Jobs, Sober
<1>5. CASE from = "unreadable" /\ outcome \in OpenCore(from)
  BY <1>5 DEF OpenCore, Outcome, Outcomes, Signals, Contents, Jobs, Sober
<1> QED BY <1>1, <1>2, <1>3, <1>4, <1>5

\* An old excavator finds what it has.
LEMMA AgainOutcomes ==
  ASSUME NEW e \in Excavators, NEW from \in {"readable", "unreadable", "missing"},
         NEW outcome \in ExcavateFrom(e, from)
  PROVE  outcome \in Outcomes
<1>1. e.core \in Contents /\ e.job \in Jobs
  BY DEF Excavators
<1>2. CASE e.core # "none"
  BY <1>1, <1>2 DEF ExcavateFrom, FoundCore, Outcome, Outcomes, Signals
<1>3. CASE e.core = "none"
  BY <1>3, FirstOutcomes DEF ExcavateFrom, NewExcavator
<1> QED BY <1>2, <1>3

\* What remains of an outcome is an excavator.
LEMMA AfterType ==
  ASSUME NEW outcome \in Outcomes
  PROVE  After(outcome) \in Excavators
BY DEF After, Outcomes, Excavators

\* What follows is well formed, whoever wrote.
LEMMA LaterOutcomes ==
  ASSUME NEW e \in Excavators, NEW outcome \in Progress(e)
  PROVE  outcome \in Outcomes /\ Sober(outcome) /\ e.job # "none"
<1> e.core \in Contents /\ e.job \in Jobs
  BY DEF Excavators
<1>1. CASE outcome \in DumpArrives(e)
  BY <1>1 DEF DumpArrives, Outcome, Outcomes, Signals, Contents, Jobs, Sober
<1>2. CASE outcome \in DiskFull(e)
  BY <1>2 DEF DiskFull, Outcome, Outcomes, Signals, Contents, Jobs, Sober
<1>3. CASE outcome \in CoredumpctlFinished(e)
  BY <1>3 DEF CoredumpctlFinished, Flushed, Outcome, Outcomes, Signals, Contents, Jobs, Sober, Dug
<1>4. CASE outcome \in HelperReplies(e)
  BY <1>4 DEF HelperReplies, Flushed, Outcome, Outcomes, Signals, Contents, Jobs, Sober, Dug
<1>5. CASE outcome \in HelperFails(e)
  BY <1>5 DEF HelperFails, Outcome, Outcomes, Signals, Contents, Jobs, Sober
<1> QED BY <1>1, <1>2, <1>3, <1>4, <1>5 DEF Progress

-----------------------------------------------------------------------------
(* The invariant. *)

\* As long as the viewer is there, what runs and what is shown is the patient's.
PageInv ==
    /\ viewer = "up" => loader \in {None, patient}
    /\ shown \in {None, patient}

\* Unpacked means dug to the end.
CoreInv ==
    /\ \A p \in unpacked : excavator[p] # None /\ excavator[p].core \in Dug /\ excavator[p].job = "none"
    /\ debugged \subseteq {"original"} \cup Dug

ViewerInv == TypeOK /\ PageInv /\ CoreInv
-----------------------------------------------------------------------------
(* The page. *)

\* The loader's process and the patient go together, or the viewer is gone.
LEMMA PageStep ==
  ASSUME ViewerInv, NEW p, AtLogEnd \/ LoaderFinished \/ (p \in Patients /\ (NewDump(p) \/ SetPatient(p)))
  PROVE  ViewerInv'
<1>1. TypeOK'
  <2>1. CASE p \in Patients /\ NewDump(p)
    BY <2>1 DEF ViewerInv, TypeOK, NewDump, LoadKDEFaultContext, crashVars, pageVars, debugVars,
       reportVars, drkonqiVars
  <2>2. CASE AtLogEnd
    BY <2>2 DEF ViewerInv, TypeOK, AtLogEnd, crashVars, pageVars, debugVars, reportVars,
       drkonqiVars
  <2>3. CASE p \in Patients /\ SetPatient(p)
    BY <2>3 DEF ViewerInv, TypeOK, SetPatient, Load, crashVars, pageVars, debugVars, reportVars,
       drkonqiVars
  <2>4. CASE LoaderFinished
    BY <2>4 DEF ViewerInv, TypeOK, LoaderFinished, crashVars, pageVars, debugVars, reportVars,
       drkonqiVars
  <2> QED BY <2>1, <2>2, <2>3, <2>4
<1>2. PageInv'
  BY DEF ViewerInv, PageInv, NewDump, AtLogEnd, SetPatient, Load, LoaderFinished, Responds,
     crashVars, pageVars, debugVars, reportVars, drkonqiVars
<1>3. CoreInv'
  BY DEF ViewerInv, CoreInv, NewDump, AtLogEnd, SetPatient, LoaderFinished, crashVars, pageVars,
     debugVars, reportVars, drkonqiVars
<1> QED BY <1>1, <1>2, <1>3 DEF ViewerInv

-----------------------------------------------------------------------------
(* Debugging. *)

\* A patient whose core is not unpacked hears of its excavator.
LEMMA HearsStep ==
  ASSUME ViewerInv, NEW p \in Patients \ unpacked, NEW outcome \in Outcomes, Sober(outcome),
         Hears(p, outcome), UNCHANGED <<viewer, crashVars, pageVars, reportVars, drkonqiVars>>
  PROVE  ViewerInv'
<1>1. After(outcome) \in Excavators
  BY AfterType
<1>2. /\ excavator \in [Patients -> {None} \cup Excavators]
      /\ excavator' = [excavator EXCEPT ![p] = IF outcome.said = "failed" THEN None ELSE After(outcome)]
  BY DEF ViewerInv, TypeOK, Hears
<1>3. excavator' \in [Patients -> {None} \cup Excavators]
  BY <1>1, <1>2
<1>4. /\ unpacked' \subseteq unpacked \cup {p} /\ unpacked \subseteq unpacked'
      /\ debugged' \subseteq debugged \cup {"original"} \cup Dug
      /\ p \in unpacked' => outcome.said = "excavated"
  BY DEF Hears, Sober, Given
<1>5. TypeOK'
  BY <1>3, <1>4 DEF ViewerInv, TypeOK, Contents, Dug, crashVars, pageVars, reportVars, drkonqiVars
<1>6. PageInv'
  BY DEF ViewerInv, PageInv, pageVars
<1>7. CoreInv'
  <2>1. ASSUME NEW q \in unpacked'
        PROVE  excavator'[q] # None /\ excavator'[q].core \in Dug /\ excavator'[q].job = "none"
    <3>1. CASE q = p
      BY <1>1, <1>2, <1>4, <2>1, <3>1, PatientsAssumption DEF Sober, After
    <3>2. CASE q # p
      <4>1. q \in unpacked /\ excavator'[q] = excavator[q]
        BY <1>2, <1>4, <2>1, <3>2 DEF ViewerInv, TypeOK
      <4> QED BY <4>1 DEF ViewerInv, CoreInv
    <3> QED BY <3>1, <3>2
  <2> QED BY <1>4, <2>1 DEF ViewerInv, CoreInv
<1> QED BY <1>5, <1>6, <1>7 DEF ViewerInv

\* The first request digs; a later one gives what is there.
LEMMA DebugStep ==
  ASSUME ViewerInv, Debug
  PROVE  ViewerInv'
<1>1. patient \in Patients /\ source[patient] \in {"readable", "unreadable", "missing"}
  BY DEF ViewerInv, TypeOK, Debug
<1>2. UNCHANGED <<viewer, crashVars, pageVars, reportVars, drkonqiVars>>
  BY DEF Debug
<1>3. CASE DebugFirst(patient)
  <2>1. patient \notin unpacked
    BY <1>3 DEF ViewerInv, CoreInv, DebugFirst
  <2>2. PICK outcome \in ExcavateFrom(NewExcavator, source[patient]) : Hears(patient, outcome)
    BY <1>3 DEF DebugFirst
  <2>3. outcome \in Outcomes /\ Sober(outcome)
    BY <1>1, FirstOutcomes
  <2> QED BY <1>1, <1>2, <2>1, <2>2, <2>3, HearsStep
<1>4. CASE DebugAgain(patient)
  <2>1. /\ UNCHANGED <<excavator, unpacked>>
        /\ debugged' \subseteq debugged \cup {"original"} \cup Dug
    BY <1>4 DEF ViewerInv, CoreInv, DebugAgain, Given
  <2>2. TypeOK'
    BY <1>2, <2>1 DEF ViewerInv, TypeOK, Contents, Dug, crashVars, pageVars, reportVars, drkonqiVars
  <2> QED BY <1>2, <2>1, <2>2 DEF ViewerInv, PageInv, CoreInv, pageVars
<1> QED BY <1>3, <1>4 DEF Debug

\* An excavator at work is not that of an unpacked core.
LEMMA ProgressStep ==
  ASSUME ViewerInv, NEW p \in Patients, ExcavatorProgress(p)
  PROVE  ViewerInv'
<1>1. PICK outcome \in Progress(excavator[p]) : Hears(p, outcome)
  BY DEF ExcavatorProgress
<1>2. excavator[p] \in Excavators
  BY DEF ExcavatorProgress, ViewerInv, TypeOK
<1>3. outcome \in Outcomes /\ Sober(outcome) /\ excavator[p].job # "none"
  BY <1>2, LaterOutcomes
<1>4. p \notin unpacked
  BY <1>3 DEF ViewerInv, CoreInv
<1> QED BY <1>1, <1>3, <1>4, HearsStep DEF ExcavatorProgress

-----------------------------------------------------------------------------
(* Reports, and the drkonqi that makes them. *)

\* Files and reports change; page and cores do not.
LEMMA ReportStep ==
  ASSUME ViewerInv, NEW p,
         Report \/ (p \in Patients /\ (Vacuum(p) \/ Dirty(p) \/ ReportedElsewhere(p)))
  PROVE  ViewerInv'
<1>1. CASE Report
  <2>1. patient \in Patients /\ (Entity(patient) = "KDE" => patient \in KDEPatients)
    BY <1>1 DEF ViewerInv, TypeOK, Report, ReportToKDE, MarkAsReported, Offer, Entity
  <2>2. CASE ReportToKDE
    <3>1. drkonqi' \in KDEPatients /\ watched' \subseteq Patients /\ offered' = FALSE
      BY <2>1, <2>2 DEF ViewerInv, TypeOK, ReportToKDE, Offer
    <3> QED BY <2>2, <3>1 DEF ViewerInv, TypeOK, PageInv, CoreInv, ReportToKDE, crashVars,
               pageVars,
          debugVars
  <2>3. CASE MarkAsReported
    <3>1. reported' \subseteq Patients /\ offered' = FALSE
      BY <2>1, <2>3 DEF ViewerInv, TypeOK, MarkAsReported, Offer
    <3> QED BY <2>3, <3>1 DEF ViewerInv, TypeOK, PageInv, CoreInv, MarkAsReported,
               crashVars, pageVars,
          debugVars, drkonqiVars
  <2> QED BY <1>1, <2>2, <2>3 DEF Report
<1>2. CASE p \in Patients /\ Vacuum(p)
  BY <1>2 DEF ViewerInv, TypeOK, PageInv, CoreInv, Vacuum, crashVars, pageVars, debugVars,
     reportVars, drkonqiVars
<1>3. CASE p \in Patients /\ Dirty(p)
  BY <1>3 DEF ViewerInv, TypeOK, PageInv, CoreInv, Dirty, LoadKDEFaultContext, crashVars,
     pageVars,
     debugVars, reportVars, drkonqiVars
<1>4. CASE p \in Patients /\ ReportedElsewhere(p)
  BY <1>4 DEF ViewerInv, TypeOK, PageInv, CoreInv, ReportedElsewhere, crashVars, pageVars,
     debugVars,
     reportVars, drkonqiVars
<1> QED BY <1>1, <1>2, <1>3, <1>4

\* Nor do they for its digger.
LEMMA DrkonqiStep ==
  ASSUME ViewerInv, Prepare \/ DiggerProgress \/ CrashEventSent \/ DrkonqiEnds
  PROVE  ViewerInv'
<1>1. NewExcavator \in Excavators
  BY DEF NewExcavator, Excavators, Contents, Jobs
<1>2. digger' \in Excavators /\ prepared' \subseteq Contents \cup {"original"}
  <2>1. CASE Prepare
    <3>1. drkonqi \in Patients
      BY <2>1, PatientsAssumption DEF ViewerInv, TypeOK, Prepare
    <3>2. PICK outcome \in ExcavateFrom(digger, source[drkonqi]) :
                 /\ digger' = After(outcome)
                 /\ prepared' = IF outcome.said = "excavated" THEN prepared \cup {outcome.core} ELSE prepared
      BY <2>1 DEF Prepare
    <3>3. outcome \in Outcomes
      BY <3>1, AgainOutcomes DEF ViewerInv, TypeOK
    <3> QED BY <3>2, <3>3, AfterType DEF ViewerInv, TypeOK, Outcomes
  <2>2. CASE DiggerProgress
    <3>1. PICK outcome \in Progress(digger) :
                 /\ digger' = After(outcome)
                 /\ prepared' = IF outcome.said = "excavated" THEN prepared \cup {outcome.core} ELSE prepared
      BY <2>2 DEF DiggerProgress
    <3>2. outcome \in Outcomes
      BY LaterOutcomes DEF ViewerInv, TypeOK
    <3> QED BY <3>1, <3>2, AfterType DEF ViewerInv, TypeOK, Outcomes
  <2>3. CASE CrashEventSent \/ DrkonqiEnds
    BY <1>1, <2>3 DEF ViewerInv, TypeOK, CrashEventSent, DrkonqiEnds, drkonqiVars
  <2> QED BY <2>1, <2>2, <2>3
<1>3. prepares' \in 0..MaxPrepares
  BY PatientsAssumption DEF ViewerInv, TypeOK, Prepare, DiggerProgress, CrashEventSent,
     DrkonqiEnds,
     drkonqiVars
<1>4. drkonqi' \in KDEPatients \cup {None} /\ metadata' \subseteq KDEPatients
  BY DEF ViewerInv, TypeOK, Prepare, DiggerProgress, CrashEventSent, DrkonqiEnds, crashVars,
     drkonqiVars
<1>5. UNCHANGED <<viewer, unit, source, pageVars, debugVars, reportVars>>
  BY DEF Prepare, DiggerProgress, CrashEventSent, DrkonqiEnds, crashVars
<1>6. TypeOK'
  BY <1>2, <1>3, <1>4, <1>5 DEF ViewerInv, TypeOK, pageVars, debugVars, reportVars
<1>7. PageInv' /\ CoreInv'
  BY <1>5 DEF ViewerInv, PageInv, CoreInv, pageVars, debugVars
<1> QED BY <1>6, <1>7 DEF ViewerInv

-----------------------------------------------------------------------------
(* The theorems. *)

\* The viewer starts with an empty table.
LEMMA ViewerInitOK == Init => ViewerInv
<1> SUFFICES ASSUME Init PROVE ViewerInv
  OBVIOUS
<1>1. NewExcavator \in Excavators
  BY DEF NewExcavator, Excavators, Contents, Jobs
<1>2. excavator \in [Patients -> {None} \cup Excavators] /\ prepares \in 0..MaxPrepares
  BY PatientsAssumption DEF Init
<1>3. {listed, unpacked, reported, watched} \subseteq SUBSET Patients
  BY DEF Init
<1>4. {patient, loader, shown} \subseteq Patients \cup {None}
  BY DEF Init
<1>5. TypeOK
  BY <1>1, <1>2, <1>3, <1>4 DEF Init, TypeOK
<1>6. PageInv /\ CoreInv
  BY DEF Init, PageInv, CoreInv
<1> QED BY <1>5, <1>6 DEF ViewerInv

\* Every step keeps the invariant.
LEMMA ViewerInvStep == ViewerInv /\ [Next]_vars => ViewerInv'
<1> SUFFICES ASSUME ViewerInv, [Next]_vars PROVE ViewerInv'
  OBVIOUS
<1>1. ASSUME NEW p \in Patients, NewDump(p) \/ SetPatient(p) \/ ExcavatorProgress(p) PROVE ViewerInv'
  BY <1>1, PageStep, ProgressStep
<1>2. ASSUME NEW p \in Patients, Vacuum(p) \/ Dirty(p) \/ ReportedElsewhere(p) PROVE ViewerInv'
  BY <1>2, ReportStep
<1>3. CASE AtLogEnd \/ LoaderFinished \/ Report
  BY <1>3, PageStep, ReportStep
<1>4. CASE Debug
  BY <1>4, DebugStep
<1>5. CASE Prepare \/ DiggerProgress \/ CrashEventSent \/ DrkonqiEnds
  BY <1>5, DrkonqiStep
<1>6. CASE UNCHANGED vars
  BY <1>6 DEF vars, crashVars, pageVars, debugVars, reportVars, drkonqiVars, ViewerInv, TypeOK,
     PageInv,
     CoreInv
<1> QED BY <1>1, <1>2, <1>3, <1>4, <1>5, <1>6 DEF Next

\* Types, in every behaviour.
THEOREM ViewerTypesHold == Spec => []TypeOK
<1>1. ViewerInv => TypeOK
  BY DEF ViewerInv
<1> QED BY <1>1, ViewerInitOK, ViewerInvStep, PTL DEF Spec

\* The page never shows the details of another patient: the one chance there was to ends
\* the viewer.
THEOREM DetailsAreRight == Spec => []DetailsAreOfPatient
<1>1. ViewerInv => DetailsAreOfPatient
  BY DEF ViewerInv, PageInv, DetailsAreOfPatient
<1> QED BY <1>1, ViewerInitOK, ViewerInvStep, PTL DEF Spec

\* Debuggers started from the viewer get the original or a core that was dug to its end,
\* of which no more than the last flush can lose is missing.
THEOREM NoStumps == Spec => []NoStumpIsDebugged
<1>1. ViewerInv => NoStumpIsDebugged
  BY DEF ViewerInv, CoreInv, NoStumpIsDebugged, Dug
<1> QED BY <1>1, ViewerInitOK, ViewerInvStep, PTL DEF Spec
=============================================================================
