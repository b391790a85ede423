-------------------------- MODULE CoredumpPipeline --------------------------
(***************************************************************************)
(* From a core dump to drkonqi or a notification.  systemd-coredump writes *)
(* the core and a journal entry.  A processor instance is started for each *)
(* dump and waits for its entry; at login one more, the pickup, goes over  *)
(* the user's whole journal for dumps nobody has handled.  Both hand what  *)
(* they find to the launcher's socket, and systemd starts a launcher for   *)
(* every connection, which runs drkonqi or shows a notification.           *)
(*                                                                         *)
(* Two files tell launchers about each other: the metadata KCrash wrote in *)
(* the crashing process, and drkonqi's own metadata, made from it, whose   *)
(* existence says that the dump was picked up.                             *)
(***************************************************************************)
EXTENDS Integers, Sequences, FiniteSets, SequencesExt

CONSTANTS
    Dumps,          \* the core dumps of one user
    KCrashDumps,    \* those of processes with KCrash, which writes metadata
    KWinDumps,      \* those of KWin: metadata is made up for them
    IncludeAll,     \* Settings::includeAll: made up for all the others, too
    Batch,          \* maximumInBatch entries of the journal are read at a time
    MaxConnections, \* of the launcher's socket
    MaxLogins       \* bound: sessions the user may have

ASSUME DumpsAssumption == KCrashDumps \subseteq Dumps /\ KWinDumps \subseteq Dumps
ASSUME IncludeAllAssumption == IncludeAll \in BOOLEAN
ASSUME LimitsAssumption == Batch \in Nat \ {0} /\ MaxConnections \in Nat /\ MaxLogins \in Nat

VARIABLES
    logins,     \* sessions so far
    session,    \* the graphical session is up: launchers need it
    journal,    \* entries of systemd-coredump, oldest first
    cores,      \* dumps whose core file is there
    kcrash,     \* dumps whose KCrash metadata file is there
    meta,       \* what drkonqi's metadata file of a dump holds, or "none"
    processor,  \* dumps whose processor waits for their entry
    pickup,     \* "no", "settling", "reading", "quitting", "waiting" or "over"
    cursor,     \* how many entries of the journal the pickup has read
    launcher,   \* for dump and sender: "none", or where the launcher is
    started,    \* history: how often drkonqi was started for a dump
    notified,   \* history: how often a notification was shown
    crashed,    \* history: dumps that have happened
    picked,     \* history: dumps the pickup has handed over
    raced,      \* history: dumps two launchers had at the same time
    turnedAway, \* history: dumps for which there was no connection left
    unwritten,  \* history: dumps whose metadata drkonqi's launcher could not write
    cleaned     \* history: dumps whose KCrash metadata were removed as too old

Senders == {"processor", "pickup"}
files == <<cores, kcrash, meta>>
history == <<started, notified, crashed, picked, raced, turnedAway, unwritten, cleaned>>
vars == <<logins, session, journal, files, processor, pickup, cursor, launcher, history>>

Idle == [sender \in Senders |-> "none"]

Init ==
    /\ logins = 0
    /\ session = FALSE
    /\ journal = <<>>
    /\ cores = {}
    /\ kcrash = {}
    /\ meta = [d \in Dumps |-> "none"]
    /\ processor = {}
    /\ pickup = "no"
    /\ cursor = 0
    /\ launcher = [d \in Dumps |-> Idle]
    /\ started = [d \in Dumps |-> 0]
    /\ notified = [d \in Dumps |-> 0]
    /\ crashed = {}
    /\ picked = {}
    /\ raced = {}
    /\ turnedAway = {}
    /\ unwritten = {}
    /\ cleaned = {}

-----------------------------------------------------------------------------
(* The system: sessions, crashes, and files that grow old. *)

\* The session's targets start the pickup.
Login ==
    /\ ~session
    /\ logins < MaxLogins
    /\ logins' = logins + 1
    /\ session' = TRUE
    /\ pickup' = "settling"
    /\ cursor' = 0
    /\ UNCHANGED <<journal, files, processor, launcher, history>>

\* PartOf=graphical-session.target: pickup and launchers, with the drkonqis they wait for,
\* are killed where they are.
Logout ==
    /\ session
    /\ session' = FALSE
    /\ pickup' = "no"
    /\ launcher' = [d \in Dumps |-> Idle]
    /\ UNCHANGED <<logins, journal, files, processor, cursor, history>>

\* KCrash writes its metadata and dies; with systemd-coredump@ the processor is started.
Crash(d) ==
    /\ d \notin crashed
    /\ crashed' = crashed \union {d}
    /\ kcrash' = kcrash \union ({d} \intersect KCrashDumps)
    /\ processor' = processor \union {d}
    /\ UNCHANGED <<logins, session, journal, cores, meta, pickup, cursor, launcher,
                   started, notified, picked, raced, turnedAway, unwritten, cleaned>>

\* systemd-coredump is done; whether it has kept the core is its own business.
Dumped(d) ==
    /\ d \in crashed \ ToSet(journal)
    /\ journal' = Append(journal, d)
    /\ \E kept \in BOOLEAN : cores' = IF kept THEN cores \union {d} ELSE cores
    /\ UNCHANGED <<logins, session, kcrash, meta, processor, pickup, cursor, launcher, history>>

\* Nothing touches the dump for days: tmpfiles takes the core away.
Busy(d) == d \in processor \/ launcher[d] # Idle
CoreVacuumed(d) ==
    /\ d \in cores /\ ~Busy(d)
    /\ cores' = cores \ {d}
    /\ UNCHANGED <<logins, session, journal, kcrash, meta, processor, pickup, cursor,
                   launcher, history>>

\* drkonqi-coredump-cleanup takes KCrash's file away after a week.
Cleanup(d) ==
    /\ d \in kcrash /\ d \in ToSet(journal) /\ ~Busy(d)
    /\ kcrash' = kcrash \ {d}
    /\ cleaned' = cleaned \union {d}
    /\ UNCHANGED <<logins, session, journal, cores, meta, processor, pickup, cursor, launcher,
                   started, notified, crashed, picked, raced, turnedAway, unwritten>>

-----------------------------------------------------------------------------
(* Handing over: a connection to the socket is a launcher. *)

Connections == Cardinality({c \in Dumps \X Senders : launcher[c[1]][c[2]] # "none"})

Free == IF session THEN MaxConnections - Connections ELSE 0

\* The dumps of these entries that a sender gets rid of, going through them in order, while
\* there are connections left.
Taken(entries) ==
    {journal[i] : i \in {e \in entries : Cardinality({x \in entries : x < e}) < Free}}

HandOver(entries, sender) ==
    /\ launcher' = [d \in Dumps |->
           IF d \in Taken(entries) THEN [launcher[d] EXCEPT ![sender] = "read"] ELSE launcher[d]]
    /\ raced' = raced \union {d \in Taken(entries) : launcher[d] # Idle}
    /\ turnedAway' = turnedAway \union ({journal[i] : i \in entries} \ Taken(entries))

EntriesOf(d) == {i \in 1 .. Len(journal) : journal[i] = d}

\* Mutant: the processor passes over dumps without a core as the pickup does.
ProcessorFinds_FaultNeedsCore(d) ==
    /\ d \in processor /\ EntriesOf(d) # {}
    /\ processor' = processor \ {d}
    /\ HandOver({i \in EntriesOf(d) : d \in cores}, "processor")
    /\ UNCHANGED <<logins, session, journal, files, pickup, cursor, started, notified, crashed,
                   picked, unwritten, cleaned>>

\* newDump in the processor: one dump, then it is finished, whoever was there to take it.
ProcessorFinds(d) ==
    /\ d \in processor /\ EntriesOf(d) # {}
    /\ processor' = processor \ {d}
    /\ HandOver(EntriesOf(d), "processor")
    /\ UNCHANGED <<logins, session, journal, files, pickup, cursor, started, notified, crashed,
                   picked, unwritten, cleaned>>

\* RuntimeMaxSec: the entry did not come in time.
ProcessorTimesOut(d) ==
    /\ d \in processor \ ToSet(journal)
    /\ processor' = processor \ {d}
    /\ UNCHANGED <<logins, session, journal, files, pickup, cursor, launcher, history>>

\* --settle-first
PickupSettles ==
    /\ pickup = "settling"
    /\ pickup' = "reading"
    /\ UNCHANGED <<logins, session, journal, files, processor, cursor, launcher, history>>

\* Mutant: finished() quits without being queued.
AfterBatch_FaultAtOnce(end, handed) ==
    IF handed THEN "over" ELSE IF end < Len(journal) THEN "reading" ELSE "waiting"

\* Where the pickup is after a batch up to this entry.  The finished() of a dump handed over
\* is queued before the call for the next batch, and the event loop it ends still delivers
\* what has been queued by then: one more batch, and no further.
AfterBatch(end, handed) ==
    IF end < Len(journal) /\ pickup # "quitting"
    THEN IF handed THEN "quitting" ELSE "reading"
    ELSE IF handed \/ pickup = "quitting" THEN "over" ELSE "waiting"

BatchEnd == IF cursor + Batch < Len(journal) THEN cursor + Batch ELSE Len(journal)

\* newDump in the pickup passes over dumps whose core is gone.
Found == {i \in cursor + 1 .. BatchEnd : journal[i] \in cores}

\* processLog(): one batch.  Handing over to a socket that has no connection left may go
\* unnoticed, or quits, which before exec() has no effect.
ProcessLog ==
    /\ pickup \in {"reading", "quitting"} \/ (pickup = "waiting" /\ cursor < Len(journal))
    /\ cursor' = BatchEnd
    /\ HandOver(Found, "pickup")
    /\ IF Found = {} \/ Free > 0
       THEN pickup' = AfterBatch(BatchEnd, Found # {})
       ELSE pickup' \in {"over"} \union {AfterBatch(BatchEnd, handed) : handed \in BOOLEAN}
    /\ picked' = picked \union {journal[i] : i \in Found}
    /\ UNCHANGED <<logins, session, journal, files, processor, started, notified, crashed,
                   unwritten, cleaned>>

\* RuntimeMaxSec: nothing to pick up was found for half an hour.
PickupTimesOut ==
    /\ pickup = "waiting"
    /\ pickup' = "over"
    /\ UNCHANGED <<logins, session, journal, files, processor, cursor, launcher, history>>

-----------------------------------------------------------------------------
(* The launcher: onNewDump(). *)

At(d, s, pc) == launcher[d][s] = pc
Goes(d, s, pc) == launcher' = [launcher EXCEPT ![d][s] = pc]

\* Mutant: the launcher does not look whether the dump was picked up.
IsPickedUp_FaultNever(d) == FALSE
IsPickedUp(d) == meta[d] # "none"

\* Handled previously; the scope guard removes KCrash's file.  Else on to making metadata.
Read(d, s) ==
    /\ At(d, s, "read")
    /\ IF IsPickedUp(d)
       THEN Goes(d, s, "none") /\ kcrash' = kcrash \ {d}
       ELSE Goes(d, s, "write") /\ UNCHANGED kcrash
    /\ UNCHANGED <<logins, session, journal, cores, meta, processor, pickup, cursor, history>>

\* kcrashToDrKonqiMetadata(), synthesizeKCrashInto(), synthesizeGenericInto()
MetadataOf(d) ==
    IF d \in kcrash THEN "kcrash"
    ELSE IF d \in KWinDumps \/ IncludeAll THEN "synthesized" ELSE "bare"

\* Mutant: KCrash's file is removed before drkonqi's is written.
Write_FaultRemovesFirst(d, s) ==
    /\ At(d, s, "write")
    /\ kcrash' = kcrash \ {d}
    /\ meta' = [meta EXCEPT ![d] = "bare"]
    /\ Goes(d, s, "notify")
    /\ UNCHANGED <<logins, session, journal, cores, processor, pickup, cursor, started, notified,
                   crashed, picked, raced, turnedAway, unwritten, cleaned>>

\* The metadata, written, mark the dump as picked up whatever follows.  When the file cannot
\* be opened it stays as it was, and when the disk is full it is left empty; the launcher
\* goes on as if it were there.
WriteToDisk(d) ==
    \/ meta' = [meta EXCEPT ![d] = MetadataOf(d)] /\ UNCHANGED unwritten
    \/ meta' \in {meta, [meta EXCEPT ![d] = "none"]} /\ unwritten' = unwritten \union {d}

\* Write the metadata and start drkonqi if there is a core and somebody has told something
\* about the crash.  The launcher blocks while drkonqi runs, and keeps KCrash's file
\* meanwhile.
Write(d, s) ==
    /\ At(d, s, "write")
    /\ WriteToDisk(d)
    /\ IF MetadataOf(d) # "bare" /\ d \in cores
       THEN /\ started' = [started EXCEPT ![d] = @ + 1]
            /\ Goes(d, s, "drkonqi")
            /\ UNCHANGED kcrash
       ELSE /\ Goes(d, s, "notify")
            /\ kcrash' = kcrash \ {d}
            /\ UNCHANGED started
    /\ UNCHANGED <<logins, session, journal, cores, processor, pickup, cursor, notified, crashed,
                   picked, raced, turnedAway, cleaned>>

\* The notifier truck, which leaves pickups alone, and stays until the notification closes.
Notify(d, s) ==
    /\ At(d, s, "notify")
    /\ IF s = "pickup"
       THEN Goes(d, s, "none") /\ UNCHANGED notified
       ELSE Goes(d, s, "notified") /\ notified' = [notified EXCEPT ![d] = @ + 1]
    /\ UNCHANGED <<logins, session, journal, files, processor, pickup, cursor, started, crashed,
                   picked, raced, turnedAway, unwritten, cleaned>>

\* drkonqi has ended; now KCrash's file goes.
DrKonqiEnds(d, s) ==
    /\ At(d, s, "drkonqi")
    /\ Goes(d, s, "none")
    /\ kcrash' = kcrash \ {d}
    /\ UNCHANGED <<logins, session, journal, cores, meta, processor, pickup, cursor, history>>

NotificationCloses(d, s) ==
    /\ At(d, s, "notified")
    /\ Goes(d, s, "none")
    /\ UNCHANGED <<logins, session, journal, files, processor, pickup, cursor, history>>

-----------------------------------------------------------------------------
Launcher(d, s) == Read(d, s) \/ Write(d, s) \/ Notify(d, s)

Next ==
    \/ Login \/ Logout \/ PickupSettles \/ ProcessLog \/ PickupTimesOut
    \/ \E d \in Dumps :
        \/ Crash(d) \/ Dumped(d) \/ CoreVacuumed(d) \/ Cleanup(d)
        \/ ProcessorFinds(d) \/ ProcessorTimesOut(d)
        \/ \E s \in Senders : Launcher(d, s) \/ DrKonqiEnds(d, s) \/ NotificationCloses(d, s)

Spec == Init /\ [][Next]_vars

\* Processes run.  Nobody need crash, log in or out, close a drkonqi or a notification.
Fairness ==
    /\ WF_vars(PickupSettles)
    /\ WF_vars(ProcessLog)
    /\ \A d \in Dumps :
        /\ WF_vars(ProcessorFinds(d))
        /\ \A s \in Senders : WF_vars(Launcher(d, s))

FairSpec == Spec /\ Fairness

-----------------------------------------------------------------------------
(* Properties. *)

\* Types: files, processes and the journal of the pipeline are well formed, launchers and
\* the pickup run only in a session, and journal and files speak of dumps that happened.
TypeOK ==
    /\ logins \in 0 .. MaxLogins
    /\ session \in BOOLEAN
    /\ journal \in Seq(crashed)
    /\ kcrash \subseteq KCrashDumps \intersect crashed
    /\ {cores, processor, crashed, picked, raced, turnedAway, unwritten, cleaned} \subseteq SUBSET Dumps
    /\ meta \in [Dumps -> {"none", "kcrash", "synthesized", "bare"}]
    /\ pickup \in {"no", "settling", "reading", "quitting", "waiting", "over"}
    /\ cursor \in 0 .. Len(journal)
    /\ launcher \in [Dumps -> [Senders -> {"none", "read", "write", "drkonqi", "notify", "notified"}]]
    /\ ~session => pickup = "no" /\ launcher = [d \in Dumps |-> Idle]
    /\ started \in [Dumps -> Nat]
    /\ notified \in [Dumps -> Nat]

\* One crash, one user interface: over all sessions, processors and pickups a dump gets one
\* drkonqi or one notification, unless two launchers had it at the same time or its metadata
\* could not be written.  Between isPickedUp() and writeToDisk() nothing keeps a second
\* launcher out.
HandledOnce == \A d \in Dumps \ (raced \union unwritten) : started[d] + notified[d] <= 1

\* What KCrash has told about a crash is in its file or in drkonqi's, whenever launchers,
\* drkonqis and the pickup are killed, and until it is too old.  A write that fails loses it:
\* KCrash's file is removed all the same.
InfoIsKept ==
    \A d \in (KCrashDumps \intersect crashed) \ (raced \union unwritten \union cleaned) :
        d \in kcrash \/ meta[d] = "kcrash"

\* The pickup shows nothing for a crash it cannot tell to be unhandled: no drkonqi for one
\* whose core is missing, and never a notification.
PickupIsDiscreet ==
    [][\A d \in Dumps :
         /\ started'[d] > started[d] => d \in cores
         /\ notified'[d] > notified[d] => At(d, "processor", "notify")]_vars

\* A crash in a session is announced: when the entry of a dump is in the journal and its
\* processor runs, drkonqi or a notification follows, unless the user logs out, the socket
\* has no connection left, or the pickup has come first.
CrashIsAnnounced ==
    \A d \in Dumps :
        (session /\ d \in processor /\ d \in ToSet(journal)) ~>
            (started[d] + notified[d] > 0 \/ ~session \/ d \in turnedAway \union picked)

\* What lies within two batches is picked up: a core that is there when the pickup starts,
\* and that nobody has handled, is handed over, or a launcher of its own has written its metadata
\* or failed to, before the session ends.
PickupIsComplete ==
    \A d \in Dumps :
        (/\ pickup = "settling" /\ d \in cores /\ meta[d] = "none"
         /\ \E i \in 1 .. 2 * Batch : i <= Len(journal) /\ journal[i] = d) ~>
            (d \in picked \/ meta[d] # "none" \/ d \in unwritten \/ d \notin cores \/ ~session)
=============================================================================
