# DrKonqi in TLA+

DrKonqi is KDE's crash handler. A process of KDE's crashes; either its own
signal handler (KCrash) starts `drkonqi` on the still living process, or the
kernel dumps core, systemd-coredump journals it, and a chain of small services
finds the journal entry and starts `drkonqi` on the core. `drkonqi` runs a
debugger, shows and rates the backtrace, and reports the crash to Bugzilla or
Sentry. These modules describe the parts of it in which the order of events
decides whether a crash is reported once, at all, or to the wrong place.

Paths below are relative to the repository's `src/` directory.

## 1. Inventory

| Component | Source | State it keeps | Talks to |
|---|---|---|---|
| Backtrace generator, debugger manager | `backtracegenerator.*`, `debuggermanager.*` | `m_state`, `m_proc`, `m_lockFile`, `m_lockWatcher`, `m_output`, the manager's `debuggerRunning` | backend (signals `preparing`, `preparedForDebugger`, `failedToPrepare`), fence (`loaded`), debugger process (QProcess signals), other drkonqis (`debugger.lock`), parser (`starting`, `newLine`) |
| Memory fence | `systemd/memoryfence.*` | unit path, size | systemd over D-Bus, always asynchronous |
| Memory pressure | `systemd/memorypressure.*` | level; a thread polling PSI | generator (`level()`, `monitoring(pid)`), by queued signals |
| Backends | `drkonqibackends.*`, `coredumpbackend.*` | KCrash: state of the crashed process; coredump: core file, excavator | generator through the manager |
| Core excavators | `coredump/dumpexcavator`, `coredump/polkit` | core directory, helper process | `coredumpctl`, a polkit helper over D-Bus |
| Backtrace parser | `parser/` | lines, frames, rating | generator (`newLine`), report interface |
| Report interface, Sentry postbox | `bugzillaintegration/reportinterface.*`, `sentry/lib` | what is to be sent, DSNs, delivered flag | generator's verdict, Bugzilla, the file system's outbox, `main.cpp`'s quitting |
| Sentry postman | `sentry/postman` | reports on disk | outbox directory, Sentry over HTTP |
| Bugzilla client, product mapping | `bugzillaintegration/` (`bugzillalib`, `productmapping`, `libbugzilla`) | login, product, version | Bugzilla's REST interface |
| Coredump pipeline | `coredump/processor`, `coredump/launcher`, `coredump/cleanup`, `core/metadata.*`, systemd units | journal cursor, `kcrash-metadata` files, the pickup marker | journald, `drkonqi-coredump-launcher` socket, drkonqi or a notification |
| Status notifier | `statusnotifier*` | icon, timers, watchers of the notifier host and the notification service | D-Bus services coming and going, idleness |
| Crashed application | `crashedapplication.*` | restarted flag | KIO jobs |
| Coredump viewer | `coredump/gui` | table of patients, one details loader | `coredumpctl`, journald |
| Main program | `main.cpp`, `drkonqidialog.*`, `qml/` | which pages are open | everything above |
| Data collectors | `systeminformation.*`, `sentry/data`, `data/gdb_preamble`, `linuxprocmapsparser.*` | collected strings | report interface |

What is hard in it:

* **Signals that come late.** The generator is put together from asynchronous
  answers (backend, lock thread, fence, debugger) that do not say which request
  they answer. Each could meet a generator in a different state from the one
  that asked.
* **Processes that are given up on.** `deleteLater()` leaves a QProcess and its
  connections in place until control returns to the event loop; for lldb and
  after a read error the debugger itself is alive as well.
* **Several drkonqis.** `debugger.lock` serialises debuggers of different
  drkonqis, with a time out after which they run in parallel.
* **Two reporters, one exit.** Sentry events are assembled from a trace, a DSN
  fetched over the network and the user's consent, in any order, while the
  window may already be closed.
* **Crashes of the crash handler.** The postman, the processor and the launcher
  are restarted; what is on disk must neither be lost nor sent for ever.
* **Hosts that vanish.** The tray's host and the notification service may
  disappear (they may be what crashed), and nobody is there to click.

Per component, what makes it correct:

* Generator: at most one debugger; one verdict for every start, from that run's
  output; the lock is held by a run and by nothing else; quitting cleans up.
* Memory pressure: only a debugger of ours is killed, and for a reason.
* Backends: a stopped process is continued; it is killed only for what is left.
* Excavators: "excavated" means there is a whole core.
* Parser: the rating depends on one trace, and on all of it.
* Report interface: one event for a crash, sent if and only if the user agreed;
  the program stays until it is delivered.
* Postman: every report in the outbox is delivered at least once, a sent one is
  not kept, an undeliverable one is not tried for ever.
* Coredump pipeline: every core that is to be handled is handed to one user
  interface; pickup handles what was missed and nothing twice.
* Status notifier: the icon ends in the dialog or is closed; never neither.

## 2. Plan

In the order of importance, which was the order of writing.

| # | Module | Models | Abstract specification | Theorems | Status |
|---|---|---|---|---|---|
| 1 | `BacktraceGenerator` | generator, manager, fence, lock, pressure level | `TraceRequest` | types, safety, implementation of `TraceRequest` | done |
| 2 | `CrashReporting`, `CrashedApplication` | report interface, postbox, windows, quitting; what may be reported | none: its promises are the named properties | types, all its safety properties | done |
| 3 | `CoredumpPipeline` | processor, pickup, launchers, trucks, cleanup, systemd's limits | none | types, all its safety properties | done |
| 4 | `SentryPostman` | files of the outbox, both units, crash and restart, the server's answers | `Outbox` | types, safety, the safety part of `Outbox` | done |
| 5 | `StatusNotifier` | icon, bubble, two timers, two services, idleness, restart | none: how it ends is `AnnouncementEnds` | types, the count of missing services, safety | done |
| 6 | `KCrashBackend` on `MemoryGuard` | stopped and running process, debugger's signals, fence, pressure thread | none | types, safety, the fence's arithmetic | done |
| 7 | `CoredumpViewer` on `Excavation` | viewer, drkonqi's coredump backend, excavators and their helper | none | types, safety | done |
| 8 | `BugSubmission` on `ProductMapping` | pages, login, product, report, attachment | none | types, safety | done |
| 9 | `BacktraceParser` | merging, filtering, rating and caching of lines | reference definitions `ToShow`, `ToRate`, `VerdictOn` | both properties: what is shown and rated, the verdict | done |
| - | `DebuggerLock` | several drkonqis on `debugger.lock` | mutual exclusion until the time out | | not written, see section 6 |

Each module takes its environment as CONSTANTS with named assumptions, has one
action per handler and no RECURSIVE operator, so that it can be proved about.
Theorems are in `<Module>_proofs`, those of `KCrashBackend` and `CoredumpViewer` together
in `Backends_proofs`. How the modules meet: where one component
starts or ends what is another module's subject, the first has one step for it
(`StatusNotifier` opens a dialog, `CoredumpViewer` has a drkonqi that prepares
its core and sends an event, `CoredumpPipeline` has a drkonqi that ends), and the
property of the second is what that step relies on. `KCrashBackend` extends
`MemoryGuard`, because a debugger's start and death are steps of both;
`CoredumpViewer` extends `Excavation` and `BugSubmission` extends
`ProductMapping` for their operators.

## 3. What is modelled

### BacktraceGenerator

One drkonqi process: `backtracegenerator.cpp` and `debuggermanager.cpp`. A
handler runs to completion on the main thread, so every slot and lambda is one
action, with everything it calls:

| Action | Code |
|---|---|
| `Start` | `start()` with the backend's synchronous answer: no usable debugger (`StartWithoutDebugger`), core at hand (`StartPrepared`, also KCrash), no core to be had (`StartUnprepared`), core being extracted (`StartPreparing`) |
| `SetBackendPrepared`, `SetBackendFailedToPrepare` | the slots of these names, called for the extraction's end |
| `LockAndStart` (in `Start` and `SetBackendPrepared`) | the four branches of `setBackendPrepared()` |
| `LockThreadReturns`, `LockWatcherFinished` | the thread in `tryLock(5 to 15 min)`, the queued `finished()` of its watcher |
| `FenceLoaded` | `startProcessInternal()` with `memoryConstrainProc()` |
| `Started`, `SlotReadInput`, `LldbDetached`, `SlotProcessExited`, `FailedToStart`, `ReadError` | the four connections to m_proc, by what makes them fire |
| `PressureRaised`, `PressureDelivered` | a queued `underPressure` of the pressure thread |
| `ForeignLock` | another drkonqi takes or leaves `debugger.lock` |
| `Quit` | `~DebuggerManager`, `~BacktraceGenerator` |

State: `m_proc` and `m_temp` are set and reset together and are one variable,
`proc`; debuggers are numbered as they are made (`spawned`). `live` are those
not known to have ended, `doomed` those among them whose QProcess awaits its
deferred deletion. Output is a set of debugger numbers: whose bytes are in
`m_output` (`residue`), in the parser (`lines`) and in `m_parsedBacktrace`
(`trace`).

Assumptions, and why the code justifies them:

* Assertions do nothing (release build).
* Deferred deletions are handled before the user's next click (`doomed = {}` in
  `MayStart` and `Quit`): they are posted events, a click comes from the window
  system after them. A QProcess that is deleted kills its program and reports
  it; the report may still be handled before (`SlotProcessExited(p, FALSE)`).
* What is behind lldb's "Process ... detached" is left in `m_output` or was not read
  with it (`ReadToDetached`).
* A process discarded after a read error does not exit cleanly before it is
  deleted.
* `Sizes` is what the fence can come to on the machine at hand, `WholeLines`
  says that the debugger's output always ends in a newline. Both are properties
  of the surroundings: runs and theorems say which they need.
* After quitting, the thread in `tryLock()` uses a deleted QLockFile. The
  program is ending and nothing is said about it.

Fairness: the backend, the lock thread (it has a time out), the event loop and
D-Bus (calls time out) answer. That a debugger ends is assumed of the debugger:
the code sets no limit to its run.

`TraceRequest` is the promise to the user interface: idle, working with at most
one debugger, good or bad. `KeepsPromise` is its implementation, liveness
included: `phase` is read off `m_state`, `debuggers` counts the live debuggers
that are not doomed.

### CrashReporting

`ReportInterface`, its `SentryPostbox`, and what `main.cpp` does with windows,
notifier and `aboutToQuit()`; one drkonqi process. All of it runs on the main
thread, so a handler is an action again:

| Action | Code |
|---|---|
| `Construct`, `DispatchDialog`, `DispatchNotifier` | `main()`: the interface's constructor with its `trySentry()`, then dialog or status notifier |
| `GeneratorDone`, `GeneratorFails` | the generator's verdict; `prepareEventPayload()` for each connection to `done` |
| `DsnLoaded` | `SentryPostbox::onDSNsLoaded()` |
| `SendAutomaticReport`, `LeavePage`, `CreateCrashMessage`, `Finish`, `ToggleSetting`, `SettingSettled`, `Restart` | the pages, the setting and `m_sentryStartTimer` |
| `SendBugReport`, `BugReportSent`, `BugReportFails` | `sendBugReport()` and the answer of Bugzilla, once for each connection made so far |
| `AboutToQuit` (in `CloseWindow`, `IconExpires`, `BubbleCloses`, ...) | the lambda in `main()` that waits for the report |
| `FallbackTimeout`, `Interrupted` | its five minutes; SIGINT |

`box` is the postbox: how many events and comments the envelope has, whether a
DSN is in it, `delivered`, and the file in the outbox. `Add` is
`addEventPayload()` or `addUserFeedback()` in the order of the code: the items,
the signal `hasDeliveredChanged` (which the interface passes on as
`crashEventSent`, on which drkonqi may quit), then `maybePickUpPostbox()`.
Quitting only ends the event loop, so the handler still completes.

Three mishaps are recorded rather than forbidden, and properties name the ones
they except: `box.late` (the DSNs came after sending was asked for),
`box.missed` (the file could not be opened) and `hasty` (a message written in an
open window while `aboutToQuit()` waits).

What is known of the crashed application decides which of this is offered and
done. `CrashedApplication` computes it as the code does, in two places that do
not agree: the interface's `isCrashEventSendingEnabled()` (`IsEligible`: no
replaced file among the mapped ones, bugs go to bugs.kde.org) and Main.qml's
conditions for its buttons (`CanReport`, `CanAutoReport`). `Reportability`, the
combinations that this can come to, is all the rest asks.

Left out: the long report's attachment (see `BugSubmission`), the content of
events. A file that cannot be opened is one outcome
of a delivery; each delivery chooses anew.

Fairness: the generator gives its verdict (which `VerdictReached` checks in
`BacktraceGenerator`), the network request for the DSNs ends one way or the
other, a timer that runs fires. The user need do nothing, and the fallback
timer is not used to make `WaitingEnds` true.

### CoredumpPipeline

One user's dumps on one machine, over several sessions. Each process is a value
of a variable, and its steps interleave with everything else:

| Action | Code |
|---|---|
| `Login`, `Logout` | the pickup's unit is started with the session; `PartOf=graphical-session.target` kills pickup, launchers and the drkonqis they wait for |
| `Crash`, `Dumped`, `CoreVacuumed` | external: KCrash writes its file, systemd-coredump its core and journal entry, tmpfiles removes old cores |
| `Cleanup` | `coredump/cleanup`: KCrash files older than a week |
| `ProcessorFinds`, `ProcessorTimesOut` | `newDump` in `coredump/processor/main.cpp` for one instance, `RuntimeMaxSec=5 minutes` |
| `PickupSettles`, `ProcessLog`, `PickupTimesOut` | `--settle-first`, `CoredumpWatcher::processLog()` with `--pickup`, `RuntimeMaxSec=30 minutes` |
| `HandOver` | the connection to the launcher's socket: up to `MaxConnections` launchers, the rest is turned away |
| `Read`, `Write` | `tryDrkonqi()`: up to `isPickedUp()`, and from there; nothing but time is between them |
| `Notify`, `NotificationCloses`, `DrKonqiEnds` | the notifier trucks, the end of `QProcess::execute()` with the scope guard that removes KCrash's file |

`kcrash` holds the dumps whose KCrash file exists, `meta` what drkonqi's own
file was made from; `"bare"` is metadata without a `kcrash` object, which marks
the dump as picked up and starts no drkonqi. Writing drkonqi's file may fail
(`WriteToDisk`): the launcher does not notice, goes on and removes KCrash's file. Such dumps
are recorded in `unwritten`, as those two launchers had are in `raced`, and the properties
claim nothing of them. `AfterBatch` is the one subtle
piece: `finished()` is connected queued to `quit()`, and `processLog()`
reschedules itself queued. `quit()` comes first; ending an event loop does not
stop it from delivering what was posted before that round, so exactly one more
batch is read.

Assumptions: cores and KCrash files are removed only while no process has the
dump in hand (both take days); `KDE_DEBUG` is not set, drkonqi is installed and both reporting and
notifications are compiled in. What the processor hands over while there is no
session goes nowhere.

Fairness: processors, pickup and launchers, once able to run, do. Nobody need
log in, log out, or close a drkonqi or a notification.

Two comments in the code speak of a former design and are not followed by the
model: the launcher says that drkonqi is started in a slice of its own and
that its unit limits its run (`coredump/launcher/main.cpp`:202), but it is
started by `QProcess::execute()` in the launcher's unit, which has no
limit. Hence the socket's `MaxConnections=16` counts running drkonqis, which
the socket's unit says too.

### SentryPostman

The outbox directory, which every drkonqi writes to, and the postman, which two
systemd units start. Writers, units, postman and server interleave freely, and
the postman can be killed between any two of its steps:

| Action | Code |
|---|---|
| `Deliver`, `WriteSome`, `WriteEnds`, `WriteBreaks` | `SentryPostbox::deliver()`: the file is opened, gets its first line, the rest, or drkonqi dies |
| `Settle`, `GrowOld` | the file becomes older than `flushTime` (8 s), than 30 days |
| `PathExists`, `HalfAnHourPasses` | the path unit with `TriggerLimitBurst`, which fails for good when it is exceeded |
| `Login` | the next session: the postman of the last one is ended, the path unit is started anew, the timer unit only if its `ConditionPathExistsGlob` finds a report just then |
| `TimerElapses`, `Killed` | the hourly timer, if it was started; `RuntimeMaxSec` or a crash of the postman |
| `Post`, `Wake`, `LookedAtAll` | `SentryPostman::run()` over its directory listing: read and post, sleep for young files, go on to the event loop |
| `ServerTakes`, `ServerRefuses` | external: the server's answer, or its loss |
| `Finished`, `Quits` | the reply's handler, which renames the file or fails to without noticing, and `maybeQuit` |

A file is `"empty"`, `"headed"` (the line that names the DSN is there) or
`"whole"`. `received`, `mangled` and `unsure` are history.

`Outbox` is the promise, and `DeliversOrOutlives` that it is kept, with
liveness: a complete report stays until the server has it or it is a month old,
and then it goes. A refused report is kept and tried again, as the code does. Within
one session nothing may do so: with an empty outbox at login the timer is not
started, and the path unit gives up after its burst. So the promise is that some
session delivers, not that the hourly timer does.

Fairness: the user logs in again some day, a timer that was started elapses, writers
end, time passes, and a postman that runs goes on until it has ended or is ended. Strong fairness of `Visit` says that it
is not killed at the same file for ever. The path unit, which may have failed,
and the server owe nothing.

Bounds: two reports, so that one can be posted, killed or slept for between two
steps of the other; a burst of two, the least that the path unit can exceed
after having worked; two receipts, which is what a duplicate needs.

### StatusNotifier

The icon, the notification, and how they end. Time is in ticks, and the two
timers are counters of ticks left:

| Action | Code |
|---|---|
| `Activate`, `AddDetails`, `Hide`, `BubbleCloses` | slots of the icon and the notification in `statusnotifier.cpp` |
| `ServiceChanges`, `BusSignal` | a D-Bus service goes or returns, and the signal of it arrives (`statusnotifier_activationclosetimer.cpp`) |
| `Tick`, `AutoActivate`, `AutoClose` | the timers |
| `UserLeaves`, `StillAway`, `UserReturns` | KIdleTime, with `catchNextResumeEvent()` |
| `RestartApplication`, `RestartResult` | `CrashedApplication::restart()` and its job |

`start()` asks the bus whether each service is there and watches it at the same
time, so one change may be counted twice: `raced` marks that, and
`ClosesOnlySeenIcon` excepts it. `Stranded` names the states that nothing leaves by itself;
they can all be reached (see "Seen while modelling"), and `AnnouncementEnds`
says that they are the only ones.

Fairness: timers, bus, and a notification closes some day. The user owes nothing.

Bounds: two services, as in the code; an activation time of one tick and a close
time of three, which keeps the order of 10 s and 1 min and leaves a tick
between them for something to happen; three changes, which take both services
away and bring one back; two restarts.

### KCrashBackend and MemoryGuard

drkonqi in the crashed process itself, which is stopped unless a debugger works
on it, `--keeprunning` is given or it is being left:

| Action | Code |
|---|---|
| `FindDebugger`, `InitCrashes`, `InitFails`, `InitKeepRunning`, `InitStopLater` | `KCrashBackend::init()` and the debugger it comes to |
| `StopTimer`, `OnDebuggerStarting`, `OnDebuggerFinished` | the slots that stop and continue the process; `m_state` is what the backend believes |
| `Start`, `StartProcess`, `FenceReply`, `DebuggerStarted`, `DebuggerEnded`, `PressureKills` | a debugger's round, as far as the backend, the fence and the monitor see it |
| `ProcessEnds` | external: the crashed process dies under drkonqi |
| `Leave`, `DestroyBackend`, `EmergencySave` | `exec()` returns (also for SIGINT), the destructor, KCrash's function for drkonqi's own crash |
| `KilledFromOutside` | SIGTERM, SIGKILL or the OOM killer, at any moment: nothing of drkonqi's runs any more |

`NotLeftStopped` is about a drkonqi that ends by itself. One that is killed leaves a
process it has stopped as it is; all the property says of it is that a process under
a debugger was not stopped.

`MemoryGuard` has the fence's three D-Bus calls in a row with all their
failures (`GetUnitByPIDReturns`, `GetAllReturns`, `SetPropertiesReturns`), the
limit it sets in unsigned arithmetic modulo `Word` (`SizeFor`,
`MemoryAvailable`), and the pressure monitor: its thread, the pids posted to it
and the signals queued from it (`Run`, `Monitoring`, `Pids`, `OnPressure`,
`UnderPressure`, `ExitEventLoop`).

Bounds: a GiB is 2, so that halves, zero and "just over one GiB" exist; a word is 128;
memory in use and free memory are the values around every comparison, and
`Word - 1`, which systemd says when it does not account. Two rounds, so
that what the first leaves meets the second.

### CoredumpViewer and Excavation

The viewer of past crashes, and the drkonqi on the coredump backend that it
starts for a report on KDE software:

| Action | Code |
|---|---|
| `NewDump`, `AtLogEnd`, `SetPatient`, `LoaderFinished` | the watcher's signals, the page's patient, `DetailsLoader` and its `coredumpctl info` |
| `Debug` (`DebugFirst`, `DebugAgain`), `ExcavatorProgress` | `Patient::debug()` and the answers of its excavator |
| `Report`, `Dirty`, `ReportedElsewhere` | the page's action, the watch on the metadata file, which follows an empty optional when that cannot be read |
| `Prepare`, `DiggerProgress`, `CrashEventSent`, `DrkonqiEnds` | `CoredumpBackend::prepareForDebugger()`, its excavator, its note that the crash is reported |
| `Vacuum` | external: an old core is removed |

`Excavation` is both ways to unpack a core, `coredumpctl` and the polkit helper,
as sets of outcomes: what is in the file "core", who writes it, and which signal
is emitted. When `coredumpctl` did well, what `write()` has buffered is flushed and nobody
looks at the result (`Flushed`), so a core that is called whole may be `"cut"`: its last
bytes are missing. `NoStumpIsDebugged` lets that pass and says so. A patient that hears of a failure discards its excavator and so the
directory; the backend keeps its own, and that is why `NoStumpIsDebugged` is about
the viewer (`prepared` is what the backend gave its debuggers; it may be a stump).

Bounds: two patients, one of them KDE's, so that one can be left for the other
while something runs for it; two preparations, a failed one and the next. Systemd units,
core files and metadata are all combinations.

### BugSubmission and ProductMapping

A bug report on its way to Bugzilla: the pages, the client's jobs and the server's
bugs. Every request is a job of its own; answers come in any order, or are lost
after the server did what it was asked (`LosesAnswers`).

| Action | Code |
|---|---|
| `DescribeCrash`, `LookupVersionAnswered`, `RetryLookup` | the awareness page's gate, Bugzilla's version |
| `ProductInfoFetched`, `ProductInfoError` | `BugzillaManager`'s product, `checkProductInfo()`, the fall back to the product "kde" |
| `TryLogin`, `LoginFinished`, `LoginError` | login and token |
| `OpenSendingPage`, `RetrySubmission`, `ReportFiled`, `SendReportError` | `SendingPage.qml`, `sendBugReport()`, which connects anew each time |
| `AttachToReportSent`, `AttachToReportError` | the trace as an attachment, once for every connection |

`ProductMapping` has the operators for product, component and version. Their
versions are four: the application's own, that without its last zero, the
default and the name somebody gave the default.

Fairness: each request is answered, unless Bugzilla falls silent (`Silence`): the client
sets no time limit (`libbugzilla/apijob.cpp`:64-104), so `SendingEnds` excepts that. Bounds: two attempts, so that
handlers and answers of one meet the other's.

### BacktraceParser

The parser as a machine over kinds of lines: `ResetState`, `GetLine`, `End` are
the generator's signals and `Ask` is anyone who wants the verdict (`calculateRatingData()`
with its cache). The kinds are those the regular expressions tell apart. Next to it stands a
definition that reads the whole output at once: `ToShow` (what is shown),
`ToRate` (which frames count) and `VerdictOn` (the weighted mean), written from
the intent of `backtraceparsergdb.cpp` and `backtraceparser.cpp`, not from their
loops: by ranks, sets and sums, without a fold. `ShowsTheCrash` and
`VerdictIsOfTheTrace` compare the two for every sequence of lines. The code sums
the rating in `uint`s, which the model takes modulo `Word` (2^32). They cannot wrap in
practice: it would take 46341 counted frames, and gdb is told to stop at 128 of a thread
(`debugger.cpp`:46, 73). `VerdictIsOfTheTrace` says that they must not.

Bounds: all sequences of up to five of 13 kinds, enough for a thread, a handler, a frame in two
lines and a repeated frame; one question in the middle; a simplified trace
of two frames, so that it can be full; a `Word` of 64, above the 60 that five counted frames
can come to, so that, as in the program, nothing wraps and every verdict is compared.

## 4. Runs

The programs end or wait for a user who owes them nothing, so the runs allow
deadlock, except for the parser, which can always be reset.

| Run | Checks | Shows |
|---|---|---|
| `gdb` | invariants of `BacktraceGenerator`, `LoadedIsFinal`, `KeepsPromise` | the generator is right with gdb on a roomy machine |
| `lldb` | `VerdictReached` | detaching early and output without newline cost no verdict |
| `report` | invariants of `CrashReporting`, `FileOnlyGrows`, `WaitingEnds` | reporting is right unless one of the three mishaps happens |
| `pipeline` | `HandledOnce`, `InfoIsKept`, `CrashIsAnnounced`, `PickupIsComplete` | a crash is handled once, announced, and what KCrash said of it is kept, but for dumps that were raced or unwritten |
| `postman` | `NoHalfRead`, `DuplicatesAreExcused`, `DeliversOrOutlives` | no report is read half written, lost, sent twice without a reason or, over sessions, kept for ever |
| `notifier` | `ClosesOnlySeenIcon`, `RestartsOnce`, `AnnouncementEnds` | an icon nobody saw does not time out; the announcement ends unless stranded |
| `kcrash` | `StoppedWhileIdle`, `NotLeftStopped`, `FenceLeavesRoom` | the crashed process is stopped and continued as it must, up to drkonqi's own end unless it is killed; the fence's limit is above the use |
| `viewer` | `DetailsAreOfPatient`, `NoStumpIsDebugged` | details are the right patient's; no debugger gets a core that is being unpacked or failed to |
| `bugs` | `SentIsComplete`, `FiledWhereItBelongs`, `SendingEnds` | a report shown as sent is complete and in its place; sending ends unless Bugzilla is silent |
| `bugs_twice` | `FiledOnce`, violated | without a single lost answer, a report is filed twice |
| `parser` | `ShowsTheCrash`, `VerdictIsOfTheTrace` | line by line comes to the same as all at once |
| `parser_lldb` | `LldbIsTrusted`, violated | every trace of lldb's is rated useless |

Bounds of the generator's runs: three starts are a run, its retry and a retry
after that, so that what one run leaves behind can meet the next and the next
again; one queued pressure signal, as handling two is the same as handling one;
`gdb` has the sizes of a fence with room, because Retry of the limited-memory message
does start a second debugger. Bounds of `report`: two traces (a run
and a reload), two changes of the setting (off and on again), two messages and
two bug reports (one failing, then one sent, so that handlers are doubled).
Bounds of `pipeline`: two dumps, one with and one without KCrash metadata, so
that both kinds of launcher meet; two sessions, so that the second pickup sees
what the first one, or a logout, left; a batch of one entry instead of 128, so
that two dumps are two batches; two connections instead of 16, fewer than the four
launchers that could be wanted. The other runs' bounds are given with their modules. What
a theorem says is free of the bounds.

A definition named `X_Fault...` is `X` with one seeded fault. No specification
uses it; `PROJECT.json` says which property must notice it when it takes the
place of `X`.

### Findings

* `bugs_twice`: SendingPage.qml:96-97 says that everything is disconnected first so
  that there are no duplicated submissions. Nothing is disconnected; a retry
  while the first attempt is under way, or after a failed attachment, files a second bug.
* `parser_lldb`: backtraceparserlldb.cpp:21-23 will have faith that lldb's output
  is useful, but the first line invalidates what the constructor set, and a rating
  over no lines yields Useless.

### Seen while modelling

Behaviour of the code that is in the models where it is named with one, that no
document contradicts, and that the properties except by name or are not about.

Generator, reporting, pipeline:

* Retry of the limited-memory message starts a second debugger while one is Loading
  (`qml/DeveloperPage.qml`:104, `backtracegenerator.cpp`:117); theorems assume
  `NotCramped`. A killed lldb's late `finished()` turns Loaded into Failed
  (`backtracegenerator.cpp`:160). An unfinished last line enters the next
  run's trace (:147), as does what lldb writes after detaching, though :158 says that it
  doesn't interest us; the theorem about the trace assumes `WholeLines` and gdb.
* The postman's hourly timer is not started when the outbox is empty at login
  (`drkonqi-sentry-postman.timer`:6), and after four quick attempts the path unit fails:
  until the next login nothing is sent then.
* When the launcher cannot write drkonqi's metadata (`launcher/main.cpp`:144-148), KCrash's
  file goes all the same: a drkonqi killed after that has lost what KCrash said, and a later
  pickup takes the dump for a new one.
* `aboutToQuit()` quits on a signal that is emitted when an event or a comment is
  added. If the DSNs are late nothing is written (`main.cpp`:63, `sentrypostbox.cpp`:25);
  a message from the Sentry page while drkonqi waits for its trace ends it without the
  event (`sentrypostbox.cpp`:54). The same signal marks the crash as reported
  before anything was written (`coredumpbackend.cpp`:167), after which the viewer says
  "Already reported".
* A reload that fails after an event was collected loses it on closing
  (`main.cpp`:55). Turning the setting off, writing a message, turning it on and pressing
  Finish quits unsent (`SentryPage.qml`:122). DSNs that could not be fetched and are not
  cached count as loaded, and the event names no project.
* An application with a bug address that is not KDE's is offered "Send Automatic
  Report"; nothing is sent, and the page shows "Crash Report Sent". A bug report
  uploads the Sentry event of a crash that is not eligible. Of drkonqi's own
  crash a text says that automatic reporting is disabled, while `canAutoReport` is
  true (Main.qml:31-34).
* The pickup quits one batch after the first dump it handed over
  (`processor/main.cpp`:147); processor and pickup can start two drkonqis for
  one crash between `isPickedUp()` and the mark (`launcher/main.cpp`:168-169). A
  pickup that found nothing stays for half an hour and takes new crashes
  of foreign programs from the processor without a notification.

Notifier:

* With both services gone, the return of one stops the activation timer for good
  (`statusnotifier_activationclosetimer.cpp`:52-66). A change while `start()` asks counts twice.
  Being idle at the start does not arm `catchNextResumeEvent()`. The close timer runs on
  after "Add Details", and both timers survive `Hide` and the expiry.
* Without an icon, a notification that closes while the report is being submitted leaves
  drkonqi with nobody to end it (`statusnotifier.cpp`:144).
* A restart that is asked for while a restart's job runs starts the application twice.

KCrash backend and memory:

* The monitor's thread has no Qt event loop, so slots queued to it are never delivered
  (`systemd/memorypressure.cpp`:25-26): a pid it should kill is never known to
  it. The destructor signals the thread even after it has returned.
* A `Debugger` setting that names no known debugger makes `findDebugger()`
  dereference null (`debugger.cpp`:91-101, 163-190) before the emergency save function
  is set, though gdb may be installed.
* A drkonqi that is killed leaves the crashed process stopped: `main.cpp`:139-146 watches
  for SIGINT only.
* With `--keeprunning` and a debugger that fails at once the process stays stopped
  until drkonqi ends (`drkonqibackends.cpp`:94-98). Just over 1 GiB of free memory gets almost no headroom.

Viewer and excavators:

* Changing the patient while `coredumpctl info` runs crashes the viewer on a null
  pointer (`DetailsLoader.cpp`:8-46). A second "Debug" during an extraction gives gdb
  the packed original (`Patient.cpp`:139-142).
* The backend's next attempt takes a partial core for a whole one
  (`automaticcoredumpexcavator.cpp`:48). On a full disk the loop around `write()` does not end,
  and a failed `flush()` is not noticed (`coredumpexcavator.cpp`:28).
  A `coredumpctl` that cannot be started is never reported as failed.
* After one report the action no longer follows `canReport` (`DetailsPage.qml`:56);
  `markAsReported` of a distribution's or a Snap's crash has no path and keeps nothing.

Parser and Bugzilla:

* Lines gdb adds between frames are to be recognised across a newline that `.` does not
  match (`backtraceparsergdb.cpp`:97-109). Asking during a run doubles the simplified
  trace, of which a comment says 5 lines and the code 16. Libraries are collected below
  the stack's base too.
* The ".00" branch skips the check of the default version. N connections make N
  attachments and N² comments. A retry drops the token at once (`bugzillalib.cpp`:155). Requests have no time
  limit, so a silent Bugzilla keeps the sending page waiting (`libbugzilla/apijob.cpp`:64-104).

## 5. What is proved

All with TLAPS, from the assumptions on the constants and those named here. No invariant
below is inductive as it stands; each module's `IInv` is, and has one step per action
(the parser's is called `ParserInv`, the backends' are `KCrashInv` and `ViewerInv`). Every safety
property of the runs that pass is stated by a theorem.

`BacktraceGenerator_proofs`:

* `TypeCorrect`: `Spec => []TypeOK` for every value of the constants. `TypeOK`
  is inductive part by part, in the order of its conjuncts.
* Under `NotCramped` ("Cramped" is not among `Sizes`): `OneDebugger`,
  `FenceIsAwaited`, `LockIsGivenBack`, `ManagerIsRight`, `ProcessIsThere`,
  `QuitIsClean`, `BlameIsFresh`, and with `WholeLines` and gdb also `TraceIsOfOneRun`.
  On a cramped machine Retry of the limited-memory message starts a second debugger,
  an unfinished line goes to the next run, and so does lldb's output after detaching
  (TLC violates `TraceFromOneRun` at once with lldb): none of the assumptions can go.

That no second debugger appears depends on the lock watcher and the fence being
asked once. The inductive invariant
`IInv` says in `StageInv` that Loading is exactly one of four stages
(preparation, waiting for the lock, waiting for the fence, debugging) and that
outside of Loading all of them are over; `DownInv`, `PressureInv` and
`OutputInv` add what lasts beyond a stage. Each part has one lemma over
`[Next]_vars` with one step per action, and rests only on the parts before it.
* `GdbVerdictIsFinal` (`LoadedIsFinal`): with gdb, Loaded stays until the next
  start. Its invariant `LoadedInv` is a part of its own, which lldb, given up on while it
  still runs, does not have.
* `KeepsSafePromise`: with gdb, the generator implements the safety part of `TraceRequest`
  under the mapping of `KeepsPromise`. It needs that the set of debuggers at work has
  at most one element and so a cardinality of 0 or 1 (the lemmas about `Workers`).
* `LoadingIsDriven` (`LoadingIsUnderWay`): while Loading, one of the four stages has
  something under way that will end it. It is the safety half of `VerdictReached`; what
  is left to TLC is that each of the four ends by itself.

`CoredumpPipeline_proofs`:

* `TypeCorrect`, for all constants. Handing over is the one step with content:
  `HandOverTypes` and `TakenHasCrashed` say that what is taken was journalled,
  hence crashed, and that nothing is taken without a session, for the number of
  entries before one is a natural number and `Free` is then 0.
* `OneUserInterface` (`HandledOnce`), `NothingForgotten` (`InfoIsKept`) and
  `DiscreetPickup` (`PickupIsDiscreet`, from the types alone).

`IInv` says of each dump that it leaves no
trace before it happened (`NothingYet`), that one sender at most has a launcher
for it (`OneLauncher`, until `raced` or `unwritten`), that a launcher about to write finds no
metadata and one about to notify has shown nothing yet (`InStep`), that a
launcher beyond writing has written or failed to (`Written`, which is what makes it safe
to remove KCrash's file), and that drkonqi's file has all of KCrash's (`Kept`).
Two lemmas do the work: `Launched` for steps that hand over, `Moved` for a
launcher's own steps; `Untouched` and `Others` are for dumps a step does not concern.


`CrashReporting_proofs`: `TypesHold`, `NothingIsLost`, `SentIsTrue`, `ReadyIsSent`,
`NoTraceTwice`, `ConsentHolds`, `FileNeverShrinks`, `NeverWaitsForNothing`: everything that
the run `report` checks but its liveness. `IInv` adds to the types when the interface is trying
(`StartInv`), what was asked of it and by whom (`AskedInv`), how many events
there can be (`CountInv`), what the page shows (`PageInv`) and how the
file follows the envelope (`BoxInv`). Lemmas about the postbox come first (what
adding and delivering cover, `Covers`, `Honest`, `Prompt`), then one `...OK` for each action.
`NeverWaitsForNothing` is the safety half of `WaitingEnds`. It has an invariant of its
own, `WaitInv`: sending that was tried has its event or is connected to the trace that
will bring it (`Tried`), sending that is enabled and not tried was switched on a moment
ago (`SwitchedOn`), a page is in a window (`PagesHaveWindows`), and a program that waits
without a window has something to send, not there yet (`AwaitedAlone`).

`SentryPostman_proofs`: `TypesHold`, `NothingIsReadHalf`, `DuplicatesHaveAReason`, and
`ImplementsOutbox`, the safety part of `Outbox`. `IInv` is a statement about each
report by itself (`Sound`: what holds while it was not read, is posted, is known to
the postman, was mangled, was received twice) and one about the postman's run; a
step about one report leaves the others' untouched.

`StatusNotifier_proofs`: `TypesHold`, `OnlySeenIconsClose`, `RestartedOnce`,
`NoOtherStranding` (an announcement that has not ended has a timer, a signal or the user's
return ahead of it, unless it is `Stranded`), and
`CountHolds`: with no signal under way and no raced start, the counter of pending activations is
the number of missing services. The counter lags behind, so `Counted` says
that there is a course of counts from it to the true number, one signal
of the bus per step. `Runs` says that the close timer runs with a service missing
only at first, when the activation timer is ahead of it, which needs
`ActivationTimeout < CloseTimeout`. `Services` is any finite set.

`Backends_proofs`, of `KCrashBackend`: `KCrashTypesHold`, `ProcessIsStoppedWhileIdle`,
`ProcessIsNotLeftStopped`, and `FenceAlwaysLeavesRoom`, for sizes whose sum does not
overflow (`NoOverflow`). `KCrashInv` says that the backend's `m_state` is what the process
does (`StateIsTrue`) and follows from the debugger's rounds (`StateFollows`, `Counted`), also
in the last state of a drkonqi that was killed. `ProcessIsNotLeftStopped` is for a drkonqi that
ends by itself or is killed while a debugger works; of one killed at rest there is nothing to prove.

`Backends_proofs`, of `CoredumpViewer`: `ViewerTypesHold`, `DetailsAreRight`, `NoStumps`.
`ViewerInv` has two parts beyond the types. `PageInv`: while
the viewer is up, the loader runs for the page's patient or not at all. `CoreInv`:
what is taken for unpacked is whole or cut in the last flush (`Dug`) and nobody writes it. Lemmas on the outcomes of
`Excavation` come first.

`BugSubmission_proofs`: `TypesHold`, `SentReportsAreComplete`, `BugsAreWhereTheyBelong`,
`SendingIsAwaited` (`SendingIsUnderWay`), and `AttemptsBoundBugs`: there are never more
bugs than attempts. `IInv` says that each
mapping the dialog can have belongs (`ProductInv`), which reports and attachments can
be under way for which page (`PageInv`, `AttachInv`), and that bugs and reports under way
together are no more than the handlers connected (`CountInv`).

`BacktraceParser_proofs`: `ShowsAndRatesTheCrash` (`ShowsTheCrash`) and `VerdictsAreTrue`
(`VerdictIsOfTheTrace`): for output of any kind and length, and questions at any time,
reading line by line comes to what the whole output says. The argument in its order:

* Ranks. The reference definitions take the lines they keep by rank (`Nth`,
  `Selected`). `RankIsOneToOne` to `SelectFirst` say that selecting from one line more is
  selecting, with that line at the end if it is kept (`SelectMore`), or with all from some
  point on dropped (`SelectFirst`).
* Threads. A line continues the thread of the line before or begins one (`OneMoreThread`),
  and `parseLine()`'s flags are what the reference definition says of the current
  thread: `Follows`, which every line keeps (`ParseLineFollows`).
* `newLine()` is one line behind, for the next one may belong to it: what was parsed is all
  but the last of the lines put together (`AllButTheLast`, `TheFirstLine`, `TheNextLine`).
* The rating. `RatingFrom` is a recursive function; that it exists is shown from its
  finite approximations (`LoopComesTo`, `LoopIsRecursive`). `Rates` is the loop's
  invariant: the points so far, modulo `Word`, and the best possible ones, are the sums over the
  frames so far. Induction over data is out of reach as a rule with an operator for parameter;
  here it is by the greatest index at which something holds (`Greatest`), from the
  finiteness of the output.

`ParserInv` joins these for gdb's parser: `Follows` for what was parsed, `Behind` for the line
still in the buffer, and a verdict in the cache is that of the trace as it is.

Only model-checked:

* liveness (`VerdictReached`, the fairness of `TraceRequest` and `Outbox`, `WaitingEnds`,
  `CrashIsAnnounced`, `PickupIsComplete`, `AnnouncementEnds`, `SendingEnds`), as the
  prover does not reason about ENABLED. Of four of them the safety half is proved,
  that nothing is ever waited for that is not under way: `LoadingIsUnderWay`, `WaitsForSomething`,
  `AnnouncementIsDriven`, `SendingIsUnderWay`.

Three properties are theorems and in no run: `AnnouncementIsDriven` and `SendingIsUnderWay`,
which the liveness properties of their runs imply for the instances checked (with nothing
under way no fair action is enabled), and `PickupIsDiscreet`, one step's promise. For the same
reason `gdb` does not list `VerdictReached`: the fairness of `TraceRequest` in `KeepsPromise`
implies it.

What the parser's simplified trace and list of libraries contain is modelled but no
property is about it.

## 6. What is not modelled

* Several drkonqis on `debugger.lock`: `BacktraceGenerator` has the lock taken and left by
  another drkonqi at any time (`ForeignLock`), with the time out after which both
  run; two generators side by side would be mutual exclusion by QLockFile, which is
  not part of this code.
* The journal's matching by instance and boot, the splitting of a payload into
  segments, other users' dumps; the buttons of the notifier trucks.
* What `coredumpbackend.cpp` reads from logs (57-139) and its guess that a crash was
  an ANR (300-374): data for the report, read once. Its check for the same crash within
  60 s is one-sided (:367).
* Saving, copying and terminals of the viewer; roles, icons and texts of its table.
* The parts of the Bugzilla client nothing calls: comments, updates, searches,
  `sendUsingDefaultProduct()`, `attachBacktraceWithReport()`, `isWorthReporting()`.
* `DetachedProcessMonitor`, which nothing uses.
* The collection of system information, the gdb preamble's Python, the names in
  `/proc` maps, credential storage, platform and reproducibility lists, page layout.
  They compute or display something from one input, keep no state that another part
  depends on, and fail only by themselves.

Of the modelled parts, what is left out is named with each module above.
