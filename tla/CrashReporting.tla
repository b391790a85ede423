--------------------------- MODULE CrashReporting ---------------------------
(***************************************************************************)
(* How drkonqi hands a crash event to Sentry and decides that it may quit: *)
(* ReportInterface, the SentryPostbox it owns, the list of DSNs the        *)
(* postbox waits for, the windows and notifications of main.cpp, and       *)
(* aboutToQuit().  The backtrace generator is seen through its states and  *)
(* its done signal only (BacktraceGenerator models it), the postman, which *)
(* uploads the file the postbox writes, is another process.                *)
(*                                                                         *)
(* Every hasDeliveredChanged of the postbox is a crashEventSent of the     *)
(* interface once it is trying, and three parties listen to that signal:   *)
(* the backend marks the crash's metadata, the page shows "Sent", and      *)
(* aboutToQuit()'s connection quits.                                       *)
(***************************************************************************)
EXTENDS Integers, CrashedApplication

CONSTANTS
    MaxTraces,       \* bound: how often the generator may succeed
    MaxToggles,      \* bound: how often the setting is changed on the Sentry page
    MaxMessages,     \* bound: messages written on the Sentry page
    MaxAttempts      \* bound: bug reports sent, the failed ones included

ASSUME BoundsAssumption ==
    {MaxTraces, MaxToggles, MaxMessages, MaxAttempts} \subseteq Nat /\ MaxTraces > 0

VARIABLES
    crash,          \* what may be reported of the crashed application
    stage,          \* main(): "construct", "dispatch", then "run" in exec()
    setting,        \* Settings::sentry
    forced,         \* m_forceSentry
    agreed,         \* history: the user has agreed to a crash report, once
    toggles,        \* how often the setting was changed
    hasty,          \* history: a message was sent while aboutToQuit() waited
    settling,       \* m_sentryStartTimer runs
    trying,         \* m_tryingSentry, and with it the connection to crashEventSent
    follow,         \* connections from the generator's done to prepareEventPayload
    sendWhenReady,  \* m_sendWhenReady
    gen,            \* the generator's state
    traces,         \* how often it was done
    box,            \* the postbox: envelope, delivered, and the file in the outbox
    marked,         \* sentryEventId is in the metadata of the crash
    sending,        \* SendingPage: "no", "busy", "error" or "sent"
    handlers,       \* connections to reportSent
    window,         \* open dialogs: "none", "main", or "sentry" for a Sentry page alone
    page,           \* "none", what the SentryPage shows of crashEventSent, or "bug"
    icon,           \* status icon: "none", "shown" or "hidden"
    bubble,         \* notification: "none", or what it offers
    closing,        \* aboutToQuit() waits for the report
    app             \* "up", or why it ended: "done", "failed", "stopped"

program == <<crash, stage>>
user == <<setting, forced, agreed, toggles, hasty>>
report == <<sending, handlers>>
notifier == <<icon, bubble>>
vars == <<program, user, settling, trying, follow, sendWhenReady, gen, traces,
          box, marked, report, window, page, notifier, closing, app>>

-----------------------------------------------------------------------------
(* The postbox. *)

\* The envelope's items, and whether it knows where to go.
Envelopes == [events : Nat, comments : Nat, dsn : BOOLEAN]
NoFile == [events |-> 0, comments |-> 0, dsn |-> FALSE]
Envelope(b) == [events |-> b.events, comments |-> b.comments, dsn |-> b.dsn]

\* missed and late are history: a file could not be opened; the list of DSNs came later
\* than an event or a delivery.
NewPostbox ==
    [events |-> 0, comments |-> 0, dsn |-> FALSE, delivered |-> FALSE, file |-> NoFile,
     missed |-> FALSE, late |-> FALSE]

\* Mutant: delivering empties the envelope.
Deliver_FaultEmpties(b, ok) ==
    [b EXCEPT !.delivered = TRUE, !.events = 0, !.comments = 0,
              !.file = IF ok THEN Envelope(b) ELSE @, !.missed = @ \/ ~ok]

\* deliver() counts as delivered whether or not the file could be opened.
Deliver(b, ok) ==
    [b EXCEPT !.delivered = TRUE, !.file = IF ok THEN Envelope(b) ELSE @,
              !.missed = @ \/ ~ok, !.late = @ \/ ~b.dsn]

\* Mutant: user feedback alone is worth sending.
IsReadyToDeliver_FaultFeedback(b) == b.dsn /\ b.events + b.comments > 0

\* An envelope of user feedback alone counts as empty.
IsReadyToDeliver(b) == b.dsn /\ b.events > 0

MaybePickUpPostbox(b, ready, ok) ==
    IF ready /\ ~b.delivered /\ IsReadyToDeliver(b) THEN Deliver(b, ok) ELSE b

AddItems(b, events, comments) ==
    [b EXCEPT !.events = @ + events, !.comments = @ + comments, !.delivered = FALSE,
              !.late = @ \/ (events > 0 /\ ~b.dsn)]

-----------------------------------------------------------------------------
(* ReportInterface. *)

\* Mutant: nobody asks the user.
IsCrashEventSendingEnabled_FaultUnasked == crash.eligible

IsCrashEventSendingEnabled == (setting \/ forced) /\ crash.eligible
HasCrashEventSent == ~IsCrashEventSendingEnabled \/ box.delivered

\* What the Sentry page reads when it is created or told by crashEventSent.
Shown == IF HasCrashEventSent THEN "sent" ELSE "collecting"

\* crashEventSent, as connected while tryingNow, reaches those who listen.
CrashEventSent(tryingNow, closingNow) ==
    /\ marked' = (marked \/ tryingNow)
    /\ app' = IF tryingNow /\ closingNow THEN "done" ELSE app

\* Mutant: nobody looks whether the postbox can be picked up now.
Add_FaultNoPickUp(events, comments, tryingNow) ==
    /\ box' = AddItems(box, events, comments)
    /\ CrashEventSent(tryingNow, closing)

\* addEventPayload() or addUserFeedback(), then maybePickUpPostbox().
Add(events, comments, tryingNow) ==
    /\ \E ok \in BOOLEAN :
           box' = MaybePickUpPostbox(AddItems(box, events, comments), sendWhenReady, ok)
    /\ CrashEventSent(tryingNow, closing)

\* start() of a generator that is not loading; it may fail at once.
StartGenerator ==
    /\ gen' \in {"Loading", "Failed"}
    /\ app' = IF gen' = "Failed" /\ closing THEN "failed" ELSE app

PrepareCrashEvent(tryingNow) ==
    \/ /\ gen = "Loaded"
       /\ Add(1, 0, tryingNow)
       /\ UNCHANGED <<gen, follow>>
    \/ /\ gen # "Loaded"
       /\ follow' = 1
       /\ IF gen = "Loading" THEN UNCHANGED <<gen, app>> ELSE StartGenerator
       /\ UNCHANGED <<box, marked>>

\* Mutant: it tries again whenever it is asked to.
TrySentry_FaultAgain ==
    IF IsCrashEventSendingEnabled'
    THEN trying' = TRUE /\ PrepareCrashEvent(TRUE)
    ELSE UNCHANGED <<trying, follow, gen, box, marked, app>>

\* trySentry(), after setting and forced have their new values.
TrySentry ==
    IF IsCrashEventSendingEnabled' /\ ~trying
    THEN trying' = TRUE /\ PrepareCrashEvent(TRUE)
    ELSE UNCHANGED <<trying, follow, gen, box, marked, app>>

\* The page follows crashEventSent when it exists and the signal is connected.
OnSentryPage == page \in {"collecting", "sent"}
RefreshPage == page' = IF OnSentryPage /\ trying' /\ box' # box THEN Shown' ELSE page

Init ==
    /\ crash \in Reportability
    /\ stage = "construct"
    /\ setting \in BOOLEAN
    /\ forced = FALSE
    /\ agreed = setting
    /\ toggles = 0
    /\ hasty = FALSE
    /\ settling = FALSE
    /\ trying = FALSE
    /\ follow = 0
    /\ sendWhenReady = FALSE
    /\ gen = "NotLoaded"
    /\ traces = 0
    /\ box = NewPostbox
    /\ marked = FALSE
    /\ sending = "no"
    /\ handlers = 0
    /\ window = "none"
    /\ page = "none"
    /\ icon = "none"
    /\ bubble = "none"
    /\ closing = FALSE
    /\ app = "up"

\* The first ReportInterface::self(), made by the backend's init().
Construct ==
    /\ stage = "construct"
    /\ stage' = "dispatch"
    /\ UNCHANGED <<crash, user>>
    /\ TrySentry
    /\ UNCHANGED <<settling, sendWhenReady, traces, report, window, page, notifier, closing>>

\* MainPage, which every dialog creates, starts a generator nobody has started.
MainPageStarts ==
    IF gen = "NotLoaded" THEN StartGenerator ELSE UNCHANGED <<gen, app>>

OpenDrKonqiDialog(to) == window' = to /\ MainPageStarts

\* main() opens the dialog at once: asked to, or there is no notification service.
DispatchDialog ==
    /\ stage = "dispatch"
    /\ stage' = "run"
    /\ OpenDrKonqiDialog("main")
    /\ UNCHANGED <<crash, user, settling, trying, follow, sendWhenReady, traces, box, marked,
                   report, page, notifier, closing>>

\* The session is being shut down, and nobody asked for the dialog.
DispatchShutdown ==
    /\ stage = "dispatch"
    /\ stage' = "run"
    /\ app' = "stopped"
    /\ UNCHANGED <<crash, user, settling, trying, follow, sendWhenReady, gen, traces, box, marked,
                   report, window, page, notifier, closing>>

\* requestDrKonqiDialog(): with sending enabled the trace is taken and sent unasked.
DispatchNotifier ==
    /\ stage = "dispatch"
    /\ stage' = "run"
    /\ sendWhenReady' = (sendWhenReady \/ IsCrashEventSendingEnabled)
    /\ IF IsCrashEventSendingEnabled THEN MainPageStarts ELSE UNCHANGED <<gen, app>>
    /\ \E interactionAllowed \in BOOLEAN :
           /\ icon' = IF interactionAllowed THEN "shown" ELSE "none"
           /\ bubble' = IF IsCrashEventSendingEnabled THEN "details"
                        ELSE IF interactionAllowed THEN "report" ELSE "plain"
    /\ UNCHANGED <<crash, user, settling, trying, follow, traces, box, marked, report, window,
                   page, closing>>

Running == stage = "run" /\ app = "up"

-----------------------------------------------------------------------------
(* What the generator and the network report. *)

\* done: each connection adds the event of this trace.
GeneratorDone ==
    /\ Running
    /\ gen = "Loading"
    /\ gen' = "Loaded"
    /\ traces' = traces + 1
    /\ IF follow > 0 THEN Add(follow, 0, trying) ELSE UNCHANGED <<box, marked, app>>
    /\ UNCHANGED trying
    /\ UNCHANGED <<crash, user>>
    /\ RefreshPage
    /\ UNCHANGED <<stage, settling, follow, sendWhenReady, report, window, notifier, closing>>

GeneratorFails ==
    /\ Running
    /\ gen = "Loading"
    /\ gen' = "Failed"
    /\ app' = IF closing THEN "failed" ELSE app
    /\ UNCHANGED <<program, user, settling, trying, follow, sendWhenReady, traces, box,
                   marked, report, window, page, notifier, closing>>

\* onDSNsLoaded(): the envelope gets its address.  Nobody looks at the postbox again.
DsnLoaded ==
    /\ Running
    /\ ~box.dsn
    /\ box' = [box EXCEPT !.dsn = TRUE]
    /\ UNCHANGED <<program, user, settling, trying, follow, sendWhenReady, gen, traces,
                   marked, report, window, page, notifier, closing, app>>

-----------------------------------------------------------------------------
(* What the user does in the window. *)

\* Retry in every window's header, or reload on the developer page.
Restart ==
    /\ Running
    /\ window # "none"
    /\ (window = "main" /\ page # "bug") \/ gen = "Failed"
    /\ gen # "Loading"
    /\ traces < MaxTraces
    /\ StartGenerator
    /\ UNCHANGED <<program, user, settling, trying, follow, sendWhenReady, traces, box,
                   marked, report, window, page, notifier, closing>>

\* "Send Automatic Report": setSendWhenReady(true), sendSentryReport(), the page.
SendAutomaticReport ==
    /\ Running
    /\ UNCHANGED crash
    /\ window = "main"
    /\ page = "none"
    /\ crash.auto
    /\ sendWhenReady' = TRUE
    /\ forced' = TRUE
    /\ agreed' = TRUE
    /\ UNCHANGED <<setting, toggles, hasty>>
    /\ IF trying \/ ~crash.eligible
       THEN /\ \E ok \in BOOLEAN : box' = MaybePickUpPostbox(box, TRUE, ok)
            /\ CrashEventSent(trying /\ box' # box, closing)
            /\ UNCHANGED <<trying, follow, gen>>
       ELSE /\ trying' = TRUE
            /\ \E ok \in BOOLEAN :
               LET picked == MaybePickUpPostbox(box, TRUE, ok)
               IN \/ /\ gen = "Loaded"
                     /\ box' = MaybePickUpPostbox(AddItems(picked, 1, 0), TRUE, ok)
                     /\ CrashEventSent(TRUE, closing)
                     /\ UNCHANGED <<gen, follow>>
                  \/ /\ gen # "Loaded"
                     /\ box' = picked
                     /\ follow' = 1
                     /\ IF gen = "Loading" THEN UNCHANGED <<gen, app>> ELSE StartGenerator
                     /\ UNCHANGED marked
    /\ page' = Shown'
    /\ UNCHANGED <<stage, settling, traces, report, window, notifier, closing>>

\* Back to the main page; the Sentry page is destroyed.
LeavePage ==
    /\ Running
    /\ window = "main"
    /\ OnSentryPage
    /\ page' = "none"
    /\ UNCHANGED <<program, user, settling, trying, follow, sendWhenReady, gen, traces, box,
                   marked, report, window, notifier, closing, app>>

\* "Automatically report crashes": the timer waits for the user to make up his mind.
ToggleSetting ==
    /\ Running
    /\ OnSentryPage
    /\ toggles < MaxToggles
    /\ toggles' = toggles + 1
    /\ setting' = ~setting
    /\ agreed' = (agreed \/ setting')
    /\ settling' = TRUE
    /\ UNCHANGED <<program, forced, hasty, trying, follow, sendWhenReady, gen, traces, box, marked,
                   report, window, page, notifier, closing, app>>

SettingSettled ==
    /\ Running
    /\ settling
    /\ settling' = FALSE
    /\ UNCHANGED <<crash, user>>
    /\ TrySentry
    /\ RefreshPage
    /\ UNCHANGED <<stage, sendWhenReady, traces, report, window, notifier, closing>>

\* "Send Message" on the Sentry page, whatever the page shows.
CreateCrashMessage ==
    /\ Running
    /\ UNCHANGED crash
    /\ OnSentryPage
    /\ box.comments < MaxMessages
    /\ Add(0, 1, trying)
    /\ hasty' = (hasty \/ closing)
    /\ UNCHANGED trying
    /\ UNCHANGED <<setting, forced, agreed, toggles>>
    /\ RefreshPage
    /\ UNCHANGED <<stage, settling, follow, sendWhenReady, gen, traces, report, window,
                   notifier, closing>>

\* The bug assistant logs in, also to retry, and sendBugReport() connects once more.
\* There is no way back from its SendingPage.
SendBugReport ==
    /\ Running
    /\ window = "main"
    /\ page = "none" \/ (page = "bug" /\ sending = "error")
    /\ crash.bug
    /\ traces > 0
    /\ sending # "busy"
    /\ handlers < MaxAttempts
    /\ PrepareCrashEvent(trying)
    /\ sending' = "busy"
    /\ handlers' = handlers + 1
    /\ page' = "bug"
    /\ UNCHANGED <<program, user, settling, trying, sendWhenReady, traces, window,
                   notifier, closing>>

\* Each connection adds the bug's address as a comment and delivers, sentry wanted or not.
BugReportSent ==
    /\ Running
    /\ sending = "busy"
    /\ sending' = "sent"
    /\ \E ok \in BOOLEAN : box' = Deliver(AddItems(box, 0, handlers), ok)
    /\ CrashEventSent(trying, closing)
    /\ UNCHANGED trying
    /\ UNCHANGED <<crash, user>>
    /\ RefreshPage
    /\ UNCHANGED <<stage, settling, follow, sendWhenReady, gen, traces, handlers, window,
                   notifier, closing>>

BugReportFails ==
    /\ Running
    /\ sending = "busy"
    /\ sending' = "error"
    /\ UNCHANGED <<program, user, settling, trying, follow, sendWhenReady, gen, traces, box,
                   marked, handlers, window, page, notifier, closing, app>>

\* "Finish" on the Sentry page quits without asking anyone.
Finish ==
    /\ Running
    /\ page = "sent"
    /\ app' = "done"
    /\ UNCHANGED <<program, user, settling, trying, follow, sendWhenReady, gen, traces, box,
                   marked, report, window, page, notifier, closing>>

-----------------------------------------------------------------------------
(* The notifier, the last window, and the end. *)

\* Mutant: it waits without asking for the report to be sent.
AboutToQuit_FaultUnasked ==
    IF HasCrashEventSent \/ gen = "Failed"
    THEN /\ app' = IF HasCrashEventSent THEN "done" ELSE "failed"
         /\ UNCHANGED <<closing, sendWhenReady, box, marked>>
    ELSE closing' = TRUE /\ UNCHANGED <<sendWhenReady, box, marked, app>>

\* Quit when there is nothing to wait for; else see that the report is sent and wait.
AboutToQuit ==
    IF HasCrashEventSent \/ gen = "Failed"
    THEN /\ app' = IF HasCrashEventSent THEN "done" ELSE "failed"
         /\ UNCHANGED <<closing, sendWhenReady, box, marked>>
    ELSE /\ closing' = TRUE
         /\ sendWhenReady' = TRUE
         /\ \E ok \in BOOLEAN : box' = MaybePickUpPostbox(box, TRUE, ok)
         /\ IF box' # box THEN CrashEventSent(trying, TRUE) ELSE UNCHANGED <<marked, app>>

\* lastWindowClosed
CloseWindow ==
    /\ Running
    /\ window # "none"
    /\ window' = "none"
    /\ page' = "none"
    /\ AboutToQuit
    /\ UNCHANGED <<program, user, settling, trying, follow, gen, traces, report, notifier>>

\* The icon is hidden or times out; its timer outlives it and may do so again.
IconExpires ==
    /\ Running
    /\ icon # "none"
    /\ icon' = "hidden"
    /\ bubble' = "none"
    /\ AboutToQuit
    /\ UNCHANGED trying
    /\ UNCHANGED <<crash, user>>
    /\ RefreshPage
    /\ UNCHANGED <<stage, settling, follow, gen, traces, report, window>>

\* Without an icon, a notification that offers nothing ends the notifier.
BubbleCloses ==
    /\ Running
    /\ bubble = "plain"
    /\ bubble' = "none"
    /\ AboutToQuit
    /\ UNCHANGED <<program, user, settling, trying, follow, gen, traces, report, window,
                   page, icon>>

\* activated: by the icon, the notification, or the timer when the shell is gone.
Activate ==
    /\ Running
    /\ icon # "none"
    /\ icon' = "none"
    /\ bubble' = "none"
    /\ OpenDrKonqiDialog("main")
    /\ UNCHANGED <<program, user, settling, trying, follow, sendWhenReady, traces, box,
                   marked, report, page, closing>>

\* sentryActivated: "Add Details" opens the dialog on the Sentry page.
AddDetails ==
    /\ Running
    /\ bubble = "details"
    /\ bubble' = "none"
    /\ OpenDrKonqiDialog("sentry")
    /\ page' = Shown
    /\ UNCHANGED <<program, user, settling, trying, follow, sendWhenReady, traces, box,
                   marked, report, icon, closing>>

\* The five minutes of aboutToQuit()'s fallback timer are over.
FallbackTimeout ==
    /\ Running
    /\ closing
    /\ app' = "stopped"
    /\ UNCHANGED <<program, user, settling, trying, follow, sendWhenReady, gen, traces, box,
                   marked, report, window, page, notifier, closing>>

\* SIGINT, which a logout sends too.
Interrupted ==
    /\ Running
    /\ app' = "stopped"
    /\ UNCHANGED <<program, user, settling, trying, follow, sendWhenReady, gen, traces, box,
                   marked, report, window, page, notifier, closing>>

Next ==
    \/ Construct \/ DispatchDialog \/ DispatchShutdown \/ DispatchNotifier
    \/ GeneratorDone \/ GeneratorFails \/ DsnLoaded
    \/ Restart \/ SendAutomaticReport \/ LeavePage \/ ToggleSetting \/ SettingSettled
    \/ CreateCrashMessage \/ SendBugReport \/ BugReportSent \/ BugReportFails \/ Finish
    \/ CloseWindow \/ IconExpires \/ BubbleCloses \/ Activate \/ AddDetails
    \/ FallbackTimeout \/ Interrupted

Spec == Init /\ [][Next]_vars

\* The generator gives a verdict (TraceRequest), the request for the DSNs ends, the
\* setting's timer fires.  Nobody need act, and the fallback timer need not help.
Fairness ==
    /\ WF_vars(GeneratorDone \/ GeneratorFails)
    /\ WF_vars(DsnLoaded)
    /\ WF_vars(SettingSettled)

FairSpec == Spec /\ Fairness

-----------------------------------------------------------------------------
(* Properties. *)

\* Types: the state of the interface, the postbox and the windows is well formed.
TypeOK ==
    /\ crash \in Reportability
    /\ stage \in {"construct", "dispatch", "run"}
    /\ {setting, forced, agreed, hasty, settling, trying, sendWhenReady, marked, closing,
        box.delivered, box.missed, box.late} \subseteq BOOLEAN
    /\ follow \in {0, 1}
    /\ gen \in {"NotLoaded", "Loading", "Loaded", "Failed"}
    /\ traces \in 0 .. MaxTraces
    /\ toggles \in 0 .. MaxToggles
    /\ Envelope(box) \in Envelopes
    /\ box.file \in Envelopes
    /\ sending \in {"no", "busy", "error", "sent"}
    /\ handlers \in 0 .. MaxAttempts
    /\ window \in {"none", "main", "sentry"}
    /\ page \in {"none", "collecting", "sent", "bug"}
    /\ icon \in {"none", "shown", "hidden"}
    /\ bubble \in {"none", "plain", "report", "details"}
    /\ app \in {"up", "done", "failed", "stopped"}

\* The file holds all the envelope holds, and can be sent somewhere.
Kept == box.events > 0 /\ box.file = Envelope(box) /\ box.dsn

\* The report drkonqi sends of its own accord: enabled, no bug report mixed with it, and the
\* setting not changed there and back, of which the page is not told.
Sending == trying /\ IsCrashEventSendingEnabled /\ handlers = 0 /\ toggles <= 1

\* No report is lost by quitting: when drkonqi thinks that it is done, the event lies in the
\* outbox, complete and addressed.  aboutToQuit() quits on the first crashEventSent, which
\* is emitted before anything is delivered.  The three mishaps of which this is not true
\* are that the DSNs are late, the file cannot be opened and a message is sent hastily.
NothingLost == app = "done" /\ Sending /\ ~box.late /\ ~box.missed /\ ~hasty => Kept

\* "Crash Report Sent" is true: while the Sentry page shows it, the envelope with its event
\* lies in the outbox, whatever comments were added before and after the delivery.
SentIsWritten ==
    page = "sent" /\ app = "up" /\ Sending /\ ~box.late /\ ~box.missed => Kept

\* What may be sent is sent at once: no order of trace, comments, reloads and user leaves
\* an addressed envelope with an event waiting in memory once sending it was asked for.
ReadyIsDelivered ==
    sendWhenReady /\ IsReadyToDeliver(box) /\ ~box.late => box.delivered

\* One event for one trace: without a bug report, which adds the event anew, the
\* connections to done never multiply and no trace is added twice.
OneEventPerTrace == handlers = 0 => box.events <= traces

\* Nothing reaches the outbox unasked, and nothing of an application whose files were
\* replaced or whose bugs go elsewhere: the setting was on or the button was pressed, and
\* the crash is one for Sentry; or the user sent a bug report, which asks nobody.
OnlyWithConsent == box.file.events > 0 => (agreed /\ crash.eligible) \/ handlers > 0

\* What lies in the outbox never gets less: the file of a later delivery has the
\* event and the comments of the earlier one.
FileOnlyGrows ==
    [][/\ box.file.events <= box.file'.events
       /\ box.file.comments <= box.file'.comments]_vars

\* drkonqi never waits for nothing: when aboutToQuit() waits and no window is open, the
\* generator is at work on the trace, or the setting that was just switched on is about to
\* start it, unless the DSNs were late.  Nobody looks at the postbox otherwise.
WaitsForSomething ==
    closing /\ app = "up" /\ window = "none" /\ ~box.late =>
        gen = "Loading" \/ (settling /\ ~trying /\ IsCrashEventSendingEnabled)

\* Waiting ends by itself: once aboutToQuit() waits, drkonqi quits with the verdict of the
\* generator, without its fallback timer, unless the user opens a window again or the DSNs
\* were late.
WaitingEnds == closing ~> (app # "up" \/ window # "none" \/ box.late)
=============================================================================
