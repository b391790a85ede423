------------------------ MODULE CrashReporting_proofs ------------------------
(***************************************************************************)
(* What TLAPS proves of CrashReporting: for any number of traces, messages *)
(* on the Sentry page, changes of the setting and bug reports, its types   *)
(* and every safety property its run checks.  The argument is about the    *)
(* postbox first: what each of the three things done to it (an item added, *)
(* the pick-up, the delivery of a bug report) promises by itself.  Then    *)
(* the interface, the windows and aboutToQuit() need little more than to   *)
(* know why sending was started and what the Sentry page has been told.    *)
(***************************************************************************)
EXTENDS CrashReporting, TLAPS

\* The postbox as a record.
Postboxes ==
    [events : Nat, comments : Nat, dsn : BOOLEAN, delivered : BOOLEAN, file : Envelopes,
     missed : BOOLEAN, late : BOOLEAN]

-----------------------------------------------------------------------------
(* The parts of the inductive invariant. *)

\* A postbox is never poorer than its file, and an event without an address is late.
Covers(b) ==
    /\ b.file.events <= b.events /\ b.file.comments <= b.comments
    /\ ~b.dsn /\ b.events > 0 => b.late

\* A delivery that counts was one of an addressed event, and it was written or missed.
Honest(b) ==
    b.delivered => b.dsn /\ b.events > 0 /\ (b.missed \/ b.file = Envelope(b))

Prompt(b, ready) == ready /\ IsReadyToDeliver(b) /\ ~b.late => b.delivered

\* Types, and the bound that the generator's restarts keep.
Types ==
    /\ TypeOK
    /\ box \in Postboxes
    /\ gen # "Loaded" => traces < MaxTraces

\* Before exec() nothing has happened but that sending was tried, if it was enabled.
StartInv ==
    stage # "run" =>
        /\ box = NewPostbox /\ handlers = 0 /\ toggles = 0 /\ sending = "no"
        /\ page = "none" /\ bubble = "none" /\ ~closing /\ app = "up" /\ gen # "Loaded"
        /\ stage = "construct" => ~trying /\ follow = 0 /\ gen = "NotLoaded"
        /\ stage = "dispatch" => (trying <=> IsCrashEventSendingEnabled)

\* Why sending was tried: the user agreed, and has changed his mind since if at all.
AskedInv ==
    /\ setting \/ forced => agreed
    /\ trying => agreed /\ crash.eligible
    /\ trying /\ toggles = 0 => IsCrashEventSendingEnabled

\* Without a bug report only trying connects to done, and it does so once.
CountInv ==
    /\ gen = "Loaded" => traces > 0
    /\ sending = "busy" => handlers > 0
    /\ OneEventPerTrace
    /\ handlers = 0 /\ ~trying => follow = 0 /\ box.events = 0

\* A Sentry page is there only after sending was tried, so it hears crashEventSent.
PageInv ==
    /\ bubble = "details" => trying
    /\ OnSentryPage => trying \/ ~crash.eligible
    /\ page = "sent" /\ app = "up" /\ Sending => box.delivered

BoxInv ==
    /\ Covers(box)
    /\ handlers = 0 => Honest(box)
    /\ Prompt(box, sendWhenReady)
    /\ closing => sendWhenReady

IInv == Types /\ StartInv /\ AskedInv /\ CountInv /\ PageInv /\ BoxInv /\ NothingLost

-----------------------------------------------------------------------------
(* The postbox by itself. *)

\* deliver() writes the envelope or misses, and empties nothing.
LEMMA DeliverKeeps ==
  ASSUME NEW b \in Postboxes, Covers(b), NEW ok \in BOOLEAN
  PROVE  LET d == Deliver(b, ok)
         IN /\ d \in Postboxes /\ Covers(d)
            /\ d.delivered /\ d.events = b.events /\ d.comments = b.comments /\ d.dsn = b.dsn
            /\ d.file = IF ok THEN Envelope(d) ELSE b.file
            /\ d.missed = (b.missed \/ ~ok) /\ d.late = (b.late \/ ~b.dsn)
            /\ b.file.events <= d.file.events /\ b.file.comments <= d.file.comments
<1> DEFINE d == Deliver(b, ok)
           f == IF ok THEN Envelope(b) ELSE b.file
<1>1. /\ b.events \in Nat /\ b.comments \in Nat /\ b.dsn \in BOOLEAN /\ b.file \in Envelopes
      /\ b.missed \in BOOLEAN /\ b.late \in BOOLEAN
  BY DEF Postboxes
<1>2. /\ d.events = b.events /\ d.comments = b.comments /\ d.dsn = b.dsn /\ d.delivered = TRUE
      /\ d.file = f /\ d.missed = (b.missed \/ ~ok) /\ d.late = (b.late \/ ~b.dsn)
  BY DEF Deliver, Postboxes
<1>3. Envelope(d) = Envelope(b)
  BY <1>2 DEF Envelope
<1>4. Envelope(b) \in Envelopes /\ Envelope(b).events = b.events
      /\ Envelope(b).comments = b.comments
  BY <1>1 DEF Envelope, Envelopes
<1>5. f \in Envelopes
  BY <1>1, <1>4
<1>6. d \in Postboxes
  BY <1>1, <1>5 DEF Deliver, Postboxes
<1>7. f.events <= b.events /\ f.comments <= b.comments
      /\ b.file.events <= f.events /\ b.file.comments <= f.comments
  BY <1>1, <1>4 DEF Covers, Envelopes
<1>8. Covers(d)
  BY <1>1, <1>2, <1>7 DEF Covers
<1>9. d.file = IF ok THEN Envelope(d) ELSE b.file
  BY <1>2, <1>3
<1> QED BY <1>2, <1>6, <1>7, <1>8, <1>9

\* A new item is one the delivery was without.
LEMMA AddItemsKeeps ==
  ASSUME NEW b \in Postboxes, Covers(b), NEW e \in Nat, NEW c \in Nat
  PROVE  LET d == AddItems(b, e, c)
         IN /\ d \in Postboxes /\ Covers(d) /\ ~d.delivered
            /\ d.events = b.events + e /\ d.comments = b.comments + c /\ d.dsn = b.dsn
            /\ d.file = b.file /\ d.missed = b.missed /\ d.late = (b.late \/ (e > 0 /\ ~b.dsn))
<1> DEFINE d == AddItems(b, e, c)
<1>1. /\ b.events \in Nat /\ b.comments \in Nat /\ b.dsn \in BOOLEAN /\ b.file \in Envelopes
      /\ b.missed \in BOOLEAN /\ b.late \in BOOLEAN
  BY DEF Postboxes
<1>2. /\ d.events = b.events + e /\ d.comments = b.comments + c /\ d.dsn = b.dsn
      /\ d.delivered = FALSE /\ d.file = b.file /\ d.missed = b.missed
      /\ d.late = (b.late \/ (e > 0 /\ ~b.dsn))
  BY DEF AddItems, Postboxes
<1>3. d \in Postboxes
  <2> DEFINE lateNow == b.late \/ (e > 0 /\ ~b.dsn)
  <2>1. b.events + e \in Nat /\ b.comments + c \in Nat /\ lateNow \in BOOLEAN
    BY <1>1
  <2>2. d = [b EXCEPT !.events = b.events + e, !.comments = b.comments + c,
                      !.delivered = FALSE, !.late = lateNow]
    BY DEF AddItems
  <2> HIDE DEF lateNow, d
  <2> QED BY <1>1, <2>1, <2>2 DEF Postboxes
<1>4. b.file.events \in Nat /\ b.file.comments \in Nat
  BY <1>1 DEF Envelopes
<1> HIDE DEF d
<1>5. d.file.events <= d.events /\ d.file.comments <= d.comments
  BY <1>1, <1>2, <1>4 DEF Covers
<1>6. ~d.dsn /\ d.events > 0 => d.late
  <2> SUFFICES ASSUME ~d.dsn, d.events > 0 PROVE d.late
    OBVIOUS
  <2>1. ~b.dsn
    BY <1>2
  <2>2. b.late \/ e > 0
    BY <1>1, <1>2, <2>1 DEF Covers
  <2> QED BY <1>2, <2>1, <2>2
<1> QED BY <1>2, <1>3, <1>5, <1>6 DEF d, Covers

\* What maybePickUpPostbox() makes of b, and what it makes of b with new items.
PickedUp(b, d, ready) ==
    /\ d \in Postboxes /\ Covers(d) /\ Prompt(d, ready)
    /\ Honest(b) => Honest(d)
    /\ d # b => d.delivered /\ Honest(d)
    /\ b.delivered => d = b
    /\ d.events = b.events /\ d.comments = b.comments /\ d.dsn = b.dsn
    /\ b.missed => d.missed
    /\ b.late => d.late
    /\ b.file.events <= d.file.events /\ b.file.comments <= d.file.comments

AddedTo(b, d, e, c, ready) ==
    /\ d \in Postboxes /\ Covers(d) /\ Prompt(d, ready) /\ Honest(d)
    /\ d.events = b.events + e /\ d.comments = b.comments + c
    /\ b.missed => d.missed
    /\ b.late => d.late
    /\ b.file.events <= d.file.events /\ b.file.comments <= d.file.comments
    /\ e > 0 /\ ready /\ ~d.late => d.delivered

\* maybePickUpPostbox() delivers what is ready, and only that.
LEMMA PickUpKeeps ==
  ASSUME NEW b \in Postboxes, Covers(b), NEW ready \in BOOLEAN, NEW ok \in BOOLEAN
  PROVE  PickedUp(b, MaybePickUpPostbox(b, ready, ok), ready)
<1> DEFINE d == MaybePickUpPostbox(b, ready, ok)
<1>0. b.file.events \in Nat /\ b.file.comments \in Nat /\ b.late \in BOOLEAN
      /\ b.missed \in BOOLEAN
  BY DEF Postboxes, Envelopes
<1>1. CASE ready /\ ~b.delivered /\ IsReadyToDeliver(b)
  <2> DEFINE x == Deliver(b, ok)
  <2>1. d = x
    BY <1>1 DEF MaybePickUpPostbox
  <2>2. /\ x \in Postboxes /\ Covers(x)
        /\ x.delivered /\ x.events = b.events /\ x.comments = b.comments /\ x.dsn = b.dsn
        /\ x.file = IF ok THEN Envelope(x) ELSE b.file
        /\ x.missed = (b.missed \/ ~ok) /\ x.late = (b.late \/ ~b.dsn)
        /\ b.file.events <= x.file.events /\ b.file.comments <= x.file.comments
    BY DeliverKeeps
  <2> HIDE DEF x, d
  <2>3. x.missed \/ x.file = Envelope(x)
    BY <1>0, <2>2
  <2>4. b.dsn /\ b.events > 0
    BY <1>1 DEF IsReadyToDeliver
  <2>5. Honest(x) /\ Prompt(x, ready)
    BY <2>2, <2>3, <2>4 DEF Prompt, Honest
  <2>6. (b.missed => x.missed) /\ (b.late => x.late)
    BY <1>0, <2>2
  <2> QED BY <1>1, <2>1, <2>2, <2>5, <2>6 DEF d, PickedUp
<1>2. CASE ~(ready /\ ~b.delivered /\ IsReadyToDeliver(b))
  <2>1. d = b
    BY <1>2 DEF MaybePickUpPostbox
  <2> QED BY <1>0, <1>2, <2>1 DEF Prompt, PickedUp
<1> QED BY <1>1, <1>2

\* addEventPayload() and addUserFeedback(), each with its maybePickUpPostbox().
LEMMA AddKeeps ==
  ASSUME NEW b \in Postboxes, Covers(b), NEW e \in Nat, NEW c \in Nat,
         NEW ready \in BOOLEAN, NEW ok \in BOOLEAN
  PROVE  AddedTo(b, MaybePickUpPostbox(AddItems(b, e, c), ready, ok), e, c, ready)
<1> DEFINE a == AddItems(b, e, c)
           d == MaybePickUpPostbox(a, ready, ok)
<1>1. /\ a \in Postboxes /\ Covers(a) /\ ~a.delivered
      /\ a.events = b.events + e /\ a.comments = b.comments + c /\ a.dsn = b.dsn
      /\ a.file = b.file /\ a.missed = b.missed /\ a.late = (b.late \/ (e > 0 /\ ~b.dsn))
  BY AddItemsKeeps
<1>2. Honest(a)
  BY <1>1 DEF Honest
<1>3. PickedUp(a, d, ready)
  BY <1>1, PickUpKeeps
<1>4. b.late \in BOOLEAN /\ b.missed \in BOOLEAN /\ b.dsn \in BOOLEAN /\ b.events \in Nat
  BY DEF Postboxes
<1> HIDE DEF a, d
<1>5. (b.missed => d.missed) /\ (b.late => d.late)
  BY <1>1, <1>3, <1>4 DEF PickedUp
<1>6. e > 0 /\ ready /\ ~d.late => d.delivered
  <2> SUFFICES ASSUME e > 0, ready, ~d.late PROVE d.delivered
    OBVIOUS
  <2>1. d.dsn
    BY <1>1, <1>3, <1>4 DEF PickedUp
  <2>2. d.events > 0
    BY <1>1, <1>3, <1>4 DEF PickedUp
  <2> QED BY <1>3, <2>1, <2>2 DEF PickedUp, Prompt, IsReadyToDeliver
<1>7. AddedTo(b, d, e, c, ready)
  BY <1>1, <1>2, <1>3, <1>5, <1>6 DEF PickedUp, AddedTo
<1> QED BY <1>7 DEF a, d

\* setSendWhenReady(), aboutToQuit() and a trace: what the box may become in a step.
FileGrows ==
    box.file.events <= box'.file.events /\ box.file.comments <= box'.file.comments

BoxMoves ==
    /\ box' \in Postboxes /\ Covers(box') /\ Prompt(box', sendWhenReady')
    /\ handlers' = 0 => Honest(box')
    /\ FileGrows
    /\ box.late => box'.late
    /\ box.missed => box'.missed

BoxOK == box \in Postboxes /\ BoxInv /\ sendWhenReady \in BOOLEAN

\* What adding does, in terms of the variables.
LEMMA AddMoves ==
  ASSUME BoxOK, NEW e \in Nat, NEW c \in Nat, NEW now \in BOOLEAN, Add(e, c, now),
         sendWhenReady' = sendWhenReady
  PROVE  /\ BoxMoves /\ Honest(box')
         /\ box'.events = box.events + e /\ box'.comments = box.comments + c
         /\ e > 0 /\ sendWhenReady /\ ~box'.late => box'.delivered
<1>1. PICK ok \in BOOLEAN :
           box' = MaybePickUpPostbox(AddItems(box, e, c), sendWhenReady, ok)
  BY DEF Add
<1> DEFINE d == MaybePickUpPostbox(AddItems(box, e, c), sendWhenReady, ok)
<1>2. box \in Postboxes /\ Covers(box) /\ sendWhenReady \in BOOLEAN
  BY DEF BoxOK, BoxInv
<1>3. AddedTo(box, d, e, c, sendWhenReady)
  BY <1>2, AddKeeps
<1>4. box' = d
  BY <1>1
<1> HIDE DEF d
<1> QED BY <1>3, <1>4 DEF BoxMoves, FileGrows, AddedTo

\* What a pick-up does, once it is to be sent when ready.
LEMMA PickUpMoves ==
  ASSUME BoxOK, NEW ok \in BOOLEAN, box' = MaybePickUpPostbox(box, TRUE, ok),
         handlers' = handlers
  PROVE  /\ BoxMoves /\ Prompt(box', TRUE)
         /\ box'.events = box.events
         /\ box' # box => box'.delivered /\ Honest(box')
         /\ box.delivered => box'.delivered
<1> DEFINE d == MaybePickUpPostbox(box, TRUE, ok)
<1>0. box \in Postboxes /\ Covers(box) /\ TRUE \in BOOLEAN
  BY DEF BoxOK, BoxInv
<1>1. PickedUp(box, d, TRUE)
  BY <1>0, PickUpKeeps
<1>2. Prompt(d, sendWhenReady')
  BY <1>1 DEF Prompt, PickedUp
<1>3. box' = d
  OBVIOUS
<1> HIDE DEF d
<1> QED BY <1>1, <1>2, <1>3 DEF BoxMoves, BoxOK, BoxInv, FileGrows, PickedUp

\* A box that stays is as good as it was, unless what is ready in it is to be sent now.
LEMMA BoxStays ==
  ASSUME BoxOK, box' = box, handlers = 0 \/ handlers' # 0,
         sendWhenReady' = sendWhenReady \/ ~IsReadyToDeliver(box)
  PROVE  BoxMoves
<1>1. box.file.events \in Nat /\ box.file.comments \in Nat
  BY DEF BoxOK, Postboxes, Envelopes
<1>2. Prompt(box, sendWhenReady')
  BY DEF BoxOK, BoxInv, Prompt
<1> QED BY <1>1, <1>2 DEF BoxMoves, BoxOK, BoxInv, FileGrows

-----------------------------------------------------------------------------
(* Types. *)

\* The parts of a postbox.
LEMMA PostboxTypes ==
  ASSUME NEW b \in Postboxes
  PROVE  /\ Envelope(b) \in Envelopes /\ b.file \in Envelopes
         /\ b.delivered \in BOOLEAN /\ b.missed \in BOOLEAN /\ b.late \in BOOLEAN
BY DEF Postboxes, Envelope, Envelopes

\* trySentry(), as far as it concerns types.
LEMMA TrySentryTypes ==
  ASSUME Types, TrySentry
  PROVE  /\ {trying', marked'} \subseteq BOOLEAN /\ follow' \in {0, 1}
         /\ gen' \in {"NotLoaded", "Loading", "Loaded", "Failed"}
         /\ gen' # "Loaded" => gen # "Loaded"
         /\ app' \in {"up", "done", "failed", "stopped"}
<1>1. CASE ~(IsCrashEventSendingEnabled' /\ ~trying)
  BY <1>1 DEF TrySentry, Types, TypeOK
<1>2. CASE IsCrashEventSendingEnabled' /\ ~trying
  <2>1. trying' = TRUE /\ PrepareCrashEvent(TRUE)
    BY <1>2 DEF TrySentry
  <2>2. CASE gen = "Loaded"
    BY <2>1, <2>2 DEF PrepareCrashEvent, Add, CrashEventSent, Types, TypeOK
  <2>3. CASE gen # "Loaded"
    BY <2>1, <2>3 DEF PrepareCrashEvent, StartGenerator, Types, TypeOK
  <2> QED BY <2>2, <2>3
<1> QED BY <1>1, <1>2

\* aboutToQuit(), as far as it concerns types.
LEMMA AboutToQuitTypes ==
  ASSUME Types, AboutToQuit
  PROVE  /\ {closing', sendWhenReady', marked'} \subseteq BOOLEAN
         /\ app' \in {"up", "done", "failed", "stopped"}
<1>1. CASE HasCrashEventSent \/ gen = "Failed"
  BY <1>1 DEF AboutToQuit, Types, TypeOK
<1>2. CASE ~(HasCrashEventSent \/ gen = "Failed")
  BY <1>2 DEF AboutToQuit, CrashEventSent, Types, TypeOK
<1> QED BY <1>1, <1>2

\* What is not of the postbox.
LEMMA RestStep ==
  ASSUME Types, Next
  PROVE  /\ crash' \in Reportability /\ stage' \in {"construct", "dispatch", "run"}
         /\ {setting, forced, agreed, hasty, settling, trying, sendWhenReady, marked,
             closing}' \subseteq BOOLEAN
         /\ follow' \in {0, 1}
         /\ gen' \in {"NotLoaded", "Loading", "Loaded", "Failed"}
         /\ traces' \in 0 .. MaxTraces /\ (gen' # "Loaded" => traces' < MaxTraces)
         /\ toggles' \in 0 .. MaxToggles
         /\ sending' \in {"no", "busy", "error", "sent"} /\ handlers' \in 0 .. MaxAttempts
         /\ window' \in {"none", "main", "sentry"}
         /\ page' \in {"none", "collecting", "sent", "bug"}
         /\ icon' \in {"none", "shown", "hidden"}
         /\ bubble' \in {"none", "plain", "report", "details"}
         /\ app' \in {"up", "done", "failed", "stopped"}
<1> USE BoundsAssumption DEF Types, TypeOK, program, user, report, notifier
<1>1. CASE Construct
  <2>1. /\ {trying', marked'} \subseteq BOOLEAN /\ follow' \in {0, 1}
        /\ gen' \in {"NotLoaded", "Loading", "Loaded", "Failed"}
        /\ gen' # "Loaded" => gen # "Loaded"
        /\ app' \in {"up", "done", "failed", "stopped"}
    BY <1>1, TrySentryTypes DEF Construct
  <2> QED BY <1>1, <2>1 DEF Construct
<1>2. CASE DispatchDialog
  BY <1>2 DEF DispatchDialog, OpenDrKonqiDialog, MainPageStarts, StartGenerator
<1>3. CASE DispatchShutdown
  BY <1>3 DEF DispatchShutdown
<1>4. CASE DispatchNotifier
  BY <1>4 DEF DispatchNotifier, MainPageStarts, StartGenerator, IsCrashEventSendingEnabled
<1>5. CASE GeneratorDone
  BY <1>5 DEF GeneratorDone, Running, Add, CrashEventSent, RefreshPage, Shown
<1>6. CASE GeneratorFails
  BY <1>6 DEF GeneratorFails, Running
<1>7. CASE DsnLoaded
  BY <1>7 DEF DsnLoaded
<1>8. CASE Restart
  BY <1>8 DEF Restart, StartGenerator
<1>9. CASE SendAutomaticReport
  BY <1>9 DEF SendAutomaticReport, CrashEventSent, StartGenerator, Shown
<1>10. CASE LeavePage
  BY <1>10 DEF LeavePage
<1>11. CASE ToggleSetting
  BY <1>11 DEF ToggleSetting
<1>12. CASE SettingSettled
  <2>1. /\ {trying', marked'} \subseteq BOOLEAN /\ follow' \in {0, 1}
        /\ gen' \in {"NotLoaded", "Loading", "Loaded", "Failed"}
        /\ gen' # "Loaded" => gen # "Loaded"
        /\ app' \in {"up", "done", "failed", "stopped"}
    BY <1>12, TrySentryTypes DEF SettingSettled
  <2> QED BY <1>12, <2>1 DEF SettingSettled, RefreshPage, Shown
<1>13. CASE CreateCrashMessage
  BY <1>13 DEF CreateCrashMessage, Add, CrashEventSent, RefreshPage, Shown
<1>14. CASE SendBugReport
  BY <1>14 DEF SendBugReport, PrepareCrashEvent, Add, CrashEventSent, StartGenerator
<1>15. CASE BugReportSent
  BY <1>15 DEF BugReportSent, CrashEventSent, RefreshPage, Shown
<1>16. CASE BugReportFails
  BY <1>16 DEF BugReportFails
<1>17. CASE Finish
  BY <1>17 DEF Finish
<1>18. CASE CloseWindow
  <2>1. AboutToQuit /\ UNCHANGED trying
    BY <1>18 DEF CloseWindow
  <2>2. {closing', sendWhenReady', marked'} \subseteq BOOLEAN
        /\ app' \in {"up", "done", "failed", "stopped"}
    BY <2>1, AboutToQuitTypes
  <2> QED BY <1>18, <2>1, <2>2 DEF CloseWindow
<1>19. CASE IconExpires
  <2>1. AboutToQuit /\ UNCHANGED trying
    BY <1>19 DEF IconExpires
  <2>2. {closing', sendWhenReady', marked'} \subseteq BOOLEAN
        /\ app' \in {"up", "done", "failed", "stopped"}
    BY <2>1, AboutToQuitTypes
  <2> QED BY <1>19, <2>1, <2>2 DEF IconExpires, RefreshPage, Shown
<1>20. CASE BubbleCloses
  <2>1. AboutToQuit /\ UNCHANGED trying
    BY <1>20 DEF BubbleCloses
  <2>2. {closing', sendWhenReady', marked'} \subseteq BOOLEAN
        /\ app' \in {"up", "done", "failed", "stopped"}
    BY <2>1, AboutToQuitTypes
  <2> QED BY <1>20, <2>2 DEF BubbleCloses
<1>21. CASE Activate
  BY <1>21 DEF Activate, OpenDrKonqiDialog, MainPageStarts, StartGenerator
<1>22. CASE AddDetails
  BY <1>22 DEF AddDetails, OpenDrKonqiDialog, MainPageStarts, StartGenerator, Shown
<1>23. CASE FallbackTimeout
  BY <1>23 DEF FallbackTimeout
<1>24. CASE Interrupted
  BY <1>24 DEF Interrupted
<1> HIDE DEF Types, TypeOK
<1> QED BY <1>1, <1>2, <1>3, <1>4, <1>5, <1>6, <1>7, <1>8, <1>9, <1>10, <1>11, <1>12, <1>13,
           <1>14,
           <1>15, <1>16, <1>17, <1>18, <1>19, <1>20, <1>21, <1>22, <1>23, <1>24 DEF Next

-----------------------------------------------------------------------------
(* The other parts, action by action. *)

\* With the box' that BoxMoves speaks of, all is typed.
LEMMA TypesStep ==
  ASSUME Types, Next, BoxMoves
  PROVE  Types'
<1>1. box' \in Postboxes
  BY DEF BoxMoves
<1>2. /\ Envelope(box') \in Envelopes /\ box'.file \in Envelopes
      /\ {box'.delivered, box'.missed, box'.late} \subseteq BOOLEAN
  BY <1>1, PostboxTypes
<1>3. TypeOK'
  BY <1>2, RestStep DEF TypeOK, Envelope
<1> QED BY <1>1, <1>3, RestStep DEF Types

\* From Construct to exec() only the Sentry side of the interface has acted.
LEMMA StartStep ==
  ASSUME IInv, Next
  PROVE  StartInv'
<1> USE DEF program, user, report, notifier
<1>1. CASE Construct
  <2>1. StartInv /\ box = NewPostbox
    BY <1>1 DEF IInv, StartInv, Construct
  <2>2. gen = "NotLoaded" /\ ~closing /\ follow = 0 /\ ~trying
    BY <1>1 DEF IInv, StartInv, Construct
  <2>3. /\ box' = box /\ gen' # "Loaded" /\ app' = app
        /\ trying' <=> IsCrashEventSendingEnabled'
    BY <1>1, <2>2 DEF Construct, TrySentry, PrepareCrashEvent, StartGenerator, IInv, Types,
       TypeOK
  <2> QED BY <1>1, <2>1, <2>3 DEF Construct, StartInv
<1>2. CASE DispatchDialog \/ DispatchShutdown \/ DispatchNotifier
  BY <1>2 DEF DispatchDialog, DispatchShutdown, DispatchNotifier, StartInv
<1>3. CASE ~(Construct \/ DispatchDialog \/ DispatchShutdown \/ DispatchNotifier)
  <2>1. stage = "run" /\ stage' = stage
    BY <1>3 DEF Next, Running, GeneratorDone, GeneratorFails, DsnLoaded, Restart,
         SendAutomaticReport, LeavePage, ToggleSetting, SettingSettled, CreateCrashMessage,
         SendBugReport, BugReportSent, BugReportFails, Finish, CloseWindow, IconExpires,
         BubbleCloses, Activate, AddDetails, FallbackTimeout, Interrupted
  <2> QED BY <2>1 DEF StartInv
<1> QED BY <1>1, <1>2, <1>3

\* Consent is never taken back, and trying follows from it alone.
LEMMA AskedStep ==
  ASSUME IInv, Next
  PROVE  AskedInv'
<1> USE DEF program, user, report, notifier, AskedInv, IsCrashEventSendingEnabled
<1>1. CASE Construct \/ SettingSettled
  <2>1. UNCHANGED <<crash, setting, forced, agreed, toggles>> /\ TrySentry
    BY <1>1 DEF Construct, SettingSettled
  <2>2. trying' = trying \/ (trying' = TRUE /\ IsCrashEventSendingEnabled')
    BY <2>1 DEF TrySentry
  <2> QED BY <2>1, <2>2 DEF IInv
<1>2. CASE ToggleSetting
  BY <1>2 DEF ToggleSetting, IInv, Types, TypeOK
<1>3. CASE SendAutomaticReport
  BY <1>3 DEF SendAutomaticReport, IInv, Types, TypeOK
<1>4. CASE ~(Construct \/ SettingSettled \/ ToggleSetting \/ SendAutomaticReport)
  <2>1. UNCHANGED <<crash, setting, forced, agreed, toggles, trying>>
    BY <1>4 DEF Next, DispatchDialog, DispatchShutdown, DispatchNotifier, GeneratorDone,
         GeneratorFails, DsnLoaded, Restart, LeavePage, CreateCrashMessage,
         SendBugReport, BugReportSent, BugReportFails, Finish, CloseWindow, IconExpires,
         BubbleCloses, Activate, AddDetails, FallbackTimeout, Interrupted
  <2> QED BY <2>1 DEF IInv
<1> QED BY <1>1, <1>2, <1>3, <1>4

\* What is left to show of a step.
StepOK ==
    /\ BoxMoves
    /\ CountInv'
    /\ PageInv'
    /\ NothingLost'
    /\ closing' => sendWhenReady'

\* The invariant, seen from the box.
LEMMA BoxIsOK == ASSUME IInv PROVE BoxOK
BY DEF IInv, Types, TypeOK, BoxOK

\* A delivered event of a session without a bug report is kept.
LEMMA DeliveredIsKept ==
  ASSUME NEW b, b.delivered, Honest(b), ~b.missed
  PROVE  b.events > 0 /\ b.file = Envelope(b) /\ b.dsn
BY DEF Honest


\* Before exec() the box is new, and nothing in it can be ready.
LEMMA BeforeExec ==
  ASSUME IInv, Construct \/ DispatchDialog \/ DispatchShutdown \/ DispatchNotifier
  PROVE  StepOK
<1> USE DEF program, user, report, notifier
<1>1. /\ box = NewPostbox /\ handlers = 0 /\ sending = "no" /\ page = "none" /\ bubble = "none"
      /\ ~closing /\ app = "up" /\ gen # "Loaded"
  BY DEF IInv, StartInv, Construct, DispatchDialog, DispatchShutdown, DispatchNotifier
<1>2. ASSUME Construct
      PROVE  /\ box' = box /\ gen' # "Loaded" /\ app' = app
             /\ trying' \/ (~trying' /\ follow' = follow)
  <2>1. gen = "NotLoaded" /\ follow = 0 /\ ~trying
    BY <1>2 DEF IInv, StartInv, Construct
  <2> QED BY <1>1, <1>2, <2>1 DEF Construct, TrySentry, PrepareCrashEvent, StartGenerator,
             IInv, Types, TypeOK
<1>3. /\ box' = box /\ gen' # "Loaded" /\ handlers' = handlers /\ sending' = sending
      /\ page' = page /\ closing' = closing /\ app' # "done" /\ traces' = traces
      /\ trying' \/ (~trying' /\ follow' = follow)
  BY <1>1, <1>2 DEF Construct, DispatchDialog, DispatchShutdown, DispatchNotifier,
     OpenDrKonqiDialog, MainPageStarts, StartGenerator, IInv, Types, TypeOK
<1>4. BoxMoves
  <2>1. ~IsReadyToDeliver(box)
    BY <1>1 DEF NewPostbox, IsReadyToDeliver
  <2> QED BY <1>1, <1>3, <2>1, BoxIsOK, BoxStays
<1>5. bubble' = "details" => trying'
  BY <1>1 DEF Construct, DispatchDialog, DispatchShutdown, DispatchNotifier,
     IInv, StartInv
<1>6. box.events = 0
  BY <1>1 DEF NewPostbox
<1>7. traces \in Nat /\ (~trying => follow = 0) /\ (trying => trying')
  <2>1. traces \in Nat
    BY DEF IInv, Types, TypeOK
  <2>2. ~trying => follow = 0
    BY <1>1 DEF IInv, CountInv
  <2>3. trying => trying'
    BY DEF Construct, TrySentry, DispatchDialog, DispatchShutdown, DispatchNotifier
  <2> QED BY <2>1, <2>2, <2>3
<1>8. CountInv'
  BY <1>1, <1>3, <1>6, <1>7 DEF CountInv, OneEventPerTrace
<1>9. PageInv' /\ NothingLost'
  BY <1>1, <1>3, <1>5 DEF PageInv, OnSentryPage, NothingLost
<1> QED BY <1>1, <1>3, <1>4, <1>8, <1>9 DEF StepOK

\* What neither touches the box nor shows the Sentry page, and does not end well.
LEMMA QuietStep ==
  ASSUME IInv, GeneratorFails \/ Restart \/ LeavePage \/ ToggleSetting \/ BugReportFails
               \/ FallbackTimeout \/ Interrupted \/ Activate
  PROVE  StepOK
<1> USE DEF program, user, report, notifier
<1> DEFINE A == GeneratorFails \/ Restart \/ LeavePage \/ BugReportFails
                \/ FallbackTimeout \/ Interrupted \/ Activate
<1>1. /\ app = "up" /\ app' # "done"
      /\ UNCHANGED <<box, handlers, traces, trying, follow, sendWhenReady, closing, forced, crash>>
      /\ (sending' = sending \/ sending' = "error") /\ (gen' = "Loaded" => gen = "Loaded")
      /\ page' \in {page, "none"} /\ bubble' \in {bubble, "none"}
      /\ UNCHANGED <<setting, toggles>> \/ ToggleSetting
  BY DEF GeneratorFails, Restart, LeavePage, ToggleSetting, BugReportFails, FallbackTimeout,
     Interrupted, Activate, Running, OpenDrKonqiDialog, MainPageStarts, StartGenerator
<1>2. BoxMoves
  BY <1>1, BoxIsOK, BoxStays
<1>3. CountInv' /\ NothingLost'
  BY <1>1 DEF IInv, CountInv, OneEventPerTrace, NothingLost
<1>4. (bubble' = "details" => trying') /\ (OnSentryPage' => trying' \/ ~crash'.eligible)
  BY <1>1 DEF IInv, PageInv, OnSentryPage
<1>5. Sending' => Sending
  <2>1. CASE UNCHANGED <<setting, toggles>>
    BY <1>1, <2>1 DEF Sending, IsCrashEventSendingEnabled
  <2>2. CASE ToggleSetting
    BY <1>1, <2>2 DEF ToggleSetting, Sending, IInv, AskedInv, Types, TypeOK
  <2> QED BY <1>1, <2>1, <2>2
<1>6. PageInv'
  BY <1>1, <1>4, <1>5 DEF IInv, PageInv
<1>7. closing' => sendWhenReady'
  BY <1>1 DEF IInv, BoxInv
<1> QED BY <1>2, <1>3, <1>6, <1>7 DEF StepOK

\* "Add Details" shows what is so.
LEMMA AddDetailsStep ==
  ASSUME IInv, AddDetails
  PROVE  StepOK
<1> USE DEF program, user, report, notifier
<1>1. /\ app = "up" /\ app' # "done"
      /\ UNCHANGED <<box, handlers, traces, trying, follow, sendWhenReady, closing, forced, crash,
                     sending, setting, toggles>>
      /\ gen' = "Loaded" => gen = "Loaded"
      /\ page' = Shown /\ bubble' = "none" /\ trying
  BY DEF AddDetails, Running, OpenDrKonqiDialog, MainPageStarts, StartGenerator, IInv, PageInv
<1>2. BoxMoves
  BY <1>1, BoxIsOK, BoxStays
<1>3. CountInv' /\ NothingLost'
  BY <1>1 DEF IInv, CountInv, OneEventPerTrace, NothingLost
<1>4. PageInv'
  BY <1>1 DEF PageInv, OnSentryPage, Shown, HasCrashEventSent, Sending,
     IsCrashEventSendingEnabled
<1> QED BY <1>1, <1>2, <1>3, <1>4 DEF StepOK, IInv, BoxInv

\* "Finish" believes the page, which is right.
LEMMA FinishStep ==
  ASSUME IInv, Finish
  PROVE  StepOK
<1> USE DEF program, user, report, notifier
<1>1. /\ app = "up" /\ app' = "done" /\ page = "sent"
      /\ UNCHANGED <<box, handlers, traces, trying, follow, sendWhenReady, closing, forced, crash,
                     sending, setting, toggles, gen, page, bubble>>
  BY DEF Finish, Running
<1>2. BoxMoves
  BY <1>1, BoxIsOK, BoxStays
<1>3. CountInv' /\ PageInv'
  BY <1>1 DEF IInv, CountInv, OneEventPerTrace, PageInv, OnSentryPage
<1>4. NothingLost'
  <2>1. (Sending' => Sending) /\ (Sending => handlers = 0)
    BY <1>1 DEF Sending, IsCrashEventSendingEnabled
  <2>2. Sending /\ ~box.missed => Kept
    BY <1>1, <2>1, DeliveredIsKept DEF IInv, PageInv, BoxInv, Kept
  <2> QED BY <1>1, <2>1, <2>2 DEF NothingLost, Kept
<1> QED BY <1>1, <1>2, <1>3, <1>4 DEF StepOK, IInv, BoxInv

\* Quitting is right when the event is delivered.
LEMMA EndsWell ==
  ASSUME BoxMoves, app' = "done" /\ Sending' /\ ~box'.late /\ ~hasty' => box'.delivered
  PROVE  NothingLost'
<1> SUFFICES ASSUME app' = "done", Sending', ~box'.late, ~box'.missed, ~hasty'
             PROVE  Kept'
  BY DEF NothingLost
<1>1. box'.delivered /\ handlers' = 0
  BY DEF Sending
<1>2. Honest(box')
  BY <1>1 DEF BoxMoves
<1> QED BY <1>1, <1>2, DeliveredIsKept DEF Kept

\* What a page shows anew is so.
LEMMA ShownIsSo ==
  ASSUME page' = Shown', page' = "sent", Sending'
  PROVE  box'.delivered
BY DEF Shown, HasCrashEventSent, Sending

\* The page that follows crashEventSent is not left behind: it was there only when trying.
LEMMA RefreshedIsSo ==
  ASSUME IInv, app = "up", RefreshPage, UNCHANGED <<setting, forced, toggles, handlers, crash>>,
         page' = "sent", Sending'
  PROVE  box'.delivered
<1>1. CASE OnSentryPage /\ box' # box
  <2>1. page' = Shown'
    BY <1>1 DEF RefreshPage, Sending
  <2> QED BY <2>1, ShownIsSo
<1>2. CASE ~(OnSentryPage /\ box' # box)
  <2>1. page' = page
    BY <1>2 DEF RefreshPage
  <2>2. OnSentryPage /\ box' = box /\ crash.eligible
    BY <1>2, <2>1 DEF OnSentryPage, Sending, IsCrashEventSendingEnabled
  <2>3. Sending
    BY <2>2 DEF IInv, PageInv, Sending, IsCrashEventSendingEnabled
  <2> QED BY <2>1, <2>2, <2>3 DEF IInv, PageInv
<1> QED BY <1>1, <1>2

\* aboutToQuit(): what it decides, and what it leaves to wait for.
LEMMA AboutToQuitMoves ==
  ASSUME IInv, app = "up", AboutToQuit,
         UNCHANGED <<setting, forced, toggles, handlers, crash, trying>>
  PROVE  /\ BoxMoves /\ box'.events = box.events
         /\ closing' => sendWhenReady'
         /\ NothingLost'
         /\ box.delivered => box'.delivered
<1>0. Sending' => Sending /\ IsCrashEventSendingEnabled /\ handlers = 0
  BY DEF Sending, IsCrashEventSendingEnabled
<1>1. CASE HasCrashEventSent \/ gen = "Failed"
  <2>1. UNCHANGED <<closing, sendWhenReady, box>>
        /\ app' = IF HasCrashEventSent THEN "done" ELSE "failed"
    BY <1>1 DEF AboutToQuit
  <2>2. BoxMoves
    BY <2>1, BoxIsOK, BoxStays
  <2>3. app' = "done" /\ Sending' => box'.delivered
    BY <1>0, <2>1 DEF HasCrashEventSent
  <2>4. NothingLost'
    BY <2>2, <2>3, EndsWell
  <2> QED BY <2>1, <2>2, <2>4 DEF IInv, BoxInv
<1>2. CASE ~(HasCrashEventSent \/ gen = "Failed")
  <2>1. /\ closing' = TRUE /\ sendWhenReady' = TRUE
        /\ \E ok \in BOOLEAN : box' = MaybePickUpPostbox(box, TRUE, ok)
        /\ app' = "done" => box' # box
    BY <1>2 DEF AboutToQuit, CrashEventSent
  <2>2. PICK ok \in BOOLEAN : box' = MaybePickUpPostbox(box, TRUE, ok)
    BY <2>1
  <2>3. /\ BoxMoves /\ box'.events = box.events
        /\ box' # box => box'.delivered
        /\ box.delivered => box'.delivered
    BY <2>2, BoxIsOK, PickUpMoves
  <2>4. NothingLost'
    BY <2>1, <2>3, EndsWell
  <2> QED BY <2>1, <2>3, <2>4
<1> QED BY <1>1, <1>2

\* The three ways to aboutToQuit().
LEMMA QuitStep ==
  ASSUME IInv, CloseWindow \/ IconExpires \/ BubbleCloses
  PROVE  StepOK
<1> USE DEF program, user, report, notifier
<1>1. /\ app = "up" /\ AboutToQuit
      /\ UNCHANGED <<setting, forced, toggles, handlers, crash, trying, follow, gen, traces, sending>>
      /\ page' \in {page, "none"} \/ RefreshPage
      /\ bubble' = bubble \/ bubble' = "none"
  BY DEF CloseWindow, IconExpires, BubbleCloses, Running
<1>2. /\ BoxMoves /\ box'.events = box.events
      /\ closing' => sendWhenReady'
      /\ NothingLost'
      /\ box.delivered => box'.delivered
  BY <1>1, AboutToQuitMoves
<1>3. CountInv'
  BY <1>1, <1>2 DEF IInv, CountInv, OneEventPerTrace
<1>4. bubble' = "details" => trying'
  BY <1>1 DEF IInv, PageInv
<1>5. OnSentryPage' => trying' \/ ~crash'.eligible
  BY <1>1 DEF IInv, PageInv, OnSentryPage, RefreshPage
<1>6. page' = "sent" /\ app' = "up" /\ Sending' => box'.delivered
  <2>1. CASE RefreshPage
    BY <1>1, <2>1, RefreshedIsSo
  <2>2. CASE page' \in {page, "none"}
    BY <1>1, <1>2, <2>2 DEF IInv, PageInv, Sending, IsCrashEventSendingEnabled
  <2> QED BY <1>1, <2>1, <2>2
<1> QED BY <1>2, <1>3, <1>4, <1>5, <1>6 DEF StepOK, PageInv

\* The trace: with it an enabled report is complete.
LEMMA GeneratorDoneStep ==
  ASSUME IInv, GeneratorDone
  PROVE  StepOK
<1> USE DEF program, user, report, notifier
<1>1. /\ app = "up" /\ gen' = "Loaded" /\ traces' = traces + 1 /\ RefreshPage
      /\ UNCHANGED <<setting, forced, toggles, hasty, handlers, crash, trying, follow, sending,
                     bubble, sendWhenReady, closing>>
      /\ IF follow > 0 THEN Add(follow, 0, trying) ELSE UNCHANGED <<box, app>>
  BY DEF GeneratorDone, Running
<1>2. follow \in {0, 1} /\ traces \in Nat /\ trying \in BOOLEAN /\ box.events \in Nat
  BY DEF IInv, Types, TypeOK, Postboxes
<1>3. /\ BoxMoves /\ box'.events = box.events + follow
      /\ follow = 1 /\ sendWhenReady /\ ~box'.late => box'.delivered
  <2>1. CASE follow = 1
    BY <1>1, <1>2, <2>1, BoxIsOK, AddMoves
  <2>2. CASE follow = 0
    BY <1>1, <1>2, <2>2, BoxIsOK, BoxStays
  <2> QED BY <1>2, <2>1, <2>2
<1>4. app' = "done" => follow = 1 /\ closing /\ sendWhenReady
  BY <1>1, <1>2 DEF Add, CrashEventSent, IInv, BoxInv
<1>5. NothingLost'
  BY <1>3, <1>4, EndsWell
<1>6. CountInv'
  BY <1>1, <1>2, <1>3 DEF IInv, CountInv, OneEventPerTrace
<1>7. PageInv'
  <2>1. OnSentryPage' => trying' \/ ~crash'.eligible
    BY <1>1 DEF IInv, PageInv, OnSentryPage, RefreshPage
  <2>2. page' = "sent" /\ Sending' => box'.delivered
    BY <1>1, RefreshedIsSo
  <2> QED BY <1>1, <2>1, <2>2 DEF IInv, PageInv
<1> QED BY <1>1, <1>3, <1>5, <1>6, <1>7 DEF StepOK, IInv, BoxInv

\* The address: an event it comes too late for is late.
LEMMA DsnLoadedStep ==
  ASSUME IInv, DsnLoaded
  PROVE  StepOK
<1> USE DEF program, user, report, notifier
<1>1. /\ app = "up" /\ ~box.dsn /\ box' = [box EXCEPT !.dsn = TRUE]
      /\ UNCHANGED <<setting, forced, toggles, handlers, crash, trying, follow, sending, gen,
                     traces, page, bubble, sendWhenReady, closing, app>>
  BY DEF DsnLoaded, Running
<1>2. box \in Postboxes /\ Covers(box) /\ (handlers = 0 => Honest(box))
  BY DEF IInv, Types, BoxInv
<1>3. /\ box' \in Postboxes /\ box'.events = box.events /\ box'.comments = box.comments
      /\ box'.file = box.file /\ box'.delivered = box.delivered
      /\ box'.missed = box.missed /\ box'.late = box.late
  BY <1>1, <1>2 DEF Postboxes
<1>4. box.file.events \in Nat /\ box.file.comments \in Nat
  BY <1>2 DEF Postboxes, Envelopes
<1>5. BoxMoves
  <2>1. Covers(box')
    BY <1>1, <1>2, <1>3 DEF Covers
  <2>2. Prompt(box', sendWhenReady')
    BY <1>1, <1>2, <1>3 DEF Covers, Prompt, IsReadyToDeliver
  <2>3. handlers' = 0 => Honest(box')
    BY <1>1, <1>2, <1>3 DEF Honest
  <2> QED BY <1>3, <1>4, <2>1, <2>2, <2>3 DEF BoxMoves, FileGrows
<1>6. CountInv'
  BY <1>1, <1>3 DEF IInv, CountInv, OneEventPerTrace
<1>7. PageInv'
  BY <1>1, <1>3 DEF IInv, PageInv, OnSentryPage, Sending, IsCrashEventSendingEnabled
<1>8. NothingLost'
  BY <1>1 DEF NothingLost
<1> QED BY <1>1, <1>5, <1>6, <1>7, <1>8 DEF StepOK, IInv, BoxInv



\* A message from the Sentry page: it may end the waiting, and is hasty then.
LEMMA CreateCrashMessageStep ==
  ASSUME IInv, CreateCrashMessage
  PROVE  StepOK
<1> USE DEF program, user, report, notifier
<1>1. /\ app = "up" /\ Add(0, 1, trying) /\ hasty' = (hasty \/ closing) /\ RefreshPage
      /\ UNCHANGED <<setting, forced, toggles, handlers, crash, trying, follow, sending,
                     bubble, sendWhenReady, closing, gen, traces>>
  BY DEF CreateCrashMessage, Running
<1>2. traces \in Nat /\ trying \in BOOLEAN /\ box.events \in Nat
  BY DEF IInv, Types, TypeOK, Postboxes
<1>3. BoxMoves /\ box'.events = box.events
  BY <1>1, <1>2, BoxIsOK, AddMoves
<1>4. app' = "done" => hasty'
  BY <1>1 DEF Add, CrashEventSent
<1>5. NothingLost'
  BY <1>3, <1>4, EndsWell
<1>6. CountInv'
  BY <1>1, <1>2, <1>3 DEF IInv, CountInv, OneEventPerTrace
<1>7. PageInv'
  <2>1. OnSentryPage' => trying' \/ ~crash'.eligible
    BY <1>1 DEF IInv, PageInv, OnSentryPage, RefreshPage
  <2>2. page' = "sent" /\ Sending' => box'.delivered
    BY <1>1, RefreshedIsSo
  <2> QED BY <1>1, <2>1, <2>2 DEF IInv, PageInv
<1> QED BY <1>1, <1>3, <1>5, <1>6, <1>7 DEF StepOK, IInv, BoxInv

\* prepareCrashEvent(): the event now, or a connection for later.
LEMMA PrepareMoves ==
  ASSUME IInv, NEW now \in BOOLEAN, PrepareCrashEvent(now), sendWhenReady' = sendWhenReady,
         handlers = 0 \/ handlers' # 0
  PROVE  /\ BoxMoves
         /\ \/ /\ gen = "Loaded" /\ UNCHANGED <<gen, follow>> /\ box'.events = box.events + 1
               /\ sendWhenReady /\ ~box'.late => box'.delivered
            \/ /\ gen # "Loaded" /\ gen' # "Loaded" /\ box' = box
               /\ app' = "done" => app = "done"
<1>1. CASE gen = "Loaded"
  <2>1. Add(1, 0, now) /\ UNCHANGED <<gen, follow>>
    BY <1>1 DEF PrepareCrashEvent
  <2> QED BY <1>1, <2>1, BoxIsOK, AddMoves
<1>2. CASE gen # "Loaded"
  <2>1. box' = box /\ gen' # "Loaded" /\ (app' = "done" => app = "done")
    BY <1>2 DEF PrepareCrashEvent, StartGenerator
  <2> QED BY <1>2, <2>1, BoxIsOK, BoxStays
<1> QED BY <1>1, <1>2

\* A bug report, which nothing but types and the box is said about.
LEMMA BugReportStep ==
  ASSUME IInv, SendBugReport \/ BugReportSent
  PROVE  StepOK
<1> USE DEF program, user, report, notifier
<1>1. /\ app = "up" /\ handlers' > 0 /\ handlers' \in Nat
      /\ UNCHANGED <<setting, forced, toggles, crash, trying, sendWhenReady, closing, traces, bubble>>
  BY DEF SendBugReport, BugReportSent, Running, IInv, Types, TypeOK, CountInv
<1>2. BoxMoves /\ (gen' = "Loaded" => gen = "Loaded")
  <2>1. CASE SendBugReport
    <3>1. PrepareCrashEvent(trying) /\ trying \in BOOLEAN
      BY <2>1 DEF SendBugReport, IInv, Types, TypeOK
    <3> QED BY <1>1, <3>1, PrepareMoves
  <2>2. CASE BugReportSent
    <3>1. PICK ok \in BOOLEAN : box' = Deliver(AddItems(box, 0, handlers), ok)
      BY <2>2 DEF BugReportSent
    <3> DEFINE a == AddItems(box, 0, handlers)
               d == Deliver(a, ok)
    <3>2. box \in Postboxes /\ Covers(box) /\ handlers \in Nat
      BY DEF IInv, Types, TypeOK, BoxInv
    <3>3. /\ a \in Postboxes /\ Covers(a) /\ a.file = box.file /\ a.missed = box.missed
          /\ a.late = (box.late \/ (0 > 0 /\ ~box.dsn))
      BY <3>2, AddItemsKeeps
    <3> HIDE DEF a
    <3>4. /\ d \in Postboxes /\ Covers(d) /\ d.delivered
          /\ d.missed = (a.missed \/ ~ok) /\ d.late = (a.late \/ ~a.dsn)
          /\ a.file.events <= d.file.events /\ a.file.comments <= d.file.comments
      BY <3>3, DeliverKeeps
    <3>5. box' = d
      BY <3>1 DEF a
    <3> HIDE DEF d
    <3>6. box.late \in BOOLEAN /\ box.missed \in BOOLEAN
      BY <3>2 DEF Postboxes
    <3>7. (box.late => d.late) /\ (box.missed => d.missed)
      BY <3>3, <3>4, <3>6
    <3>8. FileGrows /\ Prompt(box', sendWhenReady')
      BY <3>3, <3>4, <3>5 DEF FileGrows, Prompt
    <3>9. handlers' # 0 /\ gen' = gen
      BY <1>1, <2>2 DEF BugReportSent
    <3> QED BY <3>4, <3>5, <3>7, <3>8, <3>9 DEF BoxMoves
  <2> QED BY <2>1, <2>2
<1>3. CountInv' /\ NothingLost' /\ ~Sending'
  BY <1>1, <1>2 DEF IInv, CountInv, OneEventPerTrace, NothingLost, Sending
<1>4. OnSentryPage' => OnSentryPage
  BY DEF SendBugReport, BugReportSent, RefreshPage, OnSentryPage
<1>5. PageInv'
  BY <1>1, <1>3, <1>4 DEF IInv, PageInv
<1> QED BY <1>1, <1>2, <1>3, <1>5 DEF StepOK, IInv, BoxInv

\* The setting has settled: sending is tried, if it was not.
LEMMA SettingSettledStep ==
  ASSUME IInv, SettingSettled
  PROVE  StepOK
<1> USE DEF program, user, report, notifier
<1>1. /\ app = "up" /\ TrySentry /\ RefreshPage
      /\ UNCHANGED <<setting, forced, toggles, hasty, handlers, crash, sending,
                     bubble, sendWhenReady, closing, traces>>
  BY DEF SettingSettled, Running
<1>2. traces \in Nat /\ handlers \in Nat /\ box.events \in Nat /\ trying \in BOOLEAN
  BY DEF IInv, Types, TypeOK, Postboxes
<1>3. CASE ~(IsCrashEventSendingEnabled' /\ ~trying)
  <2>1. UNCHANGED <<trying, follow, gen, box, app>>
    BY <1>1, <1>3 DEF TrySentry
  <2>2. BoxMoves
    BY <1>1, <2>1, BoxIsOK, BoxStays
  <2>3. CountInv' /\ NothingLost'
    BY <1>1, <2>1 DEF IInv, CountInv, OneEventPerTrace, NothingLost
  <2>4. PageInv'
    BY <1>1, <2>1, RefreshedIsSo DEF IInv, PageInv, OnSentryPage, RefreshPage
  <2> QED BY <1>1, <2>2, <2>3, <2>4 DEF StepOK, IInv, BoxInv
<1>4. CASE IsCrashEventSendingEnabled' /\ ~trying
  <2>1. trying' = TRUE /\ PrepareCrashEvent(TRUE)
    BY <1>1, <1>4 DEF TrySentry
  <2>2. /\ BoxMoves
        /\ \/ /\ gen = "Loaded" /\ UNCHANGED <<gen, follow>> /\ box'.events = box.events + 1
              /\ sendWhenReady /\ ~box'.late => box'.delivered
           \/ gen # "Loaded" /\ gen' # "Loaded" /\ box' = box /\ app' # "done"
    BY <1>1, <2>1, PrepareMoves
  <2>3. app' = "done" => closing /\ sendWhenReady
    BY <1>1, <2>1 DEF PrepareCrashEvent, Add, CrashEventSent, StartGenerator, IInv, BoxInv
  <2>4. NothingLost'
    BY <1>1, <2>2, <2>3, EndsWell DEF IInv, NothingLost
  <2>5. CountInv'
    BY <1>1, <1>2, <1>4, <2>1, <2>2 DEF IInv, CountInv, OneEventPerTrace
  <2>6. PageInv'
    BY <1>1, <2>1, RefreshedIsSo DEF IInv, PageInv
  <2> QED BY <1>1, <2>2, <2>4, <2>5, <2>6 DEF StepOK, IInv, BoxInv
<1> QED BY <1>3, <1>4

\* "Send Automatic Report": a pick-up, and the event if sending had not been tried.
LEMMA SendAutomaticReportStep ==
  ASSUME IInv, SendAutomaticReport
  PROVE  StepOK
<1> USE DEF program, user, report, notifier
<1>1. /\ app = "up" /\ sendWhenReady' = TRUE /\ page' = Shown'
      /\ UNCHANGED <<setting, toggles, hasty, handlers, crash, sending, bubble, closing, traces>>
  BY DEF SendAutomaticReport, Running
<1>2. traces \in Nat /\ handlers \in Nat /\ box.events \in Nat /\ trying \in BOOLEAN
  BY DEF IInv, Types, TypeOK, Postboxes
<1>3. CASE trying \/ ~crash.eligible
  <2>1. /\ \E ok \in BOOLEAN : box' = MaybePickUpPostbox(box, TRUE, ok)
        /\ app' = "done" => box' # box
        /\ UNCHANGED <<trying, follow, gen>>
    BY <1>1, <1>3 DEF SendAutomaticReport, CrashEventSent
  <2>2. PICK ok \in BOOLEAN : box' = MaybePickUpPostbox(box, TRUE, ok)
    BY <2>1
  <2>3. BoxMoves /\ box'.events = box.events /\ (box' # box => box'.delivered)
    BY <1>1, <2>2, BoxIsOK, PickUpMoves
  <2>4. NothingLost'
    BY <2>1, <2>3, EndsWell
  <2>5. CountInv'
    BY <1>1, <2>1, <2>3 DEF IInv, CountInv, OneEventPerTrace
  <2>6. PageInv'
    BY <1>1, <1>3, <2>1, ShownIsSo DEF IInv, PageInv
  <2> QED BY <1>1, <2>3, <2>4, <2>5, <2>6 DEF StepOK
<1>4. CASE ~(trying \/ ~crash.eligible)
  <2>1. PICK ok \in BOOLEAN :
        LET picked == MaybePickUpPostbox(box, TRUE, ok)
        IN /\ trying' = TRUE
           /\ \/ /\ gen = "Loaded" /\ UNCHANGED <<gen, follow>>
                 /\ box' = MaybePickUpPostbox(AddItems(picked, 1, 0), TRUE, ok)
              \/ /\ gen # "Loaded" /\ gen' # "Loaded" /\ app' # "done"
                 /\ box' = picked
    BY <1>1, <1>4 DEF SendAutomaticReport, StartGenerator
  <2> DEFINE picked == MaybePickUpPostbox(box, TRUE, ok)
  <2>2. box \in Postboxes /\ Covers(box) /\ TRUE \in BOOLEAN
    BY DEF IInv, Types, BoxInv
  <2>3. PickedUp(box, picked, TRUE)
    BY <2>2, PickUpKeeps
  <2>4. CASE gen # "Loaded"
    <3>1. box' = picked /\ gen' # "Loaded" /\ app' # "done"
      BY <2>1, <2>4
    <3>2. BoxMoves /\ box'.events = box.events
      BY <1>1, <3>1, BoxIsOK, PickUpMoves
    <3>3. NothingLost'
      BY <3>1 DEF NothingLost
    <3>4. CountInv'
      BY <1>1, <2>1, <3>1, <3>2 DEF IInv, CountInv, OneEventPerTrace
    <3>5. PageInv'
      BY <1>1, <2>1, ShownIsSo DEF PageInv
    <3> QED BY <1>1, <3>2, <3>3, <3>4, <3>5 DEF StepOK
  <2>5. CASE gen = "Loaded"
    <3> DEFINE d == MaybePickUpPostbox(AddItems(picked, 1, 0), TRUE, ok)
    <3>1. box' = d /\ UNCHANGED <<gen, follow>>
      BY <2>1, <2>5
    <3> HIDE DEF picked
    <3>2. picked \in Postboxes /\ Covers(picked) /\ picked.events = box.events
      BY <2>3 DEF PickedUp
    <3>3. AddedTo(picked, d, 1, 0, TRUE)
      BY <2>2, <3>2, AddKeeps
    <3> HIDE DEF d
    <3>4. box'.events = box.events + 1 /\ (~box'.late => box'.delivered)
      BY <3>1, <3>2, <3>3 DEF AddedTo
    <3>5. (box.late => box'.late) /\ (box.missed => box'.missed)
      BY <2>3, <3>1, <3>3 DEF AddedTo, PickedUp
    <3>6. Prompt(d, sendWhenReady')
      BY <1>1, <3>3 DEF AddedTo, Prompt
    <3>7. /\ box'.events = box.events + 1 /\ (~box'.late => box'.delivered)
          /\ box' \in Postboxes /\ Covers(box') /\ Prompt(box', sendWhenReady') /\ Honest(box')
          /\ (box.late => box'.late) /\ (box.missed => box'.missed)
      BY <3>1, <3>3, <3>4, <3>5, <3>6 DEF AddedTo
    <3>8. FileGrows
      <4>1. /\ box.file \in Envelopes /\ picked.file \in Envelopes /\ d.file \in Envelopes
            /\ d \in Postboxes
        BY <2>2, <3>1, <3>2, <3>7 DEF Postboxes
      <4> QED BY <2>3, <3>1, <3>3, <4>1 DEF FileGrows, AddedTo, PickedUp, Envelopes
    <3>9. BoxMoves
      BY <3>7, <3>8 DEF BoxMoves
    <3>10. NothingLost'
      BY <3>7, <3>9, EndsWell
    <3>11. CountInv'
      BY <1>1, <1>2, <1>4, <2>1, <2>5, <3>1, <3>7 DEF IInv, CountInv, OneEventPerTrace
    <3>12. PageInv'
      BY <1>1, <2>1, ShownIsSo DEF PageInv
    <3> QED BY <1>1, <3>9, <3>10, <3>11, <3>12 DEF StepOK
  <2> QED BY <2>4, <2>5
<1> QED BY <1>3, <1>4

-----------------------------------------------------------------------------
(* The inductive step. *)

\* The constructor establishes the invariant.
LEMMA InitOK == Init => IInv
<1> SUFFICES ASSUME Init PROVE IInv
  OBVIOUS
<1>1. /\ box = NewPostbox /\ box \in Postboxes /\ Covers(box) /\ ~box.delivered
      /\ box.events = 0
  BY DEF Init, NewPostbox, NoFile, Postboxes, Envelopes, Covers
<1>2. Types
  <2>1. Envelope(box) \in Envelopes /\ box.file \in Envelopes
        /\ {box.delivered, box.missed, box.late} \subseteq BOOLEAN
    BY <1>1, PostboxTypes
  <2>2. TypeOK
    <3>1. traces \in 0 .. MaxTraces /\ toggles \in 0 .. MaxToggles /\ handlers \in 0 .. MaxAttempts
      BY BoundsAssumption DEF Init
    <3>2. {setting, forced, agreed, hasty, settling, trying, sendWhenReady, marked, closing}
            \subseteq BOOLEAN
      BY DEF Init
    <3>3. /\ crash \in Reportability /\ stage \in {"construct", "dispatch", "run"}
          /\ follow \in {0, 1} /\ gen \in {"NotLoaded", "Loading", "Loaded", "Failed"}
          /\ sending \in {"no", "busy", "error", "sent"} /\ window \in {"none", "main", "sentry"}
          /\ page \in {"none", "collecting", "sent", "bug"}
          /\ icon \in {"none", "shown", "hidden"}
          /\ bubble \in {"none", "plain", "report", "details"}
          /\ app \in {"up", "done", "failed", "stopped"}
      BY DEF Init
    <3> QED BY <2>1, <3>1, <3>2, <3>3 DEF TypeOK
  <2>3. gen # "Loaded" => traces < MaxTraces
    BY BoundsAssumption DEF Init
  <2> QED BY <1>1, <2>2, <2>3 DEF Types
<1>3. StartInv /\ AskedInv
  BY DEF Init, StartInv, AskedInv
<1>4. CountInv
  BY <1>1 DEF Init, CountInv, OneEventPerTrace
<1>5. PageInv /\ NothingLost
  BY DEF Init, PageInv, OnSentryPage, NothingLost
<1>6. BoxInv
  BY <1>1 DEF Init, BoxInv, Honest, Prompt
<1> QED BY <1>2, <1>3, <1>4, <1>5, <1>6 DEF IInv

\* Every action does its part.
LEMMA NextOK == IInv /\ Next => StepOK
BY BeforeExec, QuietStep, AddDetailsStep, FinishStep, QuitStep, GeneratorDoneStep, DsnLoadedStep,
   CreateCrashMessageStep, BugReportStep, SettingSettledStep, SendAutomaticReportStep DEF Next

\* The invariant is inductive.
LEMMA InvStep == IInv /\ [Next]_vars => IInv'
<1> SUFFICES ASSUME IInv, [Next]_vars PROVE IInv'
  OBVIOUS
<1>1. CASE Next
  <2>1. StepOK
    BY <1>1, NextOK
  <2>2. Types' /\ StartInv' /\ AskedInv'
    BY <1>1, <2>1, TypesStep, StartStep, AskedStep DEF StepOK, IInv
  <2>3. BoxInv'
    BY <2>1 DEF StepOK, BoxMoves, BoxInv
  <2> QED BY <2>1, <2>2, <2>3 DEF StepOK, IInv
<1>2. CASE UNCHANGED vars
  BY <1>2 DEF vars, program, user, report, notifier, IInv, Types, TypeOK, StartInv, AskedInv,
     CountInv, PageInv, BoxInv, NothingLost, OneEventPerTrace, OnSentryPage, Sending, Kept,
     IsCrashEventSendingEnabled, Envelope
<1> QED BY <1>1, <1>2

-----------------------------------------------------------------------------
(* What drkonqi waits for, when it waits. *)

\* Sending that was tried has its event, or is connected to the trace that will bring it.
Tried ==
    trying =>
        /\ gen # "NotLoaded"
        /\ IF gen = "Loaded" THEN box.events > 0 ELSE follow = 1 \/ box.events > 0

\* Sending that is enabled but not tried yet was switched on a moment ago.
SwitchedOn == stage # "construct" /\ IsCrashEventSendingEnabled /\ ~trying => settling

PagesHaveWindows == window = "none" => page = "none"

\* What aboutToQuit() leaves behind it when it does not quit.
Awaited ==
    /\ IsCrashEventSendingEnabled
    /\ trying => gen = "Loading" /\ follow = 1

AwaitedAlone == closing /\ app = "up" /\ window = "none" /\ ~box.late => Awaited

WaitInv == Tried /\ SwitchedOn /\ PagesHaveWindows /\ AwaitedAlone

\* Adding adds, and quits if the signal is connected and somebody waits.
LEMMA AddBrings ==
  ASSUME IInv, NEW e \in Nat, NEW c \in Nat, NEW now \in BOOLEAN, Add(e, c, now),
         sendWhenReady' = sendWhenReady
  PROVE  box'.events = box.events + e /\ (now /\ closing => app' = "done")
BY BoxIsOK, AddMoves DEF Add, CrashEventSent

\* prepareCrashEvent() adds the event or connects to a trace that is being taken.
LEMMA PrepareBrings ==
  ASSUME IInv, NEW now \in BOOLEAN, PrepareCrashEvent(now), sendWhenReady' = sendWhenReady
  PROVE  /\ gen' # "NotLoaded"
         /\ IF gen' = "Loaded" THEN box'.events > 0 ELSE follow' = 1
         /\ now /\ closing /\ app' = "up" => gen' = "Loading" /\ follow' = 1
<1>1. box.events \in Nat
  BY DEF IInv, Types, Postboxes
<1>2. gen \in {"NotLoaded", "Loading", "Loaded", "Failed"}
  BY DEF IInv, Types, TypeOK
<1>3. CASE gen = "Loaded"
  <2>1. Add(1, 0, now) /\ gen' = gen
    BY <1>3 DEF PrepareCrashEvent
  <2>2. box'.events = box.events + 1 /\ (now /\ closing => app' = "done")
    BY <2>1, AddBrings
  <2> QED BY <1>1, <1>3, <2>1, <2>2
<1>4. CASE gen # "Loaded"
  BY <1>2, <1>4 DEF PrepareCrashEvent, StartGenerator
<1> QED BY <1>3, <1>4

\* The dialog's main page starts the generator only if nobody tried sending.
LEMMA MainPageKeeps ==
  ASSUME Tried, MainPageStarts, UNCHANGED <<trying, follow, box>>
  PROVE  Tried'
BY DEF Tried, MainPageStarts, StartGenerator

\* aboutToQuit() quits, or something is under way that will make it.
LEMMA AboutToQuitAwaits ==
  ASSUME IInv, IInv', Tried, AboutToQuit,
         UNCHANGED <<crash, setting, forced, trying, follow, gen, handlers>>
  PROVE  /\ Tried'
         /\ app' = "up" /\ ~box'.late => Awaited'
<1>1. CASE HasCrashEventSent \/ gen = "Failed"
  BY <1>1 DEF AboutToQuit, Tried
<1>2. CASE ~(HasCrashEventSent \/ gen = "Failed")
  <2>1. PICK ok \in BOOLEAN : box' = MaybePickUpPostbox(box, TRUE, ok)
    BY <1>2 DEF AboutToQuit
  <2>2. box'.events = box.events
    BY <2>1, BoxIsOK, PickUpMoves
  <2>3. Tried'
    BY <2>2 DEF Tried
  <2>4. IsCrashEventSendingEnabled /\ ~box.delivered /\ gen # "Failed" /\ sendWhenReady' = TRUE
    BY <1>2 DEF AboutToQuit, HasCrashEventSent
  <2>5. ASSUME app' = "up", ~box'.late, trying
        PROVE  gen = "Loading" /\ follow = 1
    <3>1. box' = box
      BY <1>2, <2>5 DEF AboutToQuit, CrashEventSent
    <3>2. ~IsReadyToDeliver(box')
      BY <2>4, <2>5, <3>1 DEF IInv, BoxInv, Prompt
    <3>3. ~(box'.events > 0)
      BY <2>5, <3>2 DEF IInv, BoxInv, Covers, IsReadyToDeliver
    <3>4. gen \in {"NotLoaded", "Loading", "Loaded", "Failed"}
      BY DEF IInv, Types, TypeOK
    <3> QED BY <2>2, <2>4, <2>5, <3>3, <3>4 DEF Tried
  <2>6. IsCrashEventSendingEnabled'
    BY <2>4 DEF IsCrashEventSendingEnabled
  <2> QED BY <2>3, <2>5, <2>6 DEF Awaited
<1> QED BY <1>1, <1>2

\* Every step keeps it, an alarm it is late aside, which stays.
LEMMA WaitStep ==
  ASSUME IInv, IInv', WaitInv, Next
  PROVE  WaitInv'
<1> USE DEF program, user, report, notifier
<1>1. /\ box.late => box'.late
      /\ box.events \in Nat /\ handlers \in Nat /\ trying \in BOOLEAN /\ follow \in {0, 1}
      /\ gen \in {"NotLoaded", "Loading", "Loaded", "Failed"}
  BY NextOK DEF StepOK, BoxMoves, IInv, Types, TypeOK, Postboxes
<1>2. CASE Construct
  <2>1. /\ stage' = "dispatch" /\ TrySentry /\ ~trying /\ gen = "NotLoaded" /\ ~closing
        /\ page = "none"
        /\ UNCHANGED <<crash, setting, forced, sendWhenReady, window, page, closing>>
    BY <1>2 DEF Construct, IInv, StartInv
  <2>2. trying' => PrepareCrashEvent(TRUE)
    BY <2>1 DEF TrySentry
  <2>3. Tried'
    BY <2>1, <2>2, PrepareBrings DEF Tried
  <2>4. SwitchedOn'
    BY <2>1 DEF TrySentry, SwitchedOn
  <2> QED BY <2>1, <2>3, <2>4 DEF WaitInv, PagesHaveWindows, AwaitedAlone
<1>3. CASE DispatchDialog \/ DispatchShutdown \/ DispatchNotifier
  <2>1. /\ stage = "dispatch" /\ ~closing
        /\ UNCHANGED <<crash, setting, forced, trying, settling, follow, box, page, closing>>
        /\ MainPageStarts \/ gen' = gen
        /\ window' = "none" => window = "none"
    BY <1>3 DEF DispatchDialog, DispatchShutdown, DispatchNotifier, OpenDrKonqiDialog, IInv,
       StartInv
  <2>2. Tried'
    BY <2>1, MainPageKeeps DEF WaitInv, Tried
  <2>3. SwitchedOn'
    BY <2>1 DEF WaitInv, SwitchedOn, IsCrashEventSendingEnabled
  <2> QED BY <2>1, <2>2, <2>3 DEF WaitInv, PagesHaveWindows, AwaitedAlone
<1>4. CASE GeneratorDone
  <2>1. /\ app = "up" /\ gen' = "Loaded" /\ gen = "Loading" /\ RefreshPage
        /\ UNCHANGED <<crash, setting, forced, trying, settling, follow, sendWhenReady, window,
                       stage, closing>>
        /\ follow > 0 => Add(follow, 0, trying)
        /\ ~(follow > 0) => UNCHANGED box
    BY <1>4 DEF GeneratorDone, Running
  <2>2. follow > 0 => box'.events = box.events + follow /\ (trying /\ closing => app' = "done")
    BY <1>1, <2>1, AddBrings
  <2>3. Tried'
    BY <1>1, <2>1, <2>2 DEF WaitInv, Tried
  <2>4. SwitchedOn'
    BY <2>1 DEF WaitInv, SwitchedOn, IsCrashEventSendingEnabled
  <2>5. PagesHaveWindows'
    BY <2>1 DEF WaitInv, PagesHaveWindows, RefreshPage, OnSentryPage
  <2>6. AwaitedAlone'
    BY <1>1, <2>1, <2>2 DEF WaitInv, AwaitedAlone, Awaited, IsCrashEventSendingEnabled
  <2> QED BY <2>3, <2>4, <2>5, <2>6 DEF WaitInv
<1>5. CASE GeneratorFails
  <2>1. /\ app = "up" /\ gen' = "Failed" /\ gen = "Loading" /\ (closing => app' = "failed")
        /\ UNCHANGED <<crash, setting, forced, trying, settling, follow, window, page,
                       stage, closing, box>>
    BY <1>5 DEF GeneratorFails, Running
  <2> QED BY <2>1 DEF WaitInv, Tried, SwitchedOn, PagesHaveWindows, AwaitedAlone,
             IsCrashEventSendingEnabled
<1>6. CASE DsnLoaded \/ BugReportFails \/ Finish \/ FallbackTimeout \/ Interrupted \/ LeavePage
  <2>1. /\ app = "up" /\ (app' = "up" => app' = app) /\ box'.events = box.events
        /\ UNCHANGED <<crash, setting, forced, trying, settling, follow, gen, window,
                       stage, closing>>
        /\ page' = "none" \/ page' = page
    BY <1>6 DEF DsnLoaded, BugReportFails, Finish, FallbackTimeout, Interrupted, LeavePage,
       Running, IInv, Types, Postboxes
  <2> QED BY <1>1, <2>1 DEF WaitInv, Tried, SwitchedOn, PagesHaveWindows, AwaitedAlone, Awaited,
             IsCrashEventSendingEnabled
<1>7. CASE Restart \/ Activate \/ AddDetails
  <2>1. /\ window' # "none"
        /\ UNCHANGED <<crash, setting, forced, trying, settling, follow, stage, box>>
    BY <1>7 DEF Restart, Activate, AddDetails, OpenDrKonqiDialog
  <2>2. Tried'
    <3>1. CASE Restart
      BY <2>1, <3>1 DEF Restart, StartGenerator, WaitInv, Tried
    <3>2. CASE Activate \/ AddDetails
      BY <2>1, <3>2, MainPageKeeps DEF Activate, AddDetails, OpenDrKonqiDialog, WaitInv
    <3> QED BY <1>7, <3>1, <3>2
  <2>3. SwitchedOn'
    BY <2>1 DEF WaitInv, SwitchedOn, IsCrashEventSendingEnabled
  <2> QED BY <2>1, <2>2, <2>3 DEF WaitInv, PagesHaveWindows, AwaitedAlone
<1>8. CASE SendAutomaticReport
  <2>1. window' = "main" /\ UNCHANGED <<crash, handlers>>
    BY <1>8 DEF SendAutomaticReport
  <2>2. CASE trying \/ ~crash.eligible
    <3>1. PICK ok \in BOOLEAN : box' = MaybePickUpPostbox(box, TRUE, ok)
      BY <1>8, <2>2 DEF SendAutomaticReport
    <3>2. box'.events = box.events
      BY <2>1, <3>1, BoxIsOK, PickUpMoves
    <3>3. UNCHANGED <<trying, follow, gen>>
      BY <1>8, <2>2 DEF SendAutomaticReport
    <3> QED BY <2>1, <2>2, <3>2, <3>3 DEF WaitInv, Tried, SwitchedOn, PagesHaveWindows,
               AwaitedAlone, IsCrashEventSendingEnabled
  <2>3. CASE ~(trying \/ ~crash.eligible)
    <3>1. PICK ok \in BOOLEAN :
          LET picked == MaybePickUpPostbox(box, TRUE, ok)
          IN /\ trying' = TRUE
             /\ \/ /\ gen = "Loaded" /\ gen' = gen
                   /\ box' = MaybePickUpPostbox(AddItems(picked, 1, 0), TRUE, ok)
                \/ /\ gen # "Loaded" /\ gen' \in {"Loading", "Failed"} /\ follow' = 1
      BY <1>1, <1>8, <2>3 DEF SendAutomaticReport, StartGenerator
    <3> DEFINE picked == MaybePickUpPostbox(box, TRUE, ok)
    <3>2. box \in Postboxes /\ Covers(box) /\ TRUE \in BOOLEAN
      BY DEF IInv, Types, BoxInv
    <3>3. PickedUp(box, picked, TRUE)
      BY <3>2, PickUpKeeps
    <3>4. picked \in Postboxes /\ Covers(picked) /\ picked.events = box.events
      BY <3>3 DEF PickedUp
    <3>5. Tried'
      <4>1. CASE gen # "Loaded"
        BY <3>1, <4>1 DEF Tried
      <4>2. CASE gen = "Loaded"
        <5> DEFINE d == MaybePickUpPostbox(AddItems(picked, 1, 0), TRUE, ok)
        <5>1. box' = d /\ gen' = "Loaded"
          BY <3>1, <4>2
        <5> HIDE DEF picked
        <5>2. AddedTo(picked, d, 1, 0, TRUE)
          BY <3>2, <3>4, AddKeeps
        <5> HIDE DEF d
        <5>3. box'.events = box.events + 1
          BY <3>4, <5>1, <5>2 DEF AddedTo
        <5> QED BY <1>1, <5>1, <5>3 DEF Tried
      <4> QED BY <4>1, <4>2
    <3> QED BY <2>1, <3>1, <3>5 DEF WaitInv, SwitchedOn, PagesHaveWindows, AwaitedAlone
  <2> QED BY <2>2, <2>3
<1>9. CASE ToggleSetting
  <2>1. /\ OnSentryPage /\ settling' = TRUE
        /\ UNCHANGED <<trying, follow, gen, box, window, page>>
    BY <1>9 DEF ToggleSetting
  <2>2. window' # "none"
    BY <2>1 DEF WaitInv, PagesHaveWindows, OnSentryPage
  <2> QED BY <2>1, <2>2 DEF WaitInv, Tried, SwitchedOn, PagesHaveWindows, AwaitedAlone
<1>10. CASE SettingSettled
  <2>1. /\ app = "up" /\ TrySentry /\ RefreshPage
        /\ UNCHANGED <<crash, setting, forced, sendWhenReady, window, stage, closing>>
    BY <1>10 DEF SettingSettled, Running
  <2>2. PagesHaveWindows'
    BY <2>1 DEF WaitInv, PagesHaveWindows, RefreshPage, OnSentryPage
  <2>3. CASE ~(IsCrashEventSendingEnabled' /\ ~trying)
    <3>1. UNCHANGED <<trying, follow, gen, box, app>>
      BY <2>1, <2>3 DEF TrySentry
    <3>2. SwitchedOn'
      BY <2>3, <3>1 DEF SwitchedOn
    <3> QED BY <1>1, <2>1, <2>2, <3>1, <3>2 DEF WaitInv, Tried, AwaitedAlone, Awaited,
               IsCrashEventSendingEnabled
  <2>4. CASE IsCrashEventSendingEnabled' /\ ~trying
    <3>1. trying' = TRUE /\ PrepareCrashEvent(TRUE)
      BY <2>1, <2>4 DEF TrySentry
    <3>2. Tried' /\ SwitchedOn' /\ (closing' /\ app' = "up" => Awaited')
      BY <2>1, <2>4, <3>1, PrepareBrings DEF Tried, SwitchedOn, Awaited
    <3> QED BY <2>2, <3>2 DEF WaitInv, AwaitedAlone
  <2> QED BY <2>3, <2>4
<1>11. CASE CreateCrashMessage
  <2>1. /\ OnSentryPage /\ Add(0, 1, trying) /\ RefreshPage
        /\ UNCHANGED <<crash, setting, forced, trying, settling, follow, sendWhenReady, gen,
                       window, stage>>
    BY <1>11 DEF CreateCrashMessage
  <2>2. window' # "none"
    BY <2>1 DEF WaitInv, PagesHaveWindows, OnSentryPage
  <2>3. box'.events = box.events
    BY <1>1, <2>1, AddBrings
  <2> QED BY <2>1, <2>2, <2>3 DEF WaitInv, Tried, SwitchedOn, PagesHaveWindows, AwaitedAlone,
             IsCrashEventSendingEnabled
<1>12. CASE SendBugReport
  <2>1. /\ PrepareCrashEvent(trying) /\ window' # "none"
        /\ UNCHANGED <<crash, setting, forced, trying, settling, sendWhenReady, stage>>
    BY <1>12 DEF SendBugReport
  <2>2. Tried'
    BY <1>1, <2>1, PrepareBrings DEF Tried
  <2> QED BY <2>1, <2>2 DEF WaitInv, SwitchedOn, PagesHaveWindows, AwaitedAlone,
             IsCrashEventSendingEnabled
<1>13. CASE BugReportSent
  <2>1. PICK ok \in BOOLEAN : box' = Deliver(AddItems(box, 0, handlers), ok)
    BY <1>13 DEF BugReportSent
  <2>2. /\ app = "up" /\ RefreshPage /\ (trying /\ closing => app' = "done")
        /\ UNCHANGED <<crash, setting, forced, trying, settling, follow, gen, window, stage,
                       closing>>
    BY <1>13 DEF BugReportSent, Running, CrashEventSent
  <2>3. box'.events = box.events
    BY <1>1, <2>1 DEF Deliver, AddItems, IInv, Types, Postboxes
  <2>4. PagesHaveWindows'
    BY <2>2 DEF WaitInv, PagesHaveWindows, RefreshPage, OnSentryPage
  <2> QED BY <1>1, <2>2, <2>3, <2>4 DEF WaitInv, Tried, SwitchedOn, AwaitedAlone, Awaited,
             IsCrashEventSendingEnabled
<1>14. CASE CloseWindow \/ IconExpires \/ BubbleCloses
  <2>1. /\ AboutToQuit
        /\ UNCHANGED <<crash, setting, forced, trying, settling, follow, gen, handlers, stage>>
        /\ page' = "none" \/ (window' = window /\ (RefreshPage \/ page' = page))
    BY <1>14 DEF CloseWindow, IconExpires, BubbleCloses
  <2>2. Tried' /\ (app' = "up" /\ ~box'.late => Awaited')
    BY <2>1, AboutToQuitAwaits DEF WaitInv
  <2>3. PagesHaveWindows'
    BY <2>1 DEF WaitInv, PagesHaveWindows, RefreshPage, OnSentryPage
  <2>4. SwitchedOn'
    BY <2>1 DEF WaitInv, SwitchedOn, IsCrashEventSendingEnabled
  <2> QED BY <2>2, <2>3, <2>4 DEF WaitInv, AwaitedAlone
<1> QED BY <1>2, <1>3, <1>4, <1>5, <1>6, <1>7, <1>8, <1>9, <1>10, <1>11, <1>12, <1>13, <1>14
        DEF Next

-----------------------------------------------------------------------------
(* The theorems. *)

\* The inductive invariant holds throughout: of the interface, its postbox and its windows.
THEOREM InvHolds == Spec => []IInv
BY InitOK, InvStep, PTL DEF Spec

\* Types: the state of the interface, the postbox and the windows is well formed, for any
\* number of traces, changes, messages and reports.
THEOREM TypesHold == Spec => []TypeOK
<1>1. IInv => TypeOK
  BY DEF IInv, Types
<1> QED BY <1>1, InvHolds, PTL

\* drkonqi that thinks it is done has left the event in the outbox, complete and addressed.
THEOREM NothingIsLost == Spec => []NothingLost
<1>1. IInv => NothingLost
  BY DEF IInv
<1> QED BY <1>1, InvHolds, PTL

\* While the Sentry page shows "sent", it is written.
THEOREM SentIsTrue == Spec => []SentIsWritten
<1>1. IInv => SentIsWritten
  <2> SUFFICES ASSUME IInv, page = "sent", app = "up", Sending, ~box.late, ~box.missed
               PROVE  Kept
    BY DEF SentIsWritten
  <2>1. box.delivered /\ Honest(box)
    BY DEF IInv, PageInv, BoxInv, Sending
  <2> QED BY <2>1, DeliveredIsKept DEF Kept
<1> QED BY <1>1, InvHolds, PTL

\* What is ready is not kept waiting.
THEOREM ReadyIsSent == Spec => []ReadyIsDelivered
<1>1. IInv => ReadyIsDelivered
  BY DEF IInv, BoxInv, Prompt, ReadyIsDelivered
<1> QED BY <1>1, InvHolds, PTL

\* No trace makes two events, however often the settings and the windows ask.
THEOREM NoTraceTwice == Spec => []OneEventPerTrace
<1>1. IInv => OneEventPerTrace
  BY DEF IInv, CountInv
<1> QED BY <1>1, InvHolds, PTL

\* What lies in the outbox was asked for and is a crash of KDE's, or a bug report sent it.
THEOREM ConsentHolds == Spec => []OnlyWithConsent
<1>1. IInv => OnlyWithConsent
  <2> SUFFICES ASSUME IInv, box.file.events > 0, ~(handlers > 0)
               PROVE  agreed /\ crash.eligible
    BY DEF OnlyWithConsent
  <2>1. handlers = 0 /\ box.events \in Nat /\ box.file.events \in Nat
    BY DEF IInv, Types, TypeOK, Postboxes, Envelopes
  <2>2. box.events > 0
    BY <2>1 DEF IInv, BoxInv, Covers
  <2>3. trying
    BY <2>1, <2>2 DEF IInv, CountInv
  <2> QED BY <2>3 DEF IInv, AskedInv
<1> QED BY <1>1, InvHolds, PTL

\* No step takes anything out of the file in the outbox.
THEOREM FileNeverShrinks == Spec => FileOnlyGrows
<1>1. IInv /\ [Next]_vars => [/\ box.file.events <= box.file'.events
                              /\ box.file.comments <= box.file'.comments]_vars
  BY NextOK DEF StepOK, BoxMoves, FileGrows
<1> QED BY <1>1, InvHolds, PTL DEF Spec, FileOnlyGrows

\* drkonqi that waits with no window open has the trace or the setting's timer under way.
THEOREM NeverWaitsForNothing == Spec => []WaitsForSomething
<1>1. Init => WaitInv
  BY DEF Init, WaitInv, Tried, SwitchedOn, PagesHaveWindows, AwaitedAlone
<1>2. IInv /\ IInv' /\ WaitInv /\ [Next]_vars => WaitInv'
  <2>1. CASE Next
    BY <2>1, WaitStep
  <2>2. CASE UNCHANGED vars
    BY <2>2 DEF vars, program, user, report, notifier, WaitInv, Tried, SwitchedOn,
       PagesHaveWindows, AwaitedAlone, Awaited, IsCrashEventSendingEnabled
  <2> QED BY <2>1, <2>2
<1>3. IInv /\ WaitInv => WaitsForSomething
  <2> SUFFICES ASSUME IInv, WaitInv, closing, app = "up", window = "none", ~box.late,
                      gen # "Loading"
               PROVE  settling /\ ~trying /\ IsCrashEventSendingEnabled
    BY DEF WaitsForSomething
  <2>1. stage # "construct"
    BY DEF IInv, StartInv
  <2> QED BY <2>1 DEF WaitInv, AwaitedAlone, Awaited, SwitchedOn
<1> QED BY <1>1, <1>2, <1>3, InvHolds, PTL DEF Spec
=============================================================================
