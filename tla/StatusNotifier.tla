--------------------------- MODULE StatusNotifier ---------------------------
(***************************************************************************)
(* The icon and the notification with which drkonqi announces a crash, and *)
(* how they end: opened by the user or because nobody is left to show      *)
(* them, or expired, after which drkonqi is asked to quit.  Two D-Bus      *)
(* services have to be there for an icon to be seen.  One close timer and  *)
(* one activation timer are driven by them and by the user's absence.      *)
(* From either end CrashReporting goes on.                                 *)
(***************************************************************************)
EXTENDS Integers, Sequences, FiniteSets

CONSTANTS
    Services,            \* those an icon needs
    ActivationTimeout,   \* m_activationTimeout, 10 seconds, in ticks
    CloseTimeout,        \* m_closeTimeout, one minute, in ticks
    MaxChanges,          \* bound: services going or coming back
    MaxStarts            \* bound: restarts of the application asked for

ASSUME ServicesAssumption == IsFiniteSet(Services)
ASSUME TimeoutsAssumption ==
    /\ ActivationTimeout \in Nat \ {0} /\ CloseTimeout \in Nat
    /\ ActivationTimeout < CloseTimeout
ASSUME NotifierBounds == MaxChanges \in Nat /\ MaxStarts \in Nat

VARIABLES
    hasIcon,     \* interactionAllowed: show() was called
    submitting,  \* the crash is reported by itself: AlreadySubmitting
    alive,       \* the StatusNotifier was not deleted
    icon,        \* m_sni is shown
    bubble,      \* the notification is shown
    dialogs,     \* history: windows opened
    asked,       \* history: expired was emitted, which calls aboutToQuit()
    up,          \* the services that are registered
    bus,         \* signals of the bus not delivered yet
    changes,     \* how often a service went or came
    raced,       \* history: a service changed while start() asked for it
    pending,     \* m_pendingActivations
    activation,  \* ticks left of the activation timer, or Off
    close,       \* ticks left of m_closeTimer, or Off
    idle,        \* m_idle
    away,        \* the user has not been there for 30 seconds
    listening,   \* KIdleTime was asked to report when the user is back
    restarted,   \* m_restarted of the crashed application
    jobs,        \* jobs that start it
    started,     \* history: those that did
    impatient    \* history: restart asked for while a job was running

Off == -1
faceVars == <<hasIcon, submitting, alive, icon, bubble, dialogs, asked>>
busVars == <<up, bus, changes, raced>>
timerVars == <<pending, activation, close>>
userVars == <<idle, away, listening>>
restartVars == <<restarted, jobs, started, impatient>>
vars == <<faceVars, busVars, timerVars, userVars, restartVars>>

ActivationAllowed == hasIcon \/ submitting

\* show() and notify().  start() counts every service that is not there and
\* starts the activation timer, and the close timer unless the user is away.
\* A change just before the question is answered is signalled afterwards again.
Init ==
    /\ hasIcon \in BOOLEAN /\ submitting \in BOOLEAN
    /\ alive = TRUE /\ icon = hasIcon /\ bubble = TRUE /\ dialogs = 0 /\ asked = FALSE
    /\ up \in SUBSET Services
    /\ \E s \in SUBSET Services :
         /\ Cardinality(s) <= 1 /\ (s # {} => hasIcon)
         /\ raced = (s # {})
         /\ bus = IF s = {} THEN <<>> ELSE IF s \subseteq up THEN <<"back">> ELSE <<"gone">>
    /\ changes = 0
    /\ away \in BOOLEAN
    /\ idle = (hasIcon /\ away)
    /\ listening = FALSE
    /\ pending = IF hasIcon THEN Cardinality(Services \ up) ELSE 0
    /\ activation = IF pending > 0 THEN ActivationTimeout ELSE Off
    /\ close = IF hasIcon /\ ~away THEN CloseTimeout ELSE Off
    /\ restarted \in BOOLEAN /\ jobs = 0 /\ started = 0 /\ impatient = FALSE

-----------------------------------------------------------------------------
(* The ways in which the icon and the notification end.                     *)

\* activated: the notifier is deleted, timers and icon with it, and the
\* notification is closed; main() opens the dialog.
OpenDialog ==
    /\ alive' = FALSE /\ icon' = FALSE /\ bubble' = FALSE
    /\ activation' = Off /\ close' = Off
    /\ dialogs' = dialogs + 1

\* expired: only the icon is deleted; the notifier and its timers stay.
Expire ==
    /\ icon' = FALSE
    /\ bubble' = (bubble /\ ~ActivationAllowed)
    /\ asked' = TRUE

Activate ==
    /\ alive
    /\ icon \/ (bubble /\ hasIcon /\ ~submitting)
    /\ OpenDialog
    /\ UNCHANGED <<hasIcon, submitting, asked, busVars, pending, userVars, restartVars>>

\* "Add Details" is connected to main() alone.
AddDetails ==
    /\ alive /\ bubble /\ submitting
    /\ bubble' = FALSE
    /\ dialogs' = dialogs + 1
    /\ UNCHANGED <<hasIcon, submitting, alive, icon, asked, busVars, timerVars, userVars, restartVars>>

Hide ==
    /\ icon
    /\ Expire
    /\ UNCHANGED <<hasIcon, submitting, alive, dialogs, busVars, timerVars, userVars, restartVars>>

\* It times out or is dismissed; without an icon its end is drkonqi's.
BubbleCloses ==
    /\ bubble
    /\ bubble' = FALSE
    /\ asked' = (asked \/ ~ActivationAllowed)
    /\ UNCHANGED <<hasIcon, submitting, alive, icon, dialogs, busVars, timerVars, userVars, restartVars>>

-----------------------------------------------------------------------------
(* ActivationCloseTimer.                                                    *)

\* refresh(): what becomes of the close timer.
Refreshed_FaultKeeps(nowIdle, nowPending, ticks) ==
    IF nowIdle THEN Off ELSE IF ticks = Off THEN CloseTimeout ELSE ticks

Refreshed_FaultNoRestart(nowIdle, nowPending, ticks) ==
    IF nowIdle \/ nowPending > 0 THEN Off ELSE ticks

Refreshed(nowIdle, nowPending, ticks) ==
    IF nowIdle \/ nowPending > 0 THEN Off
    ELSE IF ticks = Off THEN CloseTimeout ELSE ticks

ServiceChanges(s) ==
    /\ alive /\ changes < MaxChanges
    /\ changes' = changes + 1
    /\ up' = IF s \in up THEN up \ {s} ELSE up \cup {s}
    /\ bus' = IF hasIcon THEN Append(bus, IF s \in up THEN "gone" ELSE "back") ELSE bus
    /\ UNCHANGED <<faceVars, raced, timerVars, userVars, restartVars>>

\* serviceUnregistered and serviceRegistered do not say which service.
BusSignal ==
    /\ alive /\ bus # <<>>
    /\ bus' = Tail(bus)
    /\ IF Head(bus) = "gone"
       THEN pending' = pending + 1 /\ activation' = ActivationTimeout
       ELSE pending' = (IF pending > 0 THEN pending - 1 ELSE 0) /\ activation' = Off
    /\ close' = Refreshed(idle, pending', close)
    /\ UNCHANGED <<faceVars, up, changes, raced, userVars, restartVars>>

\* A tick passes when nothing is due; the bus is faster than that.
Tick ==
    /\ bus = <<>> /\ activation # 0 /\ close # 0
    /\ activation # Off \/ close # Off
    /\ activation' = IF activation = Off THEN Off ELSE activation - 1
    /\ close' = IF close = Off THEN Off ELSE close - 1
    /\ UNCHANGED <<faceVars, busVars, pending, userVars, restartVars>>

AutoActivate ==
    /\ activation = 0
    /\ OpenDialog
    /\ UNCHANGED <<hasIcon, submitting, asked, busVars, pending, userVars, restartVars>>

AutoClose ==
    /\ close = 0
    /\ close' = Off
    /\ Expire
    /\ UNCHANGED <<hasIcon, submitting, alive, dialogs, busVars, pending, activation, userVars, restartVars>>

\* KIdleTime reaches 30 seconds, and asks to be told of the user's return.
UserLeaves ==
    /\ alive /\ ~away
    /\ away' = TRUE
    /\ IF hasIcon
       THEN idle' = TRUE /\ listening' = TRUE /\ close' = Refreshed(TRUE, pending, close)
       ELSE UNCHANGED <<idle, listening, close>>
    /\ UNCHANGED <<faceVars, busVars, pending, activation, restartVars>>

\* On some platforms the 30 seconds count from the request, even if the user
\* was away before.
StillAway ==
    /\ alive /\ hasIcon /\ away /\ ~listening
    /\ listening' = TRUE
    /\ UNCHANGED <<faceVars, busVars, timerVars, idle, away, restartVars>>

UserReturns ==
    /\ alive /\ away
    /\ away' = FALSE /\ listening' = FALSE
    /\ idle' = (idle /\ ~listening)
    /\ close' = IF listening THEN Refreshed(FALSE, pending, close) ELSE close
    /\ UNCHANGED <<faceVars, busVars, pending, activation, restartVars>>

-----------------------------------------------------------------------------
(* Restarting the application, from the icon's menu or the notification.    *)

RestartApplication ==
    /\ icon \/ bubble
    /\ ~restarted /\ jobs + started < MaxStarts
    /\ jobs' = jobs + 1
    /\ impatient' = (impatient \/ jobs > 0)
    /\ UNCHANGED <<faceVars, busVars, timerVars, userVars, restarted, started>>

RestartResult_FaultForgets ==
    /\ jobs > 0 /\ jobs' = jobs - 1
    /\ \E success \in BOOLEAN : started' = IF success THEN started + 1 ELSE started
    /\ UNCHANGED <<faceVars, busVars, timerVars, userVars, restarted, impatient>>

RestartResult ==
    /\ jobs > 0 /\ jobs' = jobs - 1
    /\ \E success \in BOOLEAN :
         restarted' = success /\ started' = IF success THEN started + 1 ELSE started
    /\ UNCHANGED <<faceVars, busVars, timerVars, userVars, impatient>>

-----------------------------------------------------------------------------
Next ==
    \/ Activate \/ AddDetails \/ Hide \/ BubbleCloses
    \/ \E s \in Services : ServiceChanges(s)
    \/ BusSignal \/ Tick \/ AutoActivate \/ AutoClose
    \/ UserLeaves \/ StillAway \/ UserReturns
    \/ RestartApplication \/ RestartResult

Spec == Init /\ [][Next]_vars

\* Timers run, the bus delivers, a notification does not stay for ever.  The
\* user owes nothing.
Fairness ==
    /\ WF_vars(Tick) /\ WF_vars(AutoActivate) /\ WF_vars(AutoClose)
    /\ WF_vars(BusSignal) /\ WF_vars(BubbleCloses)

FairSpec == Spec /\ Fairness

-----------------------------------------------------------------------------
TypeOK ==
    /\ {hasIcon, submitting, alive, icon, bubble, asked, raced, idle, away,
        listening, restarted, impatient} \subseteq BOOLEAN
    /\ dialogs \in 0..2
    /\ up \subseteq Services /\ bus \in Seq({"gone", "back"})
    /\ changes \in 0..MaxChanges
    /\ pending \in Nat
    /\ activation \in Off..ActivationTimeout /\ close \in Off..CloseTimeout
    /\ jobs \in 0..MaxStarts /\ started \in 0..MaxStarts

\* An icon closes by itself only if it could be seen: the user is there and so
\* are both services.  Excepted is a service that changed while start() asked
\* for it, whose signal comes on top and is counted a second time.
ClosesOnlySeenIcon ==
    close = 0 => ~away /\ (up = Services \/ raced \/ bus # <<>>)

\* The application is started twice only if a restart was asked for while the
\* job of another one was running: m_restarted is set when a job has ended.
RestartsOnce == started > 1 => impatient

\* Nothing will end this icon: a service is missing and another one's return
\* has stopped the activation timer, or the user is back and KIdleTime was not
\* asked to say so; or there is no icon, and the notification of a report that
\* is being submitted has closed.
Stranded ==
    \/ hasIcon /\ pending > 0 /\ activation = Off
    \/ idle /\ ~away
    \/ ~hasIcon /\ submitting /\ ~bubble

Ended == ~alive \/ asked

\* An announcement that goes on does so for a reason: the user is away, the notification
\* is there to be closed, a signal of the bus or one of the two timers is due; or it is
\* stranded in one of the three ways above, and in no fourth.
AnnouncementIsDriven ==
    Ended \/ Stranded \/ away \/ bubble \/ bus # <<>> \/ activation # Off \/ close # Off

\* For a user who stays at the machine the announcement opens or expires,
\* unless it is stranded.
AnnouncementEnds == <>Ended \/ []<>away \/ <>[]Stranded
=============================================================================
