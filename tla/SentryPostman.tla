--------------------------- MODULE SentryPostman ---------------------------
(***************************************************************************)
(* The way of a crash report from drkonqi's outbox to Sentry.  A drkonqi   *)
(* writes each delivery into a file of its own.  Two systemd units start   *)
(* the postman: one that watches the directory and gives up when it had to *)
(* start it too often, and an hourly timer, which runs only in a session    *)
(* that began with a report in the directory.  The postman goes over the   *)
(* directory once, posts every file, and when a file's answer is good      *)
(* moves it to the directory of what was sent.                             *)
(***************************************************************************)
EXTENDS Naturals, FiniteSets

CONSTANTS
    Reports,      \* names of files; deliveries never share one
    Burst,        \* TriggerLimitBurst of the path unit
    MaxReceipts   \* bound: how often the server takes the same report

ASSUME PostmanAssumption == Burst \in Nat \ {0} /\ MaxReceipts \in Nat \ {0}

VARIABLES
    outbox,     \* what a file holds, or "none" when it is not there
    writing,    \* files drkonqi has open
    age,        \* of a file: "fresh" for 8 seconds, "old" after 30 days
    sent,       \* files in the directory of what was sent
    path,       \* the path unit: "watching" or "failed"
    triggers,   \* how often it started the postman in half an hour
    timer,      \* the timer unit: "on", or "off" as its condition did not hold
    postman,    \* "off", "looking" at the directory, or in its event "loop"
    todo,       \* files the directory listed that were not looked at yet
    asleep,     \* the files run() sleeps for: one or none
    answer,     \* of a file posted in this run
    received,   \* history: how often the server got a whole report
    written,    \* history: names that were used
    mangled,    \* history: reports the server got a part of
    unsure      \* history: taken by the server, but the postman did not learn
                \* of it, or could not move the file

unitVars == <<path, triggers, timer>>
history == <<written, received, mangled, unsure>>
vars == <<outbox, writing, age, sent, unitVars, postman, todo, asleep, answer, history>>

Pending == {r \in Reports : outbox[r] # "none"}
NoAnswers == [r \in Reports |-> "none"]

Init ==
    /\ outbox = [r \in Reports |-> "none"]
    /\ writing = {}
    /\ age = [r \in Reports |-> "fresh"]
    /\ sent = {}
    /\ path = "watching"
    /\ triggers = 0
    /\ timer = "off"
    /\ postman = "off"
    /\ todo = {}
    /\ asleep = {}
    /\ answer = NoAnswers
    /\ received = [r \in Reports |-> 0]
    /\ written = {}
    /\ mangled = {}
    /\ unsure = {}

-----------------------------------------------------------------------------
(* drkonqi: the file appears empty, fills up, and is closed.                *)

Deliver(r) ==
    /\ r \notin written
    /\ written' = written \cup {r}
    /\ outbox' = [outbox EXCEPT ![r] = "empty"]
    /\ writing' = writing \cup {r}
    /\ UNCHANGED <<age, sent, unitVars, postman, todo, asleep, answer, received, mangled, unsure>>

\* The first line, which names the DSN, is on disk before the rest.
WriteSome(r) ==
    /\ r \in writing /\ outbox[r] = "empty"
    /\ outbox' = [outbox EXCEPT ![r] = "headed"]
    /\ UNCHANGED <<writing, age, sent, unitVars, postman, todo, asleep, answer, history>>

WriteEnds(r) ==
    /\ r \in writing
    /\ writing' = writing \ {r}
    /\ outbox' = [outbox EXCEPT ![r] = IF @ = "none" THEN @ ELSE "whole"]
    /\ UNCHANGED <<age, sent, unitVars, postman, todo, asleep, answer, history>>

\* drkonqi is killed, or the disk is full: write()'s result is not looked at.
WriteBreaks(r) ==
    /\ r \in writing
    /\ writing' = writing \ {r}
    /\ UNCHANGED <<outbox, age, sent, unitVars, postman, todo, asleep, answer, history>>

\* A flush is done within flushTime: files drkonqi has open are fresh.
Settle(r) ==
    /\ outbox[r] # "none" /\ r \notin writing /\ age[r] = "fresh"
    /\ age' = [age EXCEPT ![r] = "settled"]
    /\ UNCHANGED <<outbox, writing, sent, unitVars, postman, todo, asleep, answer, history>>

GrowOld(r) ==
    /\ outbox[r] # "none" /\ age[r] = "settled"
    /\ age' = [age EXCEPT ![r] = "old"]
    /\ UNCHANGED <<outbox, writing, sent, unitVars, postman, todo, asleep, answer, history>>

-----------------------------------------------------------------------------
(* systemd.                                                                 *)

\* An instance runs at most once; run() lists the directory when it starts.
StartPostman ==
    /\ postman = "off" /\ Pending # {}
    /\ postman' = "looking"
    /\ todo' = Pending
    /\ UNCHANGED <<outbox, writing, age, sent, asleep, answer, history>>

PathExists ==
    /\ path = "watching"
    /\ IF triggers < Burst
       THEN triggers' = triggers + 1 /\ UNCHANGED <<path, timer>> /\ StartPostman
       ELSE /\ postman = "off" /\ Pending # {}
            /\ path' = "failed"
            /\ UNCHANGED <<outbox, writing, age, sent, triggers, timer, postman, todo, asleep,
                           answer, history>>

HalfAnHourPasses ==
    /\ path = "watching" /\ triggers > 0
    /\ triggers' = 0
    /\ UNCHANGED <<outbox, writing, age, sent, path, timer, postman, todo, asleep, answer,
                   history>>

TimerElapses == timer = "on" /\ StartPostman /\ UNCHANGED unitVars

\* Every variable of a run is gone with it, what the server answered included.
PostmanEnds ==
    /\ postman' = "off"
    /\ todo' = {}
    /\ asleep' = {}
    /\ answer' = NoAnswers
    /\ unsure' = unsure \cup {r \in Reports : answer[r] = "good"}
    /\ UNCHANGED <<outbox, writing, age, sent, written, received, mangled>>

\* RuntimeMaxSec or a crash.
Killed == postman # "off" /\ PostmanEnds /\ UNCHANGED unitVars

Login_FaultNoTimer ==
    /\ PostmanEnds
    /\ path' = "watching" /\ triggers' = 0
    /\ timer' = "off"

\* A session ends and the next begins, with both units started anew: the path
\* unit always, the timer only if a report is waiting just then.
Login ==
    /\ PostmanEnds
    /\ path' = "watching" /\ triggers' = 0
    /\ timer' = IF Pending # {} THEN "on" ELSE "off"

-----------------------------------------------------------------------------
(* The postman: run() and post() block; answers are heard in the loop.      *)

Leaves(r) == outbox' = [outbox EXCEPT ![r] = "none"]

\* What post() does with a file it trusts to be complete: one without its first
\* line names no DSN and is discarded, one that cannot be opened is left.
ReadAndPost(r) ==
    /\ todo' = todo \ {r}
    /\ asleep' = {}
    /\ \/ outbox[r] = "empty" /\ Leaves(r) /\ UNCHANGED answer
       \/ outbox[r] \in {"headed", "whole"} /\ UNCHANGED outbox
            /\ answer' = [answer EXCEPT ![r] = outbox[r]]
       \/ UNCHANGED <<outbox, answer>>
    /\ UNCHANGED <<writing, age, sent, unitVars, postman, history>>

Post_FaultAwake(r) ==
    /\ postman = "looking" /\ asleep = {} /\ r \in todo
    /\ ReadAndPost(r)

Post(r) ==
    /\ postman = "looking" /\ asleep = {} /\ r \in todo
    /\ \/ /\ age[r] = "old" /\ Leaves(r)
          /\ todo' = todo \ {r}
          /\ UNCHANGED <<asleep, answer, writing, age, sent, unitVars, postman, history>>
       \/ /\ age[r] = "fresh" /\ asleep' = {r}
          /\ UNCHANGED <<outbox, todo, answer, writing, age, sent, unitVars, postman, history>>
       \/ age[r] = "settled" /\ ReadAndPost(r)

\* sleep_for(flushTime) is over, and with it every flush there was.
Wake(r) == r \in asleep /\ r \notin writing /\ ReadAndPost(r)

\* run() returns and main() enters the event loop.
LookedAtAll ==
    /\ postman = "looking" /\ todo = {}
    /\ postman' = "loop"
    /\ UNCHANGED <<outbox, writing, age, sent, unitVars, todo, asleep, answer, history>>

\* The server takes what it gets; whether the postman hears of it is open.
ServerTakes(r) ==
    /\ answer[r] \in {"headed", "whole"}
    /\ received[r] < MaxReceipts
    /\ received' = [received EXCEPT ![r] = IF answer[r] = "whole" THEN @ + 1 ELSE @]
    /\ mangled' = IF answer[r] = "headed" THEN mangled \cup {r} ELSE mangled
    /\ \E a \in {"good", "error"} :
         /\ answer' = [answer EXCEPT ![r] = a]
         /\ unsure' = IF a = "error" THEN unsure \cup {r} ELSE unsure
    /\ UNCHANGED <<outbox, writing, age, sent, unitVars, postman, todo, asleep, written>>

ServerRefuses(r) ==
    /\ answer[r] \in {"headed", "whole"}
    /\ answer' = [answer EXCEPT ![r] = "error"]
    /\ UNCHANGED <<outbox, writing, age, sent, unitVars, postman, todo, asleep, history>>

Finished_FaultLeft(r) ==
    /\ postman = "loop" /\ answer[r] = "good"
    /\ answer' = [answer EXCEPT ![r] = "none"]
    /\ sent' = sent \cup {r}
    /\ UNCHANGED <<outbox, writing, age, unitVars, postman, todo, asleep, history>>

\* An error leaves the file for the next run, and so does a rename that fails,
\* whose result nobody looks at.
Finished(r) ==
    /\ postman = "loop"
    /\ answer' = [answer EXCEPT ![r] = "none"]
    /\ \/ answer[r] = "good" /\ sent' = sent \cup {r} /\ Leaves(r) /\ UNCHANGED unsure
       \/ answer[r] = "good" /\ unsure' = unsure \cup {r} /\ UNCHANGED <<sent, outbox>>
       \/ answer[r] = "error" /\ UNCHANGED <<sent, outbox, unsure>>
    /\ UNCHANGED <<writing, age, unitVars, postman, todo, asleep, written, received, mangled>>

\* The last reply is deleted, and its lock of the event loop with it.  A run
\* that posted nothing has given up its lock before the loop began, and only
\* RuntimeMaxSec is sure to end it.
Quits ==
    /\ postman = "loop" /\ answer = NoAnswers
    /\ postman' = "off"
    /\ UNCHANGED <<outbox, writing, age, sent, unitVars, todo, asleep, answer, history>>

-----------------------------------------------------------------------------
Drkonqi(r) == Deliver(r) \/ WriteSome(r) \/ WriteEnds(r) \/ WriteBreaks(r)
Visit(r) == Post(r) \/ Wake(r)

Next ==
    \/ \E r \in Reports :
         \/ Drkonqi(r) \/ Settle(r) \/ GrowOld(r)
         \/ Visit(r) \/ ServerTakes(r) \/ ServerRefuses(r) \/ Finished(r)
    \/ PathExists \/ HalfAnHourPasses \/ TimerElapses \/ Killed \/ Login
    \/ LookedAtAll \/ Quits

Spec == Init /\ [][Next]_vars

\* The user logs in again, time passes, a timer that was started elapses, and a
\* running postman goes on until it has ended or is ended; it is not killed at
\* the same file for ever.  Neither the path unit nor the server owes anything.
Fairness ==
    /\ WF_vars(Login) /\ WF_vars(TimerElapses) /\ WF_vars(LookedAtAll)
    /\ WF_vars(postman = "loop" /\ Killed)
    /\ \A r \in Reports :
         /\ WF_vars(WriteEnds(r)) /\ WF_vars(Settle(r)) /\ WF_vars(GrowOld(r))
         /\ SF_vars(Visit(r))

FairSpec == Spec /\ Fairness

-----------------------------------------------------------------------------
Contents == {"empty", "headed", "whole"}

TypeOK ==
    /\ outbox \in [Reports -> {"none"} \cup Contents]
    /\ writing \subseteq Reports /\ sent \subseteq Reports
    /\ age \in [Reports -> {"fresh", "settled", "old"}]
    /\ path \in {"watching", "failed"} /\ triggers \in 0..Burst /\ timer \in {"off", "on"}
    /\ postman \in {"off", "looking", "loop"}
    /\ todo \subseteq Reports /\ asleep \subseteq todo
    /\ answer \in [Reports -> {"none", "headed", "whole", "good", "error"}]
    /\ received \in [Reports -> 0..MaxReceipts]
    /\ written \subseteq Reports /\ mangled \subseteq Reports /\ unsure \subseteq Reports

\* A report that drkonqi wrote to its end is never posted in part: what the
\* server got a part of had lost its writer.  (post() sleeps for files that are
\* younger than flushTime.)
NoHalfRead == \A r \in mangled : outbox[r] # "whole" /\ received[r] = 0 /\ r \notin writing

\* The server gets a report twice only when the postman could not know of the
\* first time, or could not move the file: it was killed before, the answer was
\* lost, or the rename failed.
DuplicatesAreExcused == \A r \in Reports : received[r] > 1 => r \in unsure

Whole == INSTANCE Outbox WITH
    waiting  <- {r \in Reports : outbox[r] = "whole"},
    received <- {r \in Reports : received[r] > 0},
    old      <- {r \in Reports : age[r] = "old"}

\* Through lost answers, kills, failed renames, a path unit that gave up and a
\* timer that was never started, a complete report stays until the server has it
\* or it is a month old, and then goes: at the latest in a later session, since
\* within one nothing may start the postman again.
DeliversOrOutlives == Whole!Spec
=============================================================================
