--------------------------- MODULE BugSubmission ---------------------------
(***************************************************************************)
(* A bug report on its way to Bugzilla: the pages, the assistant's gate,   *)
(* the login, the product that is looked up meanwhile, the report, and the *)
(* attachment when the trace is too long for the report.  Every request is *)
(* a job whose answer comes at any time, in any order, or gets lost after  *)
(* the server did what it was asked.  reportSent and attachToReportSent    *)
(* are connected again for every attempt, and never disconnected.          *)
(***************************************************************************)
EXTENDS Naturals, Sequences, ProductMapping

CONSTANTS
    MaxSends,      \* bound on the attempts to send
    LosesAnswers   \* TRUE if the connection may break after a request

ASSUME BugAssumption == MaxSends \in Nat \ {0} /\ LosesAnswers \in BOOLEAN

VARIABLES
    page,            \* the page shown
    problem,         \* it shows an error and offers to try again
    short,           \* the report with the complete trace is not too long
    dotted,          \* the application's version ends with ".00"
    silent,          \* Bugzilla has ceased to answer, without a word
    mapping,         \* ProductMapping
    fetching,        \* the product that is being looked up, or "none"
    lookup,          \* Bugzilla is asked for its version
    logins,          \* login requests under way
    token,           \* the connection has a token
    reports,         \* reports under way
    attachments,     \* per bug, attachments under way with and without a token
    handlers,        \* connections to reportSent
    attachHandlers,  \* connections to attachToReportSent
    sentReport,      \* m_sentReport, 0 if none
    shown,           \* the bug the last page names
    bugs,            \* server: the bugs it has
    comments         \* per bug, comments put in the postbox that name it

dialogVars == <<page, problem, shown>>
productVars == <<mapping, fetching>>
loginVars == <<lookup, logins, token>>
reportVars == <<reports, attachments, handlers, attachHandlers, sentReport, comments>>
vars == <<short, dotted, silent, dialogVars, productVars, loginVars, reportVars, bugs>>

Bugs == 1 .. MaxSends

Init ==
    /\ page = "context"
    /\ problem = FALSE
    /\ short \in BOOLEAN
    /\ dotted \in BOOLEAN
    /\ silent = FALSE
    /\ mapping \in Mappings
    /\ fetching = "own"
    /\ lookup = FALSE
    /\ logins = 0
    /\ token = FALSE
    /\ reports = {}
    /\ attachments = [b \in Bugs |-> [with |-> 0, without |-> 0]]
    /\ handlers = 0
    /\ attachHandlers = 0
    /\ sentReport = 0
    /\ shown = 0
    /\ bugs = <<>>
    /\ comments = [b \in Bugs |-> 0]

-----------------------------------------------------------------------------
(* The product is looked up from the start on; its failure only once helps. *)

ProductInfoFetched ==
    /\ fetching # "none"
    /\ \E info \in ProductInfos : mapping' = CheckProductInfo(mapping, info, dotted)
    /\ fetching' = "none"
    /\ UNCHANGED <<short, dotted, silent, dialogVars, loginVars, reportVars, bugs>>

ProductInfoError ==
    /\ fetching # "none"
    /\ IF fetching = "own"
       THEN mapping' = FallBackToKDE(mapping) /\ fetching' = "kde"
       ELSE mapping' = mapping /\ fetching' = "none"
    /\ UNCHANGED <<short, dotted, silent, dialogVars, loginVars, reportVars, bugs>>

-----------------------------------------------------------------------------
(* The assistant's pages before the report is sent.                         *)

SelectedOptionsRating(options) ==
    (IF "actions" \in options THEN 3 ELSE 0)
    + (IF "configuration" \in options THEN 2 ELSE 0)
    + (IF "unusual" \in options THEN 1 ELSE 0)

IsBugAwarenessPageDataUseful(remembers, reproducible, options) ==
    /\ remembers
    /\ SelectedOptionsRating(options) >= 2 \/ reproducible \in {"sometimes", "everytime"}

\* "Next" on the context page.  The page of the trace is left out; the next one
\* asks Bugzilla for its version at once.
DescribeCrash ==
    /\ page = "context"
    /\ \E remembers \in BOOLEAN, reproducible \in {"unsure", "never", "sometimes", "everytime"},
          options \in SUBSET {"actions", "configuration", "unusual"}, ignoreQuality \in BOOLEAN :
            ignoreQuality \/ IsBugAwarenessPageDataUseful(remembers, reproducible, options)
    /\ page' = "bugzilla"
    /\ lookup' = TRUE
    /\ UNCHANGED <<problem, shown, logins, token, short, dotted, silent, productVars, reportVars, bugs>>

LookupVersionAnswered(found) ==
    /\ lookup
    /\ lookup' = FALSE
    /\ page' = IF found THEN "login" ELSE page
    /\ problem' = ~found
    /\ UNCHANGED <<shown, logins, token, short, dotted, silent, productVars, reportVars, bugs>>

RetryLookup ==
    /\ page = "bugzilla" /\ problem
    /\ problem' = FALSE
    /\ lookup' = TRUE
    /\ UNCHANGED <<page, shown, logins, token, short, dotted, silent, productVars, reportVars, bugs>>

\* The token is dropped before the new one is asked for.
RefreshToken ==
    /\ token' = FALSE
    /\ logins' = logins + 1
    /\ lookup' = lookup

\* tryLogin(): the page is disabled until the login has failed.
TryLogin ==
    /\ page = "login" /\ logins = 0
    /\ RefreshToken
    /\ UNCHANGED <<dialogVars, short, dotted, silent, productVars, reportVars, bugs>>

\* "Send" on the preview: the sending page logs in again.
OpenSendingPage ==
    /\ page = "report"
    /\ page' = "sending"
    /\ RefreshToken
    /\ UNCHANGED <<problem, shown, short, dotted, silent, productVars, reportVars, bugs>>

\* The page's state stays "error", so this is on offer while a retry is under way.
RetrySubmission ==
    /\ page = "sending" /\ problem
    /\ handlers + logins < MaxSends
    /\ RefreshToken
    /\ UNCHANGED <<dialogVars, short, dotted, silent, productVars, reportVars, bugs>>

-----------------------------------------------------------------------------
(* Sending.                                                                 *)

NewBugReportTemplate ==
    [product   |-> mapping.product,
     component |-> mapping.component,
     fits      |-> mapping.fits]

SendBugReport ==
    /\ handlers' = handlers + 1
    /\ reports' = reports \cup {[n |-> handlers + 1, bug |-> NewBugReportTemplate]}
    /\ UNCHANGED <<attachments, attachHandlers, sentReport, comments>>

ShowProblem == problem' = (problem \/ page = "sending")

LoginFinished ==
    /\ logins > 0
    /\ logins' = logins - 1
    /\ token' = TRUE
    /\ page' = IF page = "login" THEN "report" ELSE page
    /\ IF page = "sending" THEN SendBugReport ELSE UNCHANGED reportVars
    /\ UNCHANGED <<problem, shown, lookup, short, dotted, silent, productVars, bugs>>

\* An error, or an answer without a token.
LoginError ==
    /\ logins > 0
    /\ logins' = logins - 1
    /\ ShowProblem
    /\ UNCHANGED <<page, shown, lookup, token, short, dotted, silent, productVars, reportVars, bugs>>

\* What n handlers do once the report is complete: each adds feedback for the
\* postbox and delivers it; the first done() replaces the page.
Complete(id, n) ==
    /\ sentReport' = id
    /\ comments' = [comments EXCEPT ![id] = @ + n]
    /\ page' = IF page = "sending" THEN "sent" ELSE page
    /\ shown' = IF page = "sending" THEN id ELSE shown
    /\ problem' = (problem /\ page # "sending")

\* reportSent, of any attempt, reaches the handlers of all of them.
AttachBacktrace(id) ==
    /\ attachHandlers' = attachHandlers + handlers
    /\ attachments' = IF token THEN [attachments EXCEPT ![id].with = @ + handlers]
                      ELSE [attachments EXCEPT ![id].without = @ + handlers]
    /\ UNCHANGED <<dialogVars, sentReport, comments>>

ReportSent(id) ==
    /\ IF short
       THEN Complete(id, handlers) /\ UNCHANGED <<attachments, attachHandlers>>
       ELSE AttachBacktrace(id)
    /\ UNCHANGED handlers

\* Of the text only the complete traces in it count; the reduced one, and the
\* note that there is none, are what is tried when it gets too long.
GenerateReportFullText(inlineBacktrace) == IF inlineBacktrace = "complete" THEN 1 ELSE 0

NewBug(report) ==
    [bug    |-> report.bug,
     traced |-> GenerateReportFullText(IF short THEN "complete" ELSE "reduced")]

ReportFiled(r) ==
    /\ r \in reports
    /\ reports' = reports \ {r}
    /\ bugs' = Append(bugs, NewBug(r))
    /\ ReportSent(Len(bugs) + 1)
    /\ UNCHANGED <<loginVars, short, dotted, silent, productVars>>

\* Refused, or filed and the answer lost: the client cannot tell.
SendReportError(r) ==
    /\ r \in reports
    /\ reports' = reports \ {r}
    /\ \/ bugs' = bugs
       \/ LosesAnswers /\ bugs' = Append(bugs, NewBug(r))
    /\ ShowProblem
    /\ UNCHANGED <<page, shown, attachments, handlers, attachHandlers, sentReport, comments,
                   loginVars, short, dotted, silent, productVars>>

\* The signal has the number of the bug, not that of the attachment.
Reported_FaultAttachmentId(id) == LET all == {b \in DOMAIN bugs : bugs[b].traced > 0}
                                  IN  Cardinality(all) + 1
Reported(id) == id

AttachToReportSent(id) ==
    /\ attachments[id].with > 0
    /\ attachments' = [attachments EXCEPT ![id].with = @ - 1]
    /\ bugs' = [bugs EXCEPT ![id].traced = @ + GenerateReportFullText("complete")]
    /\ Complete(Reported(id), attachHandlers)
    /\ UNCHANGED <<loginVars, reports, handlers, attachHandlers, short, dotted, silent, productVars>>

\* Without a token the server always refuses.
AttachToReportError_FaultQuiet(id, kind) ==
    /\ attachments[id][kind] > 0
    /\ attachments' = [attachments EXCEPT ![id][kind] = @ - 1]
    /\ bugs' = bugs
    /\ UNCHANGED <<dialogVars, loginVars, reports, handlers, attachHandlers, sentReport, comments,
                   short, dotted, silent, productVars>>
AttachToReportError(id, kind) ==
    /\ attachments[id][kind] > 0
    /\ attachments' = [attachments EXCEPT ![id][kind] = @ - 1]
    /\ \/ bugs' = bugs
       \/ kind = "with" /\ LosesAnswers /\ bugs' = [bugs EXCEPT ![id].traced = @ + 1]
    /\ ShowProblem
    /\ UNCHANGED <<page, shown, loginVars, reports, handlers, attachHandlers, sentReport, comments,
                   short, dotted, silent, productVars>>

LoginAnswered == LoginFinished \/ LoginError
ReportAnswered == \E r \in reports : ReportFiled(r) \/ SendReportError(r)
AttachmentAnswered ==
    \E id \in Bugs : \/ AttachToReportSent(id)
                     \/ \E kind \in {"with", "without"} : AttachToReportError(id, kind)

\* A request has no time limit: from here on the rest may be left unanswered.
Silence ==
    /\ ~silent
    /\ silent' = TRUE
    /\ UNCHANGED <<short, dotted, dialogVars, productVars, loginVars, reportVars, bugs>>

Next ==
    \/ ProductInfoFetched \/ ProductInfoError
    \/ DescribeCrash \/ RetryLookup \/ \E found \in BOOLEAN : LookupVersionAnswered(found)
    \/ TryLogin \/ OpenSendingPage \/ RetrySubmission
    \/ LoginAnswered \/ ReportAnswered \/ AttachmentAnswered \/ Silence

Spec == Init /\ [][Next]_vars

\* Every request is answered in the end, or refused, as long as Bugzilla is there.
FairSpec ==
    /\ Spec
    /\ WF_vars(~silent /\ LoginAnswered) /\ WF_vars(~silent /\ ReportAnswered)
    /\ WF_vars(~silent /\ AttachmentAnswered)

-----------------------------------------------------------------------------
Templates ==
    [product : {"own", "kde"}, component : {"own", "general"}, fits : {"unknown", "yes", "no"}]

AllMappings ==
    [product : {"own", "kde"}, component : {"own", "general"}, version : Versions,
     fits : {"unknown", "yes", "no"}]

Filed == [bug : Templates, traced : Nat]

TypeOK ==
    /\ page \in {"context", "bugzilla", "login", "report", "sending", "sent"}
    /\ {problem, short, dotted, silent, lookup, token} \subseteq BOOLEAN
    /\ mapping \in AllMappings /\ fetching \in {"own", "kde", "none"}
    /\ logins \in 0..MaxSends
    /\ reports \subseteq [n : 1..handlers, bug : Templates] /\ IsFiniteSet(reports)
    /\ attachments \in [Bugs -> [with : Nat, without : Nat]]
    /\ handlers \in 0..MaxSends /\ attachHandlers \in Nat
    /\ sentReport \in 0..MaxSends /\ shown \in 0..MaxSends
    /\ bugs \in Seq(Filed) /\ comments \in [Bugs -> Nat]

(* The last page names a bug that was filed, that has the whole trace in    *)
(* its text or as an attachment, and that a comment in the postbox points   *)
(* to, whatever answers of other attempts came in between (reportSent,      *)
(* attachSent, maybeDone and the handlers that pile up).                    *)
SentIsComplete ==
    page = "sent" => shown \in DOMAIN bugs /\ bugs[shown].traced > 0 /\ comments[shown] > 0

(* A bug of the product "kde" is in its one component the mapping knows,    *)
(* and no bug names a version that Bugzilla, when it described the product, *)
(* did not have; except where the application's version ends with ".00"     *)
(* (fallBackToKDE and checkProductInfo against newBugReportTemplate).       *)
FiledWhereItBelongs ==
    \A b \in DOMAIN bugs :
        LET bug == bugs[b].bug IN
        /\ bug.product = "kde" => bug.component = "general"
        /\ bug.fits = "no" => dotted

(* While the sending page shows neither a bug nor an error, an answer is    *)
(* still to come: of a login, a report or an attachment, of whichever       *)
(* attempt; it never waits for nobody.                                      *)
SendingIsUnderWay ==
    page = "sending" /\ ~problem =>
        \/ logins > 0 \/ reports # {}
        \/ \E b \in Bugs : attachments[b].with + attachments[b].without > 0

(* Sending comes to an end: the page shows the bug, or an error and a way  *)
(* to try again.  Only a Bugzilla that goes silent keeps it waiting, as     *)
(* apijob.cpp:64-104 gives no request a time limit.                         *)
SendingEnds == page = "sending" ~> (page = "sent" \/ problem \/ silent)

(* SendingPage.qml:96-97: "this function may get called a bunch of times,   *)
(* so we don't want duplicated submissions."                                *)
FiledOnce == Len(bugs) <= 1
=============================================================================
