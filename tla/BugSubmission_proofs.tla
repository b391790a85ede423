------------------------ MODULE BugSubmission_proofs ------------------------
(***************************************************************************)
(* What BugSubmission promises for any number of attempts, with answers    *)
(* that get lost and without.  Every attempt adds one handler, one report  *)
(* under way and at most one bug, so that the bugs never outnumber the     *)
(* attempts; an attachment under way belongs to a bug that was filed.      *)
(***************************************************************************)
EXTENDS BugSubmission, FiniteSetTheorems, TLAPS

-----------------------------------------------------------------------------
(* The product. *)

\* A bug of "kde" is in its one component; a version Bugzilla has not is the ".00" one's.
Belongs(bug) == (bug.product = "kde" => bug.component = "general") /\ (bug.fits = "no" => dotted)

ProductInv ==
    /\ dotted \in BOOLEAN
    /\ mapping \in AllMappings /\ Belongs(mapping)
    /\ \A r \in reports : r.bug \in Templates /\ Belongs(r.bug)
    /\ \A b \in DOMAIN bugs : bugs[b].bug \in Templates /\ Belongs(bugs[b].bug)

-----------------------------------------------------------------------------
(* The attempts. *)

\* The pages follow each other, and nothing is sent before the sending page.
PageInv ==
    /\ lookup => page = "bugzilla"
    /\ logins > 0 => page \in {"login", "sending", "sent"}
    /\ page = "login" => logins <= 1
    /\ page \in {"context", "bugzilla", "login", "report"} => handlers = 0

\* No more bugs than attempts.
CountInv ==
    /\ handlers + logins <= MaxSends
    /\ Len(bugs) + Cardinality(reports) <= handlers

\* An attachment is one of a bug, and somebody waits for it.
AttachInv ==
    \A b \in Bugs : attachments[b].with + attachments[b].without > 0 =>
        b \in DOMAIN bugs /\ attachHandlers > 0

IInv == TypeOK /\ ProductInv /\ PageInv /\ CountInv /\ AttachInv /\ SentIsComplete
-----------------------------------------------------------------------------
(* The mapping and its corrections. *)

\* A version that does not fit is only ever that of an application with ".00".
LEMMA CheckBelongs ==
  ASSUME NEW m \in AllMappings, Belongs(m), NEW info \in ProductInfos, dotted \in BOOLEAN
  PROVE  /\ CheckProductInfo(m, info, dotted) \in AllMappings
         /\ Belongs(CheckProductInfo(m, info, dotted))
<1> DEFINE version == WithVersion(m, info, dotted)
           checked == CheckProductInfo(m, info, dotted)
<1>1. info.versions \subseteq Versions /\ (info.versions # {} => info.lowest \in info.versions)
  BY DEF ProductInfos
<1>2. m.version \in Versions /\ m.product \in {"own", "kde"} /\ m.component \in {"own", "general"}
  BY DEF AllMappings
<1>3. version \in Versions
  BY <1>1, <1>2 DEF WithVersion, Versions
<1>4. ~dotted /\ info.versions # {} => version \in info.versions
  BY <1>1 DEF WithVersion
<1> HIDE DEF version
<1>5. checked = [product |-> m.product, component |-> WithComponent(m, info), version |-> version,
                 fits |-> IF info.versions = {} THEN "unknown"
                          ELSE IF version \in info.versions THEN "yes" ELSE "no"]
  BY DEF CheckProductInfo, version
<1>6. checked \in AllMappings
  BY <1>2, <1>3, <1>5 DEF AllMappings, WithComponent
<1>7. Belongs(checked)
  BY <1>4, <1>5 DEF Belongs, WithComponent
<1> QED BY <1>6, <1>7

\* The fallback belongs.
LEMMA FallBackBelongs ==
  ASSUME NEW m \in AllMappings, Belongs(m)
  PROVE  FallBackToKDE(m) \in AllMappings /\ Belongs(FallBackToKDE(m))
BY DEF AllMappings, Belongs, FallBackToKDE

\* A lookup of the product changes the mapping alone.
LEMMA ProductStep ==
  ASSUME IInv, ProductInfoFetched \/ ProductInfoError
  PROVE  IInv'
<1>1. mapping' \in AllMappings /\ Belongs(mapping')
  BY CheckBelongs, FallBackBelongs DEF IInv, ProductInv, ProductInfoFetched, ProductInfoError
<1>2. /\ UNCHANGED <<short, dotted, silent, dialogVars, loginVars, reportVars, bugs>>
      /\ fetching' \in {"own", "kde", "none"}
  BY DEF IInv, TypeOK, ProductInfoFetched, ProductInfoError
<1>3. TypeOK'
  BY <1>1, <1>2 DEF IInv, TypeOK, dialogVars, loginVars, reportVars
<1>4. ProductInv'
  BY <1>1, <1>2 DEF IInv, ProductInv, Belongs, dialogVars, loginVars, reportVars
<1>5. PageInv' /\ CountInv' /\ AttachInv' /\ SentIsComplete'
  BY <1>2 DEF IInv, PageInv, CountInv, AttachInv, SentIsComplete, dialogVars, loginVars,
     reportVars
<1> QED BY <1>3, <1>4, <1>5 DEF IInv

-----------------------------------------------------------------------------
(* The pages. *)

PageActions ==
    \/ DescribeCrash \/ RetryLookup \/ \E found \in BOOLEAN : LookupVersionAnswered(found)
    \/ TryLogin \/ OpenSendingPage \/ RetrySubmission

\* Pages and logins change; what was sent does not.
LEMMA PageStep ==
  ASSUME IInv, PageActions
  PROVE  IInv'
<1>1. /\ UNCHANGED <<short, dotted, silent, productVars, reportVars, bugs>>
      /\ shown' = shown
  BY DEF PageActions, DescribeCrash, RetryLookup, LookupVersionAnswered, TryLogin,
     OpenSendingPage,
     RetrySubmission, dialogVars
<1>2. PageInv' /\ handlers' + logins' <= MaxSends /\ logins' \in Nat
  BY BugAssumption DEF IInv, TypeOK, PageInv, CountInv, PageActions, DescribeCrash, RetryLookup,
     LookupVersionAnswered, TryLogin, OpenSendingPage, RetrySubmission, RefreshToken, dialogVars,
     reportVars
<1>3. /\ page' \in {"context", "bugzilla", "login", "report", "sending", "sent"}
      /\ problem' \in BOOLEAN /\ lookup' \in BOOLEAN /\ token' \in BOOLEAN
  BY DEF IInv, TypeOK, PageActions, DescribeCrash, RetryLookup, LookupVersionAnswered, TryLogin,
     OpenSendingPage, RetrySubmission, RefreshToken, dialogVars
<1>4. TypeOK'
  BY <1>1, <1>2, <1>3, BugAssumption DEF IInv, TypeOK, productVars, reportVars
<1>5. ProductInv' /\ AttachInv'
  BY <1>1 DEF IInv, ProductInv, Belongs, AttachInv, productVars, reportVars
<1>6. CountInv'
  BY <1>1, <1>2 DEF IInv, CountInv, reportVars
<1>7. SentIsComplete'
  BY <1>1 DEF IInv, SentIsComplete, PageActions, DescribeCrash, RetryLookup,
     LookupVersionAnswered, TryLogin, OpenSendingPage, RetrySubmission, dialogVars, reportVars,
     PageInv
<1> QED BY <1>2, <1>4, <1>5, <1>6, <1>7 DEF IInv
-----------------------------------------------------------------------------
(* The login's answers. *)

\* On the sending page a login is an attempt; it becomes a report and a handler.
LEMMA LoginFinishedStep ==
  ASSUME IInv, LoginFinished
  PROVE  IInv'
<1>1. /\ UNCHANGED <<problem, shown, lookup, short, dotted, silent, productVars, bugs>>
      /\ logins' = logins - 1 /\ token' = TRUE /\ logins > 0
      /\ page' = IF page = "login" THEN "report" ELSE page
  BY DEF LoginFinished
<1>2. CASE page = "sending"
  <2> DEFINE report == [n |-> handlers + 1, bug |-> NewBugReportTemplate]
  <2>1. /\ handlers' = handlers + 1 /\ reports' = reports \cup {report} /\ page' = page
        /\ UNCHANGED <<attachments, attachHandlers, sentReport, comments>>
    BY <1>2 DEF LoginFinished, SendBugReport
  <2>2. /\ handlers \in Nat /\ logins \in Nat /\ handlers + logins <= MaxSends
        /\ \A r \in reports : r.n <= handlers
        /\ Len(bugs) + Cardinality(reports) <= handlers
        /\ IsFiniteSet(reports) /\ MaxSends \in Nat
    BY BugAssumption DEF IInv, TypeOK, CountInv
  <2>3. NewBugReportTemplate \in Templates /\ Belongs(NewBugReportTemplate)
    BY DEF IInv, ProductInv, NewBugReportTemplate, Templates, AllMappings, Belongs
  <2>4. report \notin reports /\ report \in [n : 1..handlers', bug : Templates]
    BY <2>1, <2>2, <2>3
  <2>5. IsFiniteSet(reports') /\ Cardinality(reports') = Cardinality(reports) + 1
    BY <2>1, <2>2, <2>4, FS_AddElement
  <2>6. CountInv'
    <3>1. Cardinality(reports) \in Nat
      BY <2>2, FS_CardinalityType
    <3>2. Len(bugs) \in Nat
      BY DEF IInv, TypeOK
    <3> QED BY <1>1, <2>1, <2>2, <2>5, <3>1, <3>2 DEF CountInv
  <2>7. reports' \subseteq [n : 1..handlers', bug : Templates]
    BY <2>1, <2>2, <2>4 DEF IInv, TypeOK
  <2>8. TypeOK'
    BY <1>1, <2>1, <2>2, <2>5, <2>7 DEF IInv, TypeOK, productVars
  <2>9. ProductInv'
    BY <1>1, <2>1, <2>3 DEF IInv, ProductInv, Belongs, productVars
  <2>10. PageInv' /\ AttachInv' /\ SentIsComplete'
    BY <1>1, <1>2, <2>1, <2>2 DEF IInv, PageInv, AttachInv, SentIsComplete
  <2> QED BY <2>6, <2>8, <2>9, <2>10 DEF IInv
<1>3. CASE page # "sending"
  <2>1. UNCHANGED reportVars
    BY <1>3 DEF LoginFinished
  <2>2. TypeOK'
    <3>1. logins' \in 0..MaxSends
      BY <1>1, BugAssumption DEF IInv, TypeOK
    <3>2. page' \in {"context", "bugzilla", "login", "report", "sending", "sent"}
      BY <1>1 DEF IInv, TypeOK
    <3> QED BY <1>1, <2>1, <3>1, <3>2 DEF IInv, TypeOK, productVars, reportVars
  <2>3. ProductInv' /\ AttachInv'
    BY <1>1, <2>1 DEF IInv, ProductInv, Belongs, AttachInv, productVars, reportVars
  <2>4. PageInv' /\ CountInv' /\ SentIsComplete'
    BY <1>1, <2>1, BugAssumption DEF IInv, TypeOK, PageInv, CountInv, SentIsComplete, reportVars
  <2> QED BY <2>2, <2>3, <2>4 DEF IInv
<1> QED BY <1>2, <1>3

\* An attempt less.
LEMMA LoginErrorStep ==
  ASSUME IInv, LoginError
  PROVE  IInv'
<1>1. /\ UNCHANGED <<page, shown, lookup, token, short, dotted, silent, productVars, reportVars, bugs>>
      /\ logins' = logins - 1 /\ logins > 0
      /\ problem' = (problem \/ page = "sending")
  BY DEF LoginError, ShowProblem
<1>2. TypeOK'
  <2>1. logins' \in 0..MaxSends
    BY <1>1, BugAssumption DEF IInv, TypeOK
  <2>2. problem' \in BOOLEAN
    BY <1>1
  <2> QED BY <1>1, <2>1, <2>2 DEF IInv, TypeOK, productVars, reportVars
<1>3. ProductInv' /\ AttachInv'
  BY <1>1 DEF IInv, ProductInv, Belongs, AttachInv, productVars, reportVars
<1>4. PageInv' /\ CountInv' /\ SentIsComplete'
  BY <1>1, BugAssumption DEF IInv, TypeOK, PageInv, CountInv, SentIsComplete, reportVars
<1> QED BY <1>2, <1>3, <1>4 DEF IInv

-----------------------------------------------------------------------------
(* The reports' answers. *)

\* A report under way is one attempt that has no bug yet.
LEMMA OneLess ==
  ASSUME IInv, NEW r \in reports, reports' = reports \ {r}
  PROVE  /\ IsFiniteSet(reports') /\ Cardinality(reports') \in Nat
         /\ Len(bugs) + 1 + Cardinality(reports') <= handlers
         /\ Len(bugs) + 1 \in Bugs /\ handlers > 0 /\ handlers \in Nat
<1>1. IsFiniteSet(reports) /\ handlers \in 0..MaxSends /\ bugs \in Seq(Filed) /\ MaxSends \in Nat
  BY BugAssumption DEF IInv, TypeOK
<1>2. IsFiniteSet(reports') /\ Cardinality(reports') = Cardinality(reports) - 1
  BY <1>1, FS_RemoveElement
<1>3. Cardinality(reports) \in Nat /\ Cardinality(reports') \in Nat
  BY <1>1, <1>2, FS_CardinalityType
<1>4. Len(bugs) + Cardinality(reports) <= handlers /\ Len(bugs) \in Nat
  BY <1>1 DEF IInv, CountInv
<1> QED BY <1>1, <1>2, <1>3, <1>4 DEF Bugs

\* A new bug is of a template and belongs where the mapping said when it was sent.
LEMMA NewBugBelongs ==
  ASSUME IInv, NEW r \in reports
  PROVE  NewBug(r) \in Filed /\ Belongs(NewBug(r).bug) /\ (short => NewBug(r).traced = 1)
BY DEF IInv, ProductInv, NewBug, GenerateReportFullText, Filed

\* With one bug more everything stays true of the others.
LEMMA BugAdded ==
  ASSUME IInv, NEW r \in reports, bugs' = Append(bugs, NewBug(r)), dotted' = dotted
  PROVE  /\ bugs' \in Seq(Filed) /\ Len(bugs') = Len(bugs) + 1
         /\ DOMAIN bugs' = 1..(Len(bugs) + 1) /\ DOMAIN bugs = 1..Len(bugs)
         /\ \A b \in DOMAIN bugs : bugs'[b] = bugs[b]
         /\ bugs'[Len(bugs) + 1] = NewBug(r)
         /\ \A b \in DOMAIN bugs' : bugs'[b].bug \in Templates /\ Belongs(bugs'[b].bug)
<1>1. bugs \in Seq(Filed) /\ NewBug(r) \in Filed /\ Belongs(NewBug(r).bug)
  BY NewBugBelongs DEF IInv, TypeOK
<1>2. /\ bugs' \in Seq(Filed) /\ Len(bugs') = Len(bugs) + 1 /\ Len(bugs) \in Nat
      /\ DOMAIN bugs' = 1..(Len(bugs) + 1) /\ DOMAIN bugs = 1..Len(bugs)
      /\ \A b \in 1..Len(bugs) : bugs'[b] = bugs[b]
      /\ bugs'[Len(bugs) + 1] = NewBug(r)
  BY <1>1
<1>3. ASSUME NEW b \in DOMAIN bugs'
      PROVE  bugs'[b].bug \in Templates /\ Belongs(bugs'[b].bug)
  <2>1. CASE b = Len(bugs) + 1
    BY <1>1, <1>2, <2>1 DEF Filed
  <2>2. CASE b # Len(bugs) + 1
    <3>1. b \in DOMAIN bugs /\ bugs'[b] = bugs[b]
      BY <1>2, <1>3, <2>2
    <3> QED BY <3>1 DEF IInv, ProductInv
  <2> QED BY <2>1, <2>2
<1> QED BY <1>2, <1>3
-----------------------------------------------------------------------------
(* What reportSent and attachToReportSent do. *)

\* Bugs keep what they have.
BugsGrow == \A b \in DOMAIN bugs : b \in DOMAIN bugs' /\ (bugs[b].traced > 0 => bugs'[b].traced > 0)

\* The last page is the first handler's; a comment of each names the bug.
LEMMA CompleteKeeps ==
  ASSUME IInv, NEW id \in Bugs, NEW n \in Nat, n > 0, Complete(id, n), BugsGrow,
         id \in DOMAIN bugs', bugs'[id].traced > 0
  PROVE  /\ SentIsComplete'
         /\ comments' \in [Bugs -> Nat] /\ sentReport' \in 0..MaxSends
         /\ shown' \in 0..MaxSends /\ problem' \in BOOLEAN
         /\ page' \in {page, "sent"} /\ (page' = "sent" => page \in {"sending", "sent"})
<1>1. id \in 1..MaxSends /\ MaxSends \in Nat
  BY BugAssumption DEF Bugs
<1>2. /\ comments' \in [Bugs -> Nat] /\ comments'[id] > 0
      /\ \A b \in Bugs : comments'[b] >= comments[b] /\ comments[b] \in Nat
  BY DEF Complete, IInv, TypeOK
<1>3. CASE page = "sending"
  BY <1>1, <1>2, <1>3 DEF Complete, SentIsComplete
<1>4. CASE page # "sending"
  <2>1. page' = page /\ shown' = shown /\ sentReport' = id
    BY <1>4 DEF Complete
  <2>2. problem' \in BOOLEAN
    BY <1>4 DEF Complete
  <2>3. SentIsComplete'
    <3> SUFFICES ASSUME page = "sent"
                 PROVE  shown \in DOMAIN bugs' /\ bugs'[shown].traced > 0 /\ comments'[shown] > 0
      BY <2>1 DEF SentIsComplete
    <3>1. shown \in DOMAIN bugs /\ bugs[shown].traced > 0 /\ comments[shown] > 0
      BY DEF IInv, SentIsComplete
    <3>2. shown \in Bugs
      BY <3>1, <1>1 DEF IInv, TypeOK, Bugs
    <3> QED BY <3>1, <3>2, <1>2 DEF BugsGrow
  <2> QED BY <1>1, <1>2, <2>1, <2>2, <2>3 DEF IInv, TypeOK
<1> QED BY <1>3, <1>4

\* Without a report that is complete the page stays.
LEMMA OthersKeep ==
  ASSUME IInv, BugsGrow, page' = page, shown' = shown, comments' = comments
  PROVE  SentIsComplete'
BY DEF IInv, SentIsComplete, BugsGrow

\* The count of one kind of attachment changes, for one bug.
LEMMA AttachmentsType ==
  ASSUME attachments \in [Bugs -> [with : Nat, without : Nat]], NEW id \in Bugs, NEW m \in Nat
  PROVE  /\ [attachments EXCEPT ![id].with = m] \in [Bugs -> [with : Nat, without : Nat]]
         /\ [attachments EXCEPT ![id].without = m] \in [Bugs -> [with : Nat, without : Nat]]
<1> DEFINE one == attachments[id]
<1>1. one \in [with : Nat, without : Nat]
  OBVIOUS
<1>2. [one EXCEPT !.with = m] \in [with : Nat, without : Nat]
  BY <1>1
<1>3. [one EXCEPT !.without = m] \in [with : Nat, without : Nat]
  BY <1>1
<1> QED BY <1>2, <1>3

\* A report is answered: as bug number Len(bugs) + 1, whichever attempt it was.
LEMMA ReportFiledStep ==
  ASSUME IInv, NEW r \in reports, ReportFiled(r)
  PROVE  IInv'
<1> DEFINE id == Len(bugs) + 1
<1>1. /\ reports' = reports \ {r} /\ bugs' = Append(bugs, NewBug(r)) /\ handlers' = handlers
      /\ UNCHANGED <<lookup, logins, token, short, dotted, silent, mapping, fetching>>
  BY DEF ReportFiled, ReportSent, loginVars, productVars
<1>2. /\ IsFiniteSet(reports') /\ Cardinality(reports') \in Nat
      /\ id + Cardinality(reports') <= handlers
      /\ id \in Bugs /\ handlers > 0 /\ handlers \in Nat
  BY <1>1, OneLess
<1>3. /\ bugs' \in Seq(Filed) /\ Len(bugs') = id
      /\ DOMAIN bugs' = 1..id /\ DOMAIN bugs = 1..Len(bugs)
      /\ \A b \in DOMAIN bugs : bugs'[b] = bugs[b]
      /\ bugs'[id] = NewBug(r) /\ Len(bugs) \in Nat
      /\ \A b \in DOMAIN bugs' : bugs'[b].bug \in Templates /\ Belongs(bugs'[b].bug)
  BY <1>1, BugAdded DEF IInv, TypeOK
<1> HIDE DEF id
<1>4. ProductInv'
  BY <1>1, <1>3 DEF IInv, ProductInv, Belongs
<1>5. CountInv'
  BY <1>1, <1>2, <1>3 DEF IInv, CountInv
<1>6. BugsGrow /\ id \in DOMAIN bugs'
  BY <1>2, <1>3 DEF BugsGrow, id
<1>7. CASE short
  <2>1. Complete(id, handlers) /\ UNCHANGED <<attachments, attachHandlers>>
    BY <1>7 DEF ReportFiled, ReportSent, id
  <2>2. bugs'[id].traced > 0
    BY <1>3, <1>7, NewBugBelongs
  <2>3. /\ SentIsComplete'
        /\ comments' \in [Bugs -> Nat] /\ sentReport' \in 0..MaxSends
        /\ shown' \in 0..MaxSends /\ problem' \in BOOLEAN
        /\ page' \in {page, "sent"} /\ (page' = "sent" => page \in {"sending", "sent"})
    BY <2>1, <2>2, <1>2, <1>6, CompleteKeeps
  <2>4. TypeOK'
    BY <1>1, <1>2, <1>3, <2>1, <2>3 DEF IInv, TypeOK
  <2>5. PageInv'
    BY <1>1, <1>2, <2>3 DEF IInv, PageInv
  <2>6. AttachInv'
    BY <2>1, <1>6 DEF IInv, AttachInv, BugsGrow
  <2> QED BY <1>4, <1>5, <2>3, <2>4, <2>5, <2>6 DEF IInv
<1>8. CASE ~short
  <2>1. /\ attachHandlers' = attachHandlers + handlers
        /\ attachments' = IF token THEN [attachments EXCEPT ![id].with = @ + handlers]
                          ELSE [attachments EXCEPT ![id].without = @ + handlers]
        /\ UNCHANGED <<page, problem, shown, sentReport, comments>>
    BY <1>8 DEF ReportFiled, ReportSent, AttachBacktrace, dialogVars, id
  <2>2. attachments' \in [Bugs -> [with : Nat, without : Nat]] /\ attachHandlers' \in Nat
    <3>1. /\ attachments \in [Bugs -> [with : Nat, without : Nat]] /\ attachHandlers \in Nat
          /\ attachments[id].with \in Nat /\ attachments[id].without \in Nat
      BY <1>2 DEF IInv, TypeOK
    <3>2. attachments[id].with + handlers \in Nat /\ attachments[id].without + handlers \in Nat
      BY <1>2, <3>1
    <3> QED BY <1>2, <2>1, <3>1, <3>2, AttachmentsType
  <2>3. TypeOK'
    BY <1>1, <1>2, <1>3, <2>1, <2>2 DEF IInv, TypeOK
  <2>4. PageInv'
    BY <1>1, <2>1 DEF IInv, PageInv
  <2>5. AttachInv'
    <3> SUFFICES ASSUME NEW b \in Bugs, attachments'[b].with + attachments'[b].without > 0
                 PROVE  b \in DOMAIN bugs' /\ attachHandlers' > 0
      BY DEF AttachInv
    <3>1. attachHandlers' > 0
      BY <1>2, <2>1 DEF IInv, TypeOK
    <3>2. CASE b # id
      BY <2>1, <3>1, <3>2, <1>6 DEF IInv, TypeOK, AttachInv, BugsGrow
    <3> QED BY <3>1, <3>2, <1>6
  <2>6. SentIsComplete'
    BY <2>1, <1>6, OthersKeep
  <2> QED BY <1>4, <1>5, <2>3, <2>4, <2>5, <2>6 DEF IInv
<1> QED BY <1>7, <1>8

\* The attempt failed, or the bug is there and nobody knows.
LEMMA SendReportErrorStep ==
  ASSUME IInv, NEW r \in reports, SendReportError(r)
  PROVE  IInv'
<1>1. /\ reports' = reports \ {r} /\ problem' = (problem \/ page = "sending")
      /\ bugs' = bugs \/ bugs' = Append(bugs, NewBug(r))
      /\ UNCHANGED <<page, shown, attachments, handlers, attachHandlers, sentReport, comments,
                     lookup, logins, token, short, dotted, silent, mapping, fetching>>
  BY DEF SendReportError, ShowProblem, loginVars, productVars
<1>2. /\ IsFiniteSet(reports') /\ Cardinality(reports') \in Nat
      /\ Len(bugs) + 1 + Cardinality(reports') <= handlers /\ handlers \in Nat
      /\ bugs \in Seq(Filed) /\ Len(bugs) \in Nat
  <2>1. bugs \in Seq(Filed)
    BY DEF IInv, TypeOK
  <2>2. Len(bugs) \in Nat
    BY <2>1
  <2>3. reports' = reports \ {r}
    BY <1>1
  <2> QED BY <2>1, <2>2, <2>3, OneLess
<1>3. /\ bugs' \in Seq(Filed) /\ Len(bugs') <= Len(bugs) + 1 /\ Len(bugs') \in Nat /\ BugsGrow
      /\ \A b \in DOMAIN bugs' : bugs'[b].bug \in Templates /\ Belongs(bugs'[b].bug)
  <2>1. CASE bugs' = bugs
    BY <1>1, <1>2, <2>1 DEF IInv, ProductInv, BugsGrow
  <2>2. CASE bugs' = Append(bugs, NewBug(r))
    BY <1>1, <1>2, <2>2, BugAdded DEF BugsGrow
  <2> QED BY <1>1, <2>1, <2>2
<1>4. problem' \in BOOLEAN
  BY <1>1
<1>5. TypeOK'
  BY <1>1, <1>2, <1>3, <1>4 DEF IInv, TypeOK
<1>6. ProductInv'
  BY <1>1, <1>3 DEF IInv, ProductInv, Belongs
<1>7. PageInv' /\ AttachInv'
  BY <1>1, <1>3 DEF IInv, PageInv, AttachInv, BugsGrow
<1>8. CountInv'
  BY <1>1, <1>2, <1>3 DEF IInv, CountInv
<1>9. SentIsComplete'
  BY <1>1, <1>3, OthersKeep
<1> QED BY <1>5, <1>6, <1>7, <1>8, <1>9 DEF IInv

-----------------------------------------------------------------------------
(* The attachments' answers. *)

\* A bug that got its trace is the same bug.
LEMMA Traced ==
  ASSUME IInv, NEW id \in DOMAIN bugs, bugs' = [bugs EXCEPT ![id].traced = @ + 1], dotted' = dotted
  PROVE  /\ bugs' \in Seq(Filed) /\ Len(bugs') = Len(bugs) /\ DOMAIN bugs' = DOMAIN bugs
         /\ BugsGrow /\ bugs'[id].traced > 0
         /\ \A b \in DOMAIN bugs' : bugs'[b].bug \in Templates /\ Belongs(bugs'[b].bug)
<1>1. bugs \in Seq(Filed) /\ DOMAIN bugs = 1..Len(bugs) /\ Len(bugs) \in Nat
  BY DEF IInv, TypeOK
<1>2. bugs[id] \in Filed
  BY <1>1
<1> DEFINE traced == [bugs[id] EXCEPT !.traced = @ + 1]
<1>3. traced \in Filed /\ traced.bug = bugs[id].bug /\ traced.traced > 0
  BY <1>2 DEF Filed
<1>4. bugs' = [bugs EXCEPT ![id] = traced]
  OBVIOUS
<1> HIDE DEF traced
<1>5. bugs' \in Seq(Filed) /\ Len(bugs') = Len(bugs) /\ DOMAIN bugs' = DOMAIN bugs
  BY <1>1, <1>3, <1>4
<1>6. bugs'[id] = traced /\ \A b \in DOMAIN bugs \ {id} : bugs'[b] = bugs[b]
  BY <1>1, <1>4
<1>7. \A b \in DOMAIN bugs : bugs'[b].bug = bugs[b].bug
  BY <1>3, <1>6
<1> QED BY <1>3, <1>5, <1>6, <1>7 DEF IInv, ProductInv, BugsGrow

\* The first trace that arrives completes the report.
LEMMA AttachToReportSentStep ==
  ASSUME IInv, NEW id \in Bugs, AttachToReportSent(id)
  PROVE  IInv'
<1>1. /\ attachments[id].with > 0
      /\ attachments' = [attachments EXCEPT ![id].with = attachments[id].with - 1]
      /\ bugs' = [bugs EXCEPT ![id].traced = @ + 1] /\ Complete(id, attachHandlers)
      /\ UNCHANGED <<lookup, logins, token, reports, handlers, attachHandlers, short, dotted, silent,
                     mapping, fetching>>
  BY DEF AttachToReportSent, Reported, GenerateReportFullText, loginVars, productVars
<1>2. /\ attachments \in [Bugs -> [with : Nat, without : Nat]] /\ attachHandlers \in Nat
      /\ attachments[id].with \in Nat /\ attachments[id].without \in Nat
  BY DEF IInv, TypeOK
<1>3. id \in DOMAIN bugs /\ attachHandlers > 0
  BY <1>1, <1>2 DEF IInv, AttachInv
<1>4. /\ bugs' \in Seq(Filed) /\ Len(bugs') = Len(bugs) /\ DOMAIN bugs' = DOMAIN bugs
      /\ BugsGrow /\ bugs'[id].traced > 0
      /\ \A b \in DOMAIN bugs' : bugs'[b].bug \in Templates /\ Belongs(bugs'[b].bug)
  BY <1>1, <1>3, Traced
<1>5. /\ SentIsComplete'
      /\ comments' \in [Bugs -> Nat] /\ sentReport' \in 0..MaxSends
      /\ shown' \in 0..MaxSends /\ problem' \in BOOLEAN
      /\ page' \in {page, "sent"} /\ (page' = "sent" => page \in {"sending", "sent"})
  BY <1>1, <1>2, <1>3, <1>4, CompleteKeeps
<1>6. attachments' \in [Bugs -> [with : Nat, without : Nat]]
  BY <1>1, <1>2, AttachmentsType
<1>7. TypeOK'
  BY <1>1, <1>2, <1>4, <1>5, <1>6 DEF IInv, TypeOK
<1>8. ProductInv'
  BY <1>1, <1>4 DEF IInv, ProductInv, Belongs
<1>9. PageInv' /\ CountInv'
  BY <1>1, <1>4, <1>5 DEF IInv, PageInv, CountInv
<1>10. AttachInv'
  <2> SUFFICES ASSUME NEW b \in Bugs, attachments'[b].with + attachments'[b].without > 0
               PROVE  b \in DOMAIN bugs' /\ attachHandlers' > 0
    BY DEF AttachInv
  <2>1. CASE b # id
    BY <1>1, <1>2, <1>4, <2>1 DEF IInv, AttachInv
  <2> QED BY <1>1, <1>3, <1>4, <2>1
<1> QED BY <1>5, <1>7, <1>8, <1>9, <1>10 DEF IInv

\* The trace is not there, or is and nobody knows.
LEMMA AttachToReportErrorStep ==
  ASSUME IInv, NEW id \in Bugs, NEW kind \in {"with", "without"}, AttachToReportError(id, kind)
  PROVE  IInv'
<1>1. /\ attachments[id][kind] > 0
      /\ attachments' = [attachments EXCEPT ![id][kind] = attachments[id][kind] - 1]
      /\ bugs' = bugs \/ bugs' = [bugs EXCEPT ![id].traced = @ + 1]
      /\ problem' = (problem \/ page = "sending")
      /\ UNCHANGED <<page, shown, lookup, logins, token, reports, handlers, attachHandlers,
                     sentReport, comments, short, dotted, silent, mapping, fetching>>
  BY DEF AttachToReportError, ShowProblem, loginVars, productVars
<1>2. /\ attachments \in [Bugs -> [with : Nat, without : Nat]]
      /\ attachments[id].with \in Nat /\ attachments[id].without \in Nat
  BY DEF IInv, TypeOK
<1>3. id \in DOMAIN bugs /\ attachHandlers > 0
  BY <1>1, <1>2 DEF IInv, AttachInv
<1>4. /\ bugs' \in Seq(Filed) /\ Len(bugs') = Len(bugs) /\ DOMAIN bugs' = DOMAIN bugs /\ BugsGrow
      /\ \A b \in DOMAIN bugs' : bugs'[b].bug \in Templates /\ Belongs(bugs'[b].bug)
  <2>1. CASE bugs' = bugs
    BY <1>1, <2>1 DEF IInv, TypeOK, ProductInv, BugsGrow
  <2>2. CASE bugs' = [bugs EXCEPT ![id].traced = @ + 1]
    BY <1>1, <1>3, <2>2, Traced
  <2> QED BY <1>1, <2>1, <2>2
<1>5. attachments' \in [Bugs -> [with : Nat, without : Nat]]
  <2>1. CASE kind = "with"
    <3>1. attachments[id].with - 1 \in Nat
      BY <1>1, <1>2, <2>1
    <3>2. attachments' = [attachments EXCEPT ![id].with = attachments[id].with - 1]
      BY <1>1, <2>1
    <3> QED BY <1>2, <3>1, <3>2, AttachmentsType
  <2>2. CASE kind = "without"
    <3>1. attachments[id].without - 1 \in Nat
      BY <1>1, <1>2, <2>2
    <3>2. attachments' = [attachments EXCEPT ![id].without = attachments[id].without - 1]
      BY <1>1, <2>2
    <3> QED BY <1>2, <3>1, <3>2, AttachmentsType
  <2> QED BY <2>1, <2>2
<1>6. problem' \in BOOLEAN
  BY <1>1
<1>7. TypeOK'
  BY <1>1, <1>4, <1>5, <1>6 DEF IInv, TypeOK
<1>8. ProductInv'
  BY <1>1, <1>4 DEF IInv, ProductInv, Belongs
<1>9. PageInv' /\ CountInv'
  BY <1>1, <1>4 DEF IInv, PageInv, CountInv
<1>10. AttachInv'
  <2> SUFFICES ASSUME NEW b \in Bugs, attachments'[b].with + attachments'[b].without > 0
               PROVE  b \in DOMAIN bugs' /\ attachHandlers' > 0
    BY DEF AttachInv
  <2>1. CASE b # id
    BY <1>1, <1>2, <1>4, <2>1 DEF IInv, AttachInv
  <2> QED BY <1>1, <1>3, <1>4, <2>1
<1>11. SentIsComplete'
  BY <1>1, <1>4, OthersKeep
<1> QED BY <1>7, <1>8, <1>9, <1>10, <1>11 DEF IInv

-----------------------------------------------------------------------------
(* The theorems. *)

\* Nothing is sent, and the mapping knows a component of its own or "general".
LEMMA InitOK == Init => IInv
<1> SUFFICES ASSUME Init PROVE IInv
  OBVIOUS
<1>1. IsFiniteSet(reports) /\ Cardinality(reports) = 0
  BY FS_EmptySet DEF Init
<1>2. bugs \in Seq(Filed) /\ Len(bugs) = 0 /\ DOMAIN bugs = {}
  BY DEF Init
<1>3. mapping \in AllMappings /\ Belongs(mapping)
  BY DEF Init, Mappings, AllMappings, Belongs, Versions
<1>4. TypeOK
  <2>1. {problem, short, dotted, silent, lookup, token} \subseteq BOOLEAN
    BY DEF Init
  <2>2. attachments \in [Bugs -> [with : Nat, without : Nat]] /\ comments \in [Bugs -> Nat]
    BY DEF Init
  <2>3. {logins, handlers, sentReport, shown} \subseteq 0..MaxSends
    BY BugAssumption DEF Init
  <2>4. /\ page = "context" /\ fetching = "own" /\ reports = {} /\ attachHandlers = 0
    BY DEF Init
  <2> QED BY <1>1, <1>2, <1>3, <2>1, <2>2, <2>3, <2>4 DEF TypeOK
<1>5. ProductInv
  BY <1>2, <1>3 DEF Init, ProductInv
<1>6. PageInv /\ CountInv /\ SentIsComplete
  BY <1>1, <1>2, BugAssumption DEF Init, PageInv, CountInv, SentIsComplete
<1>7. AttachInv
  BY DEF Init, AttachInv
<1> QED BY <1>4, <1>5, <1>6, <1>7 DEF IInv

\* Every step keeps the invariant.
LEMMA InvStep == IInv /\ [Next]_vars => IInv'
<1> SUFFICES ASSUME IInv, [Next]_vars PROVE IInv'
  OBVIOUS
<1>1. CASE ProductInfoFetched \/ ProductInfoError
  BY <1>1, ProductStep
<1>2. CASE PageActions
  BY <1>2, PageStep
<1>3. CASE LoginAnswered
  BY <1>3, LoginFinishedStep, LoginErrorStep DEF LoginAnswered
<1>4. CASE ReportAnswered
  BY <1>4, ReportFiledStep, SendReportErrorStep DEF ReportAnswered
<1>5. CASE AttachmentAnswered
  BY <1>5, AttachToReportSentStep, AttachToReportErrorStep DEF AttachmentAnswered
<1>6. CASE Silence \/ UNCHANGED vars
  <2>1. UNCHANGED <<short, dotted, dialogVars, productVars, loginVars, reportVars, bugs>>
    BY <1>6 DEF vars, Silence
  <2>2. silent' \in BOOLEAN
    BY <1>6 DEF vars, Silence, IInv, TypeOK
  <2> QED BY <2>1, <2>2 DEF dialogVars, productVars, loginVars, reportVars, IInv, TypeOK,
             ProductInv, PageInv, CountInv, AttachInv, SentIsComplete, Belongs
<1> QED BY <1>1, <1>2, <1>3, <1>4, <1>5, <1>6 DEF Next, PageActions

\* Types, in every behaviour.
THEOREM TypesHold == Spec => []TypeOK
<1>1. IInv => TypeOK
  BY DEF IInv
<1> QED BY <1>1, InitOK, InvStep, PTL DEF Spec

\* The bug the last page names is there with its trace, and a comment points to it, after
\* any number of attempts and whatever was lost of them.
THEOREM SentReportsAreComplete == Spec => []SentIsComplete
<1>1. IInv => SentIsComplete
  BY DEF IInv
<1> QED BY <1>1, InitOK, InvStep, PTL DEF Spec

\* A bug's component and version are ones of its product, but for versions with ".00".
THEOREM BugsAreWhereTheyBelong == Spec => []FiledWhereItBelongs
<1>1. IInv => FiledWhereItBelongs
  BY DEF IInv, ProductInv, Belongs, FiledWhereItBelongs
<1> QED BY <1>1, InitOK, InvStep, PTL DEF Spec

\* Attempts bound the bugs: one that is clicked n times files at most n.
OneBugPerAttempt == Len(bugs) <= handlers

THEOREM AttemptsBoundBugs == Spec => []OneBugPerAttempt
<1>1. IInv => OneBugPerAttempt
  <2> SUFFICES ASSUME IInv PROVE Len(bugs) <= handlers
    BY DEF OneBugPerAttempt
  <2>1. Cardinality(reports) \in Nat
    BY FS_CardinalityType DEF IInv, TypeOK
  <2>2. Len(bugs) \in Nat /\ handlers \in Nat
    BY BugAssumption DEF IInv, TypeOK
  <2> QED BY <2>1, <2>2 DEF IInv, CountInv
<1> QED BY <1>1, InitOK, InvStep, PTL DEF Spec

\* The page waits on, or it has something to show: each answer is an error, or the bug, or
\* the beginning of the next request.
LEMMA UnderWayStep ==
  ASSUME IInv, SendingIsUnderWay, [Next]_vars
  PROVE  SendingIsUnderWay'
<1> SUFFICES ASSUME page' = "sending", ~problem'
             PROVE  \/ logins' > 0 \/ reports' # {}
                    \/ \E b \in Bugs : attachments'[b].with + attachments'[b].without > 0
  BY DEF SendingIsUnderWay
<1> USE DEF dialogVars, productVars, loginVars, reportVars
<1>1. CASE UNCHANGED vars \/ ProductInfoFetched \/ ProductInfoError \/ Silence
  BY <1>1 DEF SendingIsUnderWay, vars, ProductInfoFetched, ProductInfoError, Silence
<1>2. CASE PageActions
  <2>1. logins' = logins + 1
    BY <1>2 DEF PageActions, DescribeCrash, RetryLookup, LookupVersionAnswered, TryLogin,
       OpenSendingPage, RetrySubmission, RefreshToken, IInv, PageInv
  <2> QED BY <2>1, BugAssumption DEF IInv, TypeOK
<1>3. CASE LoginAnswered
  <2>1. LoginFinished /\ page = "sending"
    BY <1>3 DEF LoginAnswered, LoginFinished, LoginError, ShowProblem
  <2> QED BY <2>1 DEF LoginFinished, SendBugReport
<1>4. ASSUME NEW r \in reports, ReportFiled(r)
      PROVE  \E b \in Bugs : attachments'[b].with + attachments'[b].without > 0
  <2> DEFINE id == Len(bugs) + 1
  <2>1. reports' = reports \ {r} /\ ReportSent(id)
    BY <1>4 DEF ReportFiled
  <2>2. id \in Bugs /\ handlers > 0 /\ handlers \in Nat
    BY <2>1, OneLess
  <2> HIDE DEF id
  <2>3. AttachBacktrace(id)
    BY <2>1 DEF ReportSent, Complete
  <2>4. attachments \in [Bugs -> [with : Nat, without : Nat]]
    BY DEF IInv, TypeOK
  <2>5. CASE token
    BY <2>2, <2>3, <2>4, <2>5 DEF AttachBacktrace
  <2>6. CASE ~token
    BY <2>2, <2>3, <2>4, <2>6 DEF AttachBacktrace
  <2> QED BY <2>2, <2>5, <2>6
<1>5. ASSUME NEW r \in reports, SendReportError(r) PROVE FALSE
  BY <1>5 DEF SendReportError, ShowProblem
<1>6. ASSUME NEW id \in Bugs, AttachToReportSent(id) PROVE FALSE
  BY <1>6 DEF AttachToReportSent, Complete
<1>7. ASSUME NEW id \in Bugs, NEW kind \in {"with", "without"}, AttachToReportError(id, kind)
      PROVE  FALSE
  BY <1>7 DEF AttachToReportError, ShowProblem
<1> QED BY <1>1, <1>2, <1>3, <1>4, <1>5, <1>6, <1>7 DEF Next, PageActions, ReportAnswered,
     AttachmentAnswered

\* The sending page never waits for an answer that nobody owes.
THEOREM SendingIsAwaited == Spec => []SendingIsUnderWay
<1>1. Init => SendingIsUnderWay
  BY DEF Init, SendingIsUnderWay
<1>2. IInv /\ SendingIsUnderWay /\ [Next]_vars => SendingIsUnderWay'
  BY UnderWayStep
<1> QED BY <1>1, <1>2, InitOK, InvStep, PTL DEF Spec
=============================================================================
