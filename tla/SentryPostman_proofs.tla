------------------------ MODULE SentryPostman_proofs ------------------------
(***************************************************************************)
(* What SentryPostman promises for every set of reports, burst and number  *)
(* of receipts.  A file is looked at by one side at a time: what drkonqi   *)
(* has open is fresh, what is fresh is slept for, and what was read is not *)
(* open any more.  From there the answer that is under way says what the   *)
(* file holds, and the counts of what the server got follow.               *)
(***************************************************************************)
EXTENDS SentryPostman, TLAPS

\* A name nobody used stands for nothing; a file that is being written is fresh,
\* incomplete, and nobody read it.
Unread(r) ==
    /\ r \notin written => outbox[r] = "none" /\ age[r] = "fresh" /\ r \notin writing
    /\ r \notin written \/ r \in writing =>
         outbox[r] # "whole" /\ answer[r] = "none" /\ received[r] = 0 /\ r \notin mangled
    /\ r \in writing => age[r] = "fresh"

\* What was posted is what the file holds, and it stays until its answer.
Posted(r) ==
    /\ answer[r] \in {"headed", "whole"} => outbox[r] = answer[r]
    /\ answer[r] = "good" => outbox[r] = "headed" \/ (outbox[r] = "whole" /\ received[r] > 0)
    /\ received[r] > 0 => outbox[r] \in {"none", "whole"}

\* The server has it, the postman knows: then it is moved, or about to be.
Known(r) == received[r] > 0 /\ r \notin unsure => answer[r] = "good" \/ outbox[r] = "none"

Mangled(r) == r \in mangled => outbox[r] # "whole" /\ received[r] = 0 /\ r \notin writing
Excused(r) == received[r] > 1 => r \in unsure

\* One file is under way at most, and none of those that are still to be read.
Run ==
    /\ postman = "off" => todo = {} /\ answer = NoAnswers
    /\ postman = "loop" => todo = {}
    /\ \A r \in todo : answer[r] = "none"

Sound(r) == Unread(r) /\ Posted(r) /\ Known(r) /\ Mangled(r) /\ Excused(r)
Reliable == \A r \in Reports : Sound(r)
IInv == TypeOK /\ Run /\ Reliable

\* Of a step that is about one report, the others notice nothing.
Untouched(s) ==
    /\ outbox'[s] = outbox[s] /\ age'[s] = age[s] /\ answer'[s] = answer[s]
    /\ received'[s] = received[s]
    /\ (s \in writing') = (s \in writing) /\ (s \in written') = (s \in written)
    /\ (s \in mangled') = (s \in mangled) /\ (s \in unsure') = (s \in unsure)

\* What a report's parts promise only depends on the parts.
LEMMA OthersStay ==
  ASSUME NEW s \in Reports, Sound(s), Untouched(s)
  PROVE  Sound(s)'
BY DEF Sound, Unread, Posted, Known, Mangled, Excused, Untouched
\* A step about one report has to be looked at for that one.
LEMMA OneReport ==
  ASSUME IInv, NEW r \in Reports, Sound(r)',
         \A s \in Reports \ {r} : Untouched(s)
  PROVE  Reliable'
<1> SUFFICES ASSUME NEW s \in Reports PROVE Sound(s)'
  BY DEF Reliable
<1>1. CASE s = r
  BY <1>1
<1>2. CASE s # r
  BY <1>2, OthersStay DEF IInv, Reliable
<1> QED BY <1>1, <1>2

-----------------------------------------------------------------------------
\* A file appears under a new name.
LEMMA DeliverStep ==
  ASSUME IInv, NEW r \in Reports, Deliver(r)
  PROVE  IInv'
<1>1. TypeOK'
  BY PostmanAssumption DEF IInv, TypeOK, Contents, Deliver, history, unitVars
<1>2. Run'
  BY DEF IInv, TypeOK, Contents, Run, NoAnswers, Reliable, Sound, Unread, Posted, Deliver,
     history, unitVars
<1>3. Sound(r)'
  BY DEF IInv, TypeOK, Contents, Run, Reliable, Sound, Unread, Posted, Known, Mangled,
     Excused, Deliver, history, unitVars
<1>4. ASSUME NEW s \in Reports \ {r} PROVE Untouched(s)
  BY DEF IInv, TypeOK, Untouched, Deliver, history, unitVars
<1> QED BY <1>1, <1>2, <1>3, <1>4, OneReport DEF IInv

\* Its first line gets there.
LEMMA WriteSomeStep ==
  ASSUME IInv, NEW r \in Reports, WriteSome(r)
  PROVE  IInv'
<1>1. TypeOK'
  BY PostmanAssumption DEF IInv, TypeOK, Contents, WriteSome, history, unitVars
<1>2. Run'
  BY DEF IInv, TypeOK, Contents, Run, NoAnswers, Reliable, Sound, Unread, Posted, WriteSome,
     history, unitVars
<1>3. Sound(r)'
  BY DEF IInv, TypeOK, Contents, Run, Reliable, Sound, Unread, Posted, Known, Mangled,
     Excused, WriteSome, history, unitVars
<1>4. ASSUME NEW s \in Reports \ {r} PROVE Untouched(s)
  BY DEF IInv, TypeOK, Untouched, WriteSome, history, unitVars
<1> QED BY <1>1, <1>2, <1>3, <1>4, OneReport DEF IInv

\* It is complete, before anybody read it.
LEMMA WriteEndsStep ==
  ASSUME IInv, NEW r \in Reports, WriteEnds(r)
  PROVE  IInv'
<1>1. TypeOK'
  BY PostmanAssumption DEF IInv, TypeOK, Contents, WriteEnds, history, unitVars
<1>2. Run'
  BY DEF IInv, TypeOK, Contents, Run, NoAnswers, Reliable, Sound, Unread, Posted, WriteEnds,
     history, unitVars
<1>3. Sound(r)'
  BY DEF IInv, TypeOK, Contents, Run, Reliable, Sound, Unread, Posted, Known, Mangled,
     Excused, WriteEnds, history, unitVars
<1>4. ASSUME NEW s \in Reports \ {r} PROVE Untouched(s)
  BY DEF IInv, TypeOK, Untouched, WriteEnds, history, unitVars
<1> QED BY <1>1, <1>2, <1>3, <1>4, OneReport DEF IInv

\* It loses its writer, and stays as it is.
LEMMA WriteBreaksStep ==
  ASSUME IInv, NEW r \in Reports, WriteBreaks(r)
  PROVE  IInv'
<1>1. TypeOK'
  BY PostmanAssumption DEF IInv, TypeOK, Contents, WriteBreaks, history, unitVars
<1>2. Run'
  BY DEF IInv, TypeOK, Contents, Run, NoAnswers, Reliable, Sound, Unread, Posted, WriteBreaks,
     history, unitVars
<1>3. Sound(r)'
  BY DEF IInv, TypeOK, Contents, Run, Reliable, Sound, Unread, Posted, Known, Mangled,
     Excused, WriteBreaks, history, unitVars
<1>4. ASSUME NEW s \in Reports \ {r} PROVE Untouched(s)
  BY DEF IInv, TypeOK, Untouched, WriteBreaks, history, unitVars
<1> QED BY <1>1, <1>2, <1>3, <1>4, OneReport DEF IInv

\* Its writer is done, and it is older than a flush.
LEMMA SettleStep ==
  ASSUME IInv, NEW r \in Reports, Settle(r)
  PROVE  IInv'
<1>1. TypeOK'
  BY PostmanAssumption DEF IInv, TypeOK, Contents, Settle, history, unitVars
<1>2. Run'
  BY DEF IInv, TypeOK, Contents, Run, NoAnswers, Reliable, Sound, Unread, Posted, Settle,
     history, unitVars
<1>3. Sound(r)'
  BY DEF IInv, TypeOK, Contents, Run, Reliable, Sound, Unread, Posted, Known, Mangled,
     Excused, Settle, history, unitVars
<1>4. ASSUME NEW s \in Reports \ {r} PROVE Untouched(s)
  BY DEF IInv, TypeOK, Untouched, Settle, history, unitVars
<1> QED BY <1>1, <1>2, <1>3, <1>4, OneReport DEF IInv

\* It is a month old.
LEMMA GrowOldStep ==
  ASSUME IInv, NEW r \in Reports, GrowOld(r)
  PROVE  IInv'
<1>1. TypeOK'
  BY PostmanAssumption DEF IInv, TypeOK, Contents, GrowOld, history, unitVars
<1>2. Run'
  BY DEF IInv, TypeOK, Contents, Run, NoAnswers, Reliable, Sound, Unread, Posted, GrowOld,
     history, unitVars
<1>3. Sound(r)'
  BY DEF IInv, TypeOK, Contents, Run, Reliable, Sound, Unread, Posted, Known, Mangled,
     Excused, GrowOld, history, unitVars
<1>4. ASSUME NEW s \in Reports \ {r} PROVE Untouched(s)
  BY DEF IInv, TypeOK, Untouched, GrowOld, history, unitVars
<1> QED BY <1>1, <1>2, <1>3, <1>4, OneReport DEF IInv

\* post() reads what is not open, or removes it.
LEMMA VisitStep ==
  ASSUME IInv, NEW r \in Reports, Visit(r)
  PROVE  IInv'
<1>1. TypeOK'
  BY PostmanAssumption DEF IInv, TypeOK, Contents, Visit, Post, Wake, ReadAndPost, Leaves,
     history, unitVars
<1>2. Run'
  BY DEF IInv, TypeOK, Contents, Run, NoAnswers, Reliable, Sound, Unread, Posted, Visit, Post,
     Wake, ReadAndPost, Leaves, history, unitVars
<1>3. Sound(r)'
  BY DEF IInv, TypeOK, Contents, Run, Reliable, Sound, Unread, Posted, Known, Mangled,
     Excused, Visit, Post, Wake, ReadAndPost, Leaves, history, unitVars
<1>4. ASSUME NEW s \in Reports \ {r} PROVE Untouched(s)
  BY DEF IInv, TypeOK, Untouched, Visit, Post, Wake, ReadAndPost, Leaves, history, unitVars
<1> QED BY <1>1, <1>2, <1>3, <1>4, OneReport DEF IInv

\* The server has it once more; the postman knows, or cannot.
LEMMA ServerTakesStep ==
  ASSUME IInv, NEW r \in Reports, ServerTakes(r)
  PROVE  IInv'
<1>1. TypeOK'
  BY PostmanAssumption DEF IInv, TypeOK, Contents, ServerTakes, history, unitVars
<1>2. Run'
  BY DEF IInv, TypeOK, Contents, Run, NoAnswers, Reliable, Sound, Unread, Posted, ServerTakes,
     history, unitVars
<1>3. Sound(r)'
  BY DEF IInv, TypeOK, Contents, Run, Reliable, Sound, Unread, Posted, Known, Mangled,
     Excused, ServerTakes, history, unitVars
<1>4. ASSUME NEW s \in Reports \ {r} PROVE Untouched(s)
  BY DEF IInv, TypeOK, Untouched, ServerTakes, history, unitVars
<1> QED BY <1>1, <1>2, <1>3, <1>4, OneReport DEF IInv

\* Nothing arrives.
LEMMA ServerRefusesStep ==
  ASSUME IInv, NEW r \in Reports, ServerRefuses(r)
  PROVE  IInv'
<1>1. TypeOK'
  BY PostmanAssumption DEF IInv, TypeOK, Contents, ServerRefuses, history, unitVars
<1>2. Run'
  BY DEF IInv, TypeOK, Contents, Run, NoAnswers, Reliable, Sound, Unread, Posted,
     ServerRefuses, history, unitVars
<1>3. Sound(r)'
  BY DEF IInv, TypeOK, Contents, Run, Reliable, Sound, Unread, Posted, Known, Mangled,
     Excused, ServerRefuses, history, unitVars
<1>4. ASSUME NEW s \in Reports \ {r} PROVE Untouched(s)
  BY DEF IInv, TypeOK, Untouched, ServerRefuses, history, unitVars
<1> QED BY <1>1, <1>2, <1>3, <1>4, OneReport DEF IInv

\* A good answer moves the file, or fails to.
LEMMA FinishedStep ==
  ASSUME IInv, NEW r \in Reports, Finished(r)
  PROVE  IInv'
<1>1. TypeOK'
  BY PostmanAssumption DEF IInv, TypeOK, Contents, Finished, Leaves, history, unitVars
<1>2. Run'
  BY DEF IInv, TypeOK, Contents, Run, NoAnswers, Reliable, Sound, Unread, Posted, Finished,
     Leaves, history, unitVars
<1>3. Sound(r)'
  BY DEF IInv, TypeOK, Contents, Run, Reliable, Sound, Unread, Posted, Known, Mangled,
     Excused, Finished, Leaves, history, unitVars
<1>4. ASSUME NEW s \in Reports \ {r} PROVE Untouched(s)
  BY DEF IInv, TypeOK, Untouched, Finished, Leaves, history, unitVars
<1> QED BY <1>1, <1>2, <1>3, <1>4, OneReport DEF IInv

-----------------------------------------------------------------------------
(* What systemd does, and the ends of a run. *)

\* Steps that move no report.
LEMMA UnitStep ==
  ASSUME IInv, PathExists \/ HalfAnHourPasses \/ TimerElapses \/ LookedAtAll \/ Quits
  PROVE  IInv'
<1>1. TypeOK'
  BY PostmanAssumption DEF IInv, TypeOK, Run, Contents, PathExists, HalfAnHourPasses,
     TimerElapses,
     StartPostman, LookedAtAll, Quits, Pending, history, unitVars
<1>2. Run'
  BY DEF IInv, TypeOK, Run, PathExists, HalfAnHourPasses, TimerElapses, StartPostman,
     LookedAtAll, Quits, Pending, NoAnswers, history, unitVars
<1>3. ASSUME NEW s \in Reports PROVE Untouched(s)
  BY DEF Untouched, PathExists, HalfAnHourPasses, TimerElapses, StartPostman, LookedAtAll,
     Quits,
     history, unitVars
<1>4. Reliable'
  BY <1>3, OthersStay DEF IInv, Reliable
<1> QED BY <1>1, <1>2, <1>4 DEF IInv

\* What was answered well is not known to have arrived.
LEMMA EndStep ==
  ASSUME IInv, Killed \/ Login
  PROVE  IInv'
<1>1. PostmanEnds
  BY DEF Killed, Login
<1>2. TypeOK'
  <2>1. path' \in {"watching", "failed"} /\ triggers' \in 0..Burst /\ timer' \in {"off", "on"}
    BY PostmanAssumption DEF IInv, TypeOK, Killed, Login, unitVars
  <2> QED BY <1>1, <2>1 DEF IInv, TypeOK, Contents, PostmanEnds, NoAnswers
<1>3. Run'
  BY <1>1 DEF IInv, Run, PostmanEnds, NoAnswers
<1>4. ASSUME NEW r \in Reports PROVE Sound(r)'
  BY <1>1 DEF IInv, TypeOK, Reliable, Sound, Unread, Posted, Known, Mangled, Excused,
     PostmanEnds, NoAnswers
<1> QED BY <1>2, <1>3, <1>4 DEF IInv, Reliable

\* The outbox is empty.
LEMMA InitOK == Init => IInv
<1> SUFFICES ASSUME Init PROVE IInv
  OBVIOUS
<1>1. TypeOK
  BY PostmanAssumption DEF Init, TypeOK, Contents, NoAnswers
<1>2. Run /\ Reliable
  BY DEF Init, Run, Reliable, Sound, Unread, Posted, Known, Mangled, Excused, NoAnswers
<1> QED BY <1>1, <1>2 DEF IInv

\* Every step keeps the invariant.
LEMMA InvStep == IInv /\ [Next]_vars => IInv'
<1> SUFFICES ASSUME IInv, [Next]_vars PROVE IInv'
  OBVIOUS
<1>1. ASSUME NEW r \in Reports, Drkonqi(r) \/ Settle(r) \/ GrowOld(r) PROVE IInv'
  BY <1>1, DeliverStep, WriteSomeStep, WriteEndsStep, WriteBreaksStep, SettleStep, GrowOldStep
     DEF Drkonqi
<1>2. ASSUME NEW r \in Reports,
             Visit(r) \/ ServerTakes(r) \/ ServerRefuses(r) \/ Finished(r)
      PROVE  IInv'
  BY <1>2, VisitStep, ServerTakesStep, ServerRefusesStep, FinishedStep
<1>3. CASE PathExists \/ HalfAnHourPasses \/ TimerElapses \/ LookedAtAll \/ Quits
  BY <1>3, UnitStep
<1>4. CASE Killed \/ Login
  BY <1>4, EndStep
<1>5. CASE UNCHANGED vars
  BY <1>5 DEF vars, unitVars, history, IInv, TypeOK, Run, Reliable, Sound, Unread, Posted,
     Known,
     Mangled, Excused
<1> QED BY <1>1, <1>2, <1>3, <1>4, <1>5 DEF Next

-----------------------------------------------------------------------------
(* The theorems. *)

\* Types, in every behaviour.
THEOREM TypesHold == Spec => []TypeOK
<1>1. IInv => TypeOK
  BY DEF IInv
<1> QED BY <1>1, InitOK, InvStep, PTL DEF Spec

\* A report that drkonqi finishes is never posted before it has.
THEOREM NothingIsReadHalf == Spec => []NoHalfRead
<1>1. IInv => NoHalfRead
  BY DEF IInv, TypeOK, Reliable, Sound, Mangled, NoHalfRead
<1> QED BY <1>1, InitOK, InvStep, PTL DEF Spec

\* The server gets a report again only when the postman could not know.
THEOREM DuplicatesHaveAReason == Spec => []DuplicatesAreExcused
<1>1. IInv => DuplicatesAreExcused
  BY DEF IInv, Reliable, Sound, Excused, DuplicatesAreExcused
<1> QED BY <1>1, InitOK, InvStep, PTL DEF Spec

\* The safety of Outbox: a complete report goes from the outbox only when the server has it
\* or it is old, whatever is killed, lost or started too often in between.
THEOREM ImplementsOutbox == Spec => Whole!Init /\ [][Whole!Next]_(Whole!vars)
<1>1. Init => Whole!Init
  BY DEF Init, Whole!Init
<1>2. IInv /\ [Next]_vars => [Whole!Next]_(Whole!vars)
  <2> SUFFICES ASSUME IInv, [Next]_vars PROVE [Whole!Next]_(Whole!vars)
    OBVIOUS
  <2>1. ASSUME NEW r \in Reports, Drkonqi(r) PROVE [Whole!Next]_(Whole!vars)
    <3>1. CASE WriteEnds(r) /\ outbox[r] # "none"
      <4>1. Whole!Put(r)
        BY <3>1 DEF WriteEnds, Whole!Put, IInv, TypeOK, Reliable, Sound, Unread, Posted,
           history,
           unitVars
      <4> QED BY <4>1 DEF Whole!Next
    <3>2. CASE ~(WriteEnds(r) /\ outbox[r] # "none")
      BY <2>1, <3>2 DEF Drkonqi, Deliver, WriteSome, WriteEnds, WriteBreaks, IInv, TypeOK,
         Reliable,
         Sound, Unread, Whole!vars, history, unitVars
    <3> QED BY <3>1, <3>2
  <2>2. ASSUME NEW r \in Reports, Settle(r) PROVE [Whole!Next]_(Whole!vars)
    BY <2>2 DEF Settle, IInv, TypeOK, Whole!vars, history, unitVars
  <2>3. ASSUME NEW r \in Reports, GrowOld(r) PROVE [Whole!Next]_(Whole!vars)
    <3>1. Whole!GrowOld(r)
      BY <2>3 DEF GrowOld, Whole!GrowOld, IInv, TypeOK, history, unitVars
    <3> QED BY <3>1 DEF Whole!Next
  <2>4. ASSUME NEW r \in Reports, Visit(r) PROVE [Whole!Next]_(Whole!vars)
    <3>1. CASE outbox[r] = "whole" /\ outbox' # outbox
      <4>1. Whole!Leave(r)
        BY <2>4, <3>1 DEF Visit, Post, Wake, ReadAndPost, Leaves, Whole!Leave, IInv, TypeOK,
           history, unitVars
      <4> QED BY <4>1 DEF Whole!Next
    <3>2. CASE ~(outbox[r] = "whole" /\ outbox' # outbox)
      BY <2>4, <3>2 DEF Visit, Post, Wake, ReadAndPost, Leaves, IInv, TypeOK, Whole!vars,
         history, unitVars
    <3> QED BY <3>1, <3>2
  <2>5. ASSUME NEW r \in Reports, ServerTakes(r) PROVE [Whole!Next]_(Whole!vars)
    <3>1. CASE answer[r] = "whole"
      <4>1. Whole!Receive(r)
        BY <2>5, <3>1 DEF ServerTakes, Whole!Receive, IInv, TypeOK, Reliable, Sound, Posted,
           unitVars
      <4> QED BY <4>1 DEF Whole!Next
    <3>2. CASE answer[r] = "headed"
      BY <2>5, <3>2 DEF ServerTakes, IInv, TypeOK, Whole!vars, unitVars
    <3> QED BY <2>5, <3>1, <3>2 DEF ServerTakes
  <2>6. ASSUME NEW r \in Reports, ServerRefuses(r) PROVE [Whole!Next]_(Whole!vars)
    BY <2>6 DEF ServerRefuses, Whole!vars, history, unitVars
  <2>7. ASSUME NEW r \in Reports, Finished(r) PROVE [Whole!Next]_(Whole!vars)
    <3>1. CASE outbox[r] = "whole" /\ outbox' # outbox
      <4>1. Whole!Leave(r)
        BY <2>7, <3>1 DEF Finished, Leaves, Whole!Leave, IInv, TypeOK, Reliable, Sound, Posted,
           history, unitVars
      <4> QED BY <4>1 DEF Whole!Next
    <3>2. CASE ~(outbox[r] = "whole" /\ outbox' # outbox)
      BY <2>7, <3>2 DEF Finished, Leaves, IInv, TypeOK, Whole!vars, history, unitVars
    <3> QED BY <3>1, <3>2
  <2>8. CASE \/ PathExists \/ HalfAnHourPasses \/ TimerElapses \/ Killed \/ Login \/ LookedAtAll
             \/ Quits \/ UNCHANGED vars
    BY <2>8 DEF PathExists, HalfAnHourPasses, TimerElapses, StartPostman, Killed, Login,
       PostmanEnds, LookedAtAll, Quits, Whole!vars, vars, history, unitVars
  <2> QED BY <2>1, <2>2, <2>3, <2>4, <2>5, <2>6, <2>7, <2>8 DEF Next
<1> QED BY <1>1, <1>2, InitOK, InvStep, PTL DEF Spec
=============================================================================
