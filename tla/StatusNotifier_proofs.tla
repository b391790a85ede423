------------------------ MODULE StatusNotifier_proofs ------------------------
(***************************************************************************)
(* What StatusNotifier promises for any number of services, changes and    *)
(* restarts, and for any timeouts.  Its counter of missing services and    *)
(* the signals the bus still holds say together how many services are      *)
(* missing now: there is a course of counts from the one to the other, a   *)
(* signal for each step.  A count in it is never below nothing, so that    *)
(* the counter never has to stop at zero.                                  *)
(***************************************************************************)
EXTENDS StatusNotifier, FiniteSetTheorems, TLAPS

\* How many services are missing, from what the timer has counted to now.
Courses(n) == [0..n -> Nat]
Follows(course, signals) ==
    \A i \in 1..Len(signals) :
        course[i] = IF signals[i] = "gone" THEN course[i-1] + 1 ELSE course[i-1] - 1

Missing == Cardinality(Services \ up)

Counted ==
    hasIcon /\ ~raced =>
        \E course \in Courses(Len(bus)) :
            course[0] = pending /\ course[Len(bus)] = Missing /\ Follows(course, bus)

\* The close timer runs for a user who is there.  start() starts it with a service missing,
\* but then the activation timer is ahead of it.
Runs ==
    /\ hasIcon /\ away => idle
    /\ close # Off => 
         /\ hasIcon /\ ~idle
         /\ pending > 0 => activation # Off /\ activation < close
    /\ ~hasIcon => bus = <<>> /\ ~listening

\* A bubble was not answered yet, and a notifier that was deleted has no timers.
Faces ==
    /\ ~alive => activation = Off /\ close = Off
    /\ alive => dialogs < 2
    /\ alive /\ bubble => dialogs = 0

\* Unless somebody was impatient: one job at a time, and none after a success.
Patient ==
    /\ jobs + started <= MaxStarts
    /\ ~impatient =>
         /\ jobs + started <= 1
         /\ started > 0 => restarted

\* TypeOK in two halves: what is true or false, and what is a number or a set.
Flags ==
    {hasIcon, submitting, alive, icon, bubble, asked, raced, idle, away,
     listening, restarted, impatient} \subseteq BOOLEAN
Ranges ==
    /\ dialogs \in 0..2
    /\ up \subseteq Services /\ bus \in Seq({"gone", "back"})
    /\ changes \in 0..MaxChanges
    /\ pending \in Nat
    /\ activation \in Off..ActivationTimeout /\ close \in Off..CloseTimeout
    /\ jobs \in 0..MaxStarts /\ started \in 0..MaxStarts

IInv == TypeOK /\ Counted /\ Runs /\ Faces /\ Patient
-----------------------------------------------------------------------------
(* The course of counts. *)

\* A step that leaves the services, the bus and the counter alone leaves the course.
LEMMA CountStays ==
  ASSUME Counted, hasIcon' = hasIcon, raced' = raced, bus' = bus, pending' = pending, up' = up
  PROVE  Counted'
BY DEF Counted, Courses, Follows, Missing

\* There is a number of missing services.
LEMMA MissingNat == ASSUME up \subseteq Services PROVE Missing \in Nat
BY ServicesAssumption, FS_Subset, FS_CardinalityType DEF Missing

\* One service more or less.
LEMMA MissingChanges ==
  ASSUME up \subseteq Services, NEW s \in Services,
         up' = IF s \in up THEN up \ {s} ELSE up \cup {s}
  PROVE  Missing' = IF s \in up THEN Missing + 1 ELSE Missing - 1
<1>1. IsFiniteSet(Services \ up) /\ IsFiniteSet(Services \ up')
  BY ServicesAssumption, FS_Subset
<1>2. CASE s \in up
  <2>1. Services \ up' = (Services \ up) \cup {s}
    BY <1>2
  <2> QED BY <1>1, <1>2, <2>1, FS_AddElement DEF Missing
<1>3. CASE s \notin up
  <2>1. Services \ up' = (Services \ up) \ {s}
    BY <1>3
  <2> QED BY <1>1, <1>3, <2>1, FS_RemoveElement DEF Missing
<1> QED BY <1>2, <1>3

-----------------------------------------------------------------------------
(* The services and the bus. *)

\* The signal of a change goes to the end of the course.
LEMMA ServiceChangesStep ==
  ASSUME IInv, NEW s \in Services, ServiceChanges(s)
  PROVE  IInv'
<1>1. TypeOK'
  BY NotifierBounds DEF IInv, TypeOK, ServiceChanges, faceVars, busVars, timerVars, userVars,
     restartVars
<1>2. Runs' /\ Faces' /\ Patient'
  BY DEF IInv, TypeOK, Runs, Faces, Patient, ServiceChanges, faceVars, busVars, timerVars,
     userVars, restartVars
<1>3. Counted'
  <2> SUFFICES ASSUME hasIcon, ~raced
               PROVE  \E course \in Courses(Len(bus')) :
                         course[0] = pending /\ course[Len(bus')] = Missing' /\ Follows(course, bus')
    BY DEF Counted, ServiceChanges, faceVars, busVars, timerVars, userVars, restartVars
  <2> DEFINE signal == IF s \in up THEN "gone" ELSE "back"
             n == Len(bus)
  <2>1. PICK course \in Courses(n) :
               course[0] = pending /\ course[n] = Missing /\ Follows(course, bus)
    BY DEF IInv, Counted
  <2>2. bus \in Seq({"gone", "back"}) /\ n \in Nat /\ bus' = Append(bus, signal)
    BY DEF IInv, TypeOK, ServiceChanges
  <2>3. Len(bus') = n + 1 /\ bus'[n+1] = signal /\ \A i \in 1..n : bus'[i] = bus[i]
    BY <2>2
  <2>4. /\ Missing \in Nat /\ Missing' \in Nat
        /\ Missing' = IF signal = "gone" THEN Missing + 1 ELSE Missing - 1
    <3>1. up \subseteq Services /\ up' \subseteq Services
      BY <1>1 DEF IInv, TypeOK
    <3>2. Missing' \in Nat
      BY <3>1, ServicesAssumption, FS_Subset, FS_CardinalityType DEF Missing
    <3> QED BY <3>1, <3>2, MissingNat, MissingChanges DEF ServiceChanges
  <2> DEFINE longer == [i \in 0..(n+1) |-> IF i = n + 1 THEN Missing' ELSE course[i]]
  <2> HIDE DEF signal
  <2>5. longer \in Courses(n + 1)
    BY <2>2, <2>4 DEF Courses
  <2>6. longer[0] = pending /\ longer[n+1] = Missing'
    BY <2>1, <2>2
  <2>7. Follows(longer, bus')
    <3> SUFFICES ASSUME NEW i \in 1..(n+1)
                 PROVE  longer[i] = IF bus'[i] = "gone" THEN longer[i-1] + 1 ELSE longer[i-1] - 1
      BY <2>3 DEF Follows
    <3>1. CASE i = n + 1
      BY <3>1, <2>1, <2>2, <2>3, <2>4
    <3>2. CASE i # n + 1
      <4>1. i \in 1..n /\ i - 1 \in 0..n /\ i - 1 # n + 1 /\ i \in 0..(n+1) /\ i - 1 \in 0..(n+1)
        BY <3>2, <2>2
      <4>2. longer[i] = course[i] /\ longer[i-1] = course[i-1]
        BY <3>2, <4>1
      <4> QED BY <4>1, <4>2, <2>1, <2>3 DEF Follows
    <3> QED BY <3>1, <3>2
  <2> QED BY <2>3, <2>5, <2>6, <2>7
<1> QED BY <1>1, <1>2, <1>3 DEF IInv

\* A delivered signal takes the first step of it; the counter is not at zero when a service
\* comes back.
LEMMA BusSignalStep ==
  ASSUME IInv, BusSignal
  PROVE  IInv'
<1>1. /\ bus \in Seq({"gone", "back"}) /\ bus # <<>> /\ bus' = Tail(bus)
      /\ Len(bus) \in Nat /\ Len(bus) > 0 /\ Len(bus') = Len(bus) - 1
      /\ \A i \in 1..Len(bus') : bus'[i] = bus[i+1]
      /\ Head(bus) = bus[1] /\ bus' \in Seq({"gone", "back"})
  BY DEF IInv, TypeOK, BusSignal
<1>2. pending \in Nat /\ pending' \in Nat
  BY DEF IInv, TypeOK, BusSignal
<1>3. activation' \in Off..ActivationTimeout /\ close' \in Off..CloseTimeout
  BY TimeoutsAssumption DEF IInv, TypeOK, BusSignal, Refreshed, Off
<1>4. TypeOK'
  BY <1>1, <1>2, <1>3 DEF IInv, TypeOK, BusSignal, faceVars, busVars, timerVars, userVars,
     restartVars
<1>5. Runs'
  BY <1>1, <1>2, TimeoutsAssumption DEF IInv, TypeOK, Runs, BusSignal, Refreshed, Off, faceVars,
     busVars, timerVars, userVars, restartVars
<1>6. Faces' /\ Patient'
  BY DEF IInv, Faces, Patient, BusSignal, faceVars, busVars, timerVars, userVars, restartVars
<1>7. Counted'
  <2> SUFFICES ASSUME hasIcon, ~raced
               PROVE  \E course \in Courses(Len(bus')) :
                         course[0] = pending' /\ course[Len(bus')] = Missing /\ Follows(course, bus')
    BY DEF Counted, BusSignal, faceVars, busVars, timerVars, userVars, restartVars, Missing
  <2> DEFINE n == Len(bus')
  <2>1. PICK course \in Courses(n + 1) :
               course[0] = pending /\ course[n+1] = Missing /\ Follows(course, bus)
    BY <1>1 DEF IInv, Counted
  <2> DEFINE rest == [i \in 0..n |-> course[i+1]]
  <2>2. n \in Nat /\ n + 1 = Len(bus)
    BY <1>1
  <2> HIDE DEF n
  <2>3. rest \in Courses(n)
    BY <2>2 DEF Courses
  <2>4. rest[n] = Missing
    BY <2>1, <2>2
  <2>5. course[1] = IF bus[1] = "gone" THEN pending + 1 ELSE pending - 1
    BY <2>1, <2>2 DEF Follows
  <2>6. course[1] \in Nat
    BY <2>2 DEF Courses
  <2>7. pending' = course[1]
    BY <1>1, <1>2, <2>5, <2>6 DEF BusSignal
  <2>8. rest[0] = pending'
    BY <2>2, <2>7
  <2>9. Follows(rest, bus')
    <3> SUFFICES ASSUME NEW i \in 1..n
                 PROVE  rest[i] = IF bus'[i] = "gone" THEN rest[i-1] + 1 ELSE rest[i-1] - 1
      BY DEF Follows, n
    <3>1. i + 1 \in 1..Len(bus) /\ (i + 1) - 1 = i /\ i \in 0..n /\ i - 1 \in 0..n /\ (i - 1) + 1 = i
      BY <2>2
    <3>2. rest[i] = course[i+1] /\ rest[i-1] = course[i]
      BY <3>1
    <3>3. bus'[i] = bus[i+1]
      BY <1>1 DEF n
    <3> QED BY <3>1, <3>2, <3>3, <2>1 DEF Follows
  <2> QED BY <2>3, <2>4, <2>8, <2>9 DEF n
<1> QED BY <1>4, <1>5, <1>6, <1>7 DEF IInv

-----------------------------------------------------------------------------
(* What leaves the count alone. *)

\* The notifier goes, and its timers.
LEMMA ActivateStep ==
  ASSUME IInv, Activate
  PROVE  IInv'
<1>1. TypeOK'
  <2>1. Flags'
    BY DEF IInv, TypeOK, Flags, Activate, OpenDialog, Off, faceVars, busVars, timerVars,
       userVars, restartVars
  <2>2. Ranges'
    BY TimeoutsAssumption, NotifierBounds DEF IInv, TypeOK, Ranges, Faces, Patient, Activate,
       OpenDialog, Off, faceVars, busVars, timerVars, userVars, restartVars
  <2> QED BY <2>1, <2>2 DEF TypeOK, Flags, Ranges
<1>2. Runs'
  BY TimeoutsAssumption DEF IInv, TypeOK, Runs, Activate, OpenDialog, Off, faceVars, busVars,
     timerVars, userVars, restartVars
<1>3. Faces' /\ Patient'
  BY NotifierBounds DEF IInv, TypeOK, Faces, Patient, Activate, OpenDialog, Off, faceVars,
     busVars, timerVars, userVars, restartVars
<1>4. Counted'
  BY CountStays DEF IInv, Activate, OpenDialog, faceVars, busVars, timerVars, userVars,
     restartVars
<1> QED BY <1>1, <1>2, <1>3, <1>4 DEF IInv

\* The dialog opens beside the icon.
LEMMA AddDetailsStep ==
  ASSUME IInv, AddDetails
  PROVE  IInv'
<1>1. TypeOK'
  <2>1. Flags'
    BY DEF IInv, TypeOK, Flags, AddDetails, Off, faceVars, busVars, timerVars, userVars,
       restartVars
  <2>2. Ranges'
    BY TimeoutsAssumption, NotifierBounds DEF IInv, TypeOK, Ranges, Faces, Patient, AddDetails,
       Off, faceVars, busVars, timerVars, userVars, restartVars
  <2> QED BY <2>1, <2>2 DEF TypeOK, Flags, Ranges
<1>2. Runs'
  BY TimeoutsAssumption DEF IInv, TypeOK, Runs, AddDetails, Off, faceVars, busVars, timerVars,
     userVars, restartVars
<1>3. Faces' /\ Patient'
  BY NotifierBounds DEF IInv, TypeOK, Faces, Patient, AddDetails, Off, faceVars, busVars,
     timerVars, userVars, restartVars
<1>4. Counted'
  BY CountStays DEF IInv, AddDetails, faceVars, busVars, timerVars, userVars, restartVars
<1> QED BY <1>1, <1>2, <1>3, <1>4 DEF IInv

\* The icon goes.
LEMMA HideStep ==
  ASSUME IInv, Hide
  PROVE  IInv'
<1>1. TypeOK'
  <2>1. Flags'
    BY DEF IInv, TypeOK, Flags, Hide, Expire, ActivationAllowed, Off, faceVars, busVars,
       timerVars, userVars, restartVars
  <2>2. Ranges'
    BY TimeoutsAssumption, NotifierBounds DEF IInv, TypeOK, Ranges, Faces, Patient, Hide,
       Expire, ActivationAllowed, Off, faceVars, busVars, timerVars, userVars, restartVars
  <2> QED BY <2>1, <2>2 DEF TypeOK, Flags, Ranges
<1>2. Runs'
  BY TimeoutsAssumption DEF IInv, TypeOK, Runs, Hide, Expire, ActivationAllowed, Off, faceVars,
     busVars, timerVars, userVars, restartVars
<1>3. Faces' /\ Patient'
  BY NotifierBounds DEF IInv, TypeOK, Faces, Patient, Hide, Expire, ActivationAllowed, Off,
     faceVars, busVars, timerVars, userVars, restartVars
<1>4. Counted'
  BY CountStays DEF IInv, Hide, Expire, ActivationAllowed, faceVars, busVars, timerVars,
     userVars, restartVars
<1> QED BY <1>1, <1>2, <1>3, <1>4 DEF IInv

\* The notification ends.
LEMMA BubbleClosesStep ==
  ASSUME IInv, BubbleCloses
  PROVE  IInv'
<1>1. TypeOK'
  <2>1. Flags'
    BY DEF IInv, TypeOK, Flags, BubbleCloses, ActivationAllowed, Off, faceVars, busVars,
       timerVars, userVars, restartVars
  <2>2. Ranges'
    BY TimeoutsAssumption, NotifierBounds DEF IInv, TypeOK, Ranges, Faces, Patient,
       BubbleCloses, ActivationAllowed, Off, faceVars, busVars, timerVars, userVars, restartVars
  <2> QED BY <2>1, <2>2 DEF TypeOK, Flags, Ranges
<1>2. Runs'
  BY TimeoutsAssumption DEF IInv, TypeOK, Runs, BubbleCloses, ActivationAllowed, Off, faceVars,
     busVars, timerVars, userVars, restartVars
<1>3. Faces' /\ Patient'
  BY NotifierBounds DEF IInv, TypeOK, Faces, Patient, BubbleCloses, ActivationAllowed, Off,
     faceVars, busVars, timerVars, userVars, restartVars
<1>4. Counted'
  BY CountStays DEF IInv, BubbleCloses, ActivationAllowed, faceVars, busVars, timerVars,
     userVars, restartVars
<1> QED BY <1>1, <1>2, <1>3, <1>4 DEF IInv

\* Both timers come nearer by the same.
LEMMA TickStep ==
  ASSUME IInv, Tick
  PROVE  IInv'
<1>1. TypeOK'
  <2>1. Flags'
    BY DEF IInv, TypeOK, Flags, Tick, Off, faceVars, busVars, timerVars, userVars, restartVars
  <2>2. Ranges'
    BY TimeoutsAssumption, NotifierBounds DEF IInv, TypeOK, Ranges, Faces, Patient, Tick, Off,
       faceVars, busVars, timerVars, userVars, restartVars
  <2> QED BY <2>1, <2>2 DEF TypeOK, Flags, Ranges
<1>2. Runs'
  BY TimeoutsAssumption DEF IInv, TypeOK, Runs, Tick, Off, faceVars, busVars, timerVars,
     userVars, restartVars
<1>3. Faces' /\ Patient'
  BY NotifierBounds DEF IInv, TypeOK, Faces, Patient, Tick, Off, faceVars, busVars, timerVars,
     userVars, restartVars
<1>4. Counted'
  BY CountStays DEF IInv, Tick, faceVars, busVars, timerVars, userVars, restartVars
<1> QED BY <1>1, <1>2, <1>3, <1>4 DEF IInv

\* The activation timer is due.
LEMMA AutoActivateStep ==
  ASSUME IInv, AutoActivate
  PROVE  IInv'
<1>1. TypeOK'
  <2>1. Flags'
    BY DEF IInv, TypeOK, Flags, AutoActivate, OpenDialog, Off, faceVars, busVars, timerVars,
       userVars, restartVars
  <2>2. Ranges'
    BY TimeoutsAssumption, NotifierBounds DEF IInv, TypeOK, Ranges, Faces, Patient,
       AutoActivate, OpenDialog, Off, faceVars, busVars, timerVars, userVars, restartVars
  <2> QED BY <2>1, <2>2 DEF TypeOK, Flags, Ranges
<1>2. Runs'
  BY TimeoutsAssumption DEF IInv, TypeOK, Runs, AutoActivate, OpenDialog, Off, faceVars,
     busVars, timerVars, userVars, restartVars
<1>3. Faces' /\ Patient'
  BY NotifierBounds DEF IInv, TypeOK, Faces, Patient, AutoActivate, OpenDialog, Off, faceVars,
     busVars, timerVars, userVars, restartVars
<1>4. Counted'
  BY CountStays DEF IInv, AutoActivate, OpenDialog, faceVars, busVars, timerVars, userVars,
     restartVars
<1> QED BY <1>1, <1>2, <1>3, <1>4 DEF IInv

\* The close timer is due, once.
LEMMA AutoCloseStep ==
  ASSUME IInv, AutoClose
  PROVE  IInv'
<1>1. TypeOK'
  <2>1. Flags'
    BY DEF IInv, TypeOK, Flags, AutoClose, Expire, ActivationAllowed, Off, faceVars, busVars,
       timerVars, userVars, restartVars
  <2>2. Ranges'
    BY TimeoutsAssumption, NotifierBounds DEF IInv, TypeOK, Ranges, Faces, Patient, AutoClose,
       Expire, ActivationAllowed, Off, faceVars, busVars, timerVars, userVars, restartVars
  <2> QED BY <2>1, <2>2 DEF TypeOK, Flags, Ranges
<1>2. Runs'
  BY TimeoutsAssumption DEF IInv, TypeOK, Runs, AutoClose, Expire, ActivationAllowed, Off,
     faceVars, busVars, timerVars, userVars, restartVars
<1>3. Faces' /\ Patient'
  BY NotifierBounds DEF IInv, TypeOK, Faces, Patient, AutoClose, Expire, ActivationAllowed, Off,
     faceVars, busVars, timerVars, userVars, restartVars
<1>4. Counted'
  BY CountStays DEF IInv, AutoClose, Expire, ActivationAllowed, faceVars, busVars, timerVars,
     userVars, restartVars
<1> QED BY <1>1, <1>2, <1>3, <1>4 DEF IInv

\* It stops for a user who leaves.
LEMMA UserLeavesStep ==
  ASSUME IInv, UserLeaves
  PROVE  IInv'
<1>1. TypeOK'
  <2>1. Flags'
    BY DEF IInv, TypeOK, Flags, UserLeaves, Refreshed, Off, faceVars, busVars, timerVars,
       userVars, restartVars
  <2>2. Ranges'
    BY TimeoutsAssumption, NotifierBounds DEF IInv, TypeOK, Ranges, Faces, Patient, UserLeaves,
       Refreshed, Off, faceVars, busVars, timerVars, userVars, restartVars
  <2> QED BY <2>1, <2>2 DEF TypeOK, Flags, Ranges
<1>2. Runs'
  BY TimeoutsAssumption DEF IInv, TypeOK, Runs, UserLeaves, Refreshed, Off, faceVars, busVars,
     timerVars, userVars, restartVars
<1>3. Faces' /\ Patient'
  BY NotifierBounds DEF IInv, TypeOK, Faces, Patient, UserLeaves, Refreshed, Off, faceVars,
     busVars, timerVars, userVars, restartVars
<1>4. Counted'
  BY CountStays DEF IInv, UserLeaves, Refreshed, faceVars, busVars, timerVars, userVars,
     restartVars
<1> QED BY <1>1, <1>2, <1>3, <1>4 DEF IInv

\* Only the request is made.
LEMMA StillAwayStep ==
  ASSUME IInv, StillAway
  PROVE  IInv'
<1>1. TypeOK'
  <2>1. Flags'
    BY DEF IInv, TypeOK, Flags, StillAway, Off, faceVars, busVars, timerVars, userVars,
       restartVars
  <2>2. Ranges'
    BY TimeoutsAssumption, NotifierBounds DEF IInv, TypeOK, Ranges, Faces, Patient, StillAway,
       Off, faceVars, busVars, timerVars, userVars, restartVars
  <2> QED BY <2>1, <2>2 DEF TypeOK, Flags, Ranges
<1>2. Runs'
  BY TimeoutsAssumption DEF IInv, TypeOK, Runs, StillAway, Off, faceVars, busVars, timerVars,
     userVars, restartVars
<1>3. Faces' /\ Patient'
  BY NotifierBounds DEF IInv, TypeOK, Faces, Patient, StillAway, Off, faceVars, busVars,
     timerVars, userVars, restartVars
<1>4. Counted'
  BY CountStays DEF IInv, StillAway, faceVars, busVars, timerVars, userVars, restartVars
<1> QED BY <1>1, <1>2, <1>3, <1>4 DEF IInv

\* It starts again when nothing is missing.
LEMMA UserReturnsStep ==
  ASSUME IInv, UserReturns
  PROVE  IInv'
<1>1. TypeOK'
  <2>1. Flags'
    BY DEF IInv, TypeOK, Flags, UserReturns, Refreshed, Off, faceVars, busVars, timerVars,
       userVars, restartVars
  <2>2. Ranges'
    BY TimeoutsAssumption, NotifierBounds DEF IInv, TypeOK, Ranges, Faces, Patient, UserReturns,
       Refreshed, Off, faceVars, busVars, timerVars, userVars, restartVars
  <2> QED BY <2>1, <2>2 DEF TypeOK, Flags, Ranges
<1>2. Runs'
  BY TimeoutsAssumption DEF IInv, TypeOK, Runs, UserReturns, Refreshed, Off, faceVars, busVars,
     timerVars, userVars, restartVars
<1>3. Faces' /\ Patient'
  BY NotifierBounds DEF IInv, TypeOK, Faces, Patient, UserReturns, Refreshed, Off, faceVars,
     busVars, timerVars, userVars, restartVars
<1>4. Counted'
  BY CountStays DEF IInv, UserReturns, Refreshed, faceVars, busVars, timerVars, userVars,
     restartVars
<1> QED BY <1>1, <1>2, <1>3, <1>4 DEF IInv

\* Only somebody impatient has a second job.
LEMMA RestartApplicationStep ==
  ASSUME IInv, RestartApplication
  PROVE  IInv'
<1>1. TypeOK'
  <2>1. Flags'
    BY DEF IInv, TypeOK, Flags, RestartApplication, Off, faceVars, busVars, timerVars, userVars,
       restartVars
  <2>2. Ranges'
    BY TimeoutsAssumption, NotifierBounds DEF IInv, TypeOK, Ranges, Faces, Patient,
       RestartApplication, Off, faceVars, busVars, timerVars, userVars, restartVars
  <2> QED BY <2>1, <2>2 DEF TypeOK, Flags, Ranges
<1>2. Runs'
  BY TimeoutsAssumption DEF IInv, TypeOK, Runs, RestartApplication, Off, faceVars, busVars,
     timerVars, userVars, restartVars
<1>3. Faces' /\ Patient'
  BY NotifierBounds DEF IInv, TypeOK, Faces, Patient, RestartApplication, Off, faceVars,
     busVars, timerVars, userVars, restartVars
<1>4. Counted'
  BY CountStays DEF IInv, RestartApplication, faceVars, busVars, timerVars, userVars,
     restartVars
<1> QED BY <1>1, <1>2, <1>3, <1>4 DEF IInv

\* After the first success nobody may ask again.
LEMMA RestartResultStep ==
  ASSUME IInv, RestartResult
  PROVE  IInv'
<1>1. TypeOK'
  <2>1. Flags'
    BY DEF IInv, TypeOK, Flags, RestartResult, Off, faceVars, busVars, timerVars, userVars,
       restartVars
  <2>2. Ranges'
    BY TimeoutsAssumption, NotifierBounds DEF IInv, TypeOK, Ranges, Faces, Patient,
       RestartResult, Off, faceVars, busVars, timerVars, userVars, restartVars
  <2> QED BY <2>1, <2>2 DEF TypeOK, Flags, Ranges
<1>2. Runs'
  BY TimeoutsAssumption DEF IInv, TypeOK, Runs, RestartResult, Off, faceVars, busVars,
     timerVars, userVars, restartVars
<1>3. Faces' /\ Patient'
  BY NotifierBounds DEF IInv, TypeOK, Faces, Patient, RestartResult, Off, faceVars, busVars,
     timerVars, userVars, restartVars
<1>4. Counted'
  BY CountStays DEF IInv, RestartResult, faceVars, busVars, timerVars, userVars, restartVars
<1> QED BY <1>1, <1>2, <1>3, <1>4 DEF IInv

-----------------------------------------------------------------------------
(* The theorems. *)

\* start() has counted what is missing, or one service twice.
LEMMA InitOK == Init => IInv
<1> SUFFICES ASSUME Init PROVE IInv
  OBVIOUS
<1>1. up \subseteq Services /\ IsFiniteSet(Services \ up)
  BY ServicesAssumption, FS_Subset DEF Init
<1>2. Missing \in Nat
  BY <1>1, MissingNat
<1>3. pending \in Nat
  BY <1>2 DEF Init, Missing
<1>4. bus \in {<<>>, <<"back">>, <<"gone">>}
  BY DEF Init
<1>5. bus \in Seq({"gone", "back"})
  <2>1. <<>> \in Seq({"gone", "back"}) /\ <<"back">> \in Seq({"gone", "back"})
    OBVIOUS
  <2>2. <<"gone">> \in Seq({"gone", "back"})
    OBVIOUS
  <2> QED BY <1>4, <2>1, <2>2
<1>6. Flags
  BY DEF Init, Flags
<1>7. Ranges
  BY <1>1, <1>3, <1>5, TimeoutsAssumption, NotifierBounds DEF Init, Ranges, Off
<1>8. Runs
  BY <1>3, TimeoutsAssumption DEF Init, Runs, Off
<1>9. Faces /\ Patient
  BY NotifierBounds DEF Init, Faces, Patient
<1>10. Counted
  <2> SUFFICES ASSUME hasIcon, ~raced
               PROVE  \E course \in Courses(Len(bus)) :
                         course[0] = pending /\ course[Len(bus)] = Missing /\ Follows(course, bus)
    BY DEF Counted
  <2> DEFINE course == [i \in 0..0 |-> pending]
  <2>1. bus = <<>>
    BY DEF Init
  <2>2. Len(bus) = 0
    BY <2>1
  <2>3. course \in Courses(0) /\ course[0] = pending
    BY <1>3 DEF Courses
  <2>4. pending = Missing
    BY DEF Init, Missing
  <2>5. Follows(course, bus)
    BY <2>2 DEF Follows
  <2> QED BY <2>2, <2>3, <2>4, <2>5
<1> QED BY <1>6, <1>7, <1>8, <1>9, <1>10 DEF IInv, TypeOK, Flags, Ranges

\* Every step keeps the invariant.
LEMMA InvStep == IInv /\ [Next]_vars => IInv'
<1> SUFFICES ASSUME IInv, [Next]_vars PROVE IInv'
  OBVIOUS
<1>1. CASE Activate \/ AddDetails \/ Hide \/ BubbleCloses
  BY <1>1, ActivateStep, AddDetailsStep, HideStep, BubbleClosesStep
<1>2. ASSUME NEW s \in Services, ServiceChanges(s) PROVE IInv'
  BY <1>2, ServiceChangesStep
<1>3. CASE BusSignal \/ Tick \/ AutoActivate \/ AutoClose
  BY <1>3, BusSignalStep, TickStep, AutoActivateStep, AutoCloseStep
<1>4. CASE UserLeaves \/ StillAway \/ UserReturns
  BY <1>4, UserLeavesStep, StillAwayStep, UserReturnsStep
<1>5. CASE RestartApplication \/ RestartResult
  BY <1>5, RestartApplicationStep, RestartResultStep
<1>6. CASE UNCHANGED vars
  <2>1. Counted'
    BY <1>6, CountStays DEF IInv, vars, faceVars, busVars, timerVars
  <2>2. TypeOK' /\ Runs' /\ Faces' /\ Patient'
    BY <1>6 DEF IInv, TypeOK, Runs, Faces, Patient, vars, faceVars, busVars, timerVars,
       userVars,
       restartVars
  <2> QED BY <2>1, <2>2 DEF IInv
<1> QED BY <1>1, <1>2, <1>3, <1>4, <1>5, <1>6 DEF Next

\* Types, in every behaviour.
THEOREM TypesHold == Spec => []TypeOK
<1>1. IInv => TypeOK
  BY DEF IInv
<1> QED BY <1>1, InitOK, InvStep, PTL DEF Spec

\* When no signal is under way the counter is the number of services that are missing: it
\* was never stopped at zero and never counted one twice, but for one that changed while
\* start() asked for it.
CountIsTrue == hasIcon /\ ~raced /\ bus = <<>> => pending = Missing

THEOREM CountHolds == Spec => []CountIsTrue
<1>1. IInv => CountIsTrue
  <2> SUFFICES ASSUME IInv, hasIcon, ~raced, bus = <<>> PROVE pending = Missing
    BY DEF CountIsTrue
  <2>1. Len(bus) = 0
    OBVIOUS
  <2> QED BY <2>1 DEF IInv, Counted
<1> QED BY <1>1, InitOK, InvStep, PTL DEF Spec

\* What closes by itself was seen: the user is there, and so is every service; for any
\* activation timeout below the close timeout.
THEOREM OnlySeenIconsClose == Spec => []ClosesOnlySeenIcon
<1>1. IInv => ClosesOnlySeenIcon
  <2> SUFFICES ASSUME IInv, close = 0
               PROVE  ~away /\ (up = Services \/ raced \/ bus # <<>>)
    BY DEF ClosesOnlySeenIcon
  <2>1. hasIcon /\ ~idle /\ ~away
    BY DEF IInv, Runs, Off
  <2>2. pending = 0
    BY DEF IInv, TypeOK, Runs, Off
  <2>3. CASE ~raced /\ bus = <<>>
    <3>1. Len(bus) = 0
      BY <2>3
    <3>2. Missing = 0
      BY <2>1, <2>2, <2>3, <3>1 DEF IInv, Counted
    <3>3. up \subseteq Services /\ IsFiniteSet(Services \ up)
      BY ServicesAssumption, FS_Subset DEF IInv, TypeOK
    <3>4. Services \ up = {}
      BY <3>2, <3>3, FS_EmptySet DEF Missing
    <3> QED BY <2>1, <3>3, <3>4
  <2> QED BY <2>1, <2>3
<1> QED BY <1>1, InitOK, InvStep, PTL DEF Spec

\* A second start needs somebody impatient, for any number of restarts asked for.
THEOREM RestartedOnce == Spec => []RestartsOnce
<1>1. IInv => RestartsOnce
  BY DEF IInv, TypeOK, Patient, RestartsOnce
<1> QED BY <1>1, InitOK, InvStep, PTL DEF Spec

\* An icon whose services are all there, and whose user is, has a close timer; a crash that
\* is not announced by an icon or a report has a notification.
Driven ==
    /\ hasIcon /\ alive /\ ~asked /\ ~idle /\ pending = 0 => close # Off
    /\ ~hasIcon /\ ~submitting /\ alive /\ ~asked => bubble

\* What stops the close timer says why.
LEMMA DrivenStep ==
  ASSUME IInv, Driven, [Next]_vars
  PROVE  Driven'
<1> USE TimeoutsAssumption DEF Off, faceVars, busVars, timerVars, userVars, restartVars
<1> close \in Off..CloseTimeout /\ {hasIcon, submitting, alive, asked, idle, bubble} \subseteq BOOLEAN
  BY DEF IInv, TypeOK
<1>1. CASE Activate
  BY <1>1 DEF Driven, Activate, OpenDialog
<1>2. CASE AddDetails
  BY <1>2 DEF Driven, AddDetails
<1>3. CASE Hide
  BY <1>3 DEF Driven, Hide, Expire
<1>4. CASE BubbleCloses
  BY <1>4 DEF Driven, BubbleCloses, ActivationAllowed
<1>5. CASE BusSignal
  BY <1>5 DEF Driven, BusSignal, Refreshed
<1>6. CASE Tick
  BY <1>6 DEF Driven, Tick
<1>7. CASE AutoActivate
  BY <1>7 DEF Driven, AutoActivate, OpenDialog
<1>8. CASE AutoClose
  BY <1>8 DEF Driven, AutoClose, Expire
<1>9. CASE UserLeaves
  BY <1>9 DEF Driven, UserLeaves, Refreshed
<1>10. CASE StillAway
  BY <1>10 DEF Driven, StillAway
<1>11. CASE UserReturns
  BY <1>11 DEF Driven, UserReturns, Refreshed
<1>12. CASE RestartApplication
  BY <1>12 DEF Driven, RestartApplication
<1>13. CASE RestartResult
  BY <1>13 DEF Driven, RestartResult
<1>14. ASSUME NEW s \in Services, ServiceChanges(s) PROVE Driven'
  BY <1>14 DEF Driven, ServiceChanges
<1>15. CASE UNCHANGED vars
  BY <1>15 DEF Driven, vars
<1> QED BY <1>1, <1>2, <1>3, <1>4, <1>5, <1>6, <1>7, <1>8, <1>9, <1>10, <1>11, <1>12, <1>13,
           <1>14, <1>15 DEF Next

\* An announcement that is not over is driven by something, or stranded in one of three ways.
THEOREM NoOtherStranding == Spec => []AnnouncementIsDriven
<1>1. Init => Driven
  BY TimeoutsAssumption DEF Init, Driven, Off
<1>2. IInv /\ Driven => AnnouncementIsDriven
  BY DEF IInv, TypeOK, Driven, AnnouncementIsDriven, Ended, Stranded
<1>3. IInv /\ Driven /\ [Next]_vars => Driven'
  BY DrivenStep
<1> QED BY <1>1, <1>2, <1>3, InitOK, InvStep, PTL DEF Spec
==============================================================================
