---------------------- MODULE CoredumpPipeline_proofs ----------------------
(***************************************************************************)
(* What TLAPS proves of CoredumpPipeline, for any number of dumps, logins  *)
(* and connections, any size of a batch, and whatever becomes of cores and *)
(* of KCrash's files: its types, that a dump is handled once unless two    *)
(* launchers had it at the same time or its metadata could not be written, *)
(* that what KCrash has told is kept as long as it can be written, and     *)
(* that the pickup is discreet.                                            *)
(***************************************************************************)
EXTENDS CoredumpPipeline, FiniteSetTheorems, TLAPS

Places == {"none", "read", "write", "drkonqi", "notify", "notified"}

-----------------------------------------------------------------------------
(* The inductive invariant. *)

\* A dump that has not happened leaves no trace.
NothingYet(d) == meta[d] = "none" /\ launcher[d] = Idle

\* While no two launchers have had the dump, one of them at most is busy.
OneLauncher(d) == \E s \in Senders : launcher[d][s] = "none"

\* How far a launcher is, drkonqi's metadata and what the user has seen agree.
InStep(d) ==
    /\ meta[d] = "none" => started[d] + notified[d] = 0
    /\ started[d] + notified[d] <= 1
    /\ \A s \in Senders :
        /\ launcher[d][s] = "write" => meta[d] = "none"
        /\ launcher[d][s] = "notify" => started[d] + notified[d] = 0

\* Dumps of which nothing is claimed: two launchers had them, or one could not write.
Excused == raced \union unwritten

\* A launcher beyond writing has written, if it could.
Written(d) ==
    \A s \in Senders :
        launcher[d][s] \in {"drkonqi", "notify", "notified"} => meta[d] # "none" \/ d \in unwritten

\* KCrash's account is in one of the two files, and drkonqi's has nothing less.
Kept(d) ==
    /\ d \in crashed => d \in kcrash \/ meta[d] = "kcrash"
    /\ meta[d] # "none" => meta[d] = "kcrash"

Alone(d) ==
    /\ Written(d)
    /\ d \notin crashed => NothingYet(d)
    /\ d \notin Excused => OneLauncher(d) /\ InStep(d)
    /\ d \in KCrashDumps /\ d \notin Excused \union cleaned => Kept(d)

IInv == \A d \in Dumps : Alone(d)

-----------------------------------------------------------------------------
(* Lemmas about handing over. *)

\* The types of the sets and of the journal, one by one.
LEMMA Sets ==
  ASSUME TypeOK
  PROVE  /\ cores \subseteq Dumps /\ processor \subseteq Dumps /\ crashed \subseteq Dumps
         /\ picked \subseteq Dumps /\ raced \subseteq Dumps /\ turnedAway \subseteq Dumps
         /\ unwritten \subseteq Dumps
         /\ cleaned \subseteq Dumps /\ kcrash \subseteq Dumps
         /\ Len(journal) \in Nat
         /\ \A i \in 1 .. Len(journal) : journal[i] \in crashed
BY DumpsAssumption DEF TypeOK

\* Who is handed over has crashed, and there is a session to take it.
LEMMA TakenHasCrashed ==
  ASSUME TypeOK, NEW E, E \subseteq 1 .. Len(journal)
  PROVE  /\ Taken(E) \subseteq crashed
         /\ ~session => Taken(E) = {}
<1>1. \A i \in E : journal[i] \in crashed
  BY Sets
<1>2. Taken(E) \subseteq crashed
  BY <1>1 DEF Taken
<1>3. ASSUME ~session, NEW e \in E PROVE ~(Cardinality({x \in E : x < e}) < Free)
  <2>1. IsFiniteSet(1 .. Len(journal))
    BY FS_Interval, Sets
  <2>2. IsFiniteSet({x \in E : x < e})
    BY <2>1, FS_Subset
  <2>3. Cardinality({x \in E : x < e}) \in Nat
    BY <2>2, FS_CardinalityType
  <2> QED BY <1>3, <2>3 DEF Free
<1>4. ~session => Taken(E) = {}
  BY <1>3 DEF Taken
<1> QED BY <1>2, <1>4

\* Handing over keeps the types.
LEMMA HandOverTypes ==
  ASSUME TypeOK, NEW E, E \subseteq 1 .. Len(journal), NEW s \in Senders, HandOver(E, s)
  PROVE  /\ launcher' \in [Dumps -> [Senders -> Places]]
         /\ ~session => launcher' = [d \in Dumps |-> Idle]
         /\ raced' \subseteq Dumps /\ turnedAway' \subseteq Dumps
<1>1. \A d \in Dumps : launcher[d] \in [Senders -> Places]
  BY DEF TypeOK, Places
<1>2. \A d \in Dumps : [launcher[d] EXCEPT ![s] = "read"] \in [Senders -> Places]
  BY <1>1 DEF Places
<1>3. launcher' \in [Dumps -> [Senders -> Places]]
  BY <1>1, <1>2 DEF HandOver
<1>4. ~session => launcher' = [d \in Dumps |-> Idle]
  BY TakenHasCrashed DEF HandOver, TypeOK
<1>5. {journal[i] : i \in E} \subseteq Dumps
  BY Sets
<1> QED BY <1>3, <1>4, <1>5, TakenHasCrashed, Sets DEF HandOver

\* A launcher is started for a crashed dump; if another had it already, that is recorded.
LEMMA HandOverLaunches ==
  ASSUME TypeOK, NEW E, E \subseteq 1 .. Len(journal), NEW s \in Senders, HandOver(E, s),
         NEW d \in Dumps
  PROVE  /\ d \in raced => d \in raced'
         /\ \/ launcher'[d] = launcher[d]
            \/ /\ d \in crashed
               /\ launcher'[d] = [launcher[d] EXCEPT ![s] = "read"]
               /\ d \in raced' \/ launcher[d] = Idle
BY TakenHasCrashed DEF HandOver

-----------------------------------------------------------------------------
(* Types. *)

\* An entry read is an entry there is.
LEMMA BatchEndType ==
  ASSUME TypeOK
  PROVE  BatchEnd \in 0 .. Len(journal) /\ Found \subseteq 1 .. Len(journal)
BY Sets, LimitsAssumption DEF TypeOK, BatchEnd, Found

LEMMA EntriesType ==
  ASSUME NEW d PROVE EntriesOf(d) \subseteq 1 .. Len(journal)
BY DEF EntriesOf

\* One launcher's move keeps the types of launchers.
LEMMA GoesType ==
  ASSUME TypeOK, NEW d \in Dumps, NEW s \in Senders, NEW pc \in Places, Goes(d, s, pc),
         launcher[d][s] # "none"
  PROVE  launcher' \in [Dumps -> [Senders -> Places]] /\ session
<1>1. launcher[d] # Idle
  BY DEF Idle
<1> QED BY <1>1 DEF Goes, TypeOK, Places

LEMMA TypeInit == Init => TypeOK
<1> SUFFICES ASSUME Init PROVE TypeOK
  OBVIOUS
<1>1. launcher \in [Dumps -> [Senders -> Places]]
  BY DEF Init, Idle, Places
<1>2. journal \in Seq(crashed) /\ cursor \in 0 .. Len(journal)
  BY DEF Init
<1>3. /\ started \in [Dumps -> Nat] /\ notified \in [Dumps -> Nat]
      /\ meta \in [Dumps -> {"none", "kcrash", "synthesized", "bare"}]
  BY DEF Init
<1>4. {cores, processor, crashed, picked, raced, turnedAway, unwritten, cleaned} \subseteq SUBSET Dumps
  BY DEF Init
<1>5. launcher = [d \in Dumps |-> Idle]
  BY DEF Init
<1>6. /\ logins \in 0 .. MaxLogins
      /\ kcrash \subseteq KCrashDumps \intersect crashed
  BY LimitsAssumption DEF Init
<1>7. session \in BOOLEAN /\ pickup = "no"
  BY DEF Init
<1> QED BY <1>1, <1>2, <1>3, <1>4, <1>5, <1>6, <1>7 DEF TypeOK, Places

\* Every step keeps the types.
LEMMA TypeStep == TypeOK /\ [Next]_vars => TypeOK'
<1> SUFFICES ASSUME TypeOK, [Next]_vars PROVE TypeOK'
  OBVIOUS
<1> USE DEF history, files, Places
<1>0. /\ cores \subseteq Dumps /\ processor \subseteq Dumps /\ crashed \subseteq Dumps
      /\ picked \subseteq Dumps /\ raced \subseteq Dumps /\ turnedAway \subseteq Dumps
         /\ unwritten \subseteq Dumps
      /\ cleaned \subseteq Dumps /\ kcrash \subseteq Dumps
  BY Sets
<1>1. CASE Login
  BY <1>1, LimitsAssumption DEF Login, TypeOK
<1>2. CASE Logout
  <2>1. [d \in Dumps |-> Idle] \in [Dumps -> [Senders -> Places]]
    BY DEF Idle
  <2> QED BY <1>2, <2>1 DEF Logout, TypeOK
<1>3. CASE PickupSettles
  BY <1>3 DEF PickupSettles, TypeOK
<1>4. CASE ProcessLog
  <2>1. BatchEnd \in 0 .. Len(journal) /\ Found \subseteq 1 .. Len(journal)
    BY BatchEndType
  <2>2. "pickup" \in Senders
    BY DEF Senders
  <2>3. /\ launcher' \in [Dumps -> [Senders -> Places]]
        /\ ~session => launcher' = [d \in Dumps |-> Idle]
        /\ raced' \subseteq Dumps /\ turnedAway' \subseteq Dumps
    BY <1>4, <2>1, <2>2, HandOverTypes DEF ProcessLog
  <2>4. picked' \subseteq Dumps
    BY <1>4, <2>1, <1>0, Sets DEF ProcessLog
  <2>5. pickup' \in {"reading", "quitting", "waiting", "over"}
    BY <1>4 DEF ProcessLog, AfterBatch
  <2>6. session
    BY <1>4 DEF ProcessLog, TypeOK
  <2> QED BY <1>0, <1>4, <2>1, <2>3, <2>4, <2>5, <2>6 DEF ProcessLog, TypeOK
<1>5. CASE PickupTimesOut
  BY <1>5 DEF PickupTimesOut, TypeOK
<1>6. ASSUME NEW d \in Dumps, Crash(d) PROVE TypeOK'
  <2>1. journal \in Seq(crashed \union {d})
    BY DEF TypeOK
  <2> QED BY <1>0, <1>6, <2>1 DEF Crash, TypeOK
<1>7. ASSUME NEW d \in Dumps, Dumped(d) PROVE TypeOK'
  <2>1. journal' \in Seq(crashed) /\ Len(journal') = Len(journal) + 1
    BY <1>7 DEF Dumped, TypeOK
  <2>2. cores' \subseteq Dumps
    BY <1>0, <1>7 DEF Dumped
  <2> QED BY <1>0, <1>7, <2>1, <2>2 DEF Dumped, TypeOK
<1>8. ASSUME NEW d \in Dumps, CoreVacuumed(d) PROVE TypeOK'
  BY <1>0, <1>8 DEF CoreVacuumed, TypeOK
<1>9. ASSUME NEW d \in Dumps, Cleanup(d) PROVE TypeOK'
  BY <1>0, <1>9 DEF Cleanup, TypeOK
<1>10. ASSUME NEW d \in Dumps, ProcessorFinds(d) PROVE TypeOK'
  <2>1. "processor" \in Senders
    BY DEF Senders
  <2>2. /\ launcher' \in [Dumps -> [Senders -> Places]]
        /\ ~session => launcher' = [x \in Dumps |-> Idle]
        /\ raced' \subseteq Dumps /\ turnedAway' \subseteq Dumps
    BY <1>10, <2>1, EntriesType, HandOverTypes DEF ProcessorFinds
  <2> QED BY <1>0, <1>10, <2>2 DEF ProcessorFinds, TypeOK
<1>11. ASSUME NEW d \in Dumps, ProcessorTimesOut(d) PROVE TypeOK'
  BY <1>0, <1>11 DEF ProcessorTimesOut, TypeOK
<1>12. ASSUME NEW d \in Dumps, NEW s \in Senders, Read(d, s) PROVE TypeOK'
  <2>1. launcher' \in [Dumps -> [Senders -> Places]] /\ session
    BY <1>12, GoesType DEF Read, At
  <2> QED BY <1>0, <1>12, <2>1 DEF Read, TypeOK
<1>13. ASSUME NEW d \in Dumps, NEW s \in Senders, Write(d, s) PROVE TypeOK'
  <2>1. launcher' \in [Dumps -> [Senders -> Places]] /\ session
    BY <1>13, GoesType DEF Write, At
  <2>2. meta' \in [Dumps -> {"none", "kcrash", "synthesized", "bare"}]
    BY <1>13 DEF Write, WriteToDisk, MetadataOf, TypeOK
  <2>3. started' \in [Dumps -> Nat]
    <3>1. started' = started \/ started' = [started EXCEPT ![d] = @ + 1]
      BY <1>13 DEF Write
    <3>2. started \in [Dumps -> Nat]
      BY DEF TypeOK
    <3> QED BY <3>1, <3>2
  <2>4. kcrash' \subseteq kcrash /\ unwritten' \subseteq Dumps
    BY <1>0, <1>13 DEF Write, WriteToDisk
  <2> QED BY <1>0, <1>13, <2>1, <2>2, <2>3, <2>4 DEF Write, TypeOK
<1>14. ASSUME NEW d \in Dumps, NEW s \in Senders, Notify(d, s) PROVE TypeOK'
  <2>1. launcher' \in [Dumps -> [Senders -> Places]] /\ session
    BY <1>14, GoesType DEF Notify, At
  <2>2. notified \in [Dumps -> Nat]
    BY DEF TypeOK
  <2>3. notified' \in [Dumps -> Nat]
    <3>1. CASE s = "pickup"
      BY <1>14, <2>2, <3>1 DEF Notify
    <3>2. CASE s # "pickup"
      BY <1>14, <2>2, <3>2 DEF Notify
    <3> QED BY <3>1, <3>2
  <2> QED BY <1>0, <1>14, <2>1, <2>3 DEF Notify, TypeOK
<1>15. ASSUME NEW d \in Dumps, NEW s \in Senders, DrKonqiEnds(d, s) PROVE TypeOK'
  <2>1. launcher' \in [Dumps -> [Senders -> Places]] /\ session
    BY <1>15, GoesType DEF DrKonqiEnds, At
  <2> QED BY <1>0, <1>15, <2>1 DEF DrKonqiEnds, TypeOK
<1>16. ASSUME NEW d \in Dumps, NEW s \in Senders, NotificationCloses(d, s) PROVE TypeOK'
  <2>1. launcher' \in [Dumps -> [Senders -> Places]] /\ session
    BY <1>16, GoesType DEF NotificationCloses, At
  <2> QED BY <1>0, <1>16, <2>1 DEF NotificationCloses, TypeOK
<1>17. CASE UNCHANGED vars
  BY <1>17 DEF vars, TypeOK
<1> QED
  BY <1>1, <1>2, <1>3, <1>4, <1>5, <1>6, <1>7, <1>8, <1>9, <1>10, <1>11, <1>12, <1>13, <1>14,
     <1>15, <1>16, <1>17 DEF Next, Launcher

\* Journal, files, launchers and the rest of the pipeline have their types in every
\* behaviour, however many dumps, sessions and connections there are.
THEOREM TypeCorrect == Spec => []TypeOK
<1>1. Init => TypeOK
  BY TypeInit
<1>2. TypeOK /\ [Next]_vars => TypeOK'
  BY TypeStep
<1> QED BY <1>1, <1>2, PTL DEF Spec

-----------------------------------------------------------------------------
(* Safety. *)

\* A step that only launches, or does not concern this dump, leaves it as it should be.
LEMMA Untouched ==
  ASSUME NEW d \in Dumps, Alone(d),
         meta'[d] = meta[d], started'[d] = started[d], notified'[d] = notified[d],
         d \in raced => d \in raced', d \in cleaned => d \in cleaned',
         d \in unwritten' <=> d \in unwritten,
         d \in crashed' <=> d \in crashed,
         launcher'[d] = launcher[d],
         d \in kcrash => d \in kcrash' \/ d \in cleaned'
  PROVE  Alone(d)'
BY DEF Alone, Written, NothingYet, OneLauncher, InStep, Kept, Excused

LEMMA Launched ==
  ASSUME TypeOK, NEW d \in Dumps, Alone(d), NEW s \in Senders,
         meta' = meta, started' = started, notified' = notified, kcrash' = kcrash,
         d \in raced => d \in raced', unwritten' = unwritten, cleaned' = cleaned, crashed' = crashed,
         \/ launcher'[d] = launcher[d]
         \/ /\ d \in crashed
            /\ launcher'[d] = [launcher[d] EXCEPT ![s] = "read"]
            /\ d \in raced' \/ launcher[d] = Idle
  PROVE  Alone(d)'
<1>1. CASE launcher'[d] = launcher[d]
  BY <1>1, Untouched
<1>2. CASE /\ d \in crashed
           /\ launcher'[d] = [launcher[d] EXCEPT ![s] = "read"]
           /\ d \in raced' \/ launcher[d] = Idle
  <2>1. launcher[d] \in [Senders -> Places]
    BY DEF TypeOK, Places
  <2>2. \A x \in Senders : launcher'[d][x] = IF x = s THEN "read" ELSE launcher[d][x]
    BY <1>2, <2>1
  <2>3. Written(d)'
    BY <2>2 DEF Alone, Written
  <2>4. ASSUME d \notin Excused' PROVE OneLauncher(d)' /\ InStep(d)'
    <3>1. launcher[d] = Idle /\ d \notin Excused
      BY <1>2, <2>4 DEF Excused
    <3>2. \E x \in Senders : x # s
      BY DEF Senders
    <3>3. OneLauncher(d)'
      BY <2>2, <3>1, <3>2 DEF OneLauncher, Idle
    <3>4. InStep(d)'
      BY <2>2, <3>1 DEF Alone, InStep, Idle
    <3> QED BY <3>3, <3>4
  <2>5. d \in KCrashDumps /\ d \notin (Excused \union cleaned)' => Kept(d)'
    BY DEF Alone, Kept, Excused
  <2> QED BY <1>2, <2>3, <2>4, <2>5 DEF Alone
<1> QED BY <1>1, <1>2

\* A launcher that moves on alone is the only one, and what it does to the dump is right
\* where it is.
LEMMA Moved ==
  ASSUME TypeOK, NEW d \in Dumps, Alone(d), NEW s \in Senders, NEW pc \in Places,
         Goes(d, s, pc), launcher[d][s] # "none",
         raced' = raced, cleaned' = cleaned, crashed' = crashed,
         d \in unwritten => d \in unwritten',
         meta[d] # "none" => meta'[d] # "none" \/ d \in unwritten',
         pc \in {"drkonqi", "notify", "notified"} => meta'[d] # "none" \/ d \in unwritten',
         d \notin Excused' /\ OneLauncher(d)' => InStep(d)',
         d \in KCrashDumps /\ d \notin (Excused \union cleaned)' => Kept(d)'
  PROVE  Alone(d)'
<1>1. launcher[d] \in [Senders -> Places]
  BY DEF TypeOK, Places
<1>2. launcher'[d] = [launcher[d] EXCEPT ![s] = pc]
  BY DEF Goes, TypeOK
<1>3. \A x \in Senders : launcher'[d][x] = IF x = s THEN pc ELSE launcher[d][x]
  BY <1>1, <1>2
<1>4. Written(d)'
  BY <1>3 DEF Alone, Written
<1>5. d \in crashed
  BY DEF Alone, NothingYet, Idle
<1>6. d \notin Excused' => OneLauncher(d)'
  BY <1>3 DEF Alone, OneLauncher, Excused
<1> QED BY <1>4, <1>5, <1>6 DEF Alone

\* The rest of a launcher's step: other dumps are left alone.
LEMMA Others ==
  ASSUME TypeOK, NEW d \in Dumps, NEW x \in Dumps, x # d, Alone(x), NEW s, NEW pc, Goes(d, s, pc),
         meta'[x] = meta[x], started'[x] = started[x], notified'[x] = notified[x],
         raced' = raced, cleaned' = cleaned, crashed' = crashed,
         x \in unwritten' <=> x \in unwritten,
         x \in kcrash => x \in kcrash'
  PROVE  Alone(x)'
<1>1. launcher'[x] = launcher[x]
  BY DEF Goes, TypeOK
<1> QED BY <1>1, Untouched

LEMMA SafeInit == Init => IInv
BY DEF Init, IInv, Alone, Written, NothingYet, OneLauncher, InStep, Kept, Idle, Senders, Excused

\* Every step keeps the invariant.
LEMMA SafeStep == TypeOK /\ IInv /\ [Next]_vars => IInv'
<1> SUFFICES ASSUME TypeOK, IInv, [Next]_vars, NEW x \in Dumps PROVE Alone(x)'
  BY DEF IInv
<1> USE DEF history, files, Excused
<1>0. Alone(x) /\ kcrash \subseteq crashed
  BY DEF IInv, TypeOK
<1>1. CASE Login
  BY <1>0, <1>1, Untouched DEF Login
<1>2. CASE Logout
  <2>1. launcher'[x] = Idle /\ Senders # {}
    BY <1>2 DEF Logout, Senders
  <2>2. \A s \in Senders : launcher'[x][s] = "none"
    BY <2>1 DEF Idle
  <2> QED BY <1>0, <1>2, <2>1, <2>2
          DEF Logout, Alone, Written, NothingYet, OneLauncher, InStep, Kept
<1>3. CASE PickupSettles
  BY <1>0, <1>3, Untouched DEF PickupSettles
<1>4. CASE ProcessLog
  <2>1. Found \subseteq 1 .. Len(journal) /\ "pickup" \in Senders
    BY BatchEndType DEF Senders
  <2>2. HandOver(Found, "pickup")
    BY <1>4 DEF ProcessLog
  <2>3. /\ x \in raced => x \in raced'
        /\ \/ launcher'[x] = launcher[x]
           \/ /\ x \in crashed
              /\ launcher'[x] = [launcher[x] EXCEPT !["pickup"] = "read"]
              /\ x \in raced' \/ launcher[x] = Idle
    BY <2>1, <2>2, HandOverLaunches
  <2> QED BY <1>0, <1>4, <2>1, <2>3, Launched DEF ProcessLog
<1>5. CASE PickupTimesOut
  BY <1>0, <1>5, Untouched DEF PickupTimesOut
<1>6. ASSUME NEW d \in Dumps, Crash(d) PROVE Alone(x)'
  <2>1. CASE x # d
    BY <1>0, <1>6, <2>1, Untouched DEF Crash
  <2>2. CASE x = d
    <3>1. NothingYet(x) /\ x \in crashed' /\ (x \in KCrashDumps => x \in kcrash')
      BY <1>0, <1>6, <2>2 DEF Crash, Alone
    <3> QED BY <1>0, <1>6, <3>1
            DEF Crash, Alone, Written, NothingYet, OneLauncher, InStep, Kept, Idle
  <2> QED BY <2>1, <2>2
<1>7. ASSUME NEW d \in Dumps, Dumped(d) PROVE Alone(x)'
  BY <1>0, <1>7, Untouched DEF Dumped
<1>8. ASSUME NEW d \in Dumps, CoreVacuumed(d) PROVE Alone(x)'
  BY <1>0, <1>8, Untouched DEF CoreVacuumed
<1>9. ASSUME NEW d \in Dumps, Cleanup(d) PROVE Alone(x)'
  BY <1>0, <1>9, Untouched DEF Cleanup
<1>10. ASSUME NEW d \in Dumps, ProcessorFinds(d) PROVE Alone(x)'
  <2>1. EntriesOf(d) \subseteq 1 .. Len(journal) /\ "processor" \in Senders
    BY EntriesType DEF Senders
  <2>2. HandOver(EntriesOf(d), "processor")
    BY <1>10 DEF ProcessorFinds
  <2>3. /\ x \in raced => x \in raced'
        /\ \/ launcher'[x] = launcher[x]
           \/ /\ x \in crashed
              /\ launcher'[x] = [launcher[x] EXCEPT !["processor"] = "read"]
              /\ x \in raced' \/ launcher[x] = Idle
    BY <2>1, <2>2, HandOverLaunches
  <2> QED BY <1>0, <1>10, <2>1, <2>3, Launched DEF ProcessorFinds
<1>11. ASSUME NEW d \in Dumps, ProcessorTimesOut(d) PROVE Alone(x)'
  BY <1>0, <1>11, Untouched DEF ProcessorTimesOut
<1>12. ASSUME NEW d \in Dumps, NEW s \in Senders, Read(d, s) PROVE Alone(x)'
  <2>1. PICK pc \in {"none", "write"} : Goes(d, s, pc) /\ (pc = "write" => meta[d] = "none")
    BY <1>12 DEF Read, IsPickedUp
  <2>2. CASE x # d
    BY <1>0, <1>12, <2>1, <2>2, Others DEF Read
  <2>3. CASE x = d
    <3>1. kcrash' = kcrash \/ (kcrash' = kcrash \ {d} /\ meta[d] # "none")
      BY <1>12 DEF Read, IsPickedUp
    <3>2. x \in KCrashDumps /\ x \notin (Excused \union cleaned)' => Kept(x)'
      BY <1>0, <1>12, <2>3, <3>1 DEF Read, Alone, Kept
    <3>3. launcher[d][s] = "read" /\ pc \in Places
      BY <1>12, <2>1 DEF Read, At, Places
    <3>4. \A y \in Senders : launcher'[d][y] = IF y = s THEN pc ELSE launcher[d][y]
      BY <2>1 DEF Goes, TypeOK
    <3>5. x \notin Excused' => InStep(x)'
      BY <1>0, <1>12, <2>1, <2>3, <3>4 DEF Read, Alone, InStep
    <3> QED BY <1>0, <1>12, <2>1, <2>3, <3>2, <3>3, <3>5, Moved DEF Read
  <2> QED BY <2>2, <2>3
<1>13. ASSUME NEW d \in Dumps, NEW s \in Senders, Write(d, s) PROVE Alone(x)'
  <2>1. PICK pc \in {"drkonqi", "notify"} : Goes(d, s, pc)
    BY <1>13 DEF Write, WriteToDisk
  <2>2. /\ \A y \in Dumps : y # d => meta'[y] = meta[y]
        /\ \A y \in Dumps : y # d => (y \in unwritten' <=> y \in unwritten)
        /\ meta'[d] = MetadataOf(d) \/ d \in unwritten'
        /\ \A y \in Dumps : y \in unwritten => y \in unwritten'
        /\ x \notin Excused' => x \notin Excused
    BY <1>13 DEF Write, WriteToDisk, TypeOK
  <2>3. \A y \in Dumps : y # d => started'[y] = started[y]
    BY <1>13 DEF Write, TypeOK
  <2>4. kcrash' = kcrash \/ kcrash' = kcrash \ {d}
    BY <1>13 DEF Write
  <2>5. CASE x # d
    BY <1>0, <1>13, <2>1, <2>2, <2>3, <2>4, <2>5, Others DEF Write
  <2>6. CASE x = d
    <3>1. launcher[d][s] = "write" /\ pc \in Places /\ MetadataOf(d) # "none"
      BY <1>13, <2>1 DEF Write, At, Places, MetadataOf
    <3>2. x \in crashed
      BY <1>0, <2>6, <3>1 DEF Alone, NothingYet, Idle
    <3>3. x \in KCrashDumps /\ x \notin (Excused \union cleaned)' => Kept(x)'
      <4> SUFFICES ASSUME x \in KCrashDumps, x \notin (Excused \union cleaned)'
                   PROVE  meta'[x] = "kcrash"
        BY DEF Kept
      <4>1. x \notin Excused \union cleaned /\ x \notin unwritten'
        BY <1>13, <2>2 DEF Write
      <4>2. meta[x] = "none"
        BY <1>0, <2>6, <3>1, <4>1 DEF Alone, InStep
      <4>3. x \in kcrash
        BY <1>0, <3>2, <4>1, <4>2 DEF Alone, Kept
      <4> QED BY <2>2, <2>6, <4>1, <4>3 DEF MetadataOf
    <3>4. \A y \in Senders : launcher'[d][y] = IF y = s THEN pc ELSE launcher[d][y]
      BY <2>1 DEF Goes, TypeOK
    <3>5. x \notin Excused' /\ OneLauncher(x)' => InStep(x)'
      <4> SUFFICES ASSUME x \notin Excused', OneLauncher(x)' PROVE InStep(x)'
        OBVIOUS
      <4>1. started[x] + notified[x] = 0
        BY <1>0, <2>2, <2>6, <3>1 DEF Alone, InStep
      <4>2. /\ notified' = notified
            /\ started'[x] = IF pc = "drkonqi" THEN started[x] + 1 ELSE started[x]
        BY <1>13, <2>1, <2>6, <3>4 DEF Write, Goes, TypeOK
      <4>3. started[x] \in Nat /\ notified[x] \in Nat
        BY DEF TypeOK
      <4>4. \A y \in Senders : y # s => launcher'[d][y] = "none"
        BY <2>6, <3>4, <2>1 DEF OneLauncher, Senders
      <4> QED BY <2>1, <2>2, <2>6, <3>1, <3>4, <4>1, <4>2, <4>3, <4>4 DEF InStep
    <3> QED BY <1>0, <1>13, <2>1, <2>2, <2>6, <3>1, <3>3, <3>5, Moved DEF Write
  <2> QED BY <2>5, <2>6
<1>14. ASSUME NEW d \in Dumps, NEW s \in Senders, Notify(d, s) PROVE Alone(x)'
  <2>1. PICK pc \in {"none", "notified"} : Goes(d, s, pc)
    BY <1>14 DEF Notify
  <2>2. \A y \in Dumps : y # d => notified'[y] = notified[y]
    BY <1>14 DEF Notify, TypeOK
  <2>3. CASE x # d
    BY <1>0, <1>14, <2>1, <2>2, <2>3, Others DEF Notify
  <2>4. CASE x = d
    <3>1. /\ launcher[d][s] = "notify" /\ pc \in Places
          /\ meta[d] # "none" \/ d \in unwritten
      BY <1>0, <1>14, <2>1, <2>4 DEF Notify, At, Places, Alone, Written
    <3>2. x \in KCrashDumps /\ x \notin (Excused \union cleaned)' => Kept(x)'
      BY <1>0, <1>14 DEF Notify, Alone, Kept
    <3>3. \A y \in Senders : launcher'[d][y] = IF y = s THEN pc ELSE launcher[d][y]
      BY <2>1 DEF Goes, TypeOK
    <3>4. x \notin Excused' /\ OneLauncher(x)' => InStep(x)'
      <4> SUFFICES ASSUME x \notin Excused', OneLauncher(x)' PROVE InStep(x)'
        OBVIOUS
      <4>1. started[x] + notified[x] = 0
        BY <1>0, <1>14, <2>4, <3>1 DEF Notify, Alone, InStep
      <4>2. notified'[x] = notified[x] \/ notified'[x] = notified[x] + 1
        BY <1>14, <2>4 DEF Notify, TypeOK
      <4>3. started[x] \in Nat /\ notified[x] \in Nat
        BY DEF TypeOK
      <4>4. \A y \in Senders : y # s => launcher[d][y] = "none"
        BY <1>0, <1>14, <2>4, <3>1 DEF Notify, Alone, OneLauncher, Senders
      <4> QED BY <1>14, <2>1, <2>4, <3>1, <3>3, <4>1, <4>2, <4>3, <4>4 DEF Notify, InStep
    <3> QED BY <1>0, <1>14, <2>1, <2>4, <3>1, <3>2, <3>4, Moved DEF Notify
  <2> QED BY <2>3, <2>4
<1>15. ASSUME NEW d \in Dumps, NEW s \in Senders, DrKonqiEnds(d, s) PROVE Alone(x)'
  <2>1. Goes(d, s, "none")
    BY <1>15 DEF DrKonqiEnds
  <2>2. CASE x # d
    BY <1>0, <1>15, <2>1, <2>2, Others DEF DrKonqiEnds
  <2>3. CASE x = d
    <3>1. /\ launcher[d][s] = "drkonqi" /\ "none" \in Places
          /\ meta[d] # "none" \/ d \in unwritten
      BY <1>0, <1>15, <2>3 DEF DrKonqiEnds, At, Places, Alone, Written
    <3>2. x \in KCrashDumps /\ x \notin (Excused \union cleaned)' => Kept(x)'
      BY <1>0, <1>15, <2>3, <3>1 DEF DrKonqiEnds, Alone, Kept
    <3>3. \A y \in Senders : launcher'[d][y] = IF y = s THEN "none" ELSE launcher[d][y]
      BY <2>1 DEF Goes, TypeOK
    <3>4. x \notin Excused' => InStep(x)'
      BY <1>0, <1>15, <2>3, <3>3 DEF DrKonqiEnds, Alone, InStep
    <3> QED BY <1>0, <1>15, <2>1, <2>3, <3>1, <3>2, <3>4, Moved DEF DrKonqiEnds
  <2> QED BY <2>2, <2>3
<1>16. ASSUME NEW d \in Dumps, NEW s \in Senders, NotificationCloses(d, s) PROVE Alone(x)'
  <2>1. Goes(d, s, "none")
    BY <1>16 DEF NotificationCloses
  <2>2. CASE x # d
    BY <1>0, <1>16, <2>1, <2>2, Others DEF NotificationCloses
  <2>3. CASE x = d
    <3>1. launcher[d][s] = "notified" /\ "none" \in Places
      BY <1>16 DEF NotificationCloses, At, Places
    <3>2. x \in KCrashDumps /\ x \notin (Excused \union cleaned)' => Kept(x)'
      BY <1>0, <1>16 DEF NotificationCloses, Alone, Kept
    <3>3. \A y \in Senders : launcher'[d][y] = IF y = s THEN "none" ELSE launcher[d][y]
      BY <2>1 DEF Goes, TypeOK
    <3>4. x \notin Excused' => InStep(x)'
      BY <1>0, <1>16, <2>3, <3>3 DEF NotificationCloses, Alone, InStep
    <3> QED BY <1>0, <1>16, <2>1, <2>3, <3>1, <3>2, <3>4, Moved DEF NotificationCloses
  <2> QED BY <2>2, <2>3
<1>17. CASE UNCHANGED vars
  BY <1>0, <1>17, Untouched DEF vars
<1> QED
  BY <1>1, <1>2, <1>3, <1>4, <1>5, <1>6, <1>7, <1>8, <1>9, <1>10, <1>11, <1>12, <1>13, <1>14,
     <1>15, <1>16, <1>17 DEF Next, Launcher

\* Types and the invariant in every behaviour.
LEMMA SafetyCorrect == Spec => [](TypeOK /\ IInv)
<1>1. Init => TypeOK /\ IInv
  BY TypeInit, SafeInit
<1>2. TypeOK /\ IInv /\ [Next]_vars => TypeOK' /\ IInv'
  BY TypeStep, SafeStep
<1> QED BY <1>1, <1>2, PTL DEF Spec

\* A dump gets at most one drkonqi or one notification, however many processors, pickups and
\* sessions there are, unless two launchers had it at the same time or its metadata could not
\* be written.
THEOREM OneUserInterface == Spec => []HandledOnce
<1>1. TypeOK /\ IInv => HandledOnce
  BY DEF IInv, Alone, InStep, HandledOnce, Excused
<1> QED BY <1>1, SafetyCorrect, PTL

\* KCrash's account of a crash is in its own file or in drkonqi's, whenever launchers are
\* killed, unless two launchers had the dump at the same time, drkonqi's file could not be
\* written or KCrash's grew too old.
THEOREM NothingForgotten == Spec => []InfoIsKept
<1>1. TypeOK /\ IInv => InfoIsKept
  BY DEF TypeOK, IInv, Alone, Kept, InfoIsKept, Excused
<1> QED BY <1>1, SafetyCorrect, PTL

\* The pickup starts no drkonqi without a core and never shows a notification.
THEOREM DiscreetPickup == Spec => PickupIsDiscreet
<1> DEFINE Discreet ==
      \A d \in Dumps :
        /\ started'[d] > started[d] => d \in cores
        /\ notified'[d] > notified[d] => At(d, "processor", "notify")
<1>1. TypeOK /\ [Next]_vars => [Discreet]_vars
  <2> SUFFICES ASSUME TypeOK, Next, NEW x \in Dumps
               PROVE  /\ started'[x] > started[x] => x \in cores
                      /\ notified'[x] > notified[x] => At(x, "processor", "notify")
    OBVIOUS
  <2> USE DEF history, files
  <2>1. started[x] \in Nat /\ notified[x] \in Nat
    BY DEF TypeOK
  <2>2. ASSUME NEW d \in Dumps, NEW s \in Senders, Write(d, s)
        PROVE  notified' = notified /\ (started'[x] = started[x] \/ x \in cores)
    BY <2>2 DEF Write, TypeOK
  <2>3. ASSUME NEW d \in Dumps, NEW s \in Senders, Notify(d, s)
        PROVE  started' = started /\ (notified'[x] = notified[x] \/ At(x, "processor", "notify"))
    BY <2>3 DEF Notify, Senders, At, TypeOK
  <2>4. CASE started' = started /\ notified' = notified
    BY <2>1, <2>4
  <2>5. \/ started' = started /\ notified' = notified
        \/ \E d \in Dumps, s \in Senders : Write(d, s) \/ Notify(d, s)
    BY DEF Next, Login, Logout, PickupSettles, ProcessLog, PickupTimesOut, Crash, Dumped,
           CoreVacuumed, Cleanup, ProcessorFinds, ProcessorTimesOut, Launcher, Read,
           DrKonqiEnds, NotificationCloses
  <2> QED BY <2>1, <2>2, <2>3, <2>4, <2>5
<1>2. Spec => [][Discreet]_vars
  BY <1>1, TypeCorrect, PTL DEF Spec
<1> QED BY <1>2 DEF PickupIsDiscreet
=============================================================================
