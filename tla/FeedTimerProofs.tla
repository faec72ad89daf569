--------------------------- MODULE FeedTimerProofs ---------------------------
(***************************************************************************)
(* Proofs about FeedTimer, for every instance: its types, and what is left *)
(* of the schedule when feeds overrun their minute; then, about            *)
(* SteadyFeedTimer, the schedulability results: they hold for every        *)
(* instance that meets SteadyAssumption, whatever the length of the        *)
(* minute, the number of slots, the quantities and the interleaving with   *)
(* the MQTT task.                                                          *)
(***************************************************************************)
EXTENDS SteadyFeedTimer, TLAPS

-----------------------------------------------------------------------------
\* A quantity, negative or not, gives a natural number of rotations.
LEMMA RotationsNat == ASSUME NEW q \in Int PROVE Rotations(q) \in Nat
  BY DEF Rotations

\* The portions a check works with are integers, stored or not.
LEMMA DistribQuantityInt ==
  ASSUME TypeOK, NEW q \in get_distrib_quantity, NEW s \in Slots
  PROVE  q[s] \in Quantities \cup Garbage /\ q[s] \in Int
  <1>1. CASE portions = NotFound
    BY <1>1, ConstantsAssumption DEF get_distrib_quantity, ConstantsAssumption
  <1>2. CASE portions # NotFound
    BY <1>2, ConstantsAssumption
    DEF get_distrib_quantity, TypeOK, TimerPortions, ConstantsAssumption
  <1> QED BY <1>1, <1>2

\* The clock stays an instant when it advances by a tick.
LEMMA ClockType ==
  ASSUME TypeOK, AdvanceClock
  PROVE  minute' \in Int /\ sec' \in 0..(MinuteTicks - 1)
  BY ConstantsAssumption DEF TypeOK, AdvanceClock, ConstantsAssumption

\* Every step of the feeder, clock steps and restarts included, keeps the
\* types.
LEMMA TypeStep == TypeOK /\ [Next]_vars => TypeOK'
  <1> SUFFICES ASSUME TypeOK, [Next]_vars PROVE TypeOK'
    OBVIOUS
  <1> USE ConstantsAssumption DEF ConstantsAssumption
  <1>1. CASE Tick
    BY <1>1, ClockType DEF Tick, TypeOK, alarm, flash, history
  <1>2. CASE distrib_time_check_callback
    <2>1. checked' \subseteq Int
      BY <1>2 DEF distrib_time_check_callback, TypeOK
    <2>2. pc' = "matching" <=> sched' # NotFound
      BY <1>2 DEF distrib_time_check_callback, TypeOK
    <2> QED
      BY <1>2, <2>1, <2>2 DEF distrib_time_check_callback, NextAlarm, TypeOK, clock, flash
  <1>3. CASE check_and_distribute_croquettes
    <2>1. left' \in Nat
      BY <1>3, DistribQuantityInt, RotationsNat
      DEF check_and_distribute_croquettes, TypeOK
    <2>2. checked' \subseteq Int /\ fed' \subseteq Int
      BY <1>3 DEF check_and_distribute_croquettes, TypeOK
    <2>3. pc' \in {"idle", "turning"} /\ sched' = NotFound
      BY <1>3 DEF check_and_distribute_croquettes
    <2> QED
      BY <1>3, <2>1, <2>2, <2>3
      DEF check_and_distribute_croquettes, TypeOK, clock, alarm, flash
  <1>4. CASE Rotate
    BY <1>4, ClockType DEF Rotate, TypeOK, alarm, flash
  <1>5. CASE Finish
    BY <1>5 DEF Finish, TypeOK, clock, alarm, flash, history
  <1>6. CASE update_schedule_from_json
    BY <1>6 DEF update_schedule_from_json, TypeOK, clock, alarm, task, history
  <1>7. CASE update_portions_from_json
    BY <1>7 DEF update_portions_from_json, TypeOK, clock, alarm, task, history
  <1>8. CASE Adjust
    <2>1. PICK d \in Int \X (0..(MinuteTicks - 1)) :
            LET Carry(s) == IF s + d[2] >= MinuteTicks THEN 1 ELSE 0
            IN  /\ minute' = minute + d[1] + Carry(sec)
                /\ sec' = sec + d[2] - MinuteTicks * Carry(sec)
                /\ aMin' = aMin + d[1] + Carry(aSec)
                /\ aSec' = aSec + d[2] - MinuteTicks * Carry(aSec)
      BY <1>8 DEF Adjust
    <2>2. d[1] \in Int /\ d[2] \in 0..(MinuteTicks - 1)
      OBVIOUS
    <2>3. minute' \in Int /\ sec' \in 0..(MinuteTicks - 1)
      BY <2>1, <2>2 DEF TypeOK
    <2>4. aMin' \in Int /\ aSec' \in 0..(MinuteTicks - 1)
      BY <2>1, <2>2 DEF TypeOK
    <2> QED BY <1>8, <2>3, <2>4 DEF Adjust, TypeOK, task, flash
  <1>9. CASE Restart
    BY <1>9 DEF Restart, TypeOK, flash
  <1>10. CASE UNCHANGED vars
    BY <1>10 DEF TypeOK, vars, clock, alarm, task, flash, history
  <1> QED
    BY <1>1, <1>2, <1>3, <1>4, <1>5, <1>6, <1>7, <1>8, <1>9, <1>10 DEF Next

LEMMA InitType == Init => TypeOK
  <1> SUFFICES ASSUME Init PROVE TypeOK
    OBVIOUS
  <1>1. sec \in 0..(MinuteTicks - 1) /\ 0 \in 0..MaxLate
    BY ConstantsAssumption DEF Init, ConstantsAssumption
  <1>2. stepped \in BOOLEAN
    BY Zenon DEF Init
  <1> QED
    BY <1>1, <1>2 DEF Init, TypeOK

\* The type invariant holds of every instance of FeedTimer: no boot, clock
\* step, refused quantity or uninitialised portion leaves the state space
\* of time.c and croquettes.c.
THEOREM TypeCorrect == Spec => []TypeOK
  BY InitType, TypeStep, PTL DEF Spec

-----------------------------------------------------------------------------
(* Overrunning feeds                                                       *)

\* A boot does not arm the timer so close to the end of a minute that a late
\* check falls into the next one.
Punctual == \A phase \in BootPhases : phase + MaxLate < MinuteTicks

\* Minute m needs no check any more.
Covered(m) == m < since \/ m \in checked \/ m \in turned

\* A check that is under way, or due, will come before the end of the minute.
InTime == sec + MaxLate - waited < MinuteTicks

\* However late, the timer leaves no minute uncovered: one that is not covered
\* yet has its alarm to come, or its check due in time, or has just begun when
\* a feed ends.
CaughtUp ==
  /\ aSec + MaxLate < MinuteTicks
  /\ \A m \in Elapsed : m \in checked \/ m \in turned
  /\ aMin <= minute + 1
  /\ pc = "idle" /\ ~Due => waited = 0 /\ (Covered(minute) \/ aMin = minute)
  /\ pc = "matching" \/ (pc = "idle" /\ Due) => Covered(minute) \/ InTime
  /\ pc = "turning" => waited = 0 /\ (Covered(minute) \/ (sec = 0 /\ aMin <= minute))

OverrunInv == TypeOK /\ (~stepped => CaughtUp)

\* The minute that ends is covered, and joins the ones that have elapsed.
LEMMA ElapsedGrows ==
  ASSUME TypeOK, CaughtUp, Covered(minute), minute' = minute + 1,
         UNCHANGED since, checked \subseteq checked', turned \subseteq turned'
  PROVE  \A m \in Elapsed' : m \in checked' \/ m \in turned'
  <1> SUFFICES ASSUME NEW m \in Elapsed' PROVE m \in checked' \/ m \in turned'
    OBVIOUS
  <1>1. minute \in Int /\ since \in Int
    BY DEF TypeOK
  <1>2. m \in Int /\ since <= m /\ m <= minute
    BY <1>1 DEF Elapsed
  <1>3. CASE m = minute
    BY <1>1, <1>2, <1>3 DEF Covered
  <1>4. CASE m < minute
    <2>1. m \in Elapsed
      BY <1>1, <1>2, <1>4 DEF Elapsed
    <2> QED BY <2>1 DEF CaughtUp
  <1> QED BY <1>1, <1>2, <1>3, <1>4

\* A step that leaves the minute alone leaves the elapsed ones covered.
LEMMA ElapsedKept ==
  ASSUME CaughtUp, UNCHANGED <<minute, since>>,
         checked \subseteq checked', turned \subseteq turned'
  PROVE  /\ \A m \in Elapsed' : m \in checked' \/ m \in turned'
         /\ Covered(minute) => Covered(minute)'
  BY DEF CaughtUp, Elapsed, Covered

LEMMA TickKept ==
  ASSUME TypeOK, CaughtUp, Tick PROVE CaughtUp'
  <1>a. /\ minute \in Int /\ sec \in 0..(MinuteTicks - 1) /\ waited \in 0..MaxLate
        /\ aMin \in Int /\ aSec \in 0..(MinuteTicks - 1) /\ since \in Int
        /\ MinuteTicks \in Nat \ {0} /\ MaxLate \in Nat
    BY ConstantsAssumption DEF TypeOK, ConstantsAssumption
  <1>b. /\ pc \in {"idle", "matching"}
        /\ UNCHANGED <<aMin, aSec, pc, since, checked, turned>>
    BY DEF Tick, alarm, history
  <1>c. aSec + MaxLate < MinuteTicks /\ aMin <= minute + 1
    BY DEF CaughtUp
  <1>1. CASE pc = "matching" \/ Due
    <2>1. waited < MaxLate /\ waited' = waited + 1
      BY <1>1 DEF Tick
    <2>2. Covered(minute) \/ InTime
      BY <1>1, <1>b DEF CaughtUp
    <2>3. pc' = "matching" \/ Due'
      <3> SUFFICES ASSUME Due PROVE Due'
        BY <1>1, <1>b
      <3> QED BY <1>a, <1>b DEF Tick, AdvanceClock, Due
    <2>4. CASE sec < MinuteTicks - 1
      <3>1. sec' = sec + 1 /\ minute' = minute
        BY <2>4, <1>a DEF Tick, AdvanceClock
      <3>2. InTime => InTime'
        BY <2>1, <3>1, <1>a DEF InTime
      <3>3. (\A m \in Elapsed' : m \in checked' \/ m \in turned')
              /\ (Covered(minute) => Covered(minute)')
        BY <1>b, <3>1, ElapsedKept
      <3> QED BY <1>b, <1>c, <2>2, <2>3, <3>1, <3>2, <3>3 DEF CaughtUp
    <2>5. CASE sec = MinuteTicks - 1
      <3>1. sec' = 0 /\ minute' = minute + 1
        BY <2>5, <1>a DEF Tick, AdvanceClock
      <3>2. Covered(minute)
        BY <2>1, <2>2, <2>5, <1>a DEF InTime
      <3>3. InTime'
        BY <2>1, <3>1, <1>a, <1>c DEF InTime
      <3>4. \A m \in Elapsed' : m \in checked' \/ m \in turned'
        BY <1>b, <3>1, <3>2, ElapsedGrows
      <3>5. aMin' <= minute' + 1
        BY <1>a, <1>b, <1>c, <3>1
      <3> QED BY <1>b, <1>c, <2>3, <3>3, <3>4, <3>5 DEF CaughtUp
    <2> QED BY <2>4, <2>5, <1>a
  <1>2. CASE pc = "idle" /\ ~Due
    <2>1. waited' = 0 /\ (Covered(minute) \/ aMin = minute) /\ pc' = "idle"
      BY <1>2, <1>b DEF Tick, CaughtUp
    <2>2. CASE sec < MinuteTicks - 1
      <3>1. sec' = sec + 1 /\ minute' = minute
        BY <2>2, <1>a DEF Tick, AdvanceClock
      <3>2. (\A m \in Elapsed' : m \in checked' \/ m \in turned')
              /\ (Covered(minute) => Covered(minute)')
        BY <1>b, <3>1, ElapsedKept
      <3>3. Due' => sec' = aSec
        BY <1>2, <1>a, <1>b, <3>1 DEF Due
      <3>4. Due' => InTime'
        BY <3>3, <2>1, <1>a, <1>c DEF InTime
      <3> QED BY <1>b, <1>c, <2>1, <3>1, <3>2, <3>4 DEF CaughtUp
    <2>3. CASE sec = MinuteTicks - 1
      <3>1. sec' = 0 /\ minute' = minute + 1
        BY <2>3, <1>a DEF Tick, AdvanceClock
      <3>2. aMin = minute + 1
        BY <1>2, <2>3, <1>a, <1>c DEF Due
      <3>3. Covered(minute)
        BY <2>1, <3>2, <1>a
      <3>4. \A m \in Elapsed' : m \in checked' \/ m \in turned'
        BY <1>b, <3>1, <3>3, ElapsedGrows
      <3>5. InTime'
        BY <2>1, <3>1, <1>a, <1>c DEF InTime
      <3>6. aMin' = minute' /\ aMin' <= minute' + 1
        BY <1>a, <1>b, <3>1, <3>2
      <3> QED BY <1>b, <1>c, <2>1, <3>4, <3>5, <3>6 DEF CaughtUp
    <2> QED BY <2>2, <2>3, <1>a
  <1> QED BY <1>1, <1>2, <1>b

LEMMA CallbackKept ==
  ASSUME TypeOK, CaughtUp, distrib_time_check_callback PROVE CaughtUp'
  <1>a. minute \in Int /\ aMin \in Int /\ sec \in Int /\ aSec \in Int
    BY DEF TypeOK
  <1>1. /\ pc = "idle" /\ Due /\ aMin' = aMin + 1 /\ checked \subseteq checked'
        /\ UNCHANGED <<minute, sec, aSec, since, turned>>
    BY DEF distrib_time_check_callback, NextAlarm, clock
  <1>2. aMin' <= minute' + 1
    BY <1>1, <1>a DEF Due
  <1>3. (\A m \in Elapsed' : m \in checked' \/ m \in turned')
          /\ (Covered(minute) => Covered(minute)')
    BY <1>1, ElapsedKept
  <1>4. aSec' + MaxLate < MinuteTicks
    BY <1>1 DEF CaughtUp
  <1>5. CASE schedule = NotFound
    <2>1. waited' = 0 /\ minute \in checked' /\ pc' = "idle"
      BY <1>1, <1>5 DEF distrib_time_check_callback
    <2>2. Covered(minute)'
      BY <1>1, <2>1 DEF Covered
    <2> QED BY <1>2, <1>3, <1>4, <2>1, <2>2 DEF CaughtUp
  <1>6. CASE schedule # NotFound
    <2>1. waited' = waited /\ pc' = "matching"
      BY <1>6 DEF distrib_time_check_callback
    <2>2. Covered(minute) \/ InTime
      BY <1>1 DEF CaughtUp
    <2>3. InTime => InTime'
      BY <1>1, <2>1 DEF InTime
    <2> QED BY <1>2, <1>3, <1>4, <2>1, <2>2, <2>3 DEF CaughtUp
  <1> QED BY <1>5, <1>6

LEMMA CheckKept ==
  ASSUME TypeOK, CaughtUp, check_and_distribute_croquettes PROVE CaughtUp'
  <1>1. /\ UNCHANGED <<minute, sec, aMin, aSec, since, turned>>
        /\ checked' = checked \cup {minute} /\ waited' = 0 /\ pc' \in {"idle", "turning"}
    BY DEF check_and_distribute_croquettes, clock, alarm
  <1>2. Covered(minute)'
    BY <1>1 DEF Covered
  <1>3. \A m \in Elapsed' : m \in checked' \/ m \in turned'
    BY <1>1, ElapsedKept
  <1> QED BY <1>1, <1>2, <1>3 DEF CaughtUp

LEMMA RotateKept ==
  ASSUME TypeOK, CaughtUp, Rotate PROVE CaughtUp'
  <1>a. minute \in Int /\ aMin \in Int /\ since \in Int
    BY DEF TypeOK
  <1>1. /\ pc = "turning" /\ turned' = turned \cup {minute}
        /\ UNCHANGED <<aMin, aSec, pc, waited, since, checked>>
    BY DEF Rotate, alarm
  <1>2. waited = 0 /\ aMin <= minute + 1 /\ aSec + MaxLate < MinuteTicks
    BY <1>1 DEF CaughtUp
  <1>3. CASE minute' = minute
    <2>1. Covered(minute)'
      BY <1>1, <1>3 DEF Covered
    <2>2. \A m \in Elapsed' : m \in checked' \/ m \in turned'
      BY <1>1, <1>3, ElapsedKept
    <2> QED BY <1>1, <1>2, <1>3, <2>1, <2>2 DEF CaughtUp
  <1>4. CASE minute' = minute + 1 /\ sec' = 0
    <2>1. \A m \in Elapsed' : m \in checked' \/ m \in turned'
      <3> SUFFICES ASSUME NEW m \in Elapsed' PROVE m \in checked' \/ m \in turned'
        OBVIOUS
      <3>1. m \in Int /\ since <= m /\ m <= minute
        BY <1>1, <1>4, <1>a DEF Elapsed
      <3>2. m = minute \/ m \in Elapsed
        BY <3>1, <1>a DEF Elapsed
      <3> QED BY <1>1, <3>2 DEF CaughtUp
    <2>2. aMin' <= minute' /\ aMin' <= minute' + 1
      BY <1>1, <1>2, <1>4, <1>a
    <2> QED BY <1>1, <1>2, <1>4, <2>1, <2>2 DEF CaughtUp
  <1> QED BY <1>3, <1>4 DEF Rotate, AdvanceClock

LEMMA FinishKept ==
  ASSUME TypeOK, CaughtUp, Finish PROVE CaughtUp'
  <1>a. /\ minute \in Int /\ aMin \in Int /\ aSec \in 0..(MinuteTicks - 1)
        /\ MinuteTicks \in Nat \ {0} /\ MaxLate \in Nat
    BY ConstantsAssumption DEF TypeOK, ConstantsAssumption
  <1>1. /\ pc = "turning" /\ pc' = "idle"
        /\ UNCHANGED <<minute, sec, aMin, aSec, waited, since, checked, turned>>
    BY DEF Finish, clock, alarm, history
  <1>2. /\ waited = 0 /\ aMin <= minute + 1 /\ aSec + MaxLate < MinuteTicks
        /\ Covered(minute) \/ (sec = 0 /\ aMin <= minute)
    BY <1>1 DEF CaughtUp
  <1>3. (\A m \in Elapsed' : m \in checked' \/ m \in turned')
          /\ (Covered(minute) => Covered(minute)')
    BY <1>1, ElapsedKept
  <1>4. CASE Covered(minute)
    BY <1>1, <1>2, <1>3, <1>4 DEF CaughtUp
  <1>5. CASE sec = 0 /\ aMin <= minute
    <2>1. InTime'
      BY <1>1, <1>2, <1>5, <1>a DEF InTime
    <2>2. ~Due' => aMin' = minute'
      BY <1>1, <1>5, <1>a DEF Due
    <2> QED BY <1>1, <1>2, <1>3, <2>1, <2>2 DEF CaughtUp
  <1> QED BY <1>2, <1>4, <1>5

\* A boot has no minute to account for yet.
LEMMA BootCaughtUp ==
  ASSUME Punctual, NEW b \in Int, minute' = b, aMin' = b + 1, since' = b + 1,
         sec' \in BootPhases, aSec' = sec', pc' = "idle", waited' = 0
  PROVE  CaughtUp'
  <1>1. aSec' + MaxLate < MinuteTicks
    BY DEF Punctual
  <1>2. Elapsed' = {}
    <2>1. (b + 1)..(b - 1) = {}
      OBVIOUS
    <2> QED BY <2>1 DEF Elapsed
  <1>3. b < b + 1 /\ b + 1 <= b + 1
    OBVIOUS
  <1>4. Covered(minute)'
    BY <1>3 DEF Covered
  <1> QED BY <1>1, <1>2, <1>3, <1>4 DEF CaughtUp

LEMMA OverrunStep == ASSUME Punctual PROVE OverrunInv /\ [Next]_vars => OverrunInv'
  <1> SUFFICES ASSUME OverrunInv, [Next]_vars, ~stepped' PROVE CaughtUp'
    BY TypeStep DEF OverrunInv
  <1>a. TypeOK
    BY DEF OverrunInv
  <1>1. CASE Tick
    BY <1>1, <1>a, TickKept DEF OverrunInv, Tick, history
  <1>2. CASE distrib_time_check_callback
    BY <1>2, <1>a, CallbackKept DEF OverrunInv, distrib_time_check_callback
  <1>3. CASE check_and_distribute_croquettes
    BY <1>3, <1>a, CheckKept DEF OverrunInv, check_and_distribute_croquettes
  <1>4. CASE Rotate
    BY <1>4, <1>a, RotateKept DEF OverrunInv, Rotate
  <1>5. CASE Finish
    BY <1>5, <1>a, FinishKept DEF OverrunInv, Finish, history
  <1>6. CASE update_schedule_from_json \/ update_portions_from_json \/ UNCHANGED vars
    <2>1. UNCHANGED <<minute, sec, aMin, aSec, pc, waited, since, checked, turned, stepped>>
      BY <1>6 DEF update_schedule_from_json, update_portions_from_json, vars, clock, alarm,
                  task, history
    <2> QED BY <2>1 DEF OverrunInv, CaughtUp, Elapsed, Due, Covered, InTime
  <1>7. CASE Adjust
    BY <1>7 DEF Adjust
  <1>8. CASE Restart
    <2>1. minute' \in Int
      BY <1>8, <1>a, ConstantsAssumption DEF Restart, TypeOK, ConstantsAssumption
    <2> QED BY <1>8, <2>1, BootCaughtUp DEF Restart
  <1> QED BY <1>1, <1>2, <1>3, <1>4, <1>5, <1>6, <1>7, <1>8 DEF Next

LEMMA OverrunInit == ASSUME Punctual PROVE Init => OverrunInv
  <1> SUFFICES ASSUME Init PROVE CaughtUp
    BY InitType DEF OverrunInv
  <1>1. minute = 0 /\ aMin = 1 /\ since = 1 /\ waited = 0 /\ pc = "idle"
    BY DEF Init
  <1>2. aSec + MaxLate < MinuteTicks
    BY DEF Init, Punctual
  <1>3. Elapsed = {}
    <2>1. 1..(0 - 1) = {}
      OBVIOUS
    <2> QED BY <1>1, <2>1 DEF Elapsed
  <1>4. Covered(minute) /\ ~Due
    <2>1. sec \in Int /\ aSec \in Int
      BY InitType DEF TypeOK
    <2> QED BY <1>1, <2>1 DEF Covered, Due
  <1> QED BY <1>1, <1>2, <1>3, <1>4 DEF CaughtUp

\* Feeds of any length, one after the other, cost no minute but those in which
\* the servo turns (time.c:130-141, 164): the alarms they delay are caught up,
\* each check in its own minute or covering the one it runs in.
THEOREM OverrunsCaughtUp == ASSUME Punctual PROVE Spec => []MissedOnlyWhileFeeding
  <1>1. OverrunInv => MissedOnlyWhileFeeding
    BY DEF OverrunInv, CaughtUp, MissedOnlyWhileFeeding
  <1> QED BY <1>1, OverrunInit, OverrunStep, PTL DEF Spec

-----------------------------------------------------------------------------
(* The steady feeder: no clock step, feeds that fit into the period.       *)

\* A feed that SteadyAssumption admits leaves room for a late check.
LEMMA FeedFits ==
  ASSUME SteadyAssumption, TypeOK, NEW q \in get_distrib_quantity, NEW s \in Slots,
         NEW r \in ReportTicks
  PROVE  Rotations(q[s]) + r <= MinuteTicks - MaxLate
  BY DistribQuantityInt DEF SteadyAssumption

\* A boot starts a new count of minutes with the timer one period ahead.
LEMMA RestartBoot ==
  ASSUME TypeOK, Restart
  PROVE  /\ minute' \in Int /\ minute <= minute'
         /\ sec' \in BootPhases /\ sec' \in Nat
         /\ aMin' = minute' + 1 /\ aSec' = sec' /\ since' = minute' + 1
         /\ pc' = "idle" /\ waited' = 0 /\ checked' = {} /\ fed' = fed
         /\ LastServed' = minute'
  <1>1. minute' \in minute..LastMinute /\ minute \in Int /\ LastMinute \in Int
    BY ConstantsAssumption DEF Restart, TypeOK, ConstantsAssumption
  <1>2. sec' \in BootPhases /\ BootPhases \subseteq 0..(MinuteTicks - 1)
    BY ConstantsAssumption DEF Restart, ConstantsAssumption
  <1>3. sec' \in Nat
    BY <1>2, ConstantsAssumption DEF ConstantsAssumption
  <1>4. /\ aMin' = minute' + 1 /\ aSec' = sec' /\ since' = minute' + 1
        /\ pc' = "idle" /\ waited' = 0 /\ checked' = {} /\ fed' = fed
    BY DEF Restart
  <1>5. minute' \in Int /\ minute <= minute'
    BY <1>1
  <1>6. LastServed' = minute'
    <2>1. pc' # "matching"
      BY <1>4
    <2>2. minute' + 1 = aMin'
      BY <1>4
    <2>3. aMin' - 1 = minute'
      BY <1>5, <2>2
    <2> QED BY <2>1, <2>3 DEF LastServed
  <1> QED BY <1>2, <1>3, <1>4, <1>5, <1>6

\* The alarm is taken in its own minute and no feed runs into it.
LEMMA AlarmStep == ASSUME SteadyAssumption PROVE SteadyInv /\ [Next]_vars => AlarmInTime'
  <1> SUFFICES ASSUME TypeOK, AlarmInTime, [Next]_vars PROVE AlarmInTime'
    BY DEF SteadyInv
  <1>a. MinuteTicks \in Nat \ {0} /\ MaxLate \in Nat
    BY ConstantsAssumption DEF ConstantsAssumption
  <1>1. CASE Tick
    BY <1>1, <1>a DEF Tick, AdvanceClock, Due, AlarmInTime, TypeOK, alarm
  <1>2. CASE distrib_time_check_callback
    BY <1>2, <1>a
    DEF distrib_time_check_callback, NextAlarm, Due, AlarmInTime, TypeOK, clock
  <1>3. CASE check_and_distribute_croquettes
    <2>1. CASE pc' = "idle"
      BY <1>3, <2>1, <1>a
      DEF check_and_distribute_croquettes, AlarmInTime, TypeOK, clock, alarm
    <2>2. CASE pc' = "turning"
      <3>1. left' \in Nat /\ left' <= MinuteTicks - MaxLate
        <4>1. PICK s \in Slots, q \in get_distrib_quantity, r \in ReportTicks :
                left' = Rotations(q[s]) + r
          BY <1>3, <2>2 DEF check_and_distribute_croquettes
        <4>2. r \in Nat /\ Rotations(q[s]) \in Nat
          BY ConstantsAssumption, DistribQuantityInt, RotationsNat DEF ConstantsAssumption
        <4> QED BY <4>1, <4>2, FeedFits
      <3>2. minute = aMin - 1 /\ sec = aSec + waited /\ waited <= MaxLate
        BY <1>3, <1>a DEF check_and_distribute_croquettes, AlarmInTime, TypeOK
      <3>3. minute' = minute /\ sec' = sec /\ aMin' = aMin /\ aSec' = aSec /\ waited' = 0
        BY <1>3 DEF check_and_distribute_croquettes, clock, alarm
      <3> QED
        BY <2>2, <3>1, <3>2, <3>3, <1>a DEF AlarmInTime, TypeOK
    <2> QED BY <1>3, <2>1, <2>2 DEF check_and_distribute_croquettes
  <1>4. CASE Rotate
    BY <1>4, <1>a DEF Rotate, AdvanceClock, AlarmInTime, TypeOK, alarm
  <1>5. CASE Finish
    BY <1>5 DEF Finish, AlarmInTime, clock, alarm
  <1>6. CASE update_schedule_from_json \/ update_portions_from_json
    BY <1>6
    DEF update_schedule_from_json, update_portions_from_json, AlarmInTime, clock, alarm, task
  <1>7. CASE Adjust
    BY <1>7 DEF Adjust, SteadyAssumption
  <1>8. CASE Restart
    BY <1>8, <1>a, RestartBoot DEF AlarmInTime, SteadyAssumption
  <1>9. CASE UNCHANGED vars
    BY <1>9 DEF vars, AlarmInTime, clock, alarm, task
  <1> QED
    BY <1>1, <1>2, <1>3, <1>4, <1>5, <1>6, <1>7, <1>8, <1>9 DEF Next

\* A boot or a served minute moves LastServed on by one; nothing else moves
\* it within a boot, and the minutes checked follow it.
LEMMA CheckedStep == ASSUME SteadyAssumption PROVE SteadyInv /\ [Next]_vars => CheckedInOrder'
  <1> SUFFICES ASSUME TypeOK, AlarmInTime, CheckedInOrder, [Next]_vars
               PROVE  CheckedInOrder'
    BY DEF SteadyInv
  <1>a. aMin \in Int /\ since \in Int /\ minute \in Int /\ LastServed \in Int
    BY DEF TypeOK, LastServed
  <1>1. CASE Tick
    BY <1>1 DEF Tick, CheckedInOrder, LastServed, alarm, history
  <1>2. CASE distrib_time_check_callback
    <2>1. pc = "idle" /\ minute = aMin /\ aMin' = aMin + 1 /\ since' = since
      BY <1>2 DEF distrib_time_check_callback, AlarmInTime, Due, TypeOK, NextAlarm
    <2>2. CASE schedule = NotFound
      <3>1. checked' = checked \cup {minute} /\ LastServed' = minute /\ LastServed = minute - 1
        BY <1>2, <2>1, <2>2, <1>a DEF distrib_time_check_callback, LastServed
      <3> QED BY <2>1, <3>1, <1>a DEF CheckedInOrder
    <2>3. CASE schedule # NotFound
      <3>1. checked' = checked /\ LastServed' = LastServed
        BY <1>2, <2>1, <2>3, <1>a DEF distrib_time_check_callback, LastServed
      <3> QED BY <2>1, <3>1 DEF CheckedInOrder
    <2> QED BY <2>2, <2>3
  <1>3. CASE check_and_distribute_croquettes
    <2>1. minute = aMin - 1 /\ aMin' = aMin /\ since' = since
      BY <1>3 DEF check_and_distribute_croquettes, AlarmInTime, alarm
    <2>2. checked' = checked \cup {minute} /\ LastServed' = minute /\ LastServed = minute - 1
      BY <1>3, <2>1, <1>a DEF check_and_distribute_croquettes, LastServed
    <2> QED BY <2>1, <2>2, <1>a DEF CheckedInOrder
  <1>4. CASE Rotate
    BY <1>4 DEF Rotate, CheckedInOrder, LastServed, alarm
  <1>5. CASE Finish
    BY <1>5 DEF Finish, CheckedInOrder, LastServed, alarm, history
  <1>6. CASE update_schedule_from_json \/ update_portions_from_json
    BY <1>6
    DEF update_schedule_from_json, update_portions_from_json, CheckedInOrder,
        LastServed, alarm, task, history
  <1>7. CASE Adjust
    BY <1>7 DEF Adjust, SteadyAssumption
  <1>8. CASE Restart
    <2>1. checked' = {} /\ minute' \in Int /\ since' = minute' + 1 /\ LastServed' = minute'
      BY <1>8, RestartBoot
    <2>2. \A i \in Int : (i + 1)..i = {} /\ i + 1 <= i + 1
      OBVIOUS
    <2>3. since'..LastServed' = {} /\ since' <= LastServed' + 1
      BY <2>1, <2>2
    <2> QED BY <2>1, <2>3 DEF CheckedInOrder
  <1>9. CASE UNCHANGED vars
    BY <1>9 DEF vars, CheckedInOrder, LastServed, alarm, task, history
  <1> QED
    BY <1>1, <1>2, <1>3, <1>4, <1>5, <1>6, <1>7, <1>8, <1>9 DEF Next

\* A meal begins in the minute being served, which then counts as served.
LEMMA FedStep == ASSUME SteadyAssumption PROVE SteadyInv /\ [Next]_vars => FedWhenServed'
  <1> SUFFICES ASSUME TypeOK, AlarmInTime, FedWhenServed, [Next]_vars
               PROVE  FedWhenServed'
    BY DEF SteadyInv
  <1>a. aMin \in Int /\ minute \in Int /\ fed \subseteq Int
    BY DEF TypeOK
  <1>1. CASE distrib_time_check_callback
    <2>1. fed' = fed /\ LastServed' \in Int /\ LastServed \in Int /\ LastServed <= LastServed'
      BY <1>1, <1>a DEF distrib_time_check_callback, NextAlarm, LastServed
    <2> QED BY <2>1, <1>a DEF FedWhenServed
  <1>2. CASE check_and_distribute_croquettes
    <2>1. minute = aMin - 1 /\ LastServed' = minute /\ LastServed = minute - 1
      BY <1>2, <1>a DEF check_and_distribute_croquettes, AlarmInTime, LastServed, alarm
    <2>2. fed' \subseteq fed \cup {minute}
      BY <1>2 DEF check_and_distribute_croquettes
    <2> QED BY <2>1, <2>2, <1>a DEF FedWhenServed
  <1>3. CASE Restart
    <2>1. fed' = fed /\ LastServed' = minute' /\ minute' \in Int /\ minute <= minute'
      BY <1>3, RestartBoot
    <2>2. LastServed \in Int /\ LastServed <= minute
      BY <1>a DEF AlarmInTime, LastServed, TypeOK
    <2> QED BY <2>1, <2>2, <1>a DEF FedWhenServed
  <1>4. CASE Adjust
    BY <1>4 DEF Adjust, SteadyAssumption
  <1>5. CASE Tick \/ Rotate \/ Finish
    BY <1>5 DEF Tick, Rotate, Finish, FedWhenServed, LastServed, alarm, history
  <1>6. CASE update_schedule_from_json \/ update_portions_from_json
    BY <1>6
    DEF update_schedule_from_json, update_portions_from_json, FedWhenServed,
        LastServed, alarm, task, history
  <1>7. CASE UNCHANGED vars
    BY <1>7 DEF vars, FedWhenServed, LastServed, alarm, task, history
  <1> QED
    BY <1>1, <1>2, <1>3, <1>4, <1>5, <1>6, <1>7 DEF Next

LEMMA SteadyInit == ASSUME SteadyAssumption PROVE Init => SteadyInv
  <1> SUFFICES ASSUME Init PROVE SteadyInv
    OBVIOUS
  <1>1. TypeOK
    BY InitType
  <1>2. AlarmInTime
    BY <1>1, ConstantsAssumption
    DEF Init, AlarmInTime, TypeOK, SteadyAssumption, ConstantsAssumption
  <1>3. CheckedInOrder /\ FedWhenServed
    BY DEF Init, CheckedInOrder, FedWhenServed, LastServed
  <1> QED BY <1>1, <1>2, <1>3 DEF SteadyInv

\* The steady feeder never leaves the inductive invariant.
LEMMA SteadyInvariance == ASSUME SteadyAssumption PROVE Spec => []SteadyInv
  <1>1. SteadyInv /\ [Next]_vars => SteadyInv'
    BY TypeStep, AlarmStep, CheckedStep, FedStep DEF SteadyInv
  <1> QED BY SteadyInit, <1>1, PTL DEF Spec

\* Schedulability (time.c:123-165): whatever the interleaving of MQTT
\* updates and restarts, no whole minute since boot goes unchecked, provided
\* that feeds fit into the period and checks stay within their minute.
THEOREM NoMinuteMissed == ASSUME SteadyAssumption PROVE Spec => []EveryMinuteChecked
  <1>1. SteadyInv => EveryMinuteChecked
    <2> SUFFICES ASSUME SteadyInv, NEW m \in Elapsed PROVE m \in checked
      BY DEF EveryMinuteChecked
    <2>1. LastServed \in Int /\ minute - 1 <= LastServed
      BY DEF SteadyInv, TypeOK, AlarmInTime, LastServed
    <2> QED BY <2>1 DEF SteadyInv, TypeOK, CheckedInOrder, Elapsed
  <1> QED BY <1>1, SteadyInvariance, PTL

\* Under the same conditions no minute is fed twice by the schedule, across
\* restarts too (time.c:123-143).
THEOREM NeverFedTwice == ASSUME SteadyAssumption PROVE Spec => NoDoubleFeed
  <1>1. SteadyInv /\ [Next]_vars => [FeedBegins => minute \notin fed]_vars
    <2> SUFFICES ASSUME SteadyInv, FeedBegins PROVE minute \notin fed
      OBVIOUS
    <2>1. LastServed = minute - 1 /\ minute \in Int
      BY DEF SteadyInv, TypeOK, AlarmInTime, LastServed, FeedBegins
    <2> QED BY <2>1 DEF SteadyInv, FedWhenServed
  <1> QED BY <1>1, SteadyInvariance, PTL DEF Spec, NoDoubleFeed

\* The feeder of time.c implements the meal plan: its checks serve the
\* minutes of the wall clock one after the other, each before it ends, and
\* its restarts are power cuts of the plan.
THEOREM FeederImplementsPlan == ASSUME SteadyAssumption PROVE Spec => ImplementsPlan
  <1>1. Init => Plan!Init
    BY DEF Init, Plan!Init, LastServed
  <1>2. SteadyInv /\ [Next]_vars => [Plan!Next]_Plan!vars
    <2> SUFFICES ASSUME SteadyInv, [Next]_vars PROVE [Plan!Next]_Plan!vars
      OBVIOUS
    <2> USE DEF Plan!Next, Plan!vars
    <2>a. minute \in Int /\ aMin \in Int
      BY DEF SteadyInv, TypeOK
    <2>1. CASE Tick
      <3>1. minute' = minute \/ (minute' = minute + 1 /\ LastServed = minute)
        BY <2>1, <2>a, ConstantsAssumption
        DEF Tick, AdvanceClock, SteadyInv, AlarmInTime, LastServed, TypeOK,
            Due, ConstantsAssumption
      <3>2. LastServed' = LastServed /\ fed' = fed
        BY <2>1 DEF Tick, LastServed, alarm, history
      <3> QED BY <3>1, <3>2 DEF Plan!Elapse
    <2>2. CASE Rotate
      <3>1. minute' = minute \/ (minute' = minute + 1 /\ LastServed = minute)
        BY <2>2, <2>a, ConstantsAssumption
        DEF Rotate, AdvanceClock, SteadyInv, AlarmInTime, LastServed, TypeOK,
            ConstantsAssumption
      <3>2. LastServed' = LastServed /\ fed' = fed
        BY <2>2 DEF Rotate, LastServed, alarm
      <3> QED BY <3>1, <3>2 DEF Plan!Elapse
    <2>3. CASE distrib_time_check_callback
      <3>1. minute = aMin /\ minute' = minute /\ fed' = fed
        BY <2>3
        DEF distrib_time_check_callback, SteadyInv, AlarmInTime, Due, TypeOK, clock
      <3>2. LastServed' = LastServed \/ (LastServed = minute - 1 /\ LastServed' = minute)
        BY <2>3, <3>1, <2>a DEF distrib_time_check_callback, LastServed, NextAlarm
      <3> QED BY <3>1, <3>2 DEF Plan!Serve
    <2>4. CASE check_and_distribute_croquettes
      <3>1. LastServed = minute - 1 /\ LastServed' = minute /\ minute' = minute
        BY <2>4, <2>a
        DEF check_and_distribute_croquettes, SteadyInv, AlarmInTime, LastServed, clock, alarm
      <3>2. fed' \in {fed, fed \cup {minute}}
        BY <2>4 DEF check_and_distribute_croquettes
      <3> QED BY <3>1, <3>2 DEF Plan!Serve
    <2>5. CASE Restart
      <3>1. minute' >= minute /\ LastServed' = minute' /\ fed' = fed
        BY <2>5, RestartBoot DEF SteadyInv
      <3> QED BY <3>1 DEF Plan!PowerCut
    <2>6. CASE Adjust
      BY <2>6 DEF Adjust, SteadyAssumption
    <2>7. CASE Finish \/ update_schedule_from_json \/ update_portions_from_json
      BY <2>7
      DEF Finish, update_schedule_from_json, update_portions_from_json,
          LastServed, clock, alarm, task, history
    <2>8. CASE UNCHANGED vars
      BY <2>8 DEF vars, LastServed, clock, alarm, task, history
    <2> QED
      BY <2>1, <2>2, <2>3, <2>4, <2>5, <2>6, <2>7, <2>8 DEF Next
  <1> QED BY <1>1, <1>2, SteadyInvariance, PTL DEF Spec, ImplementsPlan, Plan!Spec
=============================================================================
