------------------------------ MODULE FeedTimer ------------------------------
(***************************************************************************)
(* The scheduled feeding of the CroqConnect feeder: the "check_dis_time"   *)
(* esp_timer of src/src/time/time.c, which once a minute reads the         *)
(* schedule from flash, compares it with the wall clock and turns the      *)
(* servo; the MQTT task, which rewrites the schedule and the portions in   *)
(* flash meanwhile; SNTP, which may step the wall clock; and restarts.     *)
(*                                                                         *)
(* Wall-clock time is a minute number and a tick within the minute.  One   *)
(* tick is one rotation of the servo (two dwells of 500 ms).  The alarm    *)
(* of the timer runs on the monotonic clock of the chip; it is kept here   *)
(* as the wall-clock instant at which it falls due, and a clock step       *)
(* moves it along.                                                         *)
(***************************************************************************)
EXTENDS Integers

CONSTANTS
  MinuteTicks,  \* ticks in a minute (60 on the device)
  DayMinutes,   \* minutes in a day (1440 on the device)
  SlotCount,    \* slots of a DistributionSchedule (6 on the device)
  Inactive,     \* a slot whose hour:minute no clock shows, e.g. 25:61
  NotFound,     \* the blob was never written: ESP_ERR_NVS_NOT_FOUND
  Quantities,   \* grams a stored portion may hold
  Garbage,      \* grams an uninitialised portion may hold
  ReportTicks,  \* ticks publishing and weighing after a feed may take
  MaxLate,      \* ticks a due alarm may wait for the idle timer task
  BootPhases,   \* ticks of the minute at which a boot may start the timer
  ClockSteps,   \* <<minutes, ticks>> by which SNTP may step the clock
  LastMinute    \* bound: the clock stops at the end of this minute

Slots == 1..SlotCount
Times == 0..(DayMinutes - 1)
DistributionSchedule == [Slots -> Times \cup {Inactive}]
TimerPortions == [Slots -> Quantities]

ASSUME ConstantsAssumption ==
  /\ MinuteTicks \in Nat \ {0}
  /\ DayMinutes \in Nat \ {0}
  /\ SlotCount \in Nat \ {0}
  /\ Inactive \notin Times
  /\ NotFound \notin DistributionSchedule \cup TimerPortions
  /\ Quantities \subseteq Int
  /\ Garbage \subseteq Int
  /\ ReportTicks \subseteq Nat
  /\ MaxLate \in Nat
  /\ BootPhases \subseteq 0..(MinuteTicks - 1)
  /\ ClockSteps \subseteq Int \X (0..(MinuteTicks - 1))
  /\ LastMinute \in Int

VARIABLES
  minute, sec,  \* the wall clock, local time
  aMin, aSec,   \* when the periodic timer falls due next
  pc,           \* the timer task: "idle", "matching" or "turning"
  waited,       \* ticks the current check is late for want of the task
  sched,        \* the schedule the running callback has read
  left,         \* ticks until the running feed and its report are over
  schedule,     \* the blob "schedule" in flash
  portions,     \* the blob "portions" in flash
  fed,          \* history: minutes in which a scheduled feed began
  checked,      \* history: minutes compared with the schedule, this boot
  turned,       \* history: minutes in which the servo turned, this boot
  since,        \* history: the first minute this boot has to check
  stepped       \* history: the wall clock was stepped

clock == <<minute, sec>>
alarm == <<aMin, aSec>>
task == <<pc, waited, sched, left>>
flash == <<schedule, portions>>
history == <<fed, checked, turned, since, stepped>>
vars == <<clock, alarm, task, flash, history>>

-----------------------------------------------------------------------------
\* The periodic alarm lies in the past.
Due == minute > aMin \/ (minute = aMin /\ sec >= aSec)

\* One second of wall-clock time passes.
AdvanceClock ==
  \/ /\ sec < MinuteTicks - 1
     /\ sec' = sec + 1
     /\ minute' = minute
  \/ /\ sec = MinuteTicks - 1
     /\ minute < LastMinute
     /\ sec' = 0
     /\ minute' = minute + 1

\* The timer is periodic: the next alarm counts from the last one, however
\* late that was taken.
SlowAlarm == aMin + 2
StuckAlarm == aMin
NextAlarm == aMin + 1

\* distribute_croquettes: quantity/10 truncates, and the loop does not run
\* for a negative count.
RotationsUnguarded(quantity) == quantity \div 10
Rotations(quantity) == IF quantity >= 10 THEN quantity \div 10 ELSE 0

\* The portions a check gets: the stored ones, or an uninitialised struct.
get_distrib_quantity ==
  IF portions = NotFound THEN [Slots -> Garbage] ELSE {portions}

\* Slot s of the schedule the callback has read names the current minute.
Matches(s) == sched[s] = minute % DayMinutes

Init ==
  /\ minute = 0
  /\ sec \in BootPhases
  /\ aMin = 1
  /\ aSec = sec
  /\ pc = "idle"
  /\ waited = 0
  /\ sched = NotFound
  /\ left = 0
  /\ schedule \in DistributionSchedule \cup {NotFound}
  /\ portions \in TimerPortions \cup {NotFound}
  /\ fed = {}
  /\ checked = {}
  /\ turned = {}
  /\ since = 1
  /\ stepped = FALSE

-----------------------------------------------------------------------------
\* Time passes while the timer task is not feeding.  A check that is due
\* waits at most MaxLate ticks for the task and for the processor.
Tick ==
  /\ pc \in {"idle", "matching"}
  /\ AdvanceClock
  /\ IF pc = "matching" \/ Due
     THEN waited < MaxLate /\ waited' = waited + 1
     ELSE UNCHANGED waited
  /\ UNCHANGED <<alarm, pc, sched, left, flash, history>>

\* The timer task takes the alarm that is due, re-arms it one period after
\* the instant it was due, and the callback reads the schedule.  Without a
\* stored schedule the check ends there.
distrib_time_check_callback ==
  /\ pc = "idle"
  /\ Due
  /\ aMin' = NextAlarm
  /\ \/ /\ schedule = NotFound
        /\ waited' = 0
        /\ checked' = checked \cup {minute}
        /\ UNCHANGED <<pc, sched>>
     \/ /\ schedule # NotFound
        /\ pc' = "matching"
        /\ sched' = schedule
        /\ UNCHANGED <<waited, checked>>
  /\ UNCHANGED <<clock, aSec, left, flash, fed, turned, since, stepped>>

\* The callback reads the clock and then the portions; the first slot that
\* names the current minute is distributed and the others are not looked at.
check_and_distribute_croquettes ==
  /\ pc = "matching"
  /\ checked' = checked \cup {minute}
  /\ waited' = 0
  /\ sched' = NotFound
  /\ \/ /\ \A s \in Slots : ~Matches(s)
        /\ pc' = "idle"
        /\ UNCHANGED <<left, fed>>
     \/ \E s \in Slots, quantity \in get_distrib_quantity, r \in ReportTicks :
          /\ Matches(s)
          /\ \A earlier \in 1..(s - 1) : ~Matches(earlier)
          /\ pc' = "turning"
          /\ left' = Rotations(quantity[s]) + r
          /\ fed' = fed \cup {minute}
  /\ UNCHANGED <<clock, alarm, flash, turned, since, stepped>>

\* One rotation of the servo, or one second of the report after it.
Rotate ==
  /\ pc = "turning"
  /\ left > 0
  /\ AdvanceClock
  /\ left' = left - 1
  /\ turned' = turned \cup {minute}
  /\ UNCHANGED <<alarm, pc, waited, sched, flash, fed, checked, since, stepped>>

\* distribute_croquettes returns and with it the callback.
Finish ==
  /\ pc = "turning"
  /\ left = 0
  /\ pc' = "idle"
  /\ UNCHANGED <<clock, alarm, waited, sched, left, flash, history>>

-----------------------------------------------------------------------------
\* The MQTT task replaces a blob.  A message that is no JSON changes
\* nothing, and nor does a write the flash refuses.
update_schedule_from_json ==
  /\ schedule' \in DistributionSchedule
  /\ UNCHANGED <<clock, alarm, task, portions, history>>

update_portions_from_json ==
  /\ portions' \in TimerPortions
  /\ UNCHANGED <<clock, alarm, task, schedule, history>>

\* SNTP sets the wall clock; the alarm, on the monotonic clock, keeps its
\* distance from it.  Bound: one step in a behaviour.
Adjust ==
  /\ ~stepped
  /\ \E d \in ClockSteps :
       LET Carry(s) == IF s + d[2] >= MinuteTicks THEN 1 ELSE 0
       IN  /\ minute' = minute + d[1] + Carry(sec)
           /\ sec' = sec + d[2] - MinuteTicks * Carry(sec)
           /\ aMin' = aMin + d[1] + Carry(aSec)
           /\ aSec' = aSec + d[2] - MinuteTicks * Carry(aSec)
           /\ minute' <= LastMinute
  /\ stepped' = TRUE
  /\ UNCHANGED <<task, flash, fed, checked, turned, since>>

\* The device restarts, alone or through esp_restart, and is up again at a
\* later tick: the clock has been set from SNTP, the timer is new and due
\* in one period, the flash is as it was.
Restart ==
  /\ minute' \in minute..LastMinute
  /\ sec' \in BootPhases
  /\ minute' = minute => sec' >= sec
  /\ aMin' = minute' + 1
  /\ aSec' = sec'
  /\ pc' = "idle"
  /\ waited' = 0
  /\ sched' = NotFound
  /\ left' = 0
  /\ checked' = {}
  /\ turned' = {}
  /\ since' = minute' + 1
  /\ UNCHANGED <<flash, fed, stepped>>

Next ==
  \/ Tick
  \/ distrib_time_check_callback
  \/ check_and_distribute_croquettes
  \/ Rotate
  \/ Finish
  \/ update_schedule_from_json
  \/ update_portions_from_json
  \/ Adjust
  \/ Restart

Spec == Init /\ [][Next]_vars
-----------------------------------------------------------------------------
\* Type invariant: the clock and the alarm are instants, the task and its
\* snapshot agree, and no feed has a negative number of rotations left
\* although a stored quantity may be negative.
TypeOK ==
  /\ minute \in Int /\ sec \in 0..(MinuteTicks - 1)
  /\ aMin \in Int /\ aSec \in 0..(MinuteTicks - 1)
  /\ pc \in {"idle", "matching", "turning"}
  /\ waited \in 0..MaxLate
  /\ sched \in DistributionSchedule \cup {NotFound}
  /\ pc = "matching" <=> sched # NotFound
  /\ left \in Nat
  /\ schedule \in DistributionSchedule \cup {NotFound}
  /\ portions \in TimerPortions \cup {NotFound}
  /\ fed \subseteq Int
  /\ checked \subseteq Int
  /\ turned \subseteq Int
  /\ since \in Int
  /\ stepped \in BOOLEAN

\* A scheduled feed begins in this step.
FeedBegins == pc = "matching" /\ pc' = "turning"

\* The minutes this boot had to check and has already left behind.
Elapsed == since..(minute - 1)

\* Long feeds make later alarms late, and the timer catches up on them
\* (time.c:130-141, 164).  As long as the clock is not stepped, the only
\* minutes no check compares with the schedule are those in which the servo
\* was turning: an overrun never costs the minutes after it.
MissedOnlyWhileFeeding ==
  ~stepped => \A m \in Elapsed : m \in checked \/ m \in turned

\* Every whole minute since boot has been compared with the schedule
\* (time.c:145-165): no planned meal is passed over.
EveryMinuteChecked == \A m \in Elapsed : m \in checked

\* No minute is fed twice by the schedule, restarts included
\* (time.c:123-143): the check of a minute is neither repeated nor caught up
\* in a minute that has had its meal.
NoDoubleFeed == [][FeedBegins => minute \notin fed]_vars

\* What a scheduled feed distributes are the quantities set for it over
\* MQTT (client.c:45, "Update quantities for scheduled distrib").
FeedsStoredPortion == [][FeedBegins => portions # NotFound]_vars
=============================================================================
