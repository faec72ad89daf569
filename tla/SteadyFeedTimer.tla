--------------------------- MODULE SteadyFeedTimer ---------------------------
(***************************************************************************)
(* The conditions under which the scheduled feeding keeps its promise: the *)
(* clock is not stepped, the timer is not armed so close to the end of a   *)
(* minute that a late check falls into the next one, and every feed, its   *)
(* report included, ends before the next alarm.  The code establishes none *)
(* of them; a deployment has to.                                           *)
(***************************************************************************)
EXTENDS FeedTimer

SteadyAssumption ==
  /\ ClockSteps = {}
  /\ \A phase \in BootPhases : phase + MaxLate < MinuteTicks
  /\ \A quantity \in Quantities \cup Garbage, r \in ReportTicks :
       Rotations(quantity) + r <= MinuteTicks - MaxLate

\* The timer task serves a minute when its check has compared it with the
\* schedule; re-arming comes first, so a check that is under way has already
\* moved the alarm on.
LastServed == IF pc = "matching" THEN aMin - 2 ELSE aMin - 1

Plan == INSTANCE MealPlan WITH
  minute <- minute, served <- LastServed, meals <- fed

\* The feeder implements the meal plan: each minute of an uninterrupted run
\* is served exactly once before it ends (time.c:123-165).
ImplementsPlan == Plan!Spec

-----------------------------------------------------------------------------
(* The inductive invariant behind these properties. *)

\* An idle task has its alarm ahead by at most a period, or is late for it by
\* the time waited; a callback that has yet to compare runs in the minute of
\* its alarm; and a feed in progress ends no later than the next alarm.
AlarmInTime ==
  /\ aSec + MaxLate < MinuteTicks
  /\ pc # "matching" =>
       \/ minute = aMin - 1 /\ sec >= aSec /\ waited = 0
       \/ minute = aMin /\ sec < aSec /\ waited = 0
       \/ minute = aMin /\ sec = aSec + waited
  /\ pc = "matching" => minute = aMin - 1 /\ sec = aSec + waited
  /\ pc = "turning" =>
       /\ waited = 0
       /\ \/ minute = aMin - 1 /\ left <= MinuteTicks + aSec - sec
          \/ minute = aMin /\ left <= aSec - sec

\* The minutes served this boot are exactly those up to the last one.
CheckedInOrder ==
  /\ since <= LastServed + 1
  /\ checked = since..LastServed

\* A meal belongs to a minute already served.
FedWhenServed == \A m \in fed : m <= LastServed

SteadyInv == TypeOK /\ AlarmInTime /\ CheckedInOrder /\ FedWhenServed
=============================================================================
