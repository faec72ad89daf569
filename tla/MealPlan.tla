------------------------------ MODULE MealPlan -------------------------------
(***************************************************************************)
(* What the scheduled feeding promises, without timers, tasks or flash: a  *)
(* minute of the wall clock is served exactly once, before it is over, and *)
(* being served it may get one meal.  A power cut skips the time it takes  *)
(* and the minute in which the feeder comes back.                          *)
(***************************************************************************)
EXTENDS Integers

VARIABLES
  minute,  \* the minute of the wall clock
  served,  \* the last minute that has been served
  meals    \* the minutes that got a meal

vars == <<minute, served, meals>>

Init ==
  /\ minute = 0
  /\ served = 0
  /\ meals = {}

\* A minute ends only when it has been served.
Elapse ==
  /\ served = minute
  /\ minute' = minute + 1
  /\ UNCHANGED <<served, meals>>

\* The current minute is served, with or without a meal.
Serve ==
  /\ served = minute - 1
  /\ served' = minute
  /\ meals' \in {meals, meals \cup {minute}}
  /\ UNCHANGED minute

PowerCut ==
  /\ minute' >= minute
  /\ served' = minute'
  /\ UNCHANGED meals

Next == Elapse \/ Serve \/ PowerCut

Spec == Init /\ [][Next]_vars
=============================================================================
