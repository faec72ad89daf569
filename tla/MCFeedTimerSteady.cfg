SPECIFICATION Spec
CONSTANTS
  MinuteTicks = 4
  DayMinutes = 2
  SlotCount = 2
  Inactive = Inactive
  NotFound = NotFound
  Quantities = {0, 20}
  Garbage = {10}
  ReportTicks = {0, 1}
  MaxLate = 1
  BootPhases = {0, 2}
  ClockSteps = {}
  LastMinute = 3
INVARIANTS
  EveryMinuteChecked
PROPERTIES
  NoDoubleFeed
  ImplementsPlan
CHECK_DEADLOCK FALSE
