SPECIFICATION Spec
CONSTANTS
  MinuteTicks = 3
  DayMinutes = 2
  SlotCount = 1
  Inactive = Inactive
  NotFound = NotFound
  Quantities <- RoughQuantities
  Garbage = {20}
  ReportTicks = {0}
  MaxLate = 1
  BootPhases = {0, 1}
  ClockSteps <- Steps
  LastMinute = 4
INVARIANTS
  TypeOK
  MissedOnlyWhileFeeding
CHECK_DEADLOCK FALSE
