SPECIFICATION TextSpec
CONSTANTS
  Slots = {1, 2}
  Times <- MCTimes
  Amounts <- MCAmounts
PROPERTIES
  EchoKeepsSchedule
  EchoKeepsPortions
