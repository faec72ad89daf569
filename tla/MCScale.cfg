SPECIFICATION FairSpec
CONSTANTS
  Tasks = {"timer", "mqtt"}
  Tarers = {"mqtt"}
  Times = 2
  Half = 2
  Word = 4
  Timeout = 3
  Levels = {0, 1, 3}
INVARIANTS
  TypeOK
  AverageBetweenSamples
PROPERTIES
  WeighingEnds
