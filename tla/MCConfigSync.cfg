SPECIFICATION FairSpec
CONSTANTS
  Kinds = {"schedule", "portions"}
  MaxUpdates = 2
  MaxRestarts = 1
INVARIANTS
  ShownWasStored
  AtMostOneStaleReport
PROPERTIES
  ShownConverges
