SPECIFICATION FairSpec
CONSTANTS
  MaxFeeds = 3
  MaxRotations = 1
INVARIANTS
  DispensingInv
  AnnouncedOnceEnded
  ImageReturnsAll
PROPERTIES
  FeedsEnd
  FramesReturn
