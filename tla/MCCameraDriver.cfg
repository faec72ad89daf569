SPECIFICATION Spec
CONSTANTS
  FrameCnt = 2
  QueueLen = 1
  HalfCnt = 3
  FbHalves = 2
  Takers = {image}
  Sizes <- MCSizes
INVARIANTS
  TypeOK
  FrameHasOneOwner
  CapturesIntoOwnFrame
  PicturesAreWhole
PROPERTIES
  ImplementsPool
  CaptureResumes
