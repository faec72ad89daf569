SPECIFICATION FairSpec
CONSTANTS
  MaxReconnects = 3
  Window = 4
  QueueBound = 4
  FrameCnt = 2
INVARIANTS
  TypeOK
  AccessPointOnce
  OneReconnectChain
  CameraAllOrNothing
PROPERTIES
  LostStationRecovers
  BootSettles
