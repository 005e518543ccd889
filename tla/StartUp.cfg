SPECIFICATION FairSpec
CONSTANTS
  NumOfIots = 2
  Nobody = Nobody
INVARIANTS
  TypeOK
  DescriptorsClosed
  DeviceServesDaemon
PROPERTIES
  PeerDeathSeen
  EndSeen
CHECK_DEADLOCK FALSE
