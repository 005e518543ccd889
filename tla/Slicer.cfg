SPECIFICATION Spec
CONSTANTS
  FRAGMENT_SIZE = 2
  IotCounts = {1, 2, 3, 4}
  DeviceSize = 16
  StorageSize = 16
  UINT32 = 16
INVARIANTS
  TypeOK
  FragmentsAtHome
  WithinStorage
  CountsTheSlices
CHECK_DEADLOCK FALSE
