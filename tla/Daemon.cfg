SPECIFICATION Spec
CONSTANTS
  FRAGMENT_SIZE = 1
  Handles = {h1, h2}
  Shapes <- OverlappingShapes
  Workers = {w1, w2}
  NumOfIots = 2
  DeviceSize = 2
  UidSpace = 2
  SocketCap = 2
  Breakable = {0}
  MaxEofReads = 1
  Unset = Unset
  Zero = Zero
  Junk = Junk
  Nobody = Nobody
SYMMETRY Interchangeable
INVARIANTS
  TypeOK
  NoNullSlicer
  StreamsFramed
PROPERTIES
  IsBlockDevice
