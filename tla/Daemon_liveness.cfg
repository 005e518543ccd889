SPECIFICATION FairSpec
CONSTANTS
  FRAGMENT_SIZE = 1
  Handles = {h1, h2}
  Shapes <- LiveShapes
  Workers = {w1, w2}
  NumOfIots = 2
  DeviceSize = 2
  UidSpace = 2
  SocketCap = 1
  Breakable = {}
  MaxEofReads = 0
  Unset = Unset
  Zero = Zero
  Junk = Junk
  Nobody = Nobody
PROPERTIES
  EveryRequestAnswered
