SPECIFICATION FairSpec
CONSTANTS
  Fds = {3, 5, 6}
  MaxPending = 2
  MaxChanges = 4
INVARIANTS
  TypeOK
  SelectSeesAll
  HandlerFound
  RoundServesReady
PROPERTIES
  NoStarvation
CHECK_DEADLOCK FALSE
