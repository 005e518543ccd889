SPECIFICATION FairSpec
CONSTANTS
  Users = {u1, u2}
  Objects = {o1, o2, o3}
  ZeroInterval = {o2}
  NegativeInterval = {o3}
  MaxTimers = 3
  NoObject = NoObject
INVARIANTS
  TypeOK
  NoUseAfterDelete
  RunsAlone
  OneScheduler
  TimersRecorded
PROPERTIES
  CalledAgain
CHECK_DEADLOCK FALSE
