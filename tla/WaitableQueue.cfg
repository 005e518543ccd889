SPECIFICATION FairSpec
CONSTANTS
  Producers = {p1, p2}
  Consumers = {c1, c2}
  TimedConsumers = {t1, t2}
  MaxItems = 4
  MaxSwallowed = 2
INVARIANTS
  TypeOK
  NoLostWakeup
PROPERTIES
  IsQueue
  DeliversAll
