SPECIFICATION Spec
CONSTANTS
  Threads = {t1, t2, t3}
  NumOfThreads = 2
  Sizes = {1, 3}
  Tasks = {low, high}
  low = low
  high = high
  Priority <- LowAndHigh
  Throwing = {low}
  Calls = {"Run", "Pause", "Resize"}
  MaxCalls = 4
  Free = Free
  None = None
INVARIANTS
  PausedStartsNothing
  ThreadsAccountedFor
CHECK_DEADLOCK FALSE
