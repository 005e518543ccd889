SPECIFICATION Spec
CONSTANTS
  Threads = {t1, t2, t3}
  NumOfThreads = 3
  Sizes = {2}
  Tasks = {high}
  low = low
  high = high
  Priority <- OnlyHigh
  Throwing = {}
  Calls = {"ResizePaused"}
  MaxCalls = 1
  Free = Free
  None = None
INVARIANTS
  PausedStartsNothing
