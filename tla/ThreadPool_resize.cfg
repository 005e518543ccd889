SPECIFICATION FairSpec
CONSTANTS
  Threads = {t1, t2, t3}
  NumOfThreads = 2
  Sizes = {0, 1, 3}
  Tasks = {low, high}
  low = low
  high = high
  Priority <- LowAndHigh
  Throwing = {}
  Calls = {"Run", "ResizePaused"}
  MaxCalls = 2
  Free = Free
  None = None
INVARIANTS
  TypeOK
PROPERTIES
  RunStartsTasks
  CallsReturn
