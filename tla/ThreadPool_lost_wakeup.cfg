SPECIFICATION FairSpec
CONSTANTS
  Threads = {t1}
  NumOfThreads = 1
  Sizes = {1}
  Tasks = {high}
  low = low
  high = high
  Priority <- OnlyHigh
  Throwing = {}
  Calls = {"Run", "Pause"}
  MaxCalls = 3
  Free = Free
  None = None
PROPERTIES
  RunStartsTasks
