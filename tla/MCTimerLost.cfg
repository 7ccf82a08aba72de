SPECIFICATION FairSpec
CONSTANTS
  NULL = NULL
  Threads = {t1, t2}
  Programs <- TimersOnly
  Nums = {1}
  MaxRequests = 1
  Buffers = {0, 1}
  MaxPending = 2
  Frames = 1
  MaxGeneration = 4
  MaxOutstanding = 1
  Rates = {0, 1}
PROPERTY TimerRuns
