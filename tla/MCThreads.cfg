CONSTANTS
  s1 = s1  s2 = s2  s3 = s3
  Slots = {s1, s2, s3}
  Main = s1
  NULL = NULL
  Detached = {FALSE}
  Programs <- TwoPrograms
  GcThreshold = 1
  MaxCachedThreads = 1
  MaxThreads = 2
  MaxTails = 1
SPECIFICATION FairSpec
CHECK_DEADLOCK FALSE
INVARIANTS CollectSafe CollectComplete SlotAccounting OnceExact
PROPERTY WaitsEnd
