CONSTANTS
  s1 = s1  s2 = s2  s3 = s3
  Slots = {s1, s2, s3}
  Main = s1
  NULL = NULL
  Detached = {TRUE, FALSE}
  Programs <- TwoPrograms
  GcThreshold = 1
  MaxCachedThreads = 1
  MaxThreads = 3
  MaxTails = 1
SPECIFICATION Spec
CHECK_DEADLOCK FALSE
INVARIANT NeverReach
