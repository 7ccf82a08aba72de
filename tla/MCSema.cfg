CONSTANTS
  t1 = t1  t2 = t2  t3 = t3
  Threads = {t1, t2, t3}
  NULL = NULL
  InitCount = 1
  MaxCount = 3
  IsFifo = FALSE
  Priority <- Priorities
  Needs = {0, 1, 2}
  SetCounts <- SetCountArgs
  Timeouts = {1}
  MaxElapsed = 1
  TimeMod = 2
SPECIFICATION FairSpec
CHECK_DEADLOCK FALSE
INVARIANTS WaitListInv NoSatisfiableWaiter TokensConserved PrioritySorted
PROPERTIES ServedInOrder ReleasedReturns
