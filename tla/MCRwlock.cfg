CONSTANTS
  t1 = t1  t2 = t2  t3 = t3  l1 = l1  l2 = l2
  Threads = {t1, t2, t3}
  Locks = {l1, l2}
  MaxReads = 1
  NULL = NULL
SPECIFICATION FairSpec
CHECK_DEADLOCK FALSE
INVARIANTS WriterAlone CountsAgree NoLostWakeup
PROPERTY FreeLockTaken
