CONSTANTS
  t1 = t1  t2 = t2  t3 = t3  m1 = m1  m2 = m2  c1 = c1
  Threads = {t1, t2}
  Mutexes = {m1}
  Conds = {c1}
  Type <- OneErrorCheck
  GuestPrograms <- TimedCalls
  MaxRecursion = 1
  MaxDeferWaiters = 1
  NULL = NULL
SPECIFICATION Spec

CHECK_DEADLOCK FALSE
INVARIANT NoStrayWake
