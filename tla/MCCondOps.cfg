CONSTANTS
  t1 = t1  t2 = t2  t3 = t3  m1 = m1  m2 = m2  c1 = c1
  Threads = {t1, t2}
  Mutexes = {m1, m2}
  Conds = {c1}
  Type <- MixedTypes
  GuestPrograms <- AnyCalls
  MaxRecursion = 1
  MaxDeferWaiters = 1
  NULL = NULL
SPECIFICATION Spec
SYMMETRY ThreadSymmetry
CHECK_DEADLOCK FALSE
INVARIANTS TypeOK DepthAgrees NoLostWakeup
