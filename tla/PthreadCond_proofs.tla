------------------------- MODULE PthreadCond_proofs -------------------------
(***************************************************************************)
(* Proofs about PthreadMutex and PthreadCond: type correctness, the guest's*)
(* view of every mutex, and mutual exclusion, for any sets of threads,     *)
(* mutexes and condition variables.  One lemma per action.                 *)
(***************************************************************************)
EXTENDS PthreadCond, FiniteSetTheorems, SequenceTheorems, TLAPS

\* The inductive invariant.
IInv == TypeOK /\ ControlInv /\ OwnerInv /\ DepthAgrees /\ QueueInv

\* The control points at which a thread holds m_lock without owning the mutex, or
\* is about to give up both.
Critical == {"own", "release", "waitUnlock"}

-----------------------------------------------------------------------------
\* Releasing semaphores keeps their counters natural numbers.
LEMMA ReleaseType ==
  ASSUME MutexTypeOK, NEW s \in Seq(Threads), ReleaseAll(s)
  PROVE  wakeSema' \in [Threads -> Nat]
<1>1. ASSUME NEW u \in Threads
      PROVE  Tokens(s, u) \in Nat
  <2>1. IsFiniteSet(1 .. Len(s))
    BY FS_Interval
  <2>2. {i \in DOMAIN s : s[i] = u} \subseteq 1 .. Len(s)
    OBVIOUS
  <2> QED BY <2>1, <2>2, FS_Subset, FS_CardinalityType DEF Tokens
<1> QED BY <1>1 DEF ReleaseAll, MutexTypeOK

\* Removing an element from a sequence.
LEMMA WithoutType ==
  ASSUME NEW S, NEW s \in Seq(S), NEW i \in 1 .. Len(s)
  PROVE  Without(s, i) \in Seq(S) /\ Len(Without(s, i)) = Len(s) - 1
BY DEF Without

\* A step that leaves the mutexes alone and moves threads only between control
\* points outside the acquisition and the release of a mutex.
LEMMA QuietStep ==
  ASSUME IInv, UNCHANGED <<mLock, mOwner, mCount, mx, call, recurse, depth>>,
         \A u \in Threads : \/ pc'[u] = pc[u]
                            \/ pc[u] \notin Critical /\ pc'[u] \notin Critical
  PROVE  OwnerInv' /\ DepthAgrees'
<1>1. OwnerInv'
  BY DEF IInv, OwnerInv, CountOK, OwnerOK, Critical
<1>2. DepthAgrees'
  BY DEF IInv, DepthAgrees, DepthOK, Suspended, Critical
<1> QED BY <1>1, <1>2

\* The same for a thread that is not in Wait and returns to the guest.
LEMMA QuietReturn ==
  ASSUME IInv, NEW t \in Threads,
         UNCHANGED <<mLock, mOwner, mCount, call, recurse, depth>>,
         call[t] = NULL, pc[t] \notin Critical, Return(t)
  PROVE  OwnerInv' /\ DepthAgrees'
<1> USE MutexAssumption
<1>1. OwnerInv'
  BY DEF IInv, TypeOK, MutexTypeOK, OwnerInv, CountOK, OwnerOK, Critical, Return, Goto
<1>2. DepthAgrees'
  BY SMTT(30) DEF IInv, TypeOK, MutexTypeOK, DepthAgrees, DepthOK, Suspended, Critical, Return, Goto
<1> QED BY <1>1, <1>2

\* What the invariant says of a thread running guest code.
LEMMA IdleFacts ==
  ASSUME IInv, NEW t \in Threads, pc[t] = "idle"
  PROVE  /\ mx[t] = NULL /\ call[t] = NULL /\ recurse[t] = 0 /\ ~willSleep[t]
         /\ wchan[t] = NULL
         /\ \A n \in Mutexes :
              /\ mLock[n] = t <=> mOwner[n] = t
              /\ depth[t][n] = IF mOwner[n] = t THEN mCount[n] + 1 ELSE 0
<1> USE MutexAssumption DEF IInv
<1>1. ControlOK(t)
  BY DEF ControlInv
<1>2. mx[t] = NULL /\ call[t] = NULL /\ recurse[t] = 0 /\ ~willSleep[t] /\ wchan[t] = NULL
  BY <1>1 DEF ControlOK, NoMutexPcs, WaitOnlyPcs, TypeOK, MutexTypeOK
<1>3. ASSUME NEW n \in Mutexes PROVE OwnerOK(t, n) /\ DepthOK(t, n)
  BY DEF OwnerInv, DepthAgrees
<1>4. ASSUME NEW n \in Mutexes
      PROVE  /\ mLock[n] = t <=> mOwner[n] = t
             /\ depth[t][n] = IF mOwner[n] = t THEN mCount[n] + 1 ELSE 0
  BY <1>2, <1>3 DEF OwnerOK, DepthOK, Suspended
<1> QED BY <1>2, <1>4

\* What it says of a thread that works on a mutex.
LEMMA BusyFacts ==
  ASSUME IInv, NEW t \in Threads, pc[t] \notin NoMutexPcs
  PROVE  /\ mx[t] \in Mutexes
         /\ ControlOK(t)
         /\ OwnerOK(t, mx[t]) /\ DepthOK(t, mx[t]) /\ CountOK(mx[t])
BY MutexAssumption DEF IInv, TypeOK, MutexTypeOK, ControlInv, ControlOK, OwnerInv, DepthAgrees

\* LockSelfRecursive keeps the invariant.
LEMMA LockSelfRecursiveInv ==
  ASSUME IInv, NEW t \in Threads, NEW m \in Mutexes, LockSelfRecursive(t, m), UNCHANGED condVars
  PROVE  IInv'
<1> USE MutexAssumption DEF LockSelfRecursive, Goto, objVars, wakeVars, ctlVars, condVars
<1>0. TypeOK /\ ControlInv /\ OwnerInv /\ DepthAgrees /\ QueueInv
  BY DEF IInv
<1>1. /\ mx[t] = NULL /\ call[t] = NULL /\ recurse[t] = 0 /\ ~willSleep[t]
      /\ wchan[t] = NULL
      /\ \A n \in Mutexes :
           /\ mLock[n] = t <=> mOwner[n] = t
           /\ depth[t][n] = IF mOwner[n] = t THEN mCount[n] + 1 ELSE 0
  BY IdleFacts
<1>c. depth[t][m] + 1 \in 0 .. MaxRecursion + 1
  BY <1>0, <1>1 DEF TypeOK, MutexTypeOK
<1>b. /\ depth' \in [Threads -> [Mutexes -> 0 .. MaxRecursion + 1]]
      /\ \A u \in Threads, n \in Mutexes :
           depth'[u][n] = IF u = t /\ n = m THEN depth[t][m] + 1 ELSE depth[u][n]
  BY <1>0, <1>c DEF TypeOK, MutexTypeOK
<1> USE <1>b
<1>2. ControlInv'
  <2> SUFFICES ASSUME NEW u \in Threads PROVE ControlOK(u)'
    BY DEF ControlInv
  <2>1. ControlOK(u)
    BY <1>0 DEF ControlInv
  <2>2. CASE u = t
    BY <1>0, <1>1, <2>1, <2>2 DEF TypeOK, MutexTypeOK, MutexPcs, CondPcs, ControlOK, NoMutexPcs, WaitOnlyPcs
  <2>3. CASE u # t
    BY <1>0, <2>1, <2>3 DEF TypeOK, MutexTypeOK, MutexPcs, CondPcs, ControlOK
  <2> QED BY <2>2, <2>3
<1>3. OwnerInv'
  <2>1. ASSUME NEW n \in Mutexes PROVE CountOK(n)'
    BY <1>0, <1>1 DEF TypeOK, MutexTypeOK, MutexPcs, CondPcs, OwnerInv, OwnerOK, CountOK
  <2>2. ASSUME NEW u \in Threads, NEW n \in Mutexes
        PROVE  OwnerOK(u, n)'
    <3>1. OwnerOK(u, n) /\ CountOK(n)
      BY <1>0 DEF OwnerInv
    <3>2. CASE u = t
      BY <1>0, <1>1, <3>1, <3>2 DEF TypeOK, MutexTypeOK, MutexPcs, CondPcs, OwnerOK, CountOK
    <3>3. CASE u # t
      BY <1>0, <1>1, <3>1, <3>3 DEF TypeOK, MutexTypeOK, MutexPcs, CondPcs, OwnerOK
    <3> QED BY <3>2, <3>3
  <2> QED BY <2>1, <2>2 DEF OwnerInv
<1>4. DepthAgrees'
  <2> SUFFICES ASSUME NEW u \in Threads, NEW n \in Mutexes
               PROVE  DepthOK(u, n)'
    BY DEF DepthAgrees
  <2>1. DepthOK(u, n) /\ OwnerOK(u, n) /\ CountOK(n)
    BY <1>0 DEF DepthAgrees, OwnerInv
  <2>2. CASE u = t
    BY <1>0, <1>1, <2>1, <2>2 DEF TypeOK, MutexTypeOK, MutexPcs, CondPcs, DepthOK, Suspended, OwnerOK, CountOK
  <2>3. CASE u # t
    BY SMTT(30), <1>0, <1>1, <2>1, <2>3 DEF TypeOK, MutexTypeOK, MutexPcs, CondPcs, DepthOK, Suspended, OwnerOK
  <2> QED BY <2>2, <2>3
<1>5. TypeOK'
  BY SMTT(30), <1>0, <1>1 DEF TypeOK, MutexTypeOK, MutexPcs, CondPcs
<1>6. QueueInv'
  BY <1>0 DEF QueueInv
<1> QED BY <1>2, <1>3, <1>4, <1>5, <1>6 DEF IInv

\* UnlockRecursive keeps the invariant.
LEMMA UnlockRecursiveInv ==
  ASSUME IInv, NEW t \in Threads, NEW m \in Mutexes, UnlockRecursive(t, m), UNCHANGED condVars
  PROVE  IInv'
<1> USE MutexAssumption DEF UnlockRecursive, Goto, objVars, wakeVars, ctlVars, condVars
<1>0. TypeOK /\ ControlInv /\ OwnerInv /\ DepthAgrees /\ QueueInv
  BY DEF IInv
<1>1. /\ mx[t] = NULL /\ call[t] = NULL /\ recurse[t] = 0 /\ ~willSleep[t]
      /\ wchan[t] = NULL
      /\ \A n \in Mutexes :
           /\ mLock[n] = t <=> mOwner[n] = t
           /\ depth[t][n] = IF mOwner[n] = t THEN mCount[n] + 1 ELSE 0
  BY IdleFacts
<1>b. /\ depth' \in [Threads -> [Mutexes -> 0 .. MaxRecursion + 1]]
      /\ \A u \in Threads, n \in Mutexes :
           depth'[u][n] = IF u = t /\ n = m THEN depth[t][m] - 1 ELSE depth[u][n]
  BY SMTT(30), <1>0, <1>1 DEF TypeOK, MutexTypeOK
<1> USE <1>b
<1>2. ControlInv'
  <2> SUFFICES ASSUME NEW u \in Threads PROVE ControlOK(u)'
    BY DEF ControlInv
  <2>1. ControlOK(u)
    BY <1>0 DEF ControlInv
  <2>2. CASE u = t
    BY <1>0, <1>1, <2>1, <2>2 DEF TypeOK, MutexTypeOK, MutexPcs, CondPcs, ControlOK, NoMutexPcs, WaitOnlyPcs
  <2>3. CASE u # t
    BY <1>0, <2>1, <2>3 DEF TypeOK, MutexTypeOK, MutexPcs, CondPcs, ControlOK
  <2> QED BY <2>2, <2>3
<1>3. OwnerInv'
  <2>1. ASSUME NEW n \in Mutexes PROVE CountOK(n)'
    BY SMTT(30), <1>0, <1>1 DEF TypeOK, MutexTypeOK, MutexPcs, CondPcs, OwnerInv, OwnerOK, CountOK
  <2>2. ASSUME NEW u \in Threads, NEW n \in Mutexes
        PROVE  OwnerOK(u, n)'
    <3>1. OwnerOK(u, n) /\ CountOK(n)
      BY <1>0 DEF OwnerInv
    <3>2. CASE u = t
      BY <1>0, <1>1, <3>1, <3>2 DEF TypeOK, MutexTypeOK, MutexPcs, CondPcs, OwnerOK, CountOK
    <3>3. CASE u # t
      BY <1>0, <1>1, <3>1, <3>3 DEF TypeOK, MutexTypeOK, MutexPcs, CondPcs, OwnerOK
    <3> QED BY <3>2, <3>3
  <2> QED BY <2>1, <2>2 DEF OwnerInv
<1>4. DepthAgrees'
  <2> SUFFICES ASSUME NEW u \in Threads, NEW n \in Mutexes
               PROVE  DepthOK(u, n)'
    BY DEF DepthAgrees
  <2>1. DepthOK(u, n) /\ OwnerOK(u, n) /\ CountOK(n)
    BY <1>0 DEF DepthAgrees, OwnerInv
  <2>2. CASE u = t
    BY SMTT(30), <1>0, <1>1, <2>1, <2>2 DEF TypeOK, MutexTypeOK, MutexPcs, CondPcs, DepthOK, Suspended, OwnerOK, CountOK
  <2>3. CASE u # t
    BY SMTT(30), <1>0, <1>1, <2>1, <2>3 DEF TypeOK, MutexTypeOK, DepthOK, Suspended, OwnerOK
  <2> QED BY <2>2, <2>3
<1>5. TypeOK'
  <2>1. mCount' \in [Mutexes -> 0 .. MaxRecursion]
    BY <1>0 DEF TypeOK, MutexTypeOK
  <2>2. MutexTypeOK'
    BY <1>0, <2>1 DEF TypeOK, MutexTypeOK
  <2> QED BY <1>0, <2>2 DEF TypeOK
<1>6. QueueInv'
  BY <1>0 DEF QueueInv
<1> QED BY <1>2, <1>3, <1>4, <1>5, <1>6 DEF IInv

\* LockBegin keeps the invariant.
LEMMA LockBeginInv ==
  ASSUME IInv, NEW t \in Threads, NEW m \in Mutexes, NEW b \in BOOLEAN, LockBegin(t, m, b), UNCHANGED condVars
  PROVE  IInv'
<1> USE MutexAssumption DEF LockBegin, Goto, CheckAndInit, objVars, wakeVars, ctlVars, condVars
<1>0. TypeOK /\ ControlInv /\ OwnerInv /\ DepthAgrees /\ QueueInv
  BY DEF IInv
<1>1. /\ mx[t] = NULL /\ call[t] = NULL /\ recurse[t] = 0 /\ ~willSleep[t]
      /\ wchan[t] = NULL
      /\ \A n \in Mutexes :
           /\ mLock[n] = t <=> mOwner[n] = t
           /\ depth[t][n] = IF mOwner[n] = t THEN mCount[n] + 1 ELSE 0
  BY IdleFacts
<1>2. ControlInv'
  <2> SUFFICES ASSUME NEW u \in Threads PROVE ControlOK(u)'
    BY DEF ControlInv
  <2>1. ControlOK(u)
    BY <1>0 DEF ControlInv
  <2>2. CASE u = t
    BY <1>0, <1>1, <2>1, <2>2 DEF TypeOK, MutexTypeOK, MutexPcs, CondPcs, ControlOK, NoMutexPcs, WaitOnlyPcs
  <2>3. CASE u # t
    BY <1>0, <2>1, <2>3 DEF TypeOK, MutexTypeOK, MutexPcs, CondPcs, ControlOK
  <2> QED BY <2>2, <2>3
<1>3. OwnerInv'
  <2>1. ASSUME NEW n \in Mutexes PROVE CountOK(n)'
    BY <1>0, <1>1 DEF TypeOK, MutexTypeOK, MutexPcs, CondPcs, OwnerInv, OwnerOK, CountOK
  <2>2. ASSUME NEW u \in Threads, NEW n \in Mutexes
        PROVE  OwnerOK(u, n)'
    <3>1. OwnerOK(u, n) /\ CountOK(n)
      BY <1>0 DEF OwnerInv
    <3>2. CASE u = t
      BY <1>0, <1>1, <3>1, <3>2 DEF TypeOK, MutexTypeOK, MutexPcs, CondPcs, OwnerOK, CountOK
    <3>3. CASE u # t
      BY <1>0, <1>1, <3>1, <3>3 DEF TypeOK, MutexTypeOK, MutexPcs, CondPcs, OwnerOK
    <3> QED BY <3>2, <3>3
  <2> QED BY <2>1, <2>2 DEF OwnerInv
<1>4. DepthAgrees'
  <2> SUFFICES ASSUME NEW u \in Threads, NEW n \in Mutexes
               PROVE  DepthOK(u, n)'
    BY DEF DepthAgrees
  <2>1. DepthOK(u, n) /\ OwnerOK(u, n) /\ CountOK(n)
    BY <1>0 DEF DepthAgrees, OwnerInv
  <2>2. CASE u = t
    BY <1>0, <1>1, <2>1, <2>2 DEF TypeOK, MutexTypeOK, MutexPcs, CondPcs, DepthOK, Suspended, OwnerOK, CountOK
  <2>3. CASE u # t
    BY <1>0, <1>1, <2>1, <2>3 DEF TypeOK, MutexTypeOK, MutexPcs, CondPcs, DepthOK, Suspended, OwnerOK
  <2> QED BY <2>2, <2>3
<1>5. TypeOK'
  BY <1>0, <1>1 DEF TypeOK, MutexTypeOK, MutexPcs, CondPcs
<1>6. QueueInv'
  BY <1>0 DEF QueueInv
<1> QED BY <1>2, <1>3, <1>4, <1>5, <1>6 DEF IInv

\* TryLock keeps the invariant.
LEMMA TryLockInv ==
  ASSUME IInv, NEW t \in Threads, NEW m \in Mutexes, TryLock(t, m), UNCHANGED condVars
  PROVE  IInv'
<1> USE MutexAssumption DEF TryLock, Goto, CheckAndInit, objVars, wakeVars, ctlVars, condVars
<1>0. TypeOK /\ ControlInv /\ OwnerInv /\ DepthAgrees /\ QueueInv
  BY DEF IInv
<1>1. /\ mx[t] = NULL /\ call[t] = NULL /\ recurse[t] = 0 /\ ~willSleep[t]
      /\ wchan[t] = NULL
      /\ \A n \in Mutexes :
           /\ mLock[n] = t <=> mOwner[n] = t
           /\ depth[t][n] = IF mOwner[n] = t THEN mCount[n] + 1 ELSE 0
  BY IdleFacts
<1>2. ControlInv'
  <2> SUFFICES ASSUME NEW u \in Threads PROVE ControlOK(u)'
    BY DEF ControlInv
  <2>1. ControlOK(u)
    BY <1>0 DEF ControlInv
  <2>2. CASE u = t
    BY <1>0, <1>1, <2>1, <2>2 DEF TypeOK, MutexTypeOK, MutexPcs, CondPcs, ControlOK, NoMutexPcs, WaitOnlyPcs
  <2>3. CASE u # t
    BY <1>0, <2>1, <2>3 DEF TypeOK, MutexTypeOK, MutexPcs, CondPcs, ControlOK
  <2> QED BY <2>2, <2>3
<1>3. OwnerInv'
  <2>1. ASSUME NEW n \in Mutexes PROVE CountOK(n)'
    BY <1>0, <1>1 DEF TypeOK, MutexTypeOK, MutexPcs, CondPcs, OwnerInv, OwnerOK, CountOK
  <2>2. ASSUME NEW u \in Threads, NEW n \in Mutexes
        PROVE  OwnerOK(u, n)'
    <3>1. OwnerOK(u, n) /\ CountOK(n)
      BY <1>0 DEF OwnerInv
    <3>2. CASE u = t
      BY <1>0, <1>1, <3>1, <3>2 DEF TypeOK, MutexTypeOK, MutexPcs, CondPcs, OwnerOK, CountOK
    <3>3. CASE u # t
      BY SMTT(30), <1>0, <1>1, <3>1, <3>3 DEF TypeOK, MutexTypeOK, MutexPcs, CondPcs, OwnerOK
    <3> QED BY <3>2, <3>3
  <2> QED BY <2>1, <2>2 DEF OwnerInv
<1>4. DepthAgrees'
  <2> SUFFICES ASSUME NEW u \in Threads, NEW n \in Mutexes
               PROVE  DepthOK(u, n)'
    BY DEF DepthAgrees
  <2>1. DepthOK(u, n) /\ OwnerOK(u, n) /\ CountOK(n)
    BY <1>0 DEF DepthAgrees, OwnerInv
  <2>2. CASE u = t
    BY <1>0, <1>1, <2>1, <2>2 DEF TypeOK, MutexTypeOK, MutexPcs, CondPcs, DepthOK, Suspended, OwnerOK, CountOK
  <2>3. CASE u # t
    BY <1>0, <1>1, <2>1, <2>3 DEF TypeOK, MutexTypeOK, MutexPcs, CondPcs, DepthOK, Suspended, OwnerOK
  <2> QED BY <2>2, <2>3
<1>5. TypeOK'
  BY <1>0, <1>1 DEF TypeOK, MutexTypeOK, MutexPcs, CondPcs
<1>6. QueueInv'
  BY <1>0 DEF QueueInv
<1> QED BY <1>2, <1>3, <1>4, <1>5, <1>6 DEF IInv

\* LockAcquire keeps the invariant.
LEMMA LockAcquireInv ==
  ASSUME IInv, NEW t \in Threads, LockAcquire(t), UNCHANGED condVars
  PROVE  IInv'
<1> USE MutexAssumption DEF LockAcquire, Goto, objVars, wakeVars, ctlVars, condVars
<1>0. TypeOK /\ ControlInv /\ OwnerInv /\ DepthAgrees /\ QueueInv
  BY DEF IInv
<1>1. /\ mx[t] \in Mutexes
      /\ ControlOK(t)
      /\ OwnerOK(t, mx[t]) /\ DepthOK(t, mx[t]) /\ CountOK(mx[t])
  BY BusyFacts DEF NoMutexPcs
<1>2. ControlInv'
  <2> SUFFICES ASSUME NEW u \in Threads PROVE ControlOK(u)'
    BY DEF ControlInv
  <2>1. ControlOK(u)
    BY <1>0 DEF ControlInv
  <2>2. CASE u = t
    BY <1>0, <1>1, <2>1, <2>2 DEF TypeOK, MutexTypeOK, MutexPcs, CondPcs, ControlOK, NoMutexPcs, WaitOnlyPcs
  <2>3. CASE u # t
    BY <1>0, <2>1, <2>3 DEF TypeOK, MutexTypeOK, MutexPcs, CondPcs, ControlOK
  <2> QED BY <2>2, <2>3
<1>3. OwnerInv'
  <2>1. ASSUME NEW n \in Mutexes PROVE CountOK(n)'
    BY <1>0, <1>1 DEF TypeOK, MutexTypeOK, MutexPcs, CondPcs, OwnerInv, OwnerOK, CountOK
  <2>2. ASSUME NEW u \in Threads, NEW n \in Mutexes
        PROVE  OwnerOK(u, n)'
    <3>1. OwnerOK(u, n) /\ CountOK(n)
      BY <1>0 DEF OwnerInv
    <3>2. CASE u = t
      BY <1>0, <1>1, <3>1, <3>2 DEF TypeOK, MutexTypeOK, MutexPcs, CondPcs, OwnerOK, CountOK
    <3>3. CASE u # t
      BY <1>0, <1>1, <3>1, <3>3 DEF TypeOK, MutexTypeOK, MutexPcs, CondPcs, OwnerOK
    <3> QED BY <3>2, <3>3
  <2> QED BY <2>1, <2>2 DEF OwnerInv
<1>4. DepthAgrees'
  <2> SUFFICES ASSUME NEW u \in Threads, NEW n \in Mutexes
               PROVE  DepthOK(u, n)'
    BY DEF DepthAgrees
  <2>1. DepthOK(u, n) /\ OwnerOK(u, n) /\ CountOK(n)
    BY <1>0 DEF DepthAgrees, OwnerInv
  <2>2. CASE u = t
    BY <1>0, <1>1, <2>1, <2>2 DEF TypeOK, MutexTypeOK, MutexPcs, CondPcs, DepthOK, Suspended, OwnerOK, CountOK
  <2>3. CASE u # t
    BY <1>0, <1>1, <2>1, <2>3 DEF TypeOK, MutexTypeOK, MutexPcs, CondPcs, DepthOK, Suspended, OwnerOK
  <2> QED BY <2>2, <2>3
<1>5. TypeOK'
  BY <1>0, <1>1 DEF TypeOK, MutexTypeOK, MutexPcs, CondPcs
<1>6. QueueInv'
  BY <1>0 DEF QueueInv
<1> QED BY <1>2, <1>3, <1>4, <1>5, <1>6 DEF IInv

\* SetOwner keeps the invariant.
LEMMA SetOwnerInv ==
  ASSUME IInv, NEW t \in Threads, SetOwner(t), UNCHANGED condVars
  PROVE  IInv'
<1> USE MutexAssumption DEF SetOwner, Goto, Return, objVars, wakeVars, ctlVars, condVars
<1>0. TypeOK /\ ControlInv /\ OwnerInv /\ DepthAgrees /\ QueueInv
  BY DEF IInv
<1>1. /\ mx[t] \in Mutexes
      /\ ControlOK(t)
      /\ OwnerOK(t, mx[t]) /\ DepthOK(t, mx[t]) /\ CountOK(mx[t])
  BY BusyFacts DEF NoMutexPcs
<1>b. /\ depth' \in [Threads -> [Mutexes -> 0 .. MaxRecursion + 1]]
      /\ \A u \in Threads, n \in Mutexes :
           depth'[u][n] = IF u = t /\ n = mx[t] /\ call[t] = NULL
                            THEN 1 ELSE depth[u][n]
  <2>1. CASE call[t] = NULL
    BY SMTT(30), <1>0, <1>1, <2>1 DEF TypeOK, MutexTypeOK
  <2>2. CASE call[t] # NULL
    BY <1>0, <1>1, <2>2 DEF TypeOK, MutexTypeOK
  <2> QED BY <2>1, <2>2
<1>c. mOwner[mx[t]] = NULL
  <2>1. mOwner[mx[t]] # t /\ mLock[mx[t]] = t
    BY <1>1 DEF OwnerOK
  <2>2. ASSUME NEW u \in Threads, mOwner[mx[t]] = u PROVE mLock[mx[t]] = u
    BY <1>0, <1>1, <2>2 DEF OwnerInv, OwnerOK
  <2> QED BY <1>0, <1>1, <2>1, <2>2 DEF TypeOK, MutexTypeOK
<1> USE <1>1, <1>b, <1>c
<1>2. ControlInv'
  <2> SUFFICES ASSUME NEW u \in Threads PROVE ControlOK(u)'
    BY DEF ControlInv
  <2>1. ControlOK(u)
    BY <1>0 DEF ControlInv
  <2>2. CASE u = t
    BY <1>0, <2>1, <2>2 DEF TypeOK, MutexTypeOK, MutexPcs, CondPcs, ControlOK, NoMutexPcs, WaitOnlyPcs
  <2>3. CASE u # t
    BY <1>0, <2>1, <2>3 DEF TypeOK, MutexTypeOK, MutexPcs, CondPcs, ControlOK
  <2> QED BY <2>2, <2>3
<1>3. OwnerInv'
  <2>1. ASSUME NEW n \in Mutexes PROVE CountOK(n)'
    BY <1>0, <1>1 DEF TypeOK, MutexTypeOK, MutexPcs, CondPcs, OwnerInv, OwnerOK, CountOK
  <2>2. ASSUME NEW u \in Threads, NEW n \in Mutexes
        PROVE  OwnerOK(u, n)'
    <3>1. OwnerOK(u, n) /\ CountOK(n)
      BY <1>0 DEF OwnerInv
    <3>2. CASE u = t
      BY <1>0, <3>1, <3>2 DEF TypeOK, MutexTypeOK, MutexPcs, CondPcs, OwnerOK, CountOK
    <3>3. CASE u # t
      BY <1>0, <3>1, <3>3 DEF TypeOK, MutexTypeOK, MutexPcs, CondPcs, OwnerOK
    <3> QED BY <3>2, <3>3
  <2> QED BY <2>1, <2>2 DEF OwnerInv
<1>4. DepthAgrees'
  <2> SUFFICES ASSUME NEW u \in Threads, NEW n \in Mutexes
               PROVE  DepthOK(u, n)'
    BY DEF DepthAgrees
  <2>1. DepthOK(u, n) /\ OwnerOK(u, n) /\ CountOK(n)
    BY <1>0 DEF DepthAgrees, OwnerInv
  <2>2. CASE u = t
    <3>1. CASE call[t] = NULL
      BY <1>0, <2>1, <2>2, <3>1 DEF TypeOK, MutexTypeOK, MutexPcs, CondPcs, DepthOK, Suspended, OwnerOK, CountOK
    <3>2. CASE call[t] # NULL
      BY <1>0, <2>1, <2>2, <3>2 DEF TypeOK, MutexTypeOK, MutexPcs, CondPcs, DepthOK, Suspended, OwnerOK, CountOK
    <3> QED BY <3>1, <3>2
  <2>3. CASE u # t
    BY SMTT(30), <1>0, <2>1, <2>3 DEF TypeOK, MutexTypeOK, MutexPcs, CondPcs, DepthOK, Suspended, OwnerOK
  <2> QED BY <2>2, <2>3
<1>5. TypeOK'
  <2>1. mCount' \in [Mutexes -> 0 .. MaxRecursion]
    BY <1>0 DEF TypeOK, MutexTypeOK
  <2>2. /\ mOwner' \in [Mutexes -> Threads \union {NULL}]
        /\ recurse' \in [Threads -> 0 .. MaxRecursion]
        /\ call' \in [Threads -> Conds \union {NULL}]
        /\ mx' \in [Threads -> Mutexes \union {NULL}]
        /\ timed' \in [Threads -> BOOLEAN]
        /\ pc' \in [Threads -> MutexPcs \union CondPcs]
    BY <1>0 DEF TypeOK, MutexTypeOK, MutexPcs
  <2> QED BY <1>0, <1>b, <2>1, <2>2 DEF TypeOK, MutexTypeOK, MutexPcs, CondPcs
<1>6. QueueInv'
  BY <1>0 DEF QueueInv
<1> QED BY <1>2, <1>3, <1>4, <1>5, <1>6 DEF IInv

\* UnlockBegin keeps the invariant.
LEMMA UnlockBeginInv ==
  ASSUME IInv, NEW t \in Threads, NEW m \in Mutexes, UnlockBegin(t, m), UNCHANGED condVars
  PROVE  IInv'
<1> USE MutexAssumption DEF UnlockBegin, Goto, DropOwner, objVars, wakeVars, ctlVars, condVars
<1>0. TypeOK /\ ControlInv /\ OwnerInv /\ DepthAgrees /\ QueueInv
  BY DEF IInv
<1>1. /\ mx[t] = NULL /\ call[t] = NULL /\ recurse[t] = 0 /\ ~willSleep[t]
      /\ wchan[t] = NULL
      /\ \A n \in Mutexes :
           /\ mLock[n] = t <=> mOwner[n] = t
           /\ depth[t][n] = IF mOwner[n] = t THEN mCount[n] + 1 ELSE 0
  BY IdleFacts
<1>b. /\ depth' \in [Threads -> [Mutexes -> 0 .. MaxRecursion + 1]]
      /\ \A u \in Threads, n \in Mutexes :
           depth'[u][n] = IF u = t /\ n = m THEN 0 ELSE depth[u][n]
  BY <1>0, <1>1 DEF TypeOK, MutexTypeOK
<1> USE <1>b
<1>2. ControlInv'
  <2> SUFFICES ASSUME NEW u \in Threads PROVE ControlOK(u)'
    BY DEF ControlInv
  <2>1. ControlOK(u)
    BY <1>0 DEF ControlInv
  <2>2. CASE u = t
    BY <1>0, <1>1, <2>1, <2>2 DEF TypeOK, MutexTypeOK, MutexPcs, CondPcs, ControlOK, NoMutexPcs, WaitOnlyPcs
  <2>3. CASE u # t
    BY <1>0, <2>1, <2>3 DEF TypeOK, MutexTypeOK, MutexPcs, CondPcs, ControlOK
  <2> QED BY <2>2, <2>3
<1>3. OwnerInv'
  <2>1. ASSUME NEW n \in Mutexes PROVE CountOK(n)'
    BY <1>0, <1>1 DEF TypeOK, MutexTypeOK, MutexPcs, CondPcs, OwnerInv, OwnerOK, CountOK
  <2>2. ASSUME NEW u \in Threads, NEW n \in Mutexes
        PROVE  OwnerOK(u, n)'
    <3>1. OwnerOK(u, n) /\ CountOK(n)
      BY <1>0 DEF OwnerInv
    <3>2. CASE u = t
      BY SMTT(30), <1>0, <1>1, <3>1, <3>2 DEF TypeOK, MutexTypeOK, MutexPcs, CondPcs, OwnerOK, CountOK
    <3>3. CASE u # t
      BY SMTT(30), <1>0, <1>1, <3>1, <3>3 DEF TypeOK, MutexTypeOK, MutexPcs, CondPcs, OwnerOK
    <3> QED BY <3>2, <3>3
  <2> QED BY <2>1, <2>2 DEF OwnerInv
<1>4. DepthAgrees'
  <2> SUFFICES ASSUME NEW u \in Threads, NEW n \in Mutexes
               PROVE  DepthOK(u, n)'
    BY DEF DepthAgrees
  <2>1. DepthOK(u, n) /\ OwnerOK(u, n) /\ CountOK(n)
    BY <1>0 DEF DepthAgrees, OwnerInv
  <2>2. CASE u = t
    BY SMTT(30), <1>0, <1>1, <2>1, <2>2 DEF TypeOK, MutexTypeOK, MutexPcs, CondPcs, DepthOK, Suspended, OwnerOK, CountOK
  <2>3. CASE u # t
    BY SMTT(30), <1>0, <1>1, <2>1, <2>3 DEF TypeOK, MutexTypeOK, MutexPcs, CondPcs, DepthOK, Suspended, OwnerOK
  <2> QED BY <2>2, <2>3
<1>5. TypeOK'
  BY <1>0, <1>1 DEF TypeOK, MutexTypeOK, MutexPcs, CondPcs
<1>6. QueueInv'
  BY <1>0 DEF QueueInv
<1> QED BY <1>2, <1>3, <1>4, <1>5, <1>6 DEF IInv

\* UnlockRelease keeps the invariant.
LEMMA UnlockReleaseInv ==
  ASSUME IInv, NEW t \in Threads, UnlockRelease(t), UNCHANGED condVars
  PROVE  IInv'
<1> USE MutexAssumption DEF UnlockRelease, Goto, Return, objVars, wakeVars, condVars
<1>0. TypeOK /\ ControlInv /\ OwnerInv /\ DepthAgrees /\ QueueInv
  BY DEF IInv
<1>1. /\ mx[t] \in Mutexes
      /\ ControlOK(t)
      /\ OwnerOK(t, mx[t]) /\ DepthOK(t, mx[t]) /\ CountOK(mx[t])
  BY BusyFacts DEF NoMutexPcs
<1> PICK l \in {"wakeAll", "idle", "waitAdd"} :
      /\ pc' = [pc EXCEPT ![t] = l]
      /\ mx' = [mx EXCEPT ![t] = IF l = "idle" THEN NULL ELSE mx[t]]
      /\ timed' = [timed EXCEPT ![t] = IF l = "idle" THEN FALSE ELSE timed[t]]
      /\ l = "waitAdd" <=> call[t] # NULL
  BY <1>0, <1>1 DEF TypeOK, MutexTypeOK, ControlOK, NoMutexPcs
<1> HIDE DEF UnlockRelease
<1>a. /\ mLock' = [mLock EXCEPT ![mx[t]] = NULL]
      /\ deferred' = [deferred EXCEPT ![t] = FALSE]
      /\ pc[t] = "release"
      /\ UNCHANGED <<slot, mOwner, mCount, mDeferred, wakeVars, call, recurse, depth>>
  BY DEF UnlockRelease
<1> USE <1>a
<1>2. ControlInv'
  <2> SUFFICES ASSUME NEW u \in Threads PROVE ControlOK(u)'
    BY DEF ControlInv
  <2>1. ControlOK(u)
    BY <1>0 DEF ControlInv
  <2>2. CASE u = t
    BY <1>0, <1>1, <2>1, <2>2 DEF TypeOK, MutexTypeOK, MutexPcs, CondPcs, ControlOK, NoMutexPcs, WaitOnlyPcs
  <2>3. CASE u # t
    BY <1>0, <2>1, <2>3 DEF TypeOK, MutexTypeOK, MutexPcs, CondPcs, ControlOK
  <2> QED BY <2>2, <2>3
<1>3. OwnerInv'
  <2>1. ASSUME NEW n \in Mutexes PROVE CountOK(n)'
    BY <1>0, <1>1 DEF TypeOK, MutexTypeOK, MutexPcs, CondPcs, OwnerInv, OwnerOK, CountOK
  <2>2. ASSUME NEW u \in Threads, NEW n \in Mutexes
        PROVE  OwnerOK(u, n)'
    <3>1. OwnerOK(u, n) /\ CountOK(n)
      BY <1>0 DEF OwnerInv
    <3>2. CASE u = t
      BY <1>0, <1>1, <3>1, <3>2 DEF TypeOK, MutexTypeOK, MutexPcs, CondPcs, OwnerOK, CountOK
    <3>3. CASE u # t
      BY <1>0, <1>1, <3>1, <3>3 DEF TypeOK, MutexTypeOK, MutexPcs, CondPcs, OwnerOK
    <3> QED BY <3>2, <3>3
  <2> QED BY <2>1, <2>2 DEF OwnerInv
<1>4. DepthAgrees'
  <2> SUFFICES ASSUME NEW u \in Threads, NEW n \in Mutexes
               PROVE  DepthOK(u, n)'
    BY DEF DepthAgrees
  <2>1. DepthOK(u, n) /\ OwnerOK(u, n) /\ CountOK(n)
    BY <1>0 DEF DepthAgrees, OwnerInv
  <2>2. CASE u = t
    BY <1>0, <1>1, <2>1, <2>2 DEF TypeOK, MutexTypeOK, MutexPcs, CondPcs, DepthOK, Suspended, OwnerOK, CountOK
  <2>3. CASE u # t
    BY <1>0, <1>1, <2>1, <2>3 DEF TypeOK, MutexTypeOK, MutexPcs, CondPcs, DepthOK, Suspended, OwnerOK
  <2> QED BY <2>2, <2>3
<1>5. TypeOK'
  BY <1>0, <1>1 DEF TypeOK, MutexTypeOK, MutexPcs, CondPcs
<1>6. QueueInv'
  BY <1>0 DEF QueueInv
<1> QED BY <1>2, <1>3, <1>4, <1>5, <1>6 DEF IInv

\* WaitBegin keeps the invariant.
LEMMA WaitBeginInv ==
  ASSUME IInv, NEW t \in Threads, NEW c \in Conds, NEW m \in Mutexes, NEW b \in BOOLEAN, WaitBegin(t, c, m, b)
  PROVE  IInv'
<1> USE MutexAssumption DEF WaitBegin, Goto, objVars, wakeVars, ctlVars, condVars
<1>0. TypeOK /\ ControlInv /\ OwnerInv /\ DepthAgrees /\ QueueInv
  BY DEF IInv
<1>1. /\ mx[t] = NULL /\ call[t] = NULL /\ recurse[t] = 0 /\ ~willSleep[t]
      /\ wchan[t] = NULL
      /\ \A n \in Mutexes :
           /\ mLock[n] = t <=> mOwner[n] = t
           /\ depth[t][n] = IF mOwner[n] = t THEN mCount[n] + 1 ELSE 0
  BY IdleFacts
<1>2. ControlInv'
  <2> SUFFICES ASSUME NEW u \in Threads PROVE ControlOK(u)'
    BY DEF ControlInv
  <2>1. ControlOK(u)
    BY <1>0 DEF ControlInv
  <2>2. CASE u = t
    BY <1>0, <1>1, <2>1, <2>2 DEF TypeOK, MutexTypeOK, MutexPcs, CondPcs, ControlOK, NoMutexPcs, WaitOnlyPcs
  <2>3. CASE u # t
    BY <1>0, <2>1, <2>3 DEF TypeOK, MutexTypeOK, MutexPcs, CondPcs, ControlOK
  <2> QED BY <2>2, <2>3
<1>3. OwnerInv'
  <2>1. ASSUME NEW n \in Mutexes PROVE CountOK(n)'
    BY <1>0, <1>1 DEF TypeOK, MutexTypeOK, MutexPcs, CondPcs, OwnerInv, OwnerOK, CountOK
  <2>2. ASSUME NEW u \in Threads, NEW n \in Mutexes
        PROVE  OwnerOK(u, n)'
    <3>1. OwnerOK(u, n) /\ CountOK(n)
      BY <1>0 DEF OwnerInv
    <3>2. CASE u = t
      BY <1>0, <1>1, <3>1, <3>2 DEF TypeOK, MutexTypeOK, MutexPcs, CondPcs, OwnerOK, CountOK
    <3>3. CASE u # t
      BY <1>0, <1>1, <3>1, <3>3 DEF TypeOK, MutexTypeOK, MutexPcs, CondPcs, OwnerOK
    <3> QED BY <3>2, <3>3
  <2> QED BY <2>1, <2>2 DEF OwnerInv
<1>4. DepthAgrees'
  <2> SUFFICES ASSUME NEW u \in Threads, NEW n \in Mutexes
               PROVE  DepthOK(u, n)'
    BY DEF DepthAgrees
  <2>1. DepthOK(u, n) /\ OwnerOK(u, n) /\ CountOK(n)
    BY <1>0 DEF DepthAgrees, OwnerInv
  <2>2. CASE u = t
    BY <1>0, <1>1, <2>1, <2>2 DEF TypeOK, MutexTypeOK, MutexPcs, CondPcs, DepthOK, Suspended, OwnerOK, CountOK
  <2>3. CASE u # t
    BY <1>0, <1>1, <2>1, <2>3 DEF TypeOK, MutexTypeOK, MutexPcs, CondPcs, DepthOK, Suspended, OwnerOK
  <2> QED BY <2>2, <2>3
<1>5. TypeOK'
  BY <1>0, <1>1 DEF TypeOK, MutexTypeOK, MutexPcs, CondPcs
<1>6. QueueInv'
  BY <1>0 DEF QueueInv
<1> QED BY <1>2, <1>3, <1>4, <1>5, <1>6 DEF IInv

\* WaitCvUnlock keeps the invariant.
LEMMA WaitCvUnlockInv ==
  ASSUME IInv, NEW t \in Threads, WaitCvUnlock(t)
  PROVE  IInv'
<1> USE MutexAssumption DEF WaitCvUnlock, Goto, DropOwner, objVars, wakeVars, ctlVars, condVars
<1>0. TypeOK /\ ControlInv /\ OwnerInv /\ DepthAgrees /\ QueueInv
  BY DEF IInv
<1>1. /\ mx[t] \in Mutexes
      /\ ControlOK(t)
      /\ OwnerOK(t, mx[t]) /\ DepthOK(t, mx[t]) /\ CountOK(mx[t])
  BY BusyFacts DEF NoMutexPcs
<1>2. ControlInv'
  <2> SUFFICES ASSUME NEW u \in Threads PROVE ControlOK(u)'
    BY DEF ControlInv
  <2>1. ControlOK(u)
    BY <1>0 DEF ControlInv
  <2>2. CASE u = t
    BY <1>0, <1>1, <2>1, <2>2 DEF TypeOK, MutexTypeOK, MutexPcs, CondPcs, ControlOK, NoMutexPcs, WaitOnlyPcs
  <2>3. CASE u # t
    BY <1>0, <2>1, <2>3 DEF TypeOK, MutexTypeOK, MutexPcs, CondPcs, ControlOK
  <2> QED BY <2>2, <2>3
<1>3. OwnerInv'
  <2>1. ASSUME NEW n \in Mutexes PROVE CountOK(n)'
    BY <1>0, <1>1 DEF TypeOK, MutexTypeOK, MutexPcs, CondPcs, OwnerInv, OwnerOK, CountOK
  <2>2. ASSUME NEW u \in Threads, NEW n \in Mutexes
        PROVE  OwnerOK(u, n)'
    <3>1. OwnerOK(u, n) /\ CountOK(n)
      BY <1>0 DEF OwnerInv
    <3>2. CASE u = t
      BY <1>0, <1>1, <3>1, <3>2 DEF TypeOK, MutexTypeOK, MutexPcs, CondPcs, OwnerOK, CountOK
    <3>3. CASE u # t
      BY <1>0, <1>1, <3>1, <3>3 DEF TypeOK, MutexTypeOK, MutexPcs, CondPcs, OwnerOK
    <3> QED BY <3>2, <3>3
  <2> QED BY <2>1, <2>2 DEF OwnerInv
<1>4. DepthAgrees'
  <2> SUFFICES ASSUME NEW u \in Threads, NEW n \in Mutexes
               PROVE  DepthOK(u, n)'
    BY DEF DepthAgrees
  <2>1. DepthOK(u, n) /\ OwnerOK(u, n) /\ CountOK(n)
    BY <1>0 DEF DepthAgrees, OwnerInv
  <2>2. CASE u = t
    BY SMTT(30), <1>0, <1>1, <2>1, <2>2 DEF TypeOK, MutexTypeOK, MutexPcs, CondPcs, ControlOK, NoMutexPcs, WaitOnlyPcs,
                                  DepthOK, Suspended, OwnerOK, CountOK
  <2>3. CASE u # t
    BY <1>0, <1>1, <2>1, <2>3 DEF TypeOK, MutexTypeOK, MutexPcs, CondPcs, DepthOK, Suspended, OwnerOK
  <2> QED BY <2>2, <2>3
<1>5. TypeOK'
  <2>1. deferred' \in [Threads -> BOOLEAN] /\ mDeferred' \in [Mutexes -> BOOLEAN]
    BY <1>0, <1>1 DEF TypeOK, MutexTypeOK
  <2>2. recurse' \in [Threads -> 0 .. MaxRecursion] /\ mCount' \in [Mutexes -> 0 .. MaxRecursion]
    BY <1>0, <1>1 DEF TypeOK, MutexTypeOK
  <2> QED BY <1>0, <1>1, <2>1, <2>2 DEF TypeOK, MutexTypeOK, MutexPcs, CondPcs
<1>6. QueueInv'
  BY <1>0 DEF QueueInv
<1> QED BY <1>2, <1>3, <1>4, <1>5, <1>6 DEF IInv

-----------------------------------------------------------------------------
\* What taking a waiter off a queue leaves behind.
LEMMA SleepqRemoveFacts ==
  ASSUME TypeOK, QueueInv, NEW c \in Conds, NEW i \in DOMAIN blocked[c],
         SleepqRemove(c, i)
  PROVE  /\ blocked[c][i] \in Threads
         /\ blocked' \in [Conds -> Seq(Threads)]
         /\ sleepq' \in [Conds -> Seq(Threads)]
         /\ sleepqueue' \in [Threads -> Threads \union {NULL}]
         /\ wchan' \in [Threads -> Conds \union {NULL}]
         /\ hasUserWaiters' \in [Conds -> BOOLEAN]
         /\ QueueInv'
         /\ \A u \in Threads : wchan'[u] # NULL => wchan[u] # NULL
<1> DEFINE k == IF Len(blocked[c]) = 1 THEN 1 ELSE 2
<1>1. blocked[c] \in Seq(Threads) /\ sleepq[c] \in Seq(Threads)
  BY DEF TypeOK
<1>2. i \in 1 .. Len(blocked[c]) /\ k \in 1 .. Len(sleepq[c])
  <2>1. i \in 1 .. Len(blocked[c])
    BY <1>1
  <2>2. Len(sleepq[c]) = Len(blocked[c]) /\ Len(blocked[c]) \in Nat
    BY <1>1 DEF QueueInv
  <2>3. CASE Len(blocked[c]) = 1
    BY <2>1, <2>2, <2>3
  <2>4. CASE Len(blocked[c]) # 1
    <3>1. ASSUME NEW n \in Nat, NEW j \in 1 .. n, n # 1 PROVE 2 \in 1 .. n
      BY <3>1
    <3>2. k = 2
      BY <2>4
    <3>3. 2 \in 1 .. Len(blocked[c])
      BY <2>1, <2>2, <2>4, <3>1
    <3> QED BY <2>2, <3>2, <3>3
  <2> QED BY <2>3, <2>4
<1> HIDE DEF k
<1>3. /\ blocked[c][i] \in Threads /\ sleepq[c][k] \in Threads
      /\ Without(blocked[c], i) \in Seq(Threads)
      /\ Without(sleepq[c], k) \in Seq(Threads)
      /\ Len(Without(blocked[c], i)) = Len(Without(sleepq[c], k))
  <2>1. Len(sleepq[c]) = Len(blocked[c])
    BY DEF QueueInv
  <2>2. /\ Without(blocked[c], i) \in Seq(Threads)
        /\ Len(Without(blocked[c], i)) = Len(blocked[c]) - 1
    BY <1>1, <1>2, WithoutType
  <2>3. /\ Without(sleepq[c], k) \in Seq(Threads)
        /\ Len(Without(sleepq[c], k)) = Len(sleepq[c]) - 1
    BY <1>1, <1>2, WithoutType
  <2> QED BY <1>1, <1>2, <2>1, <2>2, <2>3
<1>4. /\ blocked' = [blocked EXCEPT ![c] = Without(blocked[c], i)]
      /\ sleepq' = [sleepq EXCEPT ![c] = Without(sleepq[c], k)]
      /\ sleepqueue' = [sleepqueue EXCEPT ![blocked[c][i]] = sleepq[c][k]]
      /\ wchan' = [wchan EXCEPT ![blocked[c][i]] = NULL]
      /\ hasUserWaiters' = [hasUserWaiters EXCEPT ![c] = ~(Len(blocked[c]) = 1)]
  BY DEF SleepqRemove, k
<1>5. QueueInv'
  BY MutexAssumption, <1>3, <1>4 DEF QueueInv, TypeOK
<1>6. hasUserWaiters' \in [Conds -> BOOLEAN]
  BY <1>4 DEF TypeOK
<1>7. /\ blocked' \in [Conds -> Seq(Threads)] /\ sleepq' \in [Conds -> Seq(Threads)]
      /\ sleepqueue' \in [Threads -> Threads \union {NULL}]
      /\ wchan' \in [Threads -> Conds \union {NULL}]
      /\ \A u \in Threads : wchan'[u] # NULL => wchan[u] # NULL
  BY <1>3, <1>4 DEF TypeOK
<1> QED BY <1>3, <1>5, <1>6, <1>7

\* What a wake-up, deferred or not, does to the lists.
LEMMA WakeOneFacts ==
  ASSUME TypeOK, NEW t \in Threads, NEW td \in Threads, WakeOne(t, td)
  PROVE  /\ wakeSema' \in [Threads -> Nat]
         /\ deferWaiters' \in [Threads -> Seq(Threads)]
         /\ mDeferred' \in [Mutexes -> BOOLEAN]
         /\ toRelease' \in [Threads -> Seq(Threads)]
         /\ \A u \in Threads : u # t => toRelease'[u] = toRelease[u]
         /\ mOwner[mutexObj[td]] # t => toRelease'[t] # << >>
<1> DEFINE Put(list) == IF Len(list) >= MaxDeferWaiters THEN <<td>> ELSE Append(list, td)
<1>1. ASSUME NEW list \in Seq(Threads)
      PROVE  Put(list) \in Seq(Threads) /\ Put(list) # << >>
  OBVIOUS
<1>2. deferWaiters[t] \in Seq(Threads) /\ toRelease[t] \in Seq(Threads)
  BY DEF TypeOK, MutexTypeOK
<1>3. Put(deferWaiters[t]) \in Seq(Threads) /\ Put(toRelease[t]) \in Seq(Threads)
      /\ Put(toRelease[t]) # << >>
  BY <1>1, <1>2
<1>4. CASE mOwner[mutexObj[td]] = t
  <2>1. /\ \/ ReleaseAll(deferWaiters[t]) \/ wakeSema' = wakeSema
        /\ deferWaiters' = [deferWaiters EXCEPT ![t] = Put(deferWaiters[t])]
        /\ mDeferred' = [mDeferred EXCEPT ![mutexObj[td]] = TRUE]
        /\ toRelease' = toRelease
    BY <1>4 DEF WakeOne
  <2> HIDE DEF Put
  <2>2. wakeSema' \in [Threads -> Nat]
    BY <1>2, <2>1, ReleaseType DEF TypeOK, MutexTypeOK
  <2> QED BY <1>3, <1>4, <2>1, <2>2 DEF TypeOK, MutexTypeOK
<1>5. CASE mOwner[mutexObj[td]] # t
  <2>1. /\ \/ ReleaseAll(toRelease[t]) \/ wakeSema' = wakeSema
        /\ toRelease' = [toRelease EXCEPT ![t] = Put(toRelease[t])]
        /\ mDeferred' = mDeferred /\ deferWaiters' = deferWaiters
    BY <1>5 DEF WakeOne
  <2> HIDE DEF Put
  <2>2. wakeSema' \in [Threads -> Nat]
    BY <1>2, <2>1, ReleaseType DEF TypeOK, MutexTypeOK
  <2> QED BY <1>3, <1>5, <2>1, <2>2 DEF TypeOK, MutexTypeOK
<1> QED BY <1>4, <1>5

\* LockSelfNormal keeps the invariant.
LEMMA LockSelfNormalInv ==
  ASSUME IInv, NEW t \in Threads, NEW m \in Mutexes, LockSelfNormal(t, m), UNCHANGED condVars
  PROVE  IInv'
<1> USE MutexAssumption DEF LockSelfNormal, Goto, objVars, wakeVars, ctlVars, condVars
<1>0. TypeOK /\ ControlInv /\ OwnerInv /\ DepthAgrees /\ QueueInv
  BY DEF IInv
<1>1. OwnerInv' /\ DepthAgrees'
  BY <1>0, QuietStep DEF TypeOK, MutexTypeOK, MutexPcs, CondPcs, Critical
<1>2. TypeOK'
  BY <1>0 DEF TypeOK, MutexTypeOK, MutexPcs, CondPcs
<1>3. ControlInv'
  <2> SUFFICES ASSUME NEW u \in Threads PROVE ControlOK(u)'
    BY DEF ControlInv
  <2>1. ControlOK(u) /\ ControlOK(t)
    BY <1>0 DEF ControlInv
  <2>2. CASE u = t
    BY <1>0, <2>1, <2>2 DEF TypeOK, MutexTypeOK, MutexPcs, CondPcs, ControlOK, NoMutexPcs, WaitOnlyPcs
  <2>3. CASE u # t
    BY <1>0, <2>1, <2>3 DEF TypeOK, MutexTypeOK, MutexPcs, CondPcs, ControlOK, NoMutexPcs, WaitOnlyPcs
  <2> QED BY <2>2, <2>3
<1>4. QueueInv'
  BY <1>0 DEF QueueInv
<1> QED BY <1>1, <1>2, <1>3, <1>4 DEF IInv

\* MutexInit keeps the invariant.
LEMMA MutexInitInv ==
  ASSUME IInv, NEW t \in Threads, NEW m \in Mutexes, MutexInit(t, m), UNCHANGED condVars
  PROVE  IInv'
<1> USE MutexAssumption DEF MutexInit, Goto, CheckAndInit, objVars, wakeVars, ctlVars, condVars
<1>0. TypeOK /\ ControlInv /\ OwnerInv /\ DepthAgrees /\ QueueInv
  BY DEF IInv
<1>1. OwnerInv' /\ DepthAgrees'
  BY <1>0, QuietStep DEF TypeOK, MutexTypeOK, MutexPcs, CondPcs, Critical
<1>2. TypeOK'
  BY <1>0 DEF TypeOK, MutexTypeOK, MutexPcs, CondPcs
<1>3. ControlInv'
  <2> SUFFICES ASSUME NEW u \in Threads PROVE ControlOK(u)'
    BY DEF ControlInv
  <2>1. ControlOK(u) /\ ControlOK(t)
    BY <1>0 DEF ControlInv
  <2>2. CASE u = t
    BY <1>0, <2>1, <2>2 DEF TypeOK, MutexTypeOK, MutexPcs, CondPcs, ControlOK, NoMutexPcs, WaitOnlyPcs
  <2>3. CASE u # t
    BY <1>0, <2>1, <2>3 DEF TypeOK, MutexTypeOK, MutexPcs, CondPcs, ControlOK, NoMutexPcs, WaitOnlyPcs
  <2> QED BY <2>2, <2>3
<1>4. QueueInv'
  BY <1>0 DEF QueueInv
<1> QED BY <1>1, <1>2, <1>3, <1>4 DEF IInv

\* MutexDestroy keeps the invariant.
LEMMA MutexDestroyInv ==
  ASSUME IInv, NEW t \in Threads, NEW m \in Mutexes, MutexDestroy(t, m), UNCHANGED condVars
  PROVE  IInv'
<1> USE MutexAssumption DEF MutexDestroy, Goto, objVars, wakeVars, ctlVars, condVars
<1>0. TypeOK /\ ControlInv /\ OwnerInv /\ DepthAgrees /\ QueueInv
  BY DEF IInv
<1>a. mCount' = mCount /\ mCount[m] = 0
  BY <1>0 DEF TypeOK, MutexTypeOK, OwnerInv, CountOK
<1>1. OwnerInv' /\ DepthAgrees'
  BY <1>0, <1>a, QuietStep DEF TypeOK, MutexTypeOK, MutexPcs, CondPcs, Critical
<1>2. TypeOK'
  BY <1>0, <1>a DEF TypeOK, MutexTypeOK, MutexPcs, CondPcs
<1>3. ControlInv'
  <2> SUFFICES ASSUME NEW u \in Threads PROVE ControlOK(u)'
    BY DEF ControlInv
  <2>1. ControlOK(u) /\ ControlOK(t)
    BY <1>0 DEF ControlInv
  <2>2. CASE u = t
    BY <1>0, <2>1, <2>2 DEF TypeOK, MutexTypeOK, MutexPcs, CondPcs, ControlOK, NoMutexPcs, WaitOnlyPcs
  <2>3. CASE u # t
    BY <1>0, <2>1, <2>3 DEF TypeOK, MutexTypeOK, MutexPcs, CondPcs, ControlOK, NoMutexPcs, WaitOnlyPcs
  <2> QED BY <2>2, <2>3
<1>4. QueueInv'
  BY <1>0 DEF QueueInv
<1> QED BY <1>1, <1>2, <1>3, <1>4 DEF IInv

\* LockTimeout keeps the invariant.
LEMMA LockTimeoutInv ==
  ASSUME IInv, NEW t \in Threads, LockTimeout(t), UNCHANGED condVars
  PROVE  IInv'
<1> USE MutexAssumption DEF LockTimeout, Goto, Return, objVars, wakeVars, ctlVars, condVars
<1>0. TypeOK /\ ControlInv /\ OwnerInv /\ DepthAgrees /\ QueueInv
  BY DEF IInv
<1>a. call[t] = NULL
  BY <1>0 DEF ControlInv, ControlOK
<1>1. OwnerInv' /\ DepthAgrees'
  BY <1>a, QuietReturn DEF Critical
<1>2. TypeOK'
  BY <1>0 DEF TypeOK, MutexTypeOK, MutexPcs, CondPcs
<1>3. ControlInv'
  <2> SUFFICES ASSUME NEW u \in Threads PROVE ControlOK(u)'
    BY DEF ControlInv
  <2>1. ControlOK(u) /\ ControlOK(t)
    BY <1>0 DEF ControlInv
  <2>2. CASE u = t
    BY <1>0, <2>1, <2>2 DEF TypeOK, MutexTypeOK, MutexPcs, CondPcs, ControlOK, NoMutexPcs, WaitOnlyPcs
  <2>3. CASE u # t
    BY <1>0, <2>1, <2>3 DEF TypeOK, MutexTypeOK, MutexPcs, CondPcs, ControlOK, NoMutexPcs, WaitOnlyPcs
  <2> QED BY <2>2, <2>3
<1>4. QueueInv'
  BY <1>0 DEF QueueInv
<1> QED BY <1>1, <1>2, <1>3, <1>4 DEF IInv

\* WaitSleep keeps the invariant.
LEMMA WaitSleepInv ==
  ASSUME IInv, NEW t \in Threads, WaitSleep(t)
  PROVE  IInv'
<1> USE MutexAssumption DEF WaitSleep, Goto, objVars, wakeVars, ctlVars, condVars
<1>0. TypeOK /\ ControlInv /\ OwnerInv /\ DepthAgrees /\ QueueInv
  BY DEF IInv
<1>1. OwnerInv' /\ DepthAgrees'
  BY <1>0, QuietStep DEF TypeOK, MutexTypeOK, MutexPcs, CondPcs, Critical
<1>2. TypeOK'
  BY <1>0 DEF TypeOK, MutexTypeOK, MutexPcs, CondPcs
<1>3. ControlInv'
  <2> SUFFICES ASSUME NEW u \in Threads PROVE ControlOK(u)'
    BY DEF ControlInv
  <2>1. ControlOK(u) /\ ControlOK(t)
    BY <1>0 DEF ControlInv
  <2>2. CASE u = t
    BY <1>0, <2>1, <2>2 DEF TypeOK, MutexTypeOK, MutexPcs, CondPcs, ControlOK, NoMutexPcs, WaitOnlyPcs
  <2>3. CASE u # t
    BY <1>0, <2>1, <2>3 DEF TypeOK, MutexTypeOK, MutexPcs, CondPcs, ControlOK, NoMutexPcs, WaitOnlyPcs
  <2> QED BY <2>2, <2>3
<1>4. QueueInv'
  BY <1>0 DEF QueueInv
<1> QED BY <1>1, <1>2, <1>3, <1>4 DEF IInv

\* WaitAcquire keeps the invariant.
LEMMA WaitAcquireInv ==
  ASSUME IInv, NEW t \in Threads, WaitAcquire(t)
  PROVE  IInv'
<1> USE MutexAssumption DEF WaitAcquire, Goto, objVars, wakeVars, ctlVars, condVars
<1>0. TypeOK /\ ControlInv /\ OwnerInv /\ DepthAgrees /\ QueueInv
  BY DEF IInv
<1>1. OwnerInv' /\ DepthAgrees'
  BY <1>0, QuietStep DEF TypeOK, MutexTypeOK, MutexPcs, CondPcs, Critical
<1>2. TypeOK'
  <2>1. wakeSema' \in [Threads -> Nat]
    BY <1>0 DEF TypeOK, MutexTypeOK
  <2> QED BY <1>0, <2>1 DEF TypeOK, MutexTypeOK, MutexPcs, CondPcs
<1>3. ControlInv'
  <2> SUFFICES ASSUME NEW u \in Threads PROVE ControlOK(u)'
    BY DEF ControlInv
  <2>1. ControlOK(u) /\ ControlOK(t)
    BY <1>0 DEF ControlInv
  <2>2. CASE u = t
    BY <1>0, <2>1, <2>2 DEF TypeOK, MutexTypeOK, MutexPcs, CondPcs, ControlOK, NoMutexPcs, WaitOnlyPcs
  <2>3. CASE u # t
    BY <1>0, <2>1, <2>3 DEF TypeOK, MutexTypeOK, MutexPcs, CondPcs, ControlOK, NoMutexPcs, WaitOnlyPcs
  <2> QED BY <2>2, <2>3
<1>4. QueueInv'
  BY <1>0 DEF QueueInv
<1> QED BY <1>1, <1>2, <1>3, <1>4 DEF IInv

\* WaitExpire keeps the invariant.
LEMMA WaitExpireInv ==
  ASSUME IInv, NEW t \in Threads, WaitExpire(t)
  PROVE  IInv'
<1> USE MutexAssumption DEF WaitExpire, Goto, objVars, wakeVars, ctlVars, condVars
<1>0. TypeOK /\ ControlInv /\ OwnerInv /\ DepthAgrees /\ QueueInv
  BY DEF IInv
<1>1. OwnerInv' /\ DepthAgrees'
  BY <1>0, QuietStep DEF TypeOK, MutexTypeOK, MutexPcs, CondPcs, Critical
<1>2. TypeOK'
  BY <1>0 DEF TypeOK, MutexTypeOK, MutexPcs, CondPcs
<1>3. ControlInv'
  <2> SUFFICES ASSUME NEW u \in Threads PROVE ControlOK(u)'
    BY DEF ControlInv
  <2>1. ControlOK(u) /\ ControlOK(t)
    BY <1>0 DEF ControlInv
  <2>2. CASE u = t
    BY <1>0, <2>1, <2>2 DEF TypeOK, MutexTypeOK, MutexPcs, CondPcs, ControlOK, NoMutexPcs, WaitOnlyPcs
  <2>3. CASE u # t
    BY <1>0, <2>1, <2>3 DEF TypeOK, MutexTypeOK, MutexPcs, CondPcs, ControlOK, NoMutexPcs, WaitOnlyPcs
  <2> QED BY <2>2, <2>3
<1>4. QueueInv'
  BY <1>0 DEF QueueInv
<1> QED BY <1>1, <1>2, <1>3, <1>4 DEF IInv

\* WaitRelock keeps the invariant.
LEMMA WaitRelockInv ==
  ASSUME IInv, NEW t \in Threads, WaitRelock(t)
  PROVE  IInv'
<1> USE MutexAssumption DEF WaitRelock, Goto, objVars, wakeVars, ctlVars, condVars
<1>0. TypeOK /\ ControlInv /\ OwnerInv /\ DepthAgrees /\ QueueInv
  BY DEF IInv
<1>1. OwnerInv' /\ DepthAgrees'
  BY <1>0, QuietStep DEF TypeOK, MutexTypeOK, MutexPcs, CondPcs, Critical
<1>2. TypeOK'
  BY <1>0 DEF TypeOK, MutexTypeOK, MutexPcs, CondPcs
<1>3. ControlInv'
  <2> SUFFICES ASSUME NEW u \in Threads PROVE ControlOK(u)'
    BY DEF ControlInv
  <2>1. ControlOK(u) /\ ControlOK(t)
    BY <1>0 DEF ControlInv
  <2>2. CASE u = t
    BY <1>0, <2>1, <2>2 DEF TypeOK, MutexTypeOK, MutexPcs, CondPcs, ControlOK, NoMutexPcs, WaitOnlyPcs
  <2>3. CASE u # t
    BY <1>0, <2>1, <2>3 DEF TypeOK, MutexTypeOK, MutexPcs, CondPcs, ControlOK, NoMutexPcs, WaitOnlyPcs
  <2> QED BY <2>2, <2>3
<1>4. QueueInv'
  BY <1>0 DEF QueueInv
<1> QED BY <1>1, <1>2, <1>3, <1>4 DEF IInv

\* CondSignalToUnqueued keeps the invariant.
LEMMA CondSignalToUnqueuedInv ==
  ASSUME IInv, NEW t \in Threads, NEW c \in Conds, NEW td \in Threads, CondSignalToUnqueued(t, c, td)
  PROVE  IInv'
<1> USE MutexAssumption DEF CondSignalToUnqueued, Goto, objVars, wakeVars, ctlVars, condVars
<1>0. TypeOK /\ ControlInv /\ OwnerInv /\ DepthAgrees /\ QueueInv
  BY DEF IInv
<1>1. OwnerInv' /\ DepthAgrees'
  BY <1>0, QuietStep DEF TypeOK, MutexTypeOK, MutexPcs, CondPcs, Critical
<1>2. TypeOK'
  BY <1>0 DEF TypeOK, MutexTypeOK, MutexPcs, CondPcs
<1>3. ControlInv'
  <2> SUFFICES ASSUME NEW u \in Threads PROVE ControlOK(u)'
    BY DEF ControlInv
  <2>1. ControlOK(u) /\ ControlOK(t)
    BY <1>0 DEF ControlInv
  <2>2. CASE u = t
    BY <1>0, <2>1, <2>2 DEF TypeOK, MutexTypeOK, MutexPcs, CondPcs, ControlOK, NoMutexPcs, WaitOnlyPcs
  <2>3. CASE u # t
    BY <1>0, <2>1, <2>3 DEF TypeOK, MutexTypeOK, MutexPcs, CondPcs, ControlOK, NoMutexPcs, WaitOnlyPcs
  <2> QED BY <2>2, <2>3
<1>4. QueueInv'
  BY <1>0 DEF QueueInv
<1> QED BY <1>1, <1>2, <1>3, <1>4 DEF IInv

\* CondBroadcast keeps the invariant.
LEMMA CondBroadcastInv ==
  ASSUME IInv, NEW t \in Threads, NEW c \in Conds, CondBroadcast(t, c)
  PROVE  IInv'
<1> USE MutexAssumption DEF CondBroadcast, Goto, objVars, wakeVars, ctlVars, condVars
<1>0. TypeOK /\ ControlInv /\ OwnerInv /\ DepthAgrees /\ QueueInv
  BY DEF IInv
<1>1. OwnerInv' /\ DepthAgrees'
  BY <1>0, QuietStep DEF TypeOK, MutexTypeOK, MutexPcs, CondPcs, Critical
<1>2. TypeOK'
  BY <1>0 DEF TypeOK, MutexTypeOK, MutexPcs, CondPcs
<1>3. ControlInv'
  <2> SUFFICES ASSUME NEW u \in Threads PROVE ControlOK(u)'
    BY DEF ControlInv
  <2>1. ControlOK(u) /\ ControlOK(t)
    BY <1>0 DEF ControlInv
  <2>2. CASE u = t
    BY <1>0, <2>1, <2>2 DEF TypeOK, MutexTypeOK, MutexPcs, CondPcs, ControlOK, NoMutexPcs, WaitOnlyPcs
  <2>3. CASE u # t
    BY <1>0, <2>1, <2>3 DEF TypeOK, MutexTypeOK, MutexPcs, CondPcs, ControlOK, NoMutexPcs, WaitOnlyPcs
  <2> QED BY <2>2, <2>3
<1>4. QueueInv'
  BY <1>0 DEF QueueInv
<1> QED BY <1>1, <1>2, <1>3, <1>4 DEF IInv

\* BroadcastEnd keeps the invariant.
LEMMA BroadcastEndInv ==
  ASSUME IInv, NEW t \in Threads, NEW c \in Conds, BroadcastEnd(t, c)
  PROVE  IInv'
<1> USE MutexAssumption DEF BroadcastEnd, Goto, objVars, wakeVars, ctlVars, condVars
<1>0. TypeOK /\ ControlInv /\ OwnerInv /\ DepthAgrees /\ QueueInv
  BY DEF IInv
<1>1. OwnerInv' /\ DepthAgrees'
  BY <1>0, QuietStep DEF TypeOK, MutexTypeOK, MutexPcs, CondPcs, Critical
<1>2. TypeOK'
  BY <1>0 DEF TypeOK, MutexTypeOK, MutexPcs, CondPcs
<1>3. ControlInv'
  <2> SUFFICES ASSUME NEW u \in Threads PROVE ControlOK(u)'
    BY DEF ControlInv
  <2>1. ControlOK(u) /\ ControlOK(t)
    BY <1>0 DEF ControlInv
  <2>2. CASE u = t
    BY <1>0, <2>1, <2>2 DEF TypeOK, MutexTypeOK, MutexPcs, CondPcs, ControlOK, NoMutexPcs, WaitOnlyPcs
  <2>3. CASE u # t
    BY <1>0, <2>1, <2>3 DEF TypeOK, MutexTypeOK, MutexPcs, CondPcs, ControlOK, NoMutexPcs, WaitOnlyPcs
  <2> QED BY <2>2, <2>3
<1>4. QueueInv'
  BY <1>0 DEF QueueInv
<1> QED BY <1>1, <1>2, <1>3, <1>4 DEF IInv

\* CondDestroy keeps the invariant.
LEMMA CondDestroyInv ==
  ASSUME IInv, NEW t \in Threads, NEW c \in Conds, CondDestroy(t, c)
  PROVE  IInv'
<1> USE MutexAssumption DEF CondDestroy, Goto, objVars, wakeVars, ctlVars, condVars
<1>0. TypeOK /\ ControlInv /\ OwnerInv /\ DepthAgrees /\ QueueInv
  BY DEF IInv
<1>1. OwnerInv' /\ DepthAgrees'
  BY <1>0, QuietStep DEF TypeOK, MutexTypeOK, MutexPcs, CondPcs, Critical
<1>2. TypeOK'
  BY <1>0 DEF TypeOK, MutexTypeOK, MutexPcs, CondPcs
<1>3. ControlInv'
  <2> SUFFICES ASSUME NEW u \in Threads PROVE ControlOK(u)'
    BY DEF ControlInv
  <2>1. ControlOK(u) /\ ControlOK(t)
    BY <1>0 DEF ControlInv
  <2>2. CASE u = t
    BY <1>0, <2>1, <2>2 DEF TypeOK, MutexTypeOK, MutexPcs, CondPcs, ControlOK, NoMutexPcs, WaitOnlyPcs
  <2>3. CASE u # t
    BY <1>0, <2>1, <2>3 DEF TypeOK, MutexTypeOK, MutexPcs, CondPcs, ControlOK, NoMutexPcs, WaitOnlyPcs
  <2> QED BY <2>2, <2>3
<1>4. QueueInv'
  BY <1>0 DEF QueueInv
<1> QED BY <1>1, <1>2, <1>3, <1>4 DEF IInv

\* CondInit keeps the invariant.
LEMMA CondInitInv ==
  ASSUME IInv, NEW t \in Threads, NEW c \in Conds, CondInit(t, c)
  PROVE  IInv'
<1> USE MutexAssumption DEF CondInit, Goto, objVars, wakeVars, ctlVars, condVars
<1>0. TypeOK /\ ControlInv /\ OwnerInv /\ DepthAgrees /\ QueueInv
  BY DEF IInv
<1>1. OwnerInv' /\ DepthAgrees'
  BY <1>0, QuietStep DEF TypeOK, MutexTypeOK, MutexPcs, CondPcs, Critical
<1>2. TypeOK'
  BY <1>0 DEF TypeOK, MutexTypeOK, MutexPcs, CondPcs
<1>3. ControlInv'
  <2> SUFFICES ASSUME NEW u \in Threads PROVE ControlOK(u)'
    BY DEF ControlInv
  <2>1. ControlOK(u) /\ ControlOK(t)
    BY <1>0 DEF ControlInv
  <2>2. CASE u = t
    BY <1>0, <2>1, <2>2 DEF TypeOK, MutexTypeOK, MutexPcs, CondPcs, ControlOK, NoMutexPcs, WaitOnlyPcs
  <2>3. CASE u # t
    BY <1>0, <2>1, <2>3 DEF TypeOK, MutexTypeOK, MutexPcs, CondPcs, ControlOK, NoMutexPcs, WaitOnlyPcs
  <2> QED BY <2>2, <2>3
<1>4. QueueInv'
  BY <1>0 DEF QueueInv
<1> QED BY <1>1, <1>2, <1>3, <1>4 DEF IInv

\* Cancel keeps the invariant.
LEMMA CancelInv ==
  ASSUME IInv, NEW t \in Threads, NEW td \in Threads, Cancel(t, td)
  PROVE  IInv'
<1> USE MutexAssumption DEF Cancel, Goto, objVars, wakeVars, ctlVars, condVars
<1>0. TypeOK /\ ControlInv /\ OwnerInv /\ DepthAgrees /\ QueueInv
  BY DEF IInv
<1>a. <<td>> \in Seq(Threads) /\ <<td>> # << >>
  OBVIOUS
<1>b. /\ toRelease' \in [Threads -> Seq(Threads)]
      /\ pc' \in [Threads -> MutexPcs \union CondPcs]
      /\ pc'[t] = "post" => toRelease'[t] # << >>
      /\ pc'[t] \in {"idle", "post"}
      /\ \A u \in Threads : u # t => pc'[u] = pc[u] /\ toRelease'[u] = toRelease[u]
  <2>1. CASE willSleep[td]
    <3>1. /\ toRelease' = [toRelease EXCEPT ![t] = <<td>>]
          /\ pc' = [pc EXCEPT ![t] = "post"]
      BY <2>1
    <3> HIDE DEF Cancel
    <3> QED BY <1>0, <1>a, <3>1 DEF TypeOK, CondPcs
  <2>2. CASE ~willSleep[td]
    BY <1>0, <2>2 DEF TypeOK
  <2> QED BY <2>1, <2>2
<1>1. OwnerInv' /\ DepthAgrees'
  BY <1>0, QuietStep DEF TypeOK, MutexTypeOK, MutexPcs, CondPcs, Critical
<1>2. TypeOK'
  BY <1>0, <1>b DEF TypeOK, MutexTypeOK
<1>3. ControlInv'
  <2> SUFFICES ASSUME NEW u \in Threads PROVE ControlOK(u)'
    BY DEF ControlInv
  <2>1. ControlOK(u) /\ ControlOK(t)
    BY <1>0 DEF ControlInv
  <2>2. CASE u = t
    BY <1>0, <1>b, <2>1, <2>2 DEF TypeOK, MutexTypeOK, MutexPcs, CondPcs, ControlOK, NoMutexPcs, WaitOnlyPcs
  <2>3. CASE u # t
    BY <1>0, <1>b, <2>1, <2>3 DEF TypeOK, MutexTypeOK, MutexPcs, CondPcs, ControlOK, NoMutexPcs, WaitOnlyPcs
  <2> QED BY <2>2, <2>3
<1>4. QueueInv'
  BY <1>0 DEF QueueInv
<1> QED BY <1>1, <1>2, <1>3, <1>4 DEF IInv

\* Signal keeps the invariant.
LEMMA SignalInv ==
  ASSUME IInv, NEW t \in Threads, NEW c \in Conds, NEW i \in Nat, Signal(t, c, i)
  PROVE  IInv'
<1> USE MutexAssumption DEF objVars, wakeVars, ctlVars, condVars
<1>0. TypeOK /\ ControlInv /\ OwnerInv /\ DepthAgrees /\ QueueInv
  BY DEF IInv
<1>a. ControlOK(t)
  BY <1>0 DEF ControlInv
<1>b. /\ blocked[c][i] \in Threads
      /\ blocked' \in [Conds -> Seq(Threads)] /\ sleepq' \in [Conds -> Seq(Threads)]
      /\ sleepqueue' \in [Threads -> Threads \union {NULL}]
      /\ wchan' \in [Threads -> Conds \union {NULL}]
      /\ hasUserWaiters' \in [Conds -> BOOLEAN]
      /\ QueueInv'
      /\ \A u \in Threads : wchan'[u] # NULL => wchan[u] # NULL
  BY <1>0, SleepqRemoveFacts DEF Signal
<1>c. /\ wakeSema' \in [Threads -> Nat] /\ deferWaiters' \in [Threads -> Seq(Threads)]
      /\ mDeferred' \in [Mutexes -> BOOLEAN] /\ toRelease' \in [Threads -> Seq(Threads)]
      /\ \A u \in Threads : u # t => toRelease'[u] = toRelease[u]
      /\ mOwner[mutexObj[blocked[c][i]]] # t => toRelease'[t] # << >>
  BY <1>0, <1>b, WakeOneFacts DEF Signal
<1>d. /\ pc' \in [Threads -> MutexPcs \union CondPcs]
      /\ pc[t] = "idle" /\ pc'[t] \in {"idle", "post"}
      /\ pc'[t] = "post" => toRelease'[t] # << >>
      /\ \A u \in Threads : u # t => pc'[u] = pc[u]
  <2>1. CASE mOwner[mutexObj[blocked[c][i]]] = t
    BY <1>0, <2>1 DEF Signal, TypeOK
  <2>2. CASE mOwner[mutexObj[blocked[c][i]]] # t
    BY ZenonT(30), <1>0, <1>c, <2>2 DEF Signal, Goto, TypeOK, CondPcs
  <2> QED BY <2>1, <2>2
<1>e. UNCHANGED <<slot, mLock, mOwner, mCount, willSleep, mx, timed, deferred,
                  call, recurse, depth, cslot, sleepqLock, mutexObj, cancelPending, cancelState>>
  BY DEF Signal
<1>1. OwnerInv' /\ DepthAgrees'
  BY <1>d, <1>e, QuietStep DEF Critical
<1>2. TypeOK'
  BY <1>0, <1>b, <1>c, <1>d, <1>e DEF TypeOK, MutexTypeOK
<1>3. ControlInv'
  <2> SUFFICES ASSUME NEW u \in Threads PROVE ControlOK(u)'
    BY DEF ControlInv
  <2>1. ControlOK(u)
    BY <1>0 DEF ControlInv
  <2>2. CASE u = t
    BY <1>0, <1>b, <2>1, <1>c, <1>d, <1>e, <2>2 DEF TypeOK, ControlOK, NoMutexPcs, WaitOnlyPcs
  <2>3. CASE u # t
    BY <1>0, <1>b, <2>1, <1>c, <1>d, <1>e, <2>3 DEF TypeOK, ControlOK
  <2> QED BY <2>2, <2>3
<1>4. QueueInv'
  BY <1>b
<1> QED BY <1>1, <1>2, <1>3, <1>4 DEF IInv

\* UnlockWakeAll keeps the invariant.
LEMMA UnlockWakeAllInv ==
  ASSUME IInv, NEW t \in Threads, UnlockWakeAll(t), UNCHANGED condVars
  PROVE  IInv'
<1> USE MutexAssumption DEF objVars, wakeVars, ctlVars, condVars
<1>0. TypeOK /\ ControlInv /\ OwnerInv /\ DepthAgrees /\ QueueInv
  BY DEF IInv
<1>a. ControlOK(t)
  BY <1>0 DEF ControlInv
<1>b. /\ wakeSema' \in [Threads -> Nat] /\ deferWaiters' \in [Threads -> Seq(Threads)]
      /\ \/ UNCHANGED <<pc, mx, timed>>
         \/ Return(t)
  <2>1. CASE deferWaiters[t] = << >>
    BY <1>0, <2>1 DEF UnlockWakeAll, WakeAllNext, TypeOK, MutexTypeOK
  <2>2. CASE deferWaiters[t] # << >>
    <3>1. /\ <<Head(deferWaiters[t])>> \in Seq(Threads)
          /\ Tail(deferWaiters[t]) \in Seq(Threads)
      BY <1>0, <2>2 DEF TypeOK, MutexTypeOK
    <3>2. /\ ReleaseAll(<<Head(deferWaiters[t])>>)
          /\ deferWaiters' = [deferWaiters EXCEPT ![t] = Tail(deferWaiters[t])]
          /\ UNCHANGED <<pc, mx, timed>>
      BY <2>2 DEF UnlockWakeAll, WakeAllNext
    <3>3. wakeSema' \in [Threads -> Nat]
      BY <1>0, <3>1, <3>2, ReleaseType DEF TypeOK
    <3> QED BY <1>0, <3>1, <3>2, <3>3 DEF TypeOK, MutexTypeOK
  <2> QED BY <2>1, <2>2
<1>c. /\ pc[t] = "wakeAll" /\ call[t] = NULL
      /\ UNCHANGED <<objVars, willSleep, deferred, call, recurse, depth>>
  BY <1>a DEF UnlockWakeAll, ControlOK, WaitOnlyPcs
<1>1. OwnerInv' /\ DepthAgrees'
  <2>1. CASE UNCHANGED <<pc, mx, timed>>
    BY <1>c, <2>1, QuietStep
  <2>2. CASE Return(t)
    BY <1>c, <2>2, QuietReturn DEF Critical
  <2> QED BY <1>b, <2>1, <2>2
<1>2. TypeOK'
  BY <1>0, <1>b, <1>c DEF TypeOK, MutexTypeOK, MutexPcs, CondPcs, Return, Goto
<1>3. ControlInv'
  <2> SUFFICES ASSUME NEW u \in Threads PROVE ControlOK(u)'
    BY DEF ControlInv
  <2>1. ControlOK(u)
    BY <1>0 DEF ControlInv
  <2>2. CASE u = t
    <3>1. CASE UNCHANGED <<pc, mx, timed>>
      BY <1>c, <2>1, <2>2, <3>1 DEF ControlOK
    <3>2. CASE Return(t)
      BY <1>0, <1>c, <2>1, <2>2, <3>2
         DEF TypeOK, MutexTypeOK, ControlOK, NoMutexPcs, WaitOnlyPcs, Return, Goto
    <3> QED BY <1>b, <3>1, <3>2
  <2>3. CASE u # t
    BY ZenonT(30), <1>0, <1>b, <1>c, <2>1, <2>3 DEF TypeOK, MutexTypeOK, ControlOK, Return, Goto
  <2> QED BY <2>2, <2>3
<1>4. QueueInv'
  BY <1>0 DEF QueueInv
<1> QED BY <1>1, <1>2, <1>3, <1>4 DEF IInv

\* WaitFlush keeps the invariant.
LEMMA WaitFlushInv ==
  ASSUME IInv, NEW t \in Threads, WaitFlush(t)
  PROVE  IInv'
<1> USE MutexAssumption DEF objVars, wakeVars, ctlVars, condVars
<1>0. TypeOK /\ ControlInv /\ OwnerInv /\ DepthAgrees /\ QueueInv
  BY DEF IInv
<1>a. ControlOK(t)
  BY <1>0 DEF ControlInv
<1>b. /\ wakeSema' \in [Threads -> Nat] /\ deferWaiters' \in [Threads -> Seq(Threads)]
      /\ pc' = pc \/ pc' = [pc EXCEPT ![t] = "sleep"]
      /\ UNCHANGED <<mx, timed>>
  <2>1. CASE deferWaiters[t] = << >>
    BY <1>0, <2>1 DEF WaitFlush, WakeAllNext, Goto, TypeOK, MutexTypeOK
  <2>2. CASE deferWaiters[t] # << >>
    <3>1. /\ <<Head(deferWaiters[t])>> \in Seq(Threads)
          /\ Tail(deferWaiters[t]) \in Seq(Threads)
      BY <1>0, <2>2 DEF TypeOK, MutexTypeOK
    <3>2. /\ ReleaseAll(<<Head(deferWaiters[t])>>)
          /\ deferWaiters' = [deferWaiters EXCEPT ![t] = Tail(deferWaiters[t])]
          /\ UNCHANGED <<pc, mx, timed>>
      BY <2>2 DEF WaitFlush, WakeAllNext
    <3>3. wakeSema' \in [Threads -> Nat]
      BY <1>0, <3>1, <3>2, ReleaseType DEF TypeOK
    <3> QED BY <1>0, <3>1, <3>2, <3>3 DEF TypeOK, MutexTypeOK
  <2> QED BY <2>1, <2>2
<1>c. /\ pc[t] = "flush"
      /\ UNCHANGED <<objVars, willSleep, deferred, call, recurse, depth, condVars>>
  BY DEF WaitFlush
<1>1. OwnerInv' /\ DepthAgrees'
  BY <1>0, <1>b, <1>c, QuietStep DEF TypeOK, Critical
<1>2. TypeOK'
  BY <1>0, <1>b, <1>c DEF TypeOK, MutexTypeOK, MutexPcs, CondPcs
<1>3. ControlInv'
  <2> SUFFICES ASSUME NEW u \in Threads PROVE ControlOK(u)'
    BY DEF ControlInv
  <2>1. ControlOK(u)
    BY <1>0 DEF ControlInv
  <2>2. CASE u = t
    BY ZenonT(30), <1>0, <1>b, <1>c, <2>1, <2>2 DEF TypeOK, MutexTypeOK, ControlOK, NoMutexPcs, WaitOnlyPcs
  <2>3. CASE u # t
    BY <1>0, <1>b, <1>c, <2>1, <2>3 DEF TypeOK, MutexTypeOK, ControlOK
  <2> QED BY <2>2, <2>3
<1>4. QueueInv'
  BY <1>0, <1>c DEF QueueInv
<1> QED BY <1>1, <1>2, <1>3, <1>4 DEF IInv

\* WaitAdd keeps the invariant.
LEMMA WaitAddInv ==
  ASSUME IInv, NEW t \in Threads, WaitAdd(t)
  PROVE  IInv'
<1> USE MutexAssumption DEF objVars, wakeVars, ctlVars, condVars
<1>0. TypeOK /\ ControlInv /\ OwnerInv /\ DepthAgrees /\ QueueInv
  BY DEF IInv
<1>a. ControlOK(t)
  BY <1>0 DEF ControlInv
<1>b. /\ pc[t] = "waitAdd" /\ call[t] \in Conds /\ wchan[t] = NULL
      /\ sleepqueue[t] \in Threads /\ mx[t] \in Mutexes
  BY <1>0, <1>a DEF WaitAdd, ControlOK, WaitOnlyPcs, NoMutexPcs, QueueInv, TypeOK, MutexTypeOK
<1> PICK c \in Conds : c = call[t]
  BY <1>b
<1> DEFINE q == IF sleepq[c] = << >> THEN <<sleepqueue[t]>>
                ELSE <<Head(sleepq[c]), sleepqueue[t]>> \o Tail(sleepq[c])
<1>c. /\ sleepq' = [sleepq EXCEPT ![c] = q]
      /\ sleepqueue' = [sleepqueue EXCEPT ![t] = NULL]
      /\ wchan' = [wchan EXCEPT ![t] = c]
      /\ blocked' = [blocked EXCEPT ![c] = <<t>> \o blocked[c]]
      /\ mutexObj' = [mutexObj EXCEPT ![t] = mx[t]]
      /\ wakeSema' = [wakeSema EXCEPT ![t] = IF wakeSema[t] > 0 THEN wakeSema[t] - 1 ELSE 0]
      /\ sleepqLock' = [sleepqLock EXCEPT ![c] = NULL]
      /\ pc' = [pc EXCEPT ![t] = "willSleep"]
      /\ UNCHANGED <<objVars, willSleep, deferWaiters, mx, timed, deferred, call,
                     recurse, depth, cslot, hasUserWaiters, toRelease, cancelPending, cancelState>>
  BY DEF WaitAdd, SleepqAdd, Goto
<1>d. /\ q \in Seq(Threads) /\ Len(q) = Len(sleepq[c]) + 1
      /\ <<t>> \o blocked[c] \in Seq(Threads)
      /\ Len(<<t>> \o blocked[c]) = Len(blocked[c]) + 1
  <2>1. sleepq[c] \in Seq(Threads) /\ blocked[c] \in Seq(Threads)
    BY <1>0 DEF TypeOK
  <2> QED BY <1>b, <2>1
<1> HIDE DEF q
<1>e. wakeSema' \in [Threads -> Nat]
  BY <1>0, <1>c DEF TypeOK, MutexTypeOK
<1>1. OwnerInv' /\ DepthAgrees'
  BY <1>0, <1>b, <1>c, QuietStep DEF TypeOK, Critical
<1>2. TypeOK'
  BY <1>0, <1>b, <1>c, <1>d, <1>e DEF TypeOK, MutexTypeOK, MutexPcs, CondPcs
<1>3. ControlInv'
  <2> SUFFICES ASSUME NEW u \in Threads PROVE ControlOK(u)'
    BY DEF ControlInv
  <2>1. ControlOK(u)
    BY <1>0 DEF ControlInv
  <2>2. CASE u = t
    BY <1>0, <1>b, <1>c, <2>1, <2>2 DEF TypeOK, MutexTypeOK, ControlOK, NoMutexPcs, WaitOnlyPcs
  <2>3. CASE u # t
    BY <1>0, <1>b, <1>c, <2>1, <2>3 DEF TypeOK, MutexTypeOK, ControlOK
  <2> QED BY <2>2, <2>3
<1>4. QueueInv'
  BY <1>0, <1>b, <1>c, <1>d DEF QueueInv, TypeOK
<1> QED BY <1>1, <1>2, <1>3, <1>4 DEF IInv

\* BroadcastDrop keeps the invariant.
LEMMA BroadcastDropInv ==
  ASSUME IInv, NEW t \in Threads, NEW c \in Conds, BroadcastDrop(t, c)
  PROVE  IInv'
<1> USE MutexAssumption DEF objVars, wakeVars, ctlVars, condVars
<1>0. TypeOK /\ ControlInv /\ OwnerInv /\ DepthAgrees /\ QueueInv
  BY DEF IInv
<1>a. ControlOK(t)
  BY <1>0 DEF ControlInv
<1> DEFINE td == Head(blocked[c])
<1>b. /\ td \in Threads /\ Head(sleepq[c]) \in Threads
      /\ Tail(blocked[c]) \in Seq(Threads) /\ Tail(sleepq[c]) \in Seq(Threads)
      /\ Len(Tail(blocked[c])) = Len(Tail(sleepq[c]))
  <2>1. blocked[c] \in Seq(Threads) /\ sleepq[c] \in Seq(Threads)
    BY <1>0 DEF TypeOK
  <2>2. blocked[c] # << >> /\ Len(sleepq[c]) = Len(blocked[c])
    BY <1>0 DEF BroadcastDrop, QueueInv
  <2> QED BY <2>1, <2>2
<1>c. /\ blocked' = [blocked EXCEPT ![c] = Tail(blocked[c])]
      /\ sleepq' = [sleepq EXCEPT ![c] = Tail(sleepq[c])]
      /\ sleepqueue' = [sleepqueue EXCEPT ![td] = Head(sleepq[c])]
      /\ wchan' = [wchan EXCEPT ![td] = NULL]
      /\ pc[t] = "drop"
      /\ UNCHANGED <<slot, mLock, mOwner, mCount, willSleep, ctlVars, depth, cslot,
                     hasUserWaiters, sleepqLock, mutexObj, cancelPending, cancelState>>
  BY DEF BroadcastDrop
<1>d. /\ wakeSema' \in [Threads -> Nat] /\ deferWaiters' \in [Threads -> Seq(Threads)]
      /\ mDeferred' \in [Mutexes -> BOOLEAN] /\ toRelease' \in [Threads -> Seq(Threads)]
      /\ \A u \in Threads : u # t => toRelease'[u] = toRelease[u]
  BY <1>0, <1>b, WakeOneFacts DEF BroadcastDrop
<1> HIDE DEF td
<1>1. OwnerInv' /\ DepthAgrees'
  BY <1>c, QuietStep
<1>2. TypeOK'
  BY <1>0, <1>b, <1>c, <1>d DEF TypeOK, MutexTypeOK
<1>3. ControlInv'
  <2> SUFFICES ASSUME NEW u \in Threads PROVE ControlOK(u)'
    BY DEF ControlInv
  <2>1. ControlOK(u)
    BY <1>0 DEF ControlInv
  <2>2. CASE u = t
    BY <1>0, <1>b, <1>c, <2>1, <2>2 DEF TypeOK, MutexTypeOK, ControlOK, NoMutexPcs, WaitOnlyPcs
  <2>3. CASE u # t
    BY <1>0, <1>b, <1>c, <1>d, <2>1, <2>3 DEF TypeOK, MutexTypeOK, ControlOK
  <2> QED BY <2>2, <2>3
<1>4. QueueInv'
  BY <1>0, <1>b, <1>c DEF QueueInv, TypeOK
<1> QED BY <1>1, <1>2, <1>3, <1>4 DEF IInv

\* PostRelease keeps the invariant.
LEMMA PostReleaseInv ==
  ASSUME IInv, NEW t \in Threads, PostRelease(t)
  PROVE  IInv'
<1> USE MutexAssumption DEF objVars, wakeVars, ctlVars, condVars
<1>0. TypeOK /\ ControlInv /\ OwnerInv /\ DepthAgrees /\ QueueInv
  BY DEF IInv
<1>a. ControlOK(t)
  BY <1>0 DEF ControlInv
<1>b. /\ pc[t] = "post" /\ toRelease[t] \in Seq(Threads) /\ toRelease[t] # << >>
  BY <1>0, <1>a DEF PostRelease, ControlOK, TypeOK
<1>c. /\ <<Head(toRelease[t])>> \in Seq(Threads) /\ Tail(toRelease[t]) \in Seq(Threads)
      /\ Len(toRelease[t]) # 1 => Tail(toRelease[t]) # << >>
  <2>1. Len(Tail(toRelease[t])) = Len(toRelease[t]) - 1 /\ Len(toRelease[t]) \in Nat \ {0}
    BY <1>b
  <2>2. ASSUME Tail(toRelease[t]) = << >> PROVE Len(Tail(toRelease[t])) = 0
    BY <2>2, EmptySeq, Zenon
  <2>3. Len(toRelease[t]) # 1 => Tail(toRelease[t]) # << >>
    BY <2>1, <2>2
  <2> QED BY <1>b, <2>3
<1>d. wakeSema' \in [Threads -> Nat]
  BY <1>0, <1>c, ReleaseType DEF PostRelease, TypeOK
<1>e. /\ toRelease' = [toRelease EXCEPT ![t] = Tail(toRelease[t])]
      /\ \/ pc' = pc /\ Len(toRelease[t]) # 1
         \/ pc' = [pc EXCEPT ![t] = "idle"]
      /\ UNCHANGED <<objVars, willSleep, deferWaiters, mx, timed, deferred, call,
                     recurse, depth, cslot, hasUserWaiters, sleepqLock, sleepq,
                     blocked, sleepqueue, wchan, mutexObj, cancelPending, cancelState>>
  BY DEF PostRelease, Goto
<1>1. OwnerInv' /\ DepthAgrees'
  BY <1>0, <1>b, <1>e, QuietStep DEF TypeOK, Critical
<1>2. TypeOK'
  BY <1>0, <1>c, <1>d, <1>e DEF TypeOK, MutexTypeOK, MutexPcs, CondPcs
<1>3. ControlInv'
  <2> SUFFICES ASSUME NEW u \in Threads PROVE ControlOK(u)'
    BY DEF ControlInv
  <2>1. ControlOK(u)
    BY <1>0 DEF ControlInv
  <2>2. CASE u = t
    BY ZenonT(40), <1>0, <1>b, <1>c, <1>e, <2>1, <2>2 DEF TypeOK, MutexTypeOK, ControlOK, NoMutexPcs, WaitOnlyPcs
  <2>3. CASE u # t
    BY <1>0, <1>e, <2>1, <2>3 DEF TypeOK, MutexTypeOK, ControlOK
  <2> QED BY <2>2, <2>3
<1>4. QueueInv'
  BY <1>0, <1>e DEF QueueInv
<1> QED BY <1>1, <1>2, <1>3, <1>4 DEF IInv

\* WaitWake keeps the invariant.
LEMMA WaitWakeInv ==
  ASSUME IInv, NEW t \in Threads, WaitWake(t)
  PROVE  IInv'
<1> USE MutexAssumption DEF objVars, wakeVars, ctlVars, condVars
<1>0. TypeOK /\ ControlInv /\ OwnerInv /\ DepthAgrees /\ QueueInv
  BY DEF IInv
<1>a. ControlOK(t)
  BY <1>0 DEF ControlInv
<1>b. /\ pc[t] \in {"woken", "expired"} /\ call[t] \in Conds
      /\ UNCHANGED <<objVars, wakeVars, mx, timed, deferred, call, recurse, depth,
                     cslot, sleepqLock, mutexObj, toRelease, cancelPending, cancelState>>
  BY <1>0, <1>a DEF WaitWake, ControlOK, WaitOnlyPcs, TypeOK, MutexTypeOK
<1> PICK c \in Conds : c = call[t]
  BY <1>b
<1>c. \/ /\ wchan[t] = NULL /\ pc' = [pc EXCEPT ![t] = "relock"]
         /\ UNCHANGED <<hasUserWaiters, sleepq, blocked, sleepqueue, wchan>>
      \/ /\ pc' = [pc EXCEPT ![t] = "relock"]
         /\ \E i \in DOMAIN blocked[c] : blocked[c][i] = t /\ SleepqRemove(c, i)
      \/ /\ pc' = [pc EXCEPT ![t] = "unreachable"]
         /\ UNCHANGED <<hasUserWaiters, sleepq, blocked, sleepqueue, wchan>>
  BY DEF WaitWake, Goto
<1>d. /\ blocked' \in [Conds -> Seq(Threads)] /\ sleepq' \in [Conds -> Seq(Threads)]
      /\ sleepqueue' \in [Threads -> Threads \union {NULL}]
      /\ wchan' \in [Threads -> Conds \union {NULL}]
      /\ hasUserWaiters' \in [Conds -> BOOLEAN]
      /\ QueueInv'
      /\ \A u \in Threads : wchan'[u] # NULL => wchan[u] # NULL
      /\ \/ pc' = [pc EXCEPT ![t] = "relock"] /\ wchan'[t] = NULL
         \/ pc' = [pc EXCEPT ![t] = "unreachable"]
  <2>1. CASE /\ \/ wchan[t] = NULL /\ pc' = [pc EXCEPT ![t] = "relock"]
                \/ pc' = [pc EXCEPT ![t] = "unreachable"]
             /\ UNCHANGED <<hasUserWaiters, sleepq, blocked, sleepqueue, wchan>>
    <3>1. QueueInv'
      BY <1>0, <2>1 DEF QueueInv
    <3> QED BY <1>0, <2>1, <3>1 DEF TypeOK
  <2>2. CASE /\ pc' = [pc EXCEPT ![t] = "relock"]
             /\ \E i \in DOMAIN blocked[c] : blocked[c][i] = t /\ SleepqRemove(c, i)
    <3>1. PICK i \in DOMAIN blocked[c] : blocked[c][i] = t /\ SleepqRemove(c, i)
      BY <2>2
    <3>2. wchan' = [wchan EXCEPT ![t] = NULL]
      BY <3>1 DEF SleepqRemove
    <3> QED BY <1>0, <2>2, <3>1, <3>2, SleepqRemoveFacts DEF TypeOK
  <2> QED BY <1>c, <2>1, <2>2
<1>1. OwnerInv' /\ DepthAgrees'
  BY <1>0, <1>b, <1>d, QuietStep DEF TypeOK, Critical
<1>2. TypeOK'
  BY <1>0, <1>b, <1>d DEF TypeOK, MutexTypeOK, MutexPcs, CondPcs
<1>3. ControlInv'
  <2> SUFFICES ASSUME NEW u \in Threads PROVE ControlOK(u)'
    BY DEF ControlInv
  <2>1. ControlOK(u)
    BY <1>0 DEF ControlInv
  <2>2. CASE u = t
    <3>1. /\ pc'[t] \in {"relock", "unreachable"} /\ (pc'[t] = "relock" => wchan'[t] = NULL)
          /\ mx'[t] = mx[t] /\ call'[t] = call[t] /\ recurse'[t] = recurse[t]
          /\ willSleep'[t] = willSleep[t]
      BY <1>0, <1>b, <1>d DEF TypeOK
    <3>2. mx[t] # NULL /\ call[t] # NULL /\ ~willSleep[t]
      BY <1>a, <1>b DEF ControlOK, NoMutexPcs, WaitOnlyPcs
    <3>3. /\ mx'[t] # NULL /\ call'[t] # NULL /\ ~willSleep'[t]
          /\ pc'[t] \in {"relock", "unreachable"} /\ (pc'[t] = "relock" => wchan'[t] = NULL)
      BY <3>1, <3>2
    <3> QED BY <2>2, <3>3 DEF ControlOK, NoMutexPcs, WaitOnlyPcs
  <2>3. CASE u # t
    BY <1>0, <1>b, <1>d, <2>1, <2>3 DEF TypeOK, MutexTypeOK, ControlOK
  <2> QED BY <2>2, <2>3
<1>4. QueueInv'
  BY <1>d
<1> QED BY <1>1, <1>2, <1>3, <1>4 DEF IInv

-----------------------------------------------------------------------------
\* The invariant holds initially.
LEMMA InitIInv == Init => IInv
<1> SUFFICES ASSUME Init PROVE IInv
  OBVIOUS
<1> USE MutexAssumption DEF Init, InitMutexes
<1>1. TypeOK
  BY DEF TypeOK, MutexTypeOK, MutexPcs
<1>2. ControlInv
  BY DEF ControlInv, ControlOK, NoMutexPcs, WaitOnlyPcs
<1>3. OwnerInv /\ DepthAgrees /\ QueueInv
  BY DEF OwnerInv, OwnerOK, CountOK, DepthAgrees, DepthOK, Suspended, QueueInv
<1> QED BY <1>1, <1>2, <1>3 DEF IInv

\* setcancelstate and exit change cancelState only, of which the invariant gives the type.
LEMMA CancelStateInv ==
  ASSUME IInv, cancelState' \in [Threads -> {"enabled", "disabled", "exiting"}],
         UNCHANGED <<objVars, wakeVars, ctlVars, depth, cslot, hasUserWaiters, sleepqLock,
                     sleepq, blocked, sleepqueue, wchan, mutexObj, toRelease, cancelPending>>
  PROVE  IInv'
BY DEF objVars, wakeVars, ctlVars, IInv, TypeOK, MutexTypeOK, ControlInv, ControlOK, OwnerInv,
       OwnerOK, CountOK, DepthAgrees, DepthOK, Suspended, QueueInv

LEMMA SetCancelStateInv ==
  ASSUME IInv, NEW t \in Threads, NEW s \in {"enabled", "disabled"}, SetCancelState(t, s)
  PROVE  IInv'
BY CancelStateInv DEF SetCancelState, IInv, TypeOK

LEMMA ExitInv ==
  ASSUME IInv, NEW t \in Threads, Exit(t)
  PROVE  IInv'
BY CancelStateInv DEF Exit, IInv, TypeOK

\* Every step keeps it: one lemma per action, above.
LEMMA NextIInv == IInv /\ [Next]_vars => IInv'
<1> SUFFICES ASSUME IInv, [Next]_vars PROVE IInv'
  OBVIOUS
<1>1. CASE UNCHANGED vars
  BY <1>1 DEF vars, objVars, wakeVars, ctlVars, condVars, IInv, TypeOK, MutexTypeOK,
              ControlInv, ControlOK, OwnerInv, OwnerOK, CountOK, DepthAgrees, DepthOK,
              Suspended, QueueInv
<1>2. CASE Next
  <2> PICK t \in Threads :
        \/ LibraryStep(t)
        \/ \E m \in Mutexes : MutexCall(t, m) /\ UNCHANGED condVars
        \/ \E c \in Conds : CondCall(t, c)
        \/ \E td \in Threads : Cancel(t, td)
        \/ (\E s \in {"enabled", "disabled"} : SetCancelState(t, s)) \/ Exit(t)
        \/ LockTimeout(t) /\ UNCHANGED condVars
        \/ WaitExpire(t)
    BY <1>2 DEF Next
  <2>1. CASE LibraryStep(t)
    BY <2>1, LockAcquireInv, SetOwnerInv, UnlockReleaseInv, UnlockWakeAllInv,
       WaitCvUnlockInv, WaitAddInv, WaitSleepInv, WaitFlushInv, WaitAcquireInv,
       WaitWakeInv, WaitRelockInv, PostReleaseInv, BroadcastDropInv,
       BroadcastEndInv DEF LibraryStep
  <2>2. ASSUME NEW m \in Mutexes, MutexCall(t, m), UNCHANGED condVars PROVE IInv'
    BY <2>2, LockSelfRecursiveInv, LockSelfNormalInv, LockBeginInv, TryLockInv,
       UnlockRecursiveInv, UnlockBeginInv, MutexInitInv, MutexDestroyInv DEF MutexCall
  <2>3. ASSUME NEW c \in Conds, CondCall(t, c) PROVE IInv'
    <3>1. ASSUME NEW i \in DOMAIN blocked[c], CondSignalTo(t, c, i) PROVE IInv'
      <4>1. i \in Nat /\ Signal(t, c, i)
        BY <3>1 DEF CondSignalTo, IInv, TypeOK
      <4> QED BY <4>1, SignalInv
    <3>2. ASSUME CondSignal(t, c) PROVE IInv'
      BY <3>2, SignalInv DEF CondSignal
    <3> QED BY <2>3, <3>1, <3>2, WaitBeginInv, CondSignalToUnqueuedInv, CondBroadcastInv,
               CondDestroyInv, CondInitInv DEF CondCall
  <2> QED BY <2>1, <2>2, <2>3, CancelInv, SetCancelStateInv, ExitInv, LockTimeoutInv, WaitExpireInv
<1> QED BY <1>1, <1>2

\* In every state a guest can reach, with any number of threads, mutexes and
\* condition variables, the types are right ...
THEOREM TypeCorrect == Spec => []TypeOK
<1>1. IInv => TypeOK
  BY DEF IInv
<1> QED BY InitIInv, NextIInv, <1>1, PTL DEF Spec

\* ... the guest's view of how deeply it holds each mutex is what m_owner, m_lock
\* and m_count say, across recursive locks and across Wait ...
THEOREM DepthCorrect == Spec => []DepthAgrees
<1>1. IInv => DepthAgrees
  BY DEF IInv
<1> QED BY InitIInv, NextIInv, <1>1, PTL DEF Spec

\* ... and no two threads hold a mutex at the same time.
THEOREM Exclusion == Spec => []MutualExclusion
<1>1. IInv => MutualExclusion
  <2> SUFFICES ASSUME IInv, NEW t \in Threads, NEW u \in Threads, NEW m \in Mutexes,
                      t # u, depth[t][m] > 0, depth[u][m] > 0,
                      ~Suspended(t, m), ~Suspended(u, m)
               PROVE  FALSE
    BY DEF MutualExclusion
  <2>1. DepthOK(t, m) /\ DepthOK(u, m)
    BY DEF IInv, DepthAgrees
  <2> QED BY <2>1 DEF DepthOK
<1> QED BY InitIInv, NextIInv, <1>1, PTL DEF Spec
=============================================================================
