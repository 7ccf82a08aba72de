------------------------ MODULE PthreadRwlock_proofs ------------------------
(***************************************************************************)
(* Proofs about PthreadRwlock, for any set of threads and of locks.        *)
(***************************************************************************)
EXTENDS PthreadRwlock, FiniteSetTheorems, TLAPS

\* t has l for writing: it was told so, or it is between taking
\* SharedFirstMutex and writing owner, or between clearing owner and unlock.
Claims(t, l) == writes[t][l] \/ (pc[t] \in {"own", "unlock"} /\ lk[t] = l)

\* A call works on a lock exactly while it runs, and a reader that waits for a
\* lock holds no read lock on it.
CallOK(t) ==
  /\ pc[t] = "idle" <=> lk[t] = NULL
  /\ pc[t] = "rdwait" => reads[t][lk[t]] = 0
  /\ pc[t] \in {"own", "unlock"} => ~writes[t][lk[t]]
CallsOK == \A t \in Threads : CallOK(t)

\* writer_active is set exactly while one thread claims the lock, and then
\* nobody reads.
ClaimsOK ==
  \A l \in Locks :
    /\ writerActive[l] <=> \E t \in Threads : Claims(t, l)
    /\ \A t, u \in Threads : Claims(t, l) /\ Claims(u, l) => t = u
    /\ writerActive[l] => readers[l] = 0

\* The counters are sizes of finite sets of read locks.
CountsOK ==
  /\ CountsAgree
  /\ \A l \in Locks : IsFiniteSet(ReadsOn(l))
  /\ \A t \in Threads : IsFiniteSet(ReadsBy(t))

\* The inductive invariant.
IInv == TypeOK /\ CallsOK /\ ClaimsOK /\ CountsOK /\ OwnerFresh /\ NoLostWakeup

-----------------------------------------------------------------------------
\* Nobody reads a lock whose reader count is zero.
LEMMA NoReaders ==
  ASSUME TypeOK, CountsOK, NEW l \in Locks, NEW t \in Threads, readers[l] = 0
  PROVE  reads[t][l] = 0
<1>1. ReadsOn(l) = {}
  BY FS_EmptySet DEF CountsOK, CountsAgree
<1>2. reads[t][l] \in 0 .. MaxReads + 1 /\ MaxReads \in Nat
  BY RwlockAssumption DEF TypeOK
<1>3. CASE reads[t][l] > 0
  <2>1. <<t, 1>> \in Threads \X (1 .. MaxReads + 1)
    BY <1>2
  <2>2. <<t, 1>> \in ReadsOn(l)
    BY <1>2, <1>3, <2>1 DEF ReadsOn
  <2> QED BY <1>1, <2>2
<1> QED BY <1>2, <1>3

\* What one more read lock adds to the sets that the counters count.
LEMMA ReadAdded ==
  ASSUME TypeOK, NEW t \in Threads, NEW l \in Locks, reads[t][l] <= MaxReads,
         reads' = [reads EXCEPT ![t][l] = @ + 1]
  PROVE  LET n == reads[t][l] + 1 IN
         /\ ReadsOn(l)' = ReadsOn(l) \union {<<t, n>>} /\ <<t, n>> \notin ReadsOn(l)
         /\ ReadsBy(t)' = ReadsBy(t) \union {<<l, n>>} /\ <<l, n>> \notin ReadsBy(t)
         /\ \A k \in Locks : k # l => ReadsOn(k)' = ReadsOn(k)
         /\ \A u \in Threads : u # t => ReadsBy(u)' = ReadsBy(u)
<1> DEFINE n == reads[t][l] + 1
<1>1. /\ MaxReads \in Nat /\ reads[t][l] \in 0 .. MaxReads + 1 /\ n \in 1 .. MaxReads + 1
      /\ reads \in [Threads -> [Locks -> 0 .. MaxReads + 1]]
  BY RwlockAssumption DEF TypeOK
<1>2. /\ \A u \in Threads, k \in Locks : reads'[u][k] = IF u = t /\ k = l THEN n ELSE reads[u][k]
      /\ \A u \in Threads, k \in Locks : reads[u][k] \in Int
  BY <1>1
<1>3. \A i \in 1 .. MaxReads + 1 : (i <= n) <=> (i <= reads[t][l] \/ i = n)
  BY <1>1
<1>4. ReadsOn(l)' = ReadsOn(l) \union {<<t, n>>}
  BY <1>1, <1>2, <1>3 DEF ReadsOn
<1>5. ReadsBy(t)' = ReadsBy(t) \union {<<l, n>>}
  BY <1>1, <1>2, <1>3 DEF ReadsBy
<1>6. <<t, n>> \notin ReadsOn(l) /\ <<l, n>> \notin ReadsBy(t)
  BY <1>1 DEF ReadsOn, ReadsBy
<1>7. \A k \in Locks : k # l => ReadsOn(k)' = ReadsOn(k)
  BY <1>2 DEF ReadsOn
<1>8. \A u \in Threads : u # t => ReadsBy(u)' = ReadsBy(u)
  BY <1>2 DEF ReadsBy
<1> QED BY <1>4, <1>5, <1>6, <1>7, <1>8

\* What a read lock given back removes from them.
LEMMA ReadRemoved ==
  ASSUME TypeOK, NEW t \in Threads, NEW l \in Locks, reads[t][l] > 0,
         reads' = [reads EXCEPT ![t][l] = @ - 1]
  PROVE  LET n == reads[t][l] IN
         /\ ReadsOn(l)' = ReadsOn(l) \ {<<t, n>>} /\ <<t, n>> \in ReadsOn(l)
         /\ ReadsBy(t)' = ReadsBy(t) \ {<<l, n>>} /\ <<l, n>> \in ReadsBy(t)
         /\ \A k \in Locks : k # l => ReadsOn(k)' = ReadsOn(k)
         /\ \A u \in Threads : u # t => ReadsBy(u)' = ReadsBy(u)
<1> DEFINE n == reads[t][l]
<1>1. /\ MaxReads \in Nat /\ n \in 1 .. MaxReads + 1
      /\ reads \in [Threads -> [Locks -> 0 .. MaxReads + 1]]
  BY RwlockAssumption DEF TypeOK
<1>2. /\ \A u \in Threads, k \in Locks : reads'[u][k] = IF u = t /\ k = l THEN n - 1 ELSE reads[u][k]
      /\ \A u \in Threads, k \in Locks : reads[u][k] \in Int
  BY <1>1
<1>3. \A i \in 1 .. MaxReads + 1 : (i <= n - 1) <=> (i <= n /\ i # n)
  BY <1>1
<1>4. ReadsOn(l)' = ReadsOn(l) \ {<<t, n>>}
  BY <1>1, <1>2, <1>3 DEF ReadsOn
<1>5. ReadsBy(t)' = ReadsBy(t) \ {<<l, n>>}
  BY <1>1, <1>2, <1>3 DEF ReadsBy
<1>6. <<t, n>> \in ReadsOn(l) /\ <<l, n>> \in ReadsBy(t)
  BY <1>1 DEF ReadsOn, ReadsBy
<1>7. \A k \in Locks : k # l => ReadsOn(k)' = ReadsOn(k)
  BY <1>2 DEF ReadsOn
<1>8. \A u \in Threads : u # t => ReadsBy(u)' = ReadsBy(u)
  BY <1>2 DEF ReadsBy
<1> QED BY <1>4, <1>5, <1>6, <1>7, <1>8

\* A set of read locks with one more, and with one less.
LEMMA OneMore ==
  ASSUME NEW S, NEW T, NEW x, IsFiniteSet(S), T = S \union {x}, x \notin S
  PROVE  /\ IsFiniteSet(T) /\ Cardinality(T) = Cardinality(S) + 1
         /\ Cardinality(S) \in Nat
BY FS_AddElement, FS_CardinalityType
LEMMA OneLess ==
  ASSUME NEW S, NEW T, NEW x, IsFiniteSet(S), T = S \ {x}, x \in S
  PROVE  /\ IsFiniteSet(T) /\ Cardinality(T) = Cardinality(S) - 1
         /\ Cardinality(S) \in Nat \ {0}
<1>1. IsFiniteSet(T) /\ Cardinality(T) = Cardinality(S) - 1
  BY FS_RemoveElement
<1>2. Cardinality(S) \in Nat /\ Cardinality(S) # 0
  BY FS_CardinalityType, FS_EmptySet
<1> QED BY <1>1, <1>2

\* The counters keep agreeing when a read lock is taken ...
LEMMA TakeReadCounts ==
  ASSUME TypeOK, CountsOK, NEW t \in Threads, NEW l \in Locks, reads[t][l] <= MaxReads,
         TakeRead(t, l)
  PROVE  CountsOK'
<1> DEFINE n == reads[t][l] + 1
<1>1. /\ readers \in [Locks -> Nat] /\ rdlockCount \in [Threads -> Nat]
      /\ readers' = [readers EXCEPT ![l] = @ + 1]
      /\ rdlockCount' = [rdlockCount EXCEPT ![t] = @ + 1]
      /\ reads' = [reads EXCEPT ![t][l] = @ + 1]
  BY DEF TypeOK, TakeRead
<1>2. /\ ReadsOn(l)' = ReadsOn(l) \union {<<t, n>>} /\ <<t, n>> \notin ReadsOn(l)
      /\ ReadsBy(t)' = ReadsBy(t) \union {<<l, n>>} /\ <<l, n>> \notin ReadsBy(t)
      /\ \A k \in Locks : k # l => ReadsOn(k)' = ReadsOn(k)
      /\ \A u \in Threads : u # t => ReadsBy(u)' = ReadsBy(u)
  BY <1>1, ReadAdded
<1>3. IsFiniteSet(ReadsOn(l)') /\ Cardinality(ReadsOn(l)') = Cardinality(ReadsOn(l)) + 1
  BY <1>2, OneMore DEF CountsOK
<1>4. IsFiniteSet(ReadsBy(t)') /\ Cardinality(ReadsBy(t)') = Cardinality(ReadsBy(t)) + 1
  BY <1>2, OneMore DEF CountsOK
<1>5. \A k \in Locks : IsFiniteSet(ReadsOn(k)') /\ readers'[k] = Cardinality(ReadsOn(k)')
  BY <1>1, <1>2, <1>3 DEF CountsOK, CountsAgree
<1>6. \A u \in Threads : IsFiniteSet(ReadsBy(u)') /\ rdlockCount'[u] = Cardinality(ReadsBy(u)')
  BY <1>1, <1>2, <1>4 DEF CountsOK, CountsAgree
<1> QED BY <1>5, <1>6 DEF CountsOK, CountsAgree

\* ... and when one is given back, of which there is one to give back.
LEMMA GiveReadCounts ==
  ASSUME TypeOK, CountsOK, NEW t \in Threads, NEW l \in Locks, reads[t][l] > 0,
         readers' = [readers EXCEPT ![l] = @ - 1],
         rdlockCount' = [rdlockCount EXCEPT ![t] = @ - 1],
         reads' = [reads EXCEPT ![t][l] = @ - 1]
  PROVE  CountsOK' /\ readers[l] > 0 /\ rdlockCount[t] > 0
<1> DEFINE n == reads[t][l]
<1>1. readers \in [Locks -> Nat] /\ rdlockCount \in [Threads -> Nat]
  BY DEF TypeOK
<1>2. /\ ReadsOn(l)' = ReadsOn(l) \ {<<t, n>>} /\ <<t, n>> \in ReadsOn(l)
      /\ ReadsBy(t)' = ReadsBy(t) \ {<<l, n>>} /\ <<l, n>> \in ReadsBy(t)
      /\ \A k \in Locks : k # l => ReadsOn(k)' = ReadsOn(k)
      /\ \A u \in Threads : u # t => ReadsBy(u)' = ReadsBy(u)
  BY ReadRemoved
<1> HIDE DEF n
<1>3. /\ IsFiniteSet(ReadsOn(l)') /\ Cardinality(ReadsOn(l)') = Cardinality(ReadsOn(l)) - 1
      /\ Cardinality(ReadsOn(l)) \in Nat \ {0}
  <2>1. IsFiniteSet(ReadsOn(l))
    BY DEF CountsOK
  <2> QED BY <1>2, <2>1, OneLess
<1>4. /\ IsFiniteSet(ReadsBy(t)') /\ Cardinality(ReadsBy(t)') = Cardinality(ReadsBy(t)) - 1
      /\ Cardinality(ReadsBy(t)) \in Nat \ {0}
  <2>1. IsFiniteSet(ReadsBy(t))
    BY DEF CountsOK
  <2> QED BY <1>2, <2>1, OneLess
<1>5. \A k \in Locks : IsFiniteSet(ReadsOn(k)') /\ readers'[k] = Cardinality(ReadsOn(k)')
  <2>1. readers'[l] = Cardinality(ReadsOn(l)) - 1 /\ \A k \in Locks : k # l => readers'[k] = readers[k]
    BY <1>1 DEF CountsOK, CountsAgree
  <2>2. readers'[l] = Cardinality(ReadsOn(l)')
    BY <1>3, <2>1
  <2> QED BY <1>2, <1>3, <2>1, <2>2 DEF CountsOK, CountsAgree
<1>6. \A u \in Threads : IsFiniteSet(ReadsBy(u)') /\ rdlockCount'[u] = Cardinality(ReadsBy(u)')
  <2>1. /\ rdlockCount'[t] = Cardinality(ReadsBy(t)) - 1
        /\ \A u \in Threads : u # t => rdlockCount'[u] = rdlockCount[u]
    BY <1>1 DEF CountsOK, CountsAgree
  <2>2. rdlockCount'[t] = Cardinality(ReadsBy(t)')
    BY <1>4, <2>1
  <2> QED BY <1>2, <1>4, <2>1, <2>2 DEF CountsOK, CountsAgree
<1>7. readers[l] > 0 /\ rdlockCount[t] > 0
  BY <1>3, <1>4 DEF CountsOK, CountsAgree
<1> QED BY <1>5, <1>6, <1>7 DEF CountsOK, CountsAgree

-----------------------------------------------------------------------------
\* A call that runs works on a lock.
LEMMA CallLock ==
  ASSUME IInv, NEW t \in Threads, pc[t] # "idle" PROVE lk[t] \in Locks /\ lk[t] # NULL
BY DEF IInv, TypeOK, CallsOK, CallOK

\* A step that changes no read lock leaves the counters right.
LEMMA SameCounts ==
  ASSUME CountsOK, UNCHANGED <<readers, rdlockCount, reads>> PROVE CountsOK'
BY DEF CountsOK, CountsAgree, ReadsOn, ReadsBy

\* One entry of reads changes.
LEMMA ReadsType ==
  ASSUME TypeOK, NEW t \in Threads, NEW l \in Locks,
         \/ reads[t][l] <= MaxReads /\ reads' = [reads EXCEPT ![t][l] = @ + 1]
         \/ reads[t][l] > 0 /\ reads' = [reads EXCEPT ![t][l] = @ - 1]
  PROVE  reads' \in [Threads -> [Locks -> 0 .. MaxReads + 1]]
<1>1. reads \in [Threads -> [Locks -> 0 .. MaxReads + 1]] /\ MaxReads \in Nat
  BY RwlockAssumption DEF TypeOK
<1>2. PICK n \in 0 .. MaxReads + 1 : reads' = [reads EXCEPT ![t][l] = n]
  BY <1>1
<1> QED BY <1>1, <1>2

\* A read lock that is free at once.
LEMMA RdlockTryIInv == ASSUME IInv, NEW t \in Threads, NEW l \in Locks, RdlockTry(t, l) PROVE IInv'
<1>0. l # NULL
  BY RwlockAssumption
<1>a. reads[t][l] <= MaxReads /\ CanRead(l) /\ TakeRead(t, l)
  BY RwlockAssumption DEF RdlockTry, IInv, TypeOK
<1>1. TypeOK'
  <2>1. readers' \in [Locks -> Nat] /\ rdlockCount' \in [Threads -> Nat]
    BY <1>0, <1>a DEF IInv, TypeOK, TakeRead
  <2>2. reads' \in [Threads -> [Locks -> 0 .. MaxReads + 1]]
    BY <1>0, <1>a, ReadsType DEF IInv, TypeOK, TakeRead
  <2>3. asleep' \in [Threads -> BOOLEAN]
    BY DEF IInv, TypeOK, RdlockTry, CheckAndInit, TakeRead, ctlVars
  <2> QED BY <1>0, <2>1, <2>2, <2>3 DEF IInv, TypeOK, RdlockTry, CheckAndInit, TakeRead, ctlVars
<1>2. CallsOK'
  BY <1>0, <1>a DEF IInv, TypeOK, CallsOK, CallOK, RdlockTry, CheckAndInit, TakeRead, ctlVars
<1>3. ClaimsOK'
  BY <1>0, <1>a DEF IInv, TypeOK, CallsOK, CallOK, ClaimsOK, Claims, CanRead, CanWrite,
      RdlockTry, CheckAndInit, TakeRead, ctlVars
<1>4. CountsOK'
  BY <1>0, <1>a, TakeReadCounts DEF IInv
<1>5. OwnerFresh'
  BY <1>0, <1>a DEF IInv, TypeOK, OwnerFresh, ClaimsOK, Claims, RdlockTry, CheckAndInit,
      TakeRead, ctlVars
<1>6. NoLostWakeup'
  BY <1>0, <1>a DEF IInv, TypeOK, NoLostWakeup, CallsOK, CallOK, CanRead, CanWrite, RdlockTry,
      CheckAndInit, TakeRead, ctlVars
<1> QED BY <1>1, <1>2, <1>3, <1>4, <1>5, <1>6 DEF IInv

\* A reader that has to wait: with a writer at work it holds no read lock itself.
LEMMA RdlockSlowIInv ==
  ASSUME IInv, NEW t \in Threads, NEW l \in Locks, NEW isTimed \in BOOLEAN,
         RdlockSlow(t, l, isTimed)
  PROVE  IInv'
<1>0. l # NULL
  BY RwlockAssumption
<1>a. reads[t][l] = 0
  <2>1. readers[l] = 0
    BY DEF RdlockSlow, CanRead, IInv, ClaimsOK
  <2> QED BY <2>1, NoReaders DEF IInv
<1>1. TypeOK'
  BY <1>0, <1>a DEF IInv, TypeOK, RdlockSlow, CheckAndInit, Goto
<1>2. CallsOK'
  BY <1>0, <1>a DEF IInv, TypeOK, CallsOK, CallOK, RdlockSlow, CheckAndInit, Goto
<1>3. ClaimsOK'
  BY <1>0, <1>a DEF IInv, TypeOK, CallsOK, CallOK, ClaimsOK, Claims, CanRead, CanWrite,
      RdlockSlow, CheckAndInit, Goto
<1>4. CountsOK'
  BY SameCounts DEF IInv, RdlockSlow, objVars
<1>5. OwnerFresh'
  BY <1>0, <1>a DEF IInv, TypeOK, OwnerFresh, ClaimsOK, Claims, RdlockSlow, CheckAndInit, Goto
<1>6. NoLostWakeup'
  BY <1>0, <1>a DEF IInv, TypeOK, NoLostWakeup, CallsOK, CallOK, CanRead, CanWrite, RdlockSlow,
      CheckAndInit, Goto
<1> QED BY <1>1, <1>2, <1>3, <1>4, <1>5, <1>6 DEF IInv

\* A reader that waited.
LEMMA RdlockTakeIInv == ASSUME IInv, NEW t \in Threads, RdlockTake(t) PROVE IInv'
<1> DEFINE l == lk[t]
<1>0. l \in Locks /\ l # NULL
  BY CallLock DEF RdlockTake
<1>a. reads[t][l] <= MaxReads /\ CanRead(l) /\ TakeRead(t, l)
  BY RwlockAssumption DEF RdlockTake, IInv, TypeOK, CallsOK, CallOK
<1>1. TypeOK'
  <2>1. readers' \in [Locks -> Nat] /\ rdlockCount' \in [Threads -> Nat]
    BY <1>0, <1>a DEF IInv, TypeOK, TakeRead
  <2>2. reads' \in [Threads -> [Locks -> 0 .. MaxReads + 1]]
    BY <1>0, <1>a, ReadsType DEF IInv, TypeOK, TakeRead
  <2>3. asleep' \in [Threads -> BOOLEAN]
    BY DEF IInv, TypeOK, RdlockTake, TakeRead, Goto
  <2> QED BY <1>0, <2>1, <2>2, <2>3 DEF IInv, TypeOK, RdlockTake, TakeRead, Goto
<1>2. CallsOK'
  BY <1>0, <1>a DEF IInv, TypeOK, CallsOK, CallOK, RdlockTake, TakeRead, Goto
<1>3. ClaimsOK'
  BY <1>0, <1>a DEF IInv, TypeOK, CallsOK, CallOK, ClaimsOK, Claims, CanRead, CanWrite,
      RdlockTake, TakeRead, Goto
<1>4. CountsOK'
  BY <1>0, <1>a, TakeReadCounts DEF IInv
<1>5. OwnerFresh'
  BY <1>0, <1>a DEF IInv, TypeOK, OwnerFresh, ClaimsOK, Claims, RdlockTake, TakeRead, Goto
<1>6. NoLostWakeup'
  BY <1>0, <1>a DEF IInv, TypeOK, NoLostWakeup, CallsOK, CallOK, CanRead, CanWrite, RdlockTake,
      TakeRead, Goto
<1> QED BY <1>1, <1>2, <1>3, <1>4, <1>5, <1>6 DEF IInv

\* A reader that finds the lock taken sleeps.
LEMMA RdlockSleepIInv == ASSUME IInv, NEW t \in Threads, RdlockSleep(t) PROVE IInv'
<1> DEFINE l == lk[t]
<1>0. l \in Locks /\ l # NULL
  BY CallLock DEF RdlockSleep
<1>1. TypeOK'
  BY <1>0 DEF IInv, TypeOK, RdlockSleep, objVars
<1>2. CallsOK'
  BY <1>0 DEF IInv, TypeOK, CallsOK, CallOK, RdlockSleep, objVars
<1>3. ClaimsOK'
  BY <1>0 DEF IInv, TypeOK, CallsOK, CallOK, ClaimsOK, Claims, CanRead, CanWrite, RdlockSleep,
      objVars
<1>4. CountsOK'
  BY SameCounts DEF IInv, RdlockSleep, objVars
<1>5. OwnerFresh'
  BY <1>0 DEF IInv, TypeOK, OwnerFresh, ClaimsOK, Claims, RdlockSleep, objVars
<1>6. NoLostWakeup'
  BY <1>0 DEF IInv, TypeOK, NoLostWakeup, CallsOK, CallOK, CanRead, CanWrite, RdlockSleep, objVars
<1> QED BY <1>1, <1>2, <1>3, <1>4, <1>5, <1>6 DEF IInv

\* A write lock that is free at once.
LEMMA WrlockTryIInv == ASSUME IInv, NEW t \in Threads, NEW l \in Locks, WrlockTry(t, l) PROVE IInv'
<1>0. l # NULL
  BY RwlockAssumption
<1>a. CanWrite(l) /\ ~writes[t][l] /\ \A u \in Threads : ~Claims(u, l)
  BY <1>0 DEF WrlockTry, CanWrite, IInv, ClaimsOK, Claims
<1>1. TypeOK'
  BY <1>0, <1>a DEF IInv, TypeOK, WrlockTry, CheckAndInit, Goto
<1>2. CallsOK'
  BY <1>0, <1>a DEF IInv, TypeOK, CallsOK, CallOK, WrlockTry, CheckAndInit, Goto
<1>3. ClaimsOK'
  <2>1. pc[t] = "idle" /\ writerActive' = [writerActive EXCEPT ![l] = TRUE] /\ readers[l] = 0
    BY DEF WrlockTry, CanWrite
  <2>2. \A u \in Threads, k \in Locks : Claims(u, k)' <=> Claims(u, k) \/ (u = t /\ k = l)
    BY <1>a, <2>1 DEF Claims, IInv, TypeOK, WrlockTry, Goto
  <2> QED BY <1>a, <2>1, <2>2 DEF IInv, TypeOK, ClaimsOK, WrlockTry
<1>4. CountsOK'
  BY SameCounts DEF IInv, WrlockTry, objVars
<1>5. OwnerFresh'
  BY <1>0, <1>a DEF IInv, TypeOK, OwnerFresh, ClaimsOK, Claims, WrlockTry, CheckAndInit, Goto
<1>6. NoLostWakeup'
  BY <1>0, <1>a DEF IInv, TypeOK, NoLostWakeup, CallsOK, CallOK, CanRead, CanWrite, WrlockTry,
      CheckAndInit, Goto
<1> QED BY <1>1, <1>2, <1>3, <1>4, <1>5, <1>6 DEF IInv

\* A writer that has to wait.
LEMMA WrlockSlowIInv ==
  ASSUME IInv, NEW t \in Threads, NEW l \in Locks, NEW isTimed \in BOOLEAN,
         WrlockSlow(t, l, isTimed)
  PROVE  IInv'
<1>0. l # NULL
  BY RwlockAssumption
<1>1. TypeOK'
  BY <1>0 DEF IInv, TypeOK, WrlockSlow, CheckAndInit, Goto
<1>2. CallsOK'
  BY <1>0 DEF IInv, TypeOK, CallsOK, CallOK, WrlockSlow, CheckAndInit, Goto
<1>3. ClaimsOK'
  BY <1>0 DEF IInv, TypeOK, CallsOK, CallOK, ClaimsOK, Claims, CanRead, CanWrite, WrlockSlow,
      CheckAndInit, Goto
<1>4. CountsOK'
  BY SameCounts DEF IInv, WrlockSlow, objVars
<1>5. OwnerFresh'
  BY <1>0 DEF IInv, TypeOK, OwnerFresh, ClaimsOK, Claims, WrlockSlow, CheckAndInit, Goto
<1>6. NoLostWakeup'
  BY <1>0 DEF IInv, TypeOK, NoLostWakeup, CallsOK, CallOK, CanRead, CanWrite, WrlockSlow,
      CheckAndInit, Goto
<1> QED BY <1>1, <1>2, <1>3, <1>4, <1>5, <1>6 DEF IInv

\* A writer that waited.
LEMMA WrlockTakeIInv == ASSUME IInv, NEW t \in Threads, WrlockTake(t) PROVE IInv'
<1> DEFINE l == lk[t]
<1>0. l \in Locks /\ l # NULL
  BY CallLock DEF WrlockTake
<1>a. CanWrite(l) /\ ~writes[t][l] /\ \A u \in Threads : ~Claims(u, l)
  BY <1>0 DEF WrlockTake, CanWrite, IInv, ClaimsOK, Claims
<1>1. TypeOK'
  BY <1>0, <1>a DEF IInv, TypeOK, WrlockTake, Goto
<1>2. CallsOK'
  BY <1>0, <1>a DEF IInv, TypeOK, CallsOK, CallOK, WrlockTake, Goto
<1>3. ClaimsOK'
  BY <1>0, <1>a DEF IInv, TypeOK, CallsOK, CallOK, ClaimsOK, Claims, CanRead, CanWrite,
      WrlockTake, Goto
<1>4. CountsOK'
  BY SameCounts DEF IInv, WrlockTake, objVars
<1>5. OwnerFresh'
  BY <1>0, <1>a DEF IInv, TypeOK, OwnerFresh, ClaimsOK, Claims, WrlockTake, Goto
<1>6. NoLostWakeup'
  BY <1>0, <1>a DEF IInv, TypeOK, NoLostWakeup, CallsOK, CallOK, CanRead, CanWrite, WrlockTake, Goto
<1> QED BY <1>1, <1>2, <1>3, <1>4, <1>5, <1>6 DEF IInv

\* A writer that finds the lock taken sleeps.
LEMMA WrlockSleepIInv == ASSUME IInv, NEW t \in Threads, WrlockSleep(t) PROVE IInv'
<1> DEFINE l == lk[t]
<1>0. l \in Locks /\ l # NULL
  BY CallLock DEF WrlockSleep
<1>1. TypeOK'
  BY <1>0 DEF IInv, TypeOK, WrlockSleep, objVars
<1>2. CallsOK'
  BY <1>0 DEF IInv, TypeOK, CallsOK, CallOK, WrlockSleep, objVars
<1>3. ClaimsOK'
  BY <1>0 DEF IInv, TypeOK, CallsOK, CallOK, ClaimsOK, Claims, CanRead, CanWrite, WrlockSleep,
      objVars
<1>4. CountsOK'
  BY SameCounts DEF IInv, WrlockSleep, objVars
<1>5. OwnerFresh'
  BY <1>0 DEF IInv, TypeOK, OwnerFresh, ClaimsOK, Claims, WrlockSleep, objVars
<1>6. NoLostWakeup'
  BY <1>0 DEF IInv, TypeOK, NoLostWakeup, CallsOK, CallOK, CanRead, CanWrite, WrlockSleep, objVars
<1> QED BY <1>1, <1>2, <1>3, <1>4, <1>5, <1>6 DEF IInv

\* The writer becomes the owner.
LEMMA WrlockOwnIInv == ASSUME IInv, NEW t \in Threads, WrlockOwn(t) PROVE IInv'
<1> DEFINE l == lk[t]
<1>0. l \in Locks /\ l # NULL
  BY CallLock DEF WrlockOwn
<1>1. TypeOK'
  BY <1>0 DEF IInv, TypeOK, WrlockOwn, Goto
<1>2. CallsOK'
  BY <1>0 DEF IInv, TypeOK, CallsOK, CallOK, WrlockOwn, Goto
<1>3. ClaimsOK'
  BY <1>0 DEF IInv, TypeOK, CallsOK, CallOK, ClaimsOK, Claims, CanRead, CanWrite, WrlockOwn, Goto
<1>4. CountsOK'
  BY SameCounts DEF IInv, WrlockOwn, objVars
<1>5. OwnerFresh'
  BY <1>0 DEF IInv, TypeOK, OwnerFresh, ClaimsOK, Claims, WrlockOwn, Goto
<1>6. NoLostWakeup'
  BY <1>0 DEF IInv, TypeOK, NoLostWakeup, CallsOK, CallOK, CanRead, CanWrite, WrlockOwn, Goto
<1> QED BY <1>1, <1>2, <1>3, <1>4, <1>5, <1>6 DEF IInv

\* A timed wait ends without the lock.
LEMMA TimeoutIInv == ASSUME IInv, NEW t \in Threads, Timeout(t) PROVE IInv'
<1> DEFINE l == lk[t]
<1>0. l \in Locks /\ l # NULL
  BY CallLock DEF Timeout
<1>1. TypeOK'
  BY <1>0 DEF IInv, TypeOK, Timeout, Goto, objVars
<1>2. CallsOK'
  BY <1>0 DEF IInv, TypeOK, CallsOK, CallOK, Timeout, Goto, objVars
<1>3. ClaimsOK'
  BY <1>0 DEF IInv, TypeOK, CallsOK, CallOK, ClaimsOK, Claims, CanRead, CanWrite, Timeout, Goto,
      objVars
<1>4. CountsOK'
  BY SameCounts DEF IInv, Timeout, objVars
<1>5. OwnerFresh'
  BY <1>0 DEF IInv, TypeOK, OwnerFresh, ClaimsOK, Claims, Timeout, Goto, objVars
<1>6. NoLostWakeup'
  BY <1>0 DEF IInv, TypeOK, NoLostWakeup, CallsOK, CallOK, CanRead, CanWrite, Timeout, Goto, objVars
<1> QED BY <1>1, <1>2, <1>3, <1>4, <1>5, <1>6 DEF IInv

\* The owner starts to unlock.
LEMMA UnlockOwnerIInv == ASSUME IInv, NEW t \in Threads, NEW l \in Locks, UnlockOwner(t, l) PROVE IInv'
<1>0. l # NULL
  BY RwlockAssumption
<1>a. writes[t][l] /\ owner[l] = t
  BY DEF UnlockOwner, IInv, OwnerFresh
<1>b. /\ ~writes'[t][l]
      /\ \A u \in Threads, k \in Locks : ~(u = t /\ k = l) => (writes'[u][k] <=> writes[u][k])
      /\ owner' = [owner EXCEPT ![l] = NULL] /\ writerActive' = writerActive /\ readers' = readers
      /\ pc[t] = "idle" /\ lk[t] = NULL
      /\ pc' = [pc EXCEPT ![t] = "unlock"] /\ lk' = [lk EXCEPT ![t] = l]
  BY DEF UnlockOwner, Goto, IInv, TypeOK, CallsOK, CallOK
<1>1. TypeOK'
  BY <1>0, <1>a, <1>b DEF IInv, TypeOK, UnlockOwner, Goto
<1>2. CallsOK'
  BY <1>0, <1>a, <1>b DEF IInv, TypeOK, CallsOK, CallOK, UnlockOwner, Goto
<1>3. ClaimsOK'
  <2>1. \A u \in Threads, k \in Locks : Claims(u, k)' <=> Claims(u, k)
    BY <1>0, <1>a, <1>b DEF Claims, IInv, TypeOK
  <2> QED BY <1>0, <1>a, <1>b, <2>1 DEF IInv, ClaimsOK
<1>4. CountsOK'
  BY SameCounts DEF IInv, UnlockOwner, objVars
<1>5. OwnerFresh'
  BY <1>0, <1>a, <1>b, RwlockAssumption DEF IInv, TypeOK, OwnerFresh
<1>6. NoLostWakeup'
  BY <1>0, <1>a, <1>b DEF IInv, TypeOK, NoLostWakeup, CallsOK, CallOK, CanRead, CanWrite,
      UnlockOwner, Goto
<1> QED BY <1>1, <1>2, <1>3, <1>4, <1>5, <1>6 DEF IInv

\* The writer gives the lock back and notifies all.
LEMMA UnlockWriterIInv == ASSUME IInv, NEW t \in Threads, UnlockWriter(t) PROVE IInv'
<1> DEFINE l == lk[t]
<1>0. l \in Locks /\ l # NULL
  BY CallLock DEF UnlockWriter
<1>1. TypeOK'
  BY <1>0 DEF IInv, TypeOK, UnlockWriter, NotifyAll, Goto
<1>2. CallsOK'
  BY <1>0 DEF IInv, TypeOK, CallsOK, CallOK, UnlockWriter, NotifyAll, Goto
<1>3. ClaimsOK'
  BY <1>0 DEF IInv, TypeOK, CallsOK, CallOK, ClaimsOK, Claims, CanRead, CanWrite, UnlockWriter,
      NotifyAll, Goto
<1>4. CountsOK'
  BY SameCounts DEF IInv, UnlockWriter, objVars
<1>5. OwnerFresh'
  BY <1>0 DEF IInv, TypeOK, OwnerFresh, ClaimsOK, Claims, UnlockWriter, NotifyAll, Goto
<1>6. NoLostWakeup'
  BY <1>0 DEF IInv, TypeOK, NoLostWakeup, CallsOK, CallOK, CanRead, CanWrite, UnlockWriter,
      NotifyAll, Goto
<1> QED BY <1>1, <1>2, <1>3, <1>4, <1>5, <1>6 DEF IInv

\* A reader gives the lock back: it sees no owner, and the last one notifies all.
LEMMA UnlockReaderIInv ==
  ASSUME IInv, NEW t \in Threads, NEW l \in Locks, UnlockReader(t, l) PROVE IInv'
<1>0. l # NULL
  BY RwlockAssumption
<1>a. ~writes[t][l] /\ reads[t][l] > 0 /\ reads[t][l] \in 0 .. MaxReads + 1
  BY RwlockAssumption DEF UnlockReader, IInv, TypeOK, OwnerFresh
<1>b. ~writerActive[l]
  BY <1>a, NoReaders DEF IInv, ClaimsOK
<1>c. owner[l] = NULL
  BY <1>b DEF IInv, TypeOK, OwnerFresh, ClaimsOK, Claims
<1>d. /\ readers' = [readers EXCEPT ![l] = @ - 1]
      /\ rdlockCount' = [rdlockCount EXCEPT ![t] = @ - 1]
      /\ reads' = [reads EXCEPT ![t][l] = @ - 1]
  BY <1>c DEF UnlockReader
<1>e. CountsOK' /\ readers[l] > 0 /\ rdlockCount[t] > 0
  BY <1>a, <1>d, GiveReadCounts DEF IInv
<1>1. TypeOK'
  <2>1. readers' \in [Locks -> Nat] /\ rdlockCount' \in [Threads -> Nat]
    BY <1>0, <1>a, <1>b, <1>c, <1>d, <1>e DEF IInv, TypeOK, TakeRead
  <2>2. reads' \in [Threads -> [Locks -> 0 .. MaxReads + 1]]
    BY <1>0, <1>a, <1>b, <1>c, <1>d, <1>e, ReadsType DEF IInv, TypeOK, TakeRead
  <2>3. asleep' \in [Threads -> BOOLEAN]
    BY DEF IInv, TypeOK, UnlockReader, NotifyAll
  <2> QED BY <1>0, <2>1, <2>2, <2>3 DEF IInv, TypeOK, UnlockReader, NotifyAll
<1>2. CallsOK'
  BY <1>0, <1>a, <1>b, <1>c, <1>d, <1>e DEF IInv, TypeOK, CallsOK, CallOK, UnlockReader, NotifyAll
<1>3. ClaimsOK'
  BY <1>0, <1>a, <1>b, <1>c, <1>d, <1>e DEF IInv, TypeOK, CallsOK, CallOK, ClaimsOK, Claims,
      CanRead, CanWrite, UnlockReader, NotifyAll
<1>4. CountsOK'
  BY <1>e
<1>5. OwnerFresh'
  BY <1>0, <1>a, <1>b, <1>c, <1>d, <1>e DEF IInv, TypeOK, OwnerFresh, ClaimsOK, Claims,
      UnlockReader, NotifyAll
<1>6. NoLostWakeup'
  BY <1>0, <1>a, <1>b, <1>c, <1>d, <1>e DEF IInv, TypeOK, NoLostWakeup, CallsOK, CallOK,
      CanRead, CanWrite, UnlockReader, NotifyAll
<1> QED BY <1>1, <1>2, <1>3, <1>4, <1>5, <1>6 DEF IInv

\* Initialising a lock.
LEMMA RwlockInitIInv == ASSUME IInv, NEW t \in Threads, NEW l \in Locks, RwlockInit(t, l) PROVE IInv'
<1>0. l # NULL
  BY RwlockAssumption
<1>1. TypeOK'
  BY <1>0 DEF IInv, TypeOK, RwlockInit, ctlVars
<1>2. CallsOK'
  BY <1>0 DEF IInv, TypeOK, CallsOK, CallOK, RwlockInit, ctlVars
<1>3. ClaimsOK'
  BY <1>0 DEF IInv, TypeOK, CallsOK, CallOK, ClaimsOK, Claims, CanRead, CanWrite, RwlockInit,
      ctlVars
<1>4. CountsOK'
  BY SameCounts DEF IInv, RwlockInit, objVars
<1>5. OwnerFresh'
  BY <1>0 DEF IInv, TypeOK, OwnerFresh, ClaimsOK, Claims, RwlockInit, ctlVars
<1>6. NoLostWakeup'
  BY <1>0 DEF IInv, TypeOK, NoLostWakeup, CallsOK, CallOK, CanRead, CanWrite, RwlockInit, ctlVars
<1> QED BY <1>1, <1>2, <1>3, <1>4, <1>5, <1>6 DEF IInv

\* Destroying a lock nobody uses.
LEMMA RwlockDestroyIInv ==
  ASSUME IInv, NEW t \in Threads, NEW l \in Locks, RwlockDestroy(t, l) PROVE IInv'
<1>0. l # NULL
  BY RwlockAssumption
<1>1. TypeOK'
  BY <1>0 DEF IInv, TypeOK, RwlockDestroy, ctlVars
<1>2. CallsOK'
  BY <1>0 DEF IInv, TypeOK, CallsOK, CallOK, RwlockDestroy, ctlVars
<1>3. ClaimsOK'
  BY <1>0 DEF IInv, TypeOK, CallsOK, CallOK, ClaimsOK, Claims, CanRead, CanWrite, RwlockDestroy,
      ctlVars
<1>4. CountsOK'
  BY SameCounts DEF IInv, RwlockDestroy, objVars
<1>5. OwnerFresh'
  BY <1>0 DEF IInv, TypeOK, OwnerFresh, ClaimsOK, Claims, RwlockDestroy, ctlVars
<1>6. NoLostWakeup'
  BY <1>0 DEF IInv, TypeOK, NoLostWakeup, CallsOK, CallOK, CanRead, CanWrite, RwlockDestroy, ctlVars
<1> QED BY <1>1, <1>2, <1>3, <1>4, <1>5, <1>6 DEF IInv

\* Initially nothing is locked and nobody waits.
LEMMA InitIInv == Init => IInv
<1> SUFFICES ASSUME Init PROVE IInv
  OBVIOUS
<1>1. TypeOK
  BY RwlockAssumption DEF Init, TypeOK
<1>2. CallsOK /\ OwnerFresh /\ NoLostWakeup
  BY RwlockAssumption DEF Init, CallsOK, CallOK, OwnerFresh, NoLostWakeup
<1>3. ClaimsOK
  BY DEF Init, ClaimsOK, Claims
<1>4. CountsOK
  <2>1. \A l \in Locks : ReadsOn(l) = {}
    BY RwlockAssumption DEF Init, ReadsOn
  <2>2. \A t \in Threads : ReadsBy(t) = {}
    BY RwlockAssumption DEF Init, ReadsBy
  <2> QED BY <2>1, <2>2, FS_EmptySet DEF Init, CountsOK, CountsAgree
<1> QED BY <1>1, <1>2, <1>3, <1>4 DEF IInv

\* Every step preserves the invariant.
LEMMA NextIInv == IInv /\ [Next]_vars => IInv'
<1> SUFFICES ASSUME IInv, [Next]_vars PROVE IInv'
  OBVIOUS
<1>1. CASE UNCHANGED vars
  <2>1. CountsOK'
    BY <1>1, SameCounts DEF IInv, vars, objVars
  <2>2. TypeOK' /\ OwnerFresh' /\ NoLostWakeup'
    BY <1>1 DEF IInv, vars, objVars, ctlVars, TypeOK, OwnerFresh, NoLostWakeup, CanRead, CanWrite
  <2>3. CallsOK' /\ ClaimsOK'
    BY <1>1 DEF IInv, vars, objVars, ctlVars, CallsOK, CallOK, ClaimsOK, Claims
  <2> QED BY <2>1, <2>2, <2>3 DEF IInv
<1>2. CASE Next
  <2>1. PICK t \in Threads :
          \/ LibraryStep(t) \/ Timeout(t)
          \/ \E l \in Locks :
               \/ RdlockTry(t, l) \/ WrlockTry(t, l)
               \/ \E isTimed \in BOOLEAN : RdlockSlow(t, l, isTimed) \/ WrlockSlow(t, l, isTimed)
               \/ UnlockOwner(t, l) \/ UnlockReader(t, l)
               \/ RwlockInit(t, l) \/ RwlockDestroy(t, l)
    BY <1>2 DEF Next
  <2>2. CASE LibraryStep(t)
    BY <2>2, RdlockTakeIInv, RdlockSleepIInv, WrlockTakeIInv, WrlockSleepIInv,
       WrlockOwnIInv, UnlockWriterIInv DEF LibraryStep
  <2>3. CASE Timeout(t)
    BY <2>3, TimeoutIInv
  <2>4. ASSUME NEW l \in Locks, RdlockTry(t, l) \/ WrlockTry(t, l) PROVE IInv'
    BY <2>4, RdlockTryIInv, WrlockTryIInv
  <2>5. ASSUME NEW l \in Locks, NEW isTimed \in BOOLEAN,
               RdlockSlow(t, l, isTimed) \/ WrlockSlow(t, l, isTimed)
        PROVE  IInv'
    BY <2>5, RdlockSlowIInv, WrlockSlowIInv
  <2>6. ASSUME NEW l \in Locks, UnlockOwner(t, l) \/ UnlockReader(t, l) PROVE IInv'
    BY <2>6, UnlockOwnerIInv, UnlockReaderIInv
  <2>7. ASSUME NEW l \in Locks, RwlockInit(t, l) \/ RwlockDestroy(t, l) PROVE IInv'
    BY <2>7, RwlockInitIInv, RwlockDestroyIInv
  <2> QED BY <2>1, <2>2, <2>3, <2>4, <2>5, <2>6, <2>7
<1> QED BY <1>1, <1>2

\* The invariant holds in every reachable state.
LEMMA InvariantHolds == Spec => []IInv
BY InitIInv, NextIInv, PTL DEF Spec

-----------------------------------------------------------------------------
\* The state stays well typed: in particular the counters never go below zero,
\* and a reader that waited never exceeds the bound on read locks.
THEOREM TypeCorrect == Spec => []TypeOK
<1>1. IInv => TypeOK
  BY DEF IInv
<1> QED BY <1>1, InvariantHolds, PTL

\* A writer is alone, for any number of threads and locks: what the guest was
\* told by wrlock and rdlock never contradicts itself.
THEOREM WritersAreAlone == Spec => []WriterAlone
<1>1. IInv => WriterAlone
  <2> SUFFICES ASSUME IInv, NEW t \in Threads, NEW u \in Threads, NEW l \in Locks, writes[t][l]
               PROVE  reads[u][l] = 0 /\ (u # t => ~writes[u][l])
    BY DEF WriterAlone
  <2>1. writerActive[l] /\ readers[l] = 0
    BY DEF IInv, ClaimsOK, Claims
  <2>2. reads[u][l] = 0
    BY <2>1, NoReaders DEF IInv
  <2>3. u # t => ~writes[u][l]
    BY DEF IInv, ClaimsOK, Claims
  <2> QED BY <2>2, <2>3
<1> QED BY <1>1, InvariantHolds, PTL

\* readers and rdlock_count are exactly the read locks the guest holds.
THEOREM CountersAgree == Spec => []CountsAgree
<1>1. IInv => CountsAgree
  BY DEF IInv, CountsOK
<1> QED BY <1>1, InvariantHolds, PTL

\* owner names a thread exactly while that thread holds the write lock, so unlock
\* never takes a reader for the writer or the writer for a reader.
THEOREM OwnerIsFresh == Spec => []OwnerFresh
<1>1. IInv => OwnerFresh
  BY DEF IInv
<1> QED BY <1>1, InvariantHolds, PTL

\* A waiter sleeps un-notified only while it could not have the lock.
THEOREM WakeupsAreKept == Spec => []NoLostWakeup
<1>1. IInv => NoLostWakeup
  BY DEF IInv
<1> QED BY <1>1, InvariantHolds, PTL
=============================================================================
