------------------------ MODULE PthreadMonitor_proofs ------------------------
(***************************************************************************)
(* More proofs about PthreadCond, on top of the invariant of module        *)
(* PthreadCond_proofs: the sleep queue lock covers the entry of Wait, the  *)
(* queue objects stay where they belong, no wake-up is lost, forgotten or  *)
(* stray, and the calls implement the monitor of module GuestMonitor.      *)
(***************************************************************************)
EXTENDS PthreadCond_proofs

\* The control points of Wait before it has joined the queue.
EntryPcs == {"waitUnlock", "release", "waitAdd"}

\* What is needed besides IInv.  Only a Broadcast or a call on its way out holds
\* semaphores to release; Unlock's local is dead after the release; and from
\* SleepqLock to SleepqAdd, Wait can count on has_user_waiters.
ListsOK ==
  \A t \in Threads :
    /\ toRelease[t] # << >> => pc[t] \in {"post", "drop"}
    /\ deferred[t] => pc[t] = "release"

EntryOK ==
  \A t \in Threads :
    call[t] # NULL /\ pc[t] \in EntryPcs => hasUserWaiters[call[t]]

\* A step that another thread u cannot see in its own call.
Untouched(u) ==
  /\ pc'[u] = pc[u] /\ mx'[u] = mx[u] /\ call'[u] = call[u]
  /\ deferred'[u] = deferred[u] /\ toRelease'[u] = toRelease[u]
  /\ deferWaiters'[u] = deferWaiters[u] /\ mutexObj'[u] = mutexObj[u]
  /\ depth'[u] = depth[u]

\* The steps of thread t.
StepOf(t) ==
  \/ LibraryStep(t)
  \/ \E m \in Mutexes : MutexCall(t, m) /\ UNCHANGED condVars
  \/ \E c \in Conds : CondCall(t, c)
  \/ \E td \in Threads : Cancel(t, td)
  \/ LockTimeout(t) /\ UNCHANGED condVars
  \/ WaitExpire(t)

-----------------------------------------------------------------------------
\* The moves of one thread leave the call of every other thread alone.
LEMMA Locality ==
  ASSUME IInv, NEW t \in Threads, NEW u \in Threads, u # t, StepOf(t)
  PROVE  Untouched(u)
<1> USE DEF Goto, Return, objVars, wakeVars, ctlVars, condVars, IInv, TypeOK, MutexTypeOK,
             Untouched
<1>1. CASE LibraryStep(t)
  <2>1. CASE (LockAcquire(t) \/ SetOwner(t) \/ UnlockRelease(t)) /\ UNCHANGED condVars
    BY <2>1 DEF LockAcquire, SetOwner, UnlockRelease
  <2>2. CASE UnlockWakeAll(t) /\ UNCHANGED condVars
    BY <2>2 DEF UnlockWakeAll, WakeAllNext
  <2>3. CASE WaitCvUnlock(t) \/ WaitAdd(t) \/ WaitSleep(t) \/ WaitAcquire(t) \/ WaitRelock(t)
    BY <2>3 DEF WaitCvUnlock, DropOwner, WaitAdd, WaitSleep, WaitAcquire, WaitRelock
  <2>4. CASE WaitFlush(t)
    BY <2>4 DEF WaitFlush, WakeAllNext
  <2>5. CASE WaitWake(t)
    BY <2>5 DEF WaitWake
  <2>6. CASE PostRelease(t)
    BY <2>6 DEF PostRelease
  <2>7. ASSUME NEW c \in Conds, BroadcastDrop(t, c) PROVE Untouched(u)
    BY <2>7 DEF BroadcastDrop, WakeOne
  <2>8. ASSUME NEW c \in Conds, BroadcastEnd(t, c) PROVE Untouched(u)
    BY <2>8 DEF BroadcastEnd
  <2> QED BY <1>1, <2>1, <2>2, <2>3, <2>4, <2>5, <2>6, <2>7, <2>8 DEF LibraryStep
<1>2. ASSUME NEW m \in Mutexes, MutexCall(t, m), UNCHANGED condVars
      PROVE  Untouched(u)
  BY <1>2 DEF MutexCall, LockSelfRecursive, LockSelfNormal, LockBegin, TryLock,
              UnlockRecursive, UnlockBegin, DropOwner, MutexInit, MutexDestroy
<1>3. ASSUME NEW c \in Conds, CondCall(t, c)
      PROVE  Untouched(u)
  <2>1. ASSUME NEW i, Signal(t, c, i)
        PROVE  Untouched(u)
    BY <2>1 DEF Signal, WakeOne
  <2>2. ASSUME NEW m \in Mutexes, NEW b \in BOOLEAN, WaitBegin(t, c, m, b)
        PROVE  Untouched(u)
    BY <2>2 DEF WaitBegin
  <2> QED BY <1>3, <2>1, <2>2 DEF CondCall, CondSignal, CondSignalTo, CondBroadcast,
             CondSignalToUnqueued, CondDestroy, CondInit
<1>4. ASSUME NEW td \in Threads, Cancel(t, td)
      PROVE  Untouched(u)
  BY <1>4 DEF Cancel
<1> QED BY <1>1, <1>2, <1>3, <1>4 DEF StepOf, LockTimeout, WaitExpire

\* All variables but the cancellation state, which setcancelstate and exit change
\* and only Wait's ShouldCancel reads.
coreVars == <<objVars, wakeVars, ctlVars, depth, cslot, hasUserWaiters, sleepqLock,
              sleepq, blocked, sleepqueue, wchan, mutexObj, toRelease, cancelPending>>

\* A step is one of these of some thread, or leaves all of that unchanged.
LEMMA SomeStep ==
  ASSUME [Next]_vars
  PROVE  (\E t \in Threads : StepOf(t)) \/ UNCHANGED coreVars
BY DEF Next, StepOf, SetCancelState, Exit, vars, condVars, coreVars

\* A list with one element.
LEMMA TailOne ==
  ASSUME NEW S, NEW s \in Seq(S), Len(s) = 1
  PROVE  Tail(s) = << >>
<1>1. s # << >>
  OBVIOUS
<1>2. Tail(s) \in Seq(S) /\ Len(Tail(s)) = 0
  BY <1>1, HeadTailProperties
<1> QED BY <1>2, EmptySeq

\* What a thread still has to release, and Unlock's local, are used up before
\* the call they belong to ends.
LEMMA NextLists ==
  ASSUME IInv, ListsOK, [Next]_vars
  PROVE  ListsOK'
<1>1. CASE UNCHANGED coreVars
  BY <1>1 DEF ListsOK, coreVars, ctlVars
<1>2. CASE \E t \in Threads : StepOf(t)
  <2> PICK t \in Threads : StepOf(t)
    BY <1>2
  <2> DEFINE Fine == /\ toRelease'[t] # << >> => pc'[t] \in {"post", "drop"}
                     /\ deferred'[t] => pc'[t] = "release"
  <2>t. TypeOK
    BY DEF IInv
  <2> USE DEF Goto, Return, objVars, wakeVars, ctlVars, condVars, TypeOK, MutexTypeOK, ListsOK
  <2>1. ASSUME LibraryStep(t) PROVE Fine
    <3>1. CASE (LockAcquire(t) \/ SetOwner(t)) /\ UNCHANGED condVars
      <4>1. pc[t] \in {"lock", "own"} /\ deferred' = deferred /\ toRelease' = toRelease
        BY <3>1 DEF LockAcquire, SetOwner
      <4> QED BY <4>1
    <3>9. CASE UnlockRelease(t) /\ UNCHANGED condVars
      BY <2>t, <3>9 DEF UnlockRelease
    <3>2. CASE UnlockWakeAll(t) /\ UNCHANGED condVars
      BY <2>t, <3>2 DEF UnlockWakeAll, WakeAllNext
    <3>3. CASE WaitAdd(t) \/ WaitSleep(t) \/ WaitAcquire(t) \/ WaitRelock(t)
      <4>1. /\ pc[t] \notin {"post", "drop", "release"}
            /\ deferred' = deferred /\ toRelease' = toRelease
        BY <3>3 DEF WaitAdd, WaitSleep, WaitAcquire, WaitRelock
      <4> QED BY <4>1
    <3>10. CASE WaitCvUnlock(t)
      BY <2>t, <3>10 DEF WaitCvUnlock, DropOwner
    <3>4. CASE WaitFlush(t)
      BY <2>t, <3>4 DEF WaitFlush, WakeAllNext
    <3>5. CASE WaitWake(t)
      BY <2>t, <3>5 DEF WaitWake
    <3>6. CASE PostRelease(t)
      <4>1. CASE Len(toRelease[t]) = 1
        <5>1. toRelease[t] \in Seq(Threads) /\ Tail(toRelease[t]) = << >>
          BY <2>t, <4>1, TailOne
        <5>2. pc'[t] = "idle" /\ toRelease'[t] = << >> /\ ~deferred'[t]
          BY <2>t, <3>6, <4>1, <5>1 DEF PostRelease
        <5> QED BY <5>2
      <4>2. CASE Len(toRelease[t]) # 1
        BY <2>t, <3>6, <4>2 DEF PostRelease
      <4> QED BY <4>1, <4>2
    <3>7. ASSUME NEW c \in Conds, BroadcastDrop(t, c) PROVE Fine
      BY <2>t, <3>7 DEF BroadcastDrop
    <3>8. ASSUME NEW c \in Conds, BroadcastEnd(t, c) PROVE Fine
      BY <2>t, <3>8 DEF BroadcastEnd
    <3> QED BY <2>1, <3>1, <3>2, <3>3, <3>4, <3>5, <3>6, <3>7, <3>8, <3>9,
               <3>10 DEF LibraryStep
  <2>2. ASSUME NEW m \in Mutexes, MutexCall(t, m), UNCHANGED condVars PROVE Fine
    BY <2>t, <2>2, SMTT(60) DEF MutexCall, LockSelfRecursive, LockSelfNormal, LockBegin, TryLock,
                UnlockRecursive, UnlockBegin, DropOwner, MutexInit, MutexDestroy
  <2>3. ASSUME NEW c \in Conds, CondCall(t, c) PROVE Fine
    <3>1. ASSUME NEW i, Signal(t, c, i) PROVE Fine
      BY <2>t, <3>1 DEF Signal, WakeOne
    <3>2. ASSUME NEW m \in Mutexes, NEW b \in BOOLEAN, WaitBegin(t, c, m, b) PROVE Fine
      BY <2>t, <3>2 DEF WaitBegin
    <3>3. ASSUME NEW td \in Threads, CondSignalToUnqueued(t, c, td) PROVE Fine
      BY <2>t, <3>3 DEF CondSignalToUnqueued
    <3>4. CASE CondBroadcast(t, c) \/ CondDestroy(t, c) \/ CondInit(t, c)
      BY <2>t, <3>4 DEF CondBroadcast, CondDestroy, CondInit
    <3> QED BY <2>3, <3>1, <3>2, <3>3, <3>4 DEF CondCall, CondSignal, CondSignalTo
  <2>4. ASSUME NEW td \in Threads, Cancel(t, td) PROVE Fine
    BY <2>t, <2>4 DEF Cancel
  <2>5. ASSUME LockTimeout(t), UNCHANGED condVars PROVE Fine
    BY <2>t, <2>5 DEF LockTimeout
  <2>6. ASSUME WaitExpire(t) PROVE Fine
    BY <2>t, <2>6 DEF WaitExpire
  <2>7. Fine
    BY <2>1, <2>2, <2>3, <2>4, <2>5, <2>6 DEF StepOf
  <2> HIDE DEF Fine
  <2>8. ASSUME NEW u \in Threads, u # t
        PROVE  /\ toRelease'[u] # << >> => pc'[u] \in {"post", "drop"}
               /\ deferred'[u] => pc'[u] = "release"
    BY <2>8, Locality DEF Untouched
  <2> QED BY <2>7, <2>8 DEF Fine
<1> QED BY <1>1, <1>2, SomeStep

\* Wait holds the sleep queue lock from its first step until it has joined the
\* queue, and has_user_waiters stays set meanwhile.
LEMMA NextEntry ==
  ASSUME IInv, NoMissedSignal, EntryOK, [Next]_vars
  PROVE  NoMissedSignal' /\ EntryOK'
<1>1. CASE UNCHANGED coreVars
  BY <1>1 DEF NoMissedSignal, EntryOK, coreVars, ctlVars
<1>2. CASE \E t \in Threads : StepOf(t)
  <2> PICK t \in Threads : StepOf(t)
    BY <1>2
  <2> DEFINE In(u) == call[u] # NULL /\ pc[u] \in EntryPcs
             Now(u) == sleepqLock'[call'[u]] = u /\ hasUserWaiters'[call'[u]]
             Good == \A u \in Threads : (call'[u] # NULL /\ pc'[u] \in EntryPcs) => Now(u)
  <2>t. TypeOK
    BY DEF IInv
  <2>a. \A u \in Threads : In(u) => /\ call[u] \in Conds /\ sleepqLock[call[u]] = u
                                    /\ hasUserWaiters[call[u]]
    BY <2>t DEF NoMissedSignal, EntryOK, EntryPcs, TypeOK, MutexTypeOK
  <2>e. sleepqLock \in [Conds -> Threads \union {NULL}] /\ hasUserWaiters \in [Conds -> BOOLEAN]
    BY <2>t DEF TypeOK
  <2>b. \A u \in Threads : u # t => pc'[u] = pc[u] /\ call'[u] = call[u]
    BY Locality DEF Untouched
  <2>d. \A u \in Threads : ControlOK(u)
    BY DEF IInv, ControlInv
  <2>c. ASSUME sleepqLock' = sleepqLock, hasUserWaiters' = hasUserWaiters,
               (call'[t] # NULL /\ pc'[t] \in EntryPcs) => call'[t] = call[t] /\ In(t)
        PROVE  Good
    BY <2>a, <2>b, <2>c
  <2> USE DEF Goto, Return, objVars, wakeVars, ctlVars, condVars, TypeOK, MutexTypeOK, EntryPcs
  <2>1. ASSUME LibraryStep(t) PROVE Good
    <3>1. CASE (LockAcquire(t) \/ SetOwner(t) \/ UnlockRelease(t)) /\ UNCHANGED condVars
      BY <2>t, <2>c, <3>1 DEF LockAcquire, SetOwner, UnlockRelease
    <3>2. CASE UnlockWakeAll(t) /\ UNCHANGED condVars
      <4>1. pc'[t] \in {"wakeAll", "idle"}
        BY <2>t, <3>2 DEF UnlockWakeAll, WakeAllNext
      <4> QED BY <2>c, <3>2, <4>1
    <3>3. CASE WaitCvUnlock(t) \/ WaitSleep(t) \/ WaitAcquire(t) \/ WaitRelock(t)
      BY <2>t, <2>c, <3>3 DEF WaitCvUnlock, DropOwner, WaitSleep, WaitAcquire, WaitRelock
    <3>4. CASE WaitFlush(t)
      BY <2>t, <2>c, <3>4 DEF WaitFlush, WakeAllNext
    <3>5. CASE WaitAdd(t)
      <4>1. In(t) /\ call[t] \in Conds
        BY <2>a, <2>d, <3>5 DEF WaitAdd, ControlOK, WaitOnlyPcs
      <4>2. /\ sleepqLock' = [sleepqLock EXCEPT ![call[t]] = NULL]
            /\ hasUserWaiters' = hasUserWaiters /\ pc'[t] = "willSleep"
        BY <2>t, <3>5 DEF WaitAdd
      <4> QED BY MutexAssumption, <2>e, <2>a, <2>b, <4>1, <4>2
    <3>6. CASE WaitWake(t)
      <4>0. call[t] \in Conds
        BY <2>t, <2>d, <3>6 DEF WaitWake, ControlOK, WaitOnlyPcs
      <4>1. /\ sleepqLock' = sleepqLock /\ sleepqLock[call[t]] = NULL
            /\ pc'[t] \in {"relock", "unreachable"}
            /\ \A c \in Conds : c # call[t] => hasUserWaiters'[c] = hasUserWaiters[c]
        BY <2>t, <3>6, <4>0 DEF WaitWake, SleepqRemove
      <4> QED BY MutexAssumption, <2>a, <2>b, <4>1
    <3>7. CASE PostRelease(t)
      BY <2>t, <2>c, <3>7 DEF PostRelease
    <3>8. ASSUME NEW c \in Conds, BroadcastDrop(t, c) PROVE Good
      BY <2>t, <2>c, <3>8 DEF BroadcastDrop
    <3>9. ASSUME NEW c \in Conds, BroadcastEnd(t, c) PROVE Good
      <4>1. /\ sleepqLock[c] = t /\ pc[t] = "drop" /\ pc'[t] \in {"idle", "post"}
            /\ sleepqLock' = [sleepqLock EXCEPT ![c] = NULL]
            /\ hasUserWaiters' = [hasUserWaiters EXCEPT ![c] = FALSE]
        BY <2>t, <3>9 DEF BroadcastEnd
      <4> QED BY MutexAssumption, <2>e, <2>a, <2>b, <4>1
    <3> QED BY <2>1, <3>1, <3>2, <3>3, <3>4, <3>5, <3>6, <3>7, <3>8, <3>9 DEF LibraryStep
  <2>2. ASSUME NEW m \in Mutexes, MutexCall(t, m), UNCHANGED condVars PROVE Good
    <3>1. call[t] = NULL /\ call' = call
      BY <2>t, <2>2, IdleFacts DEF MutexCall, LockSelfRecursive, LockSelfNormal, LockBegin,
           TryLock, UnlockRecursive, UnlockBegin, DropOwner, MutexInit, MutexDestroy
    <3> QED BY <2>2, <2>c, <3>1
  <2>3. ASSUME NEW c \in Conds, CondCall(t, c) PROVE Good
    <3>1. ASSUME NEW i, Signal(t, c, i) PROVE Good
      <4>1. /\ call[t] = NULL /\ call' = call /\ sleepqLock' = sleepqLock
            /\ sleepqLock[c] = NULL
            /\ \A d \in Conds : d # c => hasUserWaiters'[d] = hasUserWaiters[d]
        BY <2>t, <3>1, IdleFacts DEF Signal, SleepqRemove
      <4> QED BY MutexAssumption, <2>a, <2>b, <4>1
    <3>2. ASSUME NEW m \in Mutexes, NEW b \in BOOLEAN, WaitBegin(t, c, m, b) PROVE Good
      <4>1. /\ call'[t] = c /\ sleepqLock[c] = NULL
            /\ sleepqLock' = [sleepqLock EXCEPT ![c] = t]
            /\ hasUserWaiters' = [hasUserWaiters EXCEPT ![c] = TRUE]
        BY <2>t, <3>2 DEF WaitBegin
      <4> QED BY MutexAssumption, <2>e, <2>a, <2>b, <4>1
    <3>3. ASSUME CondBroadcast(t, c) PROVE Good
      <4>1. /\ call[t] = NULL /\ call' = call /\ sleepqLock[c] = NULL
            /\ sleepqLock' = [sleepqLock EXCEPT ![c] = t]
            /\ hasUserWaiters' = hasUserWaiters
        BY <2>t, <3>3, IdleFacts DEF CondBroadcast
      <4> QED BY MutexAssumption, <2>e, <2>a, <2>b, <4>1
    <3>4. ASSUME CondDestroy(t, c) PROVE Good
      <4>1. /\ call' = call /\ pc' = pc /\ sleepqLock' = sleepqLock
            /\ \A u \in Threads : call[u] # c
            /\ hasUserWaiters' = [hasUserWaiters EXCEPT ![c] = FALSE]
        BY <2>t, <3>4 DEF CondDestroy
      <4> QED BY <2>t, <2>a, <4>1
    <3>5. ASSUME CondInit(t, c) PROVE Good
      BY <2>t, <2>c, <3>5 DEF CondInit
    <3>6. ASSUME NEW td \in Threads, CondSignalToUnqueued(t, c, td) PROVE Good
      BY <2>t, <2>c, <3>6 DEF CondSignalToUnqueued
    <3> QED BY <2>3, <3>1, <3>2, <3>3, <3>4, <3>5, <3>6 DEF CondCall, CondSignal, CondSignalTo
  <2>4. ASSUME NEW td \in Threads, Cancel(t, td) PROVE Good
    BY <2>t, <2>c, <2>4 DEF Cancel
  <2>5. ASSUME LockTimeout(t), UNCHANGED condVars PROVE Good
    BY <2>t, <2>c, <2>5 DEF LockTimeout
  <2>6. ASSUME WaitExpire(t) PROVE Good
    BY <2>t, <2>c, <2>6 DEF WaitExpire
  <2>7. Good
    BY <2>1, <2>2, <2>3, <2>4, <2>5, <2>6 DEF StepOf
  <2> QED BY <2>7 DEF NoMissedSignal, EntryOK
<1> QED BY <1>1, <1>2, SomeStep

-----------------------------------------------------------------------------
\* No element occurs twice.
Distinct(s) == \A i, j \in DOMAIN s : i # j => s[i] # s[j]

\* Without removes exactly one element of such a sequence.
LEMMA WithoutMembers ==
  ASSUME NEW S, NEW s \in Seq(S), Distinct(s), NEW i \in 1 .. Len(s)
  PROVE  /\ Distinct(Without(s, i))
         /\ \A x : InSeq(x, Without(s, i)) <=> InSeq(x, s) /\ x # s[i]
<1> DEFINE r == Without(s, i)
           Old(j) == IF j < i THEN j ELSE j + 1
<1>1. /\ Len(s) \in Nat /\ DOMAIN s = 1 .. Len(s)
      /\ DOMAIN r = 1 .. Len(s) - 1
      /\ \A j \in 1 .. Len(s) - 1 : r[j] = s[Old(j)]
  BY DEF Without
<1>2. \A j \in 1 .. Len(s) - 1 : Old(j) \in 1 .. Len(s) /\ Old(j) # i
  BY <1>1
<1>3. \A j, k \in 1 .. Len(s) - 1 : j # k => Old(j) # Old(k)
  BY <1>1
<1>4. ASSUME NEW k \in 1 .. Len(s), k # i
      PROVE  \E j \in 1 .. Len(s) - 1 : Old(j) = k
  <2>1. CASE k < i
    <3>1. k \in 1 .. Len(s) - 1 /\ Old(k) = k
      BY <1>1, <2>1
    <3> QED BY <3>1
  <2>2. CASE k > i
    <3>1. k - 1 \in 1 .. Len(s) - 1 /\ Old(k - 1) = k
      BY <1>1, <2>2
    <3> QED BY <3>1
  <2> QED BY <1>4, <2>1, <2>2
<1> HIDE DEF r, Old
<1>5. Distinct(r)
  <2> SUFFICES ASSUME NEW j \in 1 .. Len(s) - 1, NEW k \in 1 .. Len(s) - 1, j # k
               PROVE  r[j] # r[k]
    BY <1>1 DEF Distinct
  <2>1. Old(j) \in DOMAIN s /\ Old(k) \in DOMAIN s /\ Old(j) # Old(k)
    BY <1>1, <1>2, <1>3
  <2> QED BY <1>1, <2>1 DEF Distinct
<1>6. ASSUME NEW x PROVE InSeq(x, r) <=> InSeq(x, s) /\ x # s[i]
  <2>1. ASSUME InSeq(x, r) PROVE InSeq(x, s) /\ x # s[i]
    <3>1. PICK j \in 1 .. Len(s) - 1 : r[j] = x
      BY <1>1, <2>1 DEF InSeq
    <3>2. s[Old(j)] = x /\ Old(j) \in DOMAIN s /\ Old(j) # i /\ i \in DOMAIN s
      BY <1>1, <1>2, <3>1
    <3> QED BY <3>2 DEF InSeq, Distinct
  <2>2. ASSUME InSeq(x, s), x # s[i] PROVE InSeq(x, r)
    <3>1. PICK k \in 1 .. Len(s) : s[k] = x
      BY <1>1, <2>2 DEF InSeq
    <3>2. PICK j \in 1 .. Len(s) - 1 : Old(j) = k
      BY <1>4, <2>2, <3>1
    <3> QED BY <1>1, <3>1, <3>2 DEF InSeq
  <2> QED BY <2>1, <2>2
<1> QED BY <1>5, <1>6 DEF r

\* Tail is a special case.
LEMMA TailIsWithout ==
  ASSUME NEW S, NEW s \in Seq(S), s # << >>
  PROVE  Tail(s) = Without(s, 1) /\ Head(s) = s[1] /\ 1 \in 1 .. Len(s)
<1>1. Len(s) \in Nat \ {0}
  BY EmptySeq
<1>2. /\ Tail(s) \in Seq(S) /\ Len(Tail(s)) = Len(s) - 1
      /\ \A j \in 1 .. Len(s) - 1 : Tail(s)[j] = s[j + 1]
  BY <1>1
<1>3. \A j \in 1 .. Len(s) - 1 : Without(s, 1)[j] = s[j + 1]
  BY <1>1 DEF Without
<1>4. Without(s, 1) \in Seq(S) /\ Len(Without(s, 1)) = Len(s) - 1
  BY <1>1, WithoutType
<1>5. Tail(s) = Without(s, 1)
  BY <1>1, <1>2, <1>3, <1>4
<1> QED BY <1>1, <1>5

\* Adding a new element in front ...
LEMMA PrependMembers ==
  ASSUME NEW S, NEW s \in Seq(S), Distinct(s), NEW q \in S, ~InSeq(q, s)
  PROVE  LET r == <<q>> \o s
         IN  /\ r \in Seq(S) /\ Distinct(r) /\ Len(r) = Len(s) + 1
             /\ \A x : InSeq(x, r) <=> InSeq(x, s) \/ x = q
<1> DEFINE r == <<q>> \o s
<1>0. r = <<q>> \o s
  OBVIOUS
<1> HIDE DEF r
<1>1. /\ Len(s) \in Nat /\ DOMAIN s = 1 .. Len(s) /\ DOMAIN r = 1 .. Len(s) + 1
      /\ r \in Seq(S) /\ Len(r) = Len(s) + 1
      /\ r[1] = q /\ \A j \in 1 .. Len(s) : r[j + 1] = s[j]
  BY <1>0
<1>2. \A j \in 1 .. Len(s) + 1 : j = 1 \/ (j - 1 \in 1 .. Len(s) /\ r[j] = s[j - 1])
  BY <1>1
<1>a. \A j \in 1 .. Len(s) : s[j] # q
  BY <1>1 DEF InSeq
<1>3. Distinct(r)
  <2> SUFFICES ASSUME NEW j \in 1 .. Len(s) + 1, NEW k \in 1 .. Len(s) + 1, j # k
               PROVE  r[j] # r[k]
    BY <1>1 DEF Distinct
  <2>1. CASE j = 1 \/ k = 1
    BY <1>1, <1>2, <1>a, <2>1
  <2>2. CASE j # 1 /\ k # 1
    <3>1. /\ j - 1 \in DOMAIN s /\ k - 1 \in DOMAIN s /\ j - 1 # k - 1
          /\ r[j] = s[j - 1] /\ r[k] = s[k - 1]
      BY <1>1, <1>2, <2>2
    <3> QED BY <3>1 DEF Distinct
  <2> QED BY <2>1, <2>2
<1>4. ASSUME NEW x, InSeq(x, r) PROVE InSeq(x, s) \/ x = q
  <2>1. PICK j \in 1 .. Len(s) + 1 : r[j] = x
    BY <1>1, <1>4 DEF InSeq
  <2>2. x = q \/ (j - 1 \in DOMAIN s /\ s[j - 1] = x)
    BY <1>1, <1>2, <2>1
  <2> QED BY <2>2 DEF InSeq
<1>5. \A x : InSeq(x, s) \/ x = q => InSeq(x, r)
  BY <1>1 DEF InSeq
<1> QED BY <1>1, <1>3, <1>4, <1>5 DEF r

\* ... or behind the first one.
LEMMA InsertMembers ==
  ASSUME NEW S, NEW s \in Seq(S), Distinct(s), NEW q \in S, ~InSeq(q, s)
  PROVE  LET r == IF s = << >> THEN <<q>> ELSE <<Head(s), q>> \o Tail(s)
         IN  /\ r \in Seq(S) /\ Distinct(r) /\ Len(r) = Len(s) + 1
             /\ \A x : InSeq(x, r) <=> InSeq(x, s) \/ x = q
<1> DEFINE r == IF s = << >> THEN <<q>> ELSE <<Head(s), q>> \o Tail(s)
<1>0. r = IF s = << >> THEN <<q>> ELSE <<Head(s), q>> \o Tail(s)
  OBVIOUS
<1> HIDE DEF r
<1>1. CASE s = << >>
  <2>1. r = <<q>> /\ Len(s) = 0
    BY <1>0, <1>1
  <2>2. \A x : ~InSeq(x, s)
    BY <1>1 DEF InSeq
  <2>3. r \in Seq(S) /\ Len(r) = 1 /\ DOMAIN r = 1 .. 1 /\ r[1] = q
    BY <2>1
  <2>4. Distinct(r)
    BY <2>3 DEF Distinct
  <2>5. \A x : InSeq(x, r) <=> x = q
    BY <2>3 DEF InSeq
  <2> QED BY <2>1, <2>2, <2>3, <2>4, <2>5
<1>2. CASE s # << >>
  <2>1. Len(s) \in Nat \ {0} /\ DOMAIN s = 1 .. Len(s)
    BY <1>2, EmptySeq
  <2>2. /\ r \in Seq(S) /\ Len(r) = Len(s) + 1 /\ DOMAIN r = 1 .. Len(s) + 1
        /\ r[1] = s[1] /\ r[2] = q /\ \A j \in 2 .. Len(s) : r[j + 1] = s[j]
    BY <1>0, <1>2, <2>1
  <2>3. \A j \in 1 .. Len(s) + 1 :
          j # 1 /\ j # 2 => j - 1 \in 2 .. Len(s) /\ r[j] = s[j - 1]
    <3>1. ASSUME NEW j \in 1 .. Len(s) + 1, j # 1, j # 2
          PROVE  j - 1 \in 2 .. Len(s) /\ r[j] = s[j - 1]
      <4>1. j - 1 \in 2 .. Len(s) /\ (j - 1) + 1 = j
        BY <2>1, <3>1
      <4>2. r[(j - 1) + 1] = s[j - 1]
        BY <2>2, <4>1
      <4> QED BY <4>1, <4>2
    <3> QED BY <3>1
  <2>a. \A j \in 1 .. Len(s) : s[j] # q
    BY <2>1 DEF InSeq
  <2>b. ASSUME NEW j \in 1 .. Len(s), NEW k \in 1 .. Len(s), j # k PROVE s[j] # s[k]
    BY <2>1, <2>b DEF Distinct
  <2>4. Distinct(r)
    <3> SUFFICES ASSUME NEW j \in 1 .. Len(s) + 1, NEW k \in 1 .. Len(s) + 1, j # k
                 PROVE  r[j] # r[k]
      BY <2>2 DEF Distinct
    <3>1. CASE j = 2 \/ k = 2
      BY <2>1, <2>2, <2>3, <2>a, <3>1
    <3>2. CASE j # 2 /\ k # 2
      <4> DEFINE Old(x) == IF x = 1 THEN 1 ELSE x - 1
      <4>1. /\ Old(j) \in 1 .. Len(s) /\ Old(k) \in 1 .. Len(s) /\ Old(j) # Old(k)
            /\ r[j] = s[Old(j)] /\ r[k] = s[Old(k)]
        BY <2>1, <2>2, <2>3, <3>2
      <4> HIDE DEF Old
      <4> QED BY <4>1, <2>b
    <3> QED BY <3>1, <3>2
  <2>5. ASSUME NEW x, InSeq(x, r) PROVE InSeq(x, s) \/ x = q
    <3>1. PICK j \in 1 .. Len(s) + 1 : r[j] = x
      BY <2>2, <2>5 DEF InSeq
    <3>2. x = q \/ (1 \in DOMAIN s /\ s[1] = x) \/ (j - 1 \in DOMAIN s /\ s[j - 1] = x)
      BY <2>1, <2>2, <2>3, <3>1
    <3> QED BY <3>2 DEF InSeq
  <2>6. \A x : InSeq(x, s) \/ x = q => InSeq(x, r)
    <3>1. ASSUME NEW j \in 1 .. Len(s) PROVE \E k \in 1 .. Len(s) + 1 : r[k] = s[j]
      <4>1. CASE j = 1
        BY <2>1, <2>2, <4>1
      <4>2. CASE j # 1
        <5>1. j \in 2 .. Len(s) /\ j + 1 \in 1 .. Len(s) + 1
          BY <2>1, <4>2
        <5> QED BY <2>2, <5>1
      <4> QED BY <4>1, <4>2
    <3>2. 2 \in 1 .. Len(s) + 1
      BY <2>1
    <3> QED BY <2>1, <2>2, <3>1, <3>2 DEF InSeq
  <2>7. /\ r \in Seq(S) /\ Distinct(r) /\ Len(r) = Len(s) + 1
        /\ \A x : InSeq(x, r) <=> InSeq(x, s) \/ x = q
    BY <2>2, <2>4, <2>5, <2>6
  <2> QED BY <2>7 DEF r
<1> QED BY <1>1, <1>2 DEF r

-----------------------------------------------------------------------------
\* SleepqConsistent, with the part it lacks to be inductive: a queue object is on
\* one condition variable only.
QueuesOK ==
  /\ \A c \in Conds : Distinct(blocked[c]) /\ Distinct(sleepq[c])
  /\ \A c \in Conds, t \in Threads : InSeq(t, blocked[c]) <=> wchan[t] = c
  /\ \A t \in Threads : wchan[t] # NULL <=> sleepqueue[t] = NULL
  /\ \A t, u \in Threads : t # u /\ sleepqueue[t] = sleepqueue[u] => sleepqueue[t] = NULL
  /\ \A t \in Threads, c \in Conds : ~InSeq(sleepqueue[t], sleepq[c])
  /\ \A c, d \in Conds, q \in Threads : InSeq(q, sleepq[c]) /\ InSeq(q, sleepq[d]) => c = d

WaitersOK ==
  /\ \A c \in Conds : blocked[c] # << >> => hasUserWaiters[c]
  /\ \A t \in Threads : wchan[t] # NULL => mutexObj[t] # NULL /\ wchan[t] = call[t]

SleepqInv == QueuesOK /\ WaitersOK

\* With the invariant of the first module, that is what SleepqConsistent asks for.
LEMMA SleepqInvSuffices ==
  ASSUME IInv, SleepqInv
  PROVE  SleepqConsistent
<1>1. /\ \A c \in Conds : Len(sleepq[c]) = Len(blocked[c])
      /\ \A c \in Conds : sleepq[c] \in Seq(Threads) /\ blocked[c] \in Seq(Threads)
  BY DEF IInv, QueueInv, TypeOK
<1>2. \A c \in Conds : DOMAIN sleepq[c] = DOMAIN blocked[c]
  BY <1>1
<1>3. \A t \in Threads : wchan[t] # NULL => pc[t] # "idle"
  BY DEF IInv, ControlInv, ControlOK
<1> QED BY <1>1, <1>2, <1>3
        DEF SleepqInv, QueuesOK, WaitersOK, Distinct, SleepqConsistent

\* The i-th waiter leaves the queue with its k-th object.
Removes(c, i, k) ==
  /\ blocked' = [blocked EXCEPT ![c] = Without(blocked[c], i)]
  /\ sleepq' = [sleepq EXCEPT ![c] = Without(sleepq[c], k)]
  /\ sleepqueue' = [sleepqueue EXCEPT ![blocked[c][i]] = sleepq[c][k]]
  /\ wchan' = [wchan EXCEPT ![blocked[c][i]] = NULL]

\* Taking a waiter and any of the queue's objects off a queue keeps the queues.
LEMMA RemoveQueues ==
  ASSUME TypeOK, QueuesOK, NEW c \in Conds, NEW i \in 1 .. Len(blocked[c]),
         NEW k \in 1 .. Len(sleepq[c]), Removes(c, i, k)
  PROVE  /\ QueuesOK'
         /\ blocked[c][i] \in Threads /\ wchan[blocked[c][i]] = c
<1> DEFINE td == blocked[c][i]
           q == sleepq[c][k]
           B == Without(blocked[c], i)
           Q == Without(sleepq[c], k)
<1>0. blocked[c] \in Seq(Threads) /\ sleepq[c] \in Seq(Threads)
  BY DEF TypeOK
<1>1. td \in Threads /\ q \in Threads /\ InSeq(td, blocked[c]) /\ InSeq(q, sleepq[c])
  BY <1>0 DEF InSeq
<1>2. Distinct(blocked[c]) /\ Distinct(sleepq[c])
  BY DEF QueuesOK
<1>3. Distinct(B) /\ \A x : InSeq(x, B) <=> InSeq(x, blocked[c]) /\ x # td
  BY <1>0, <1>2, WithoutMembers
<1>4. Distinct(Q) /\ \A x : InSeq(x, Q) <=> InSeq(x, sleepq[c]) /\ x # q
  BY <1>0, <1>2, WithoutMembers
<1> HIDE DEF td, q, B, Q
<1>5. /\ blocked' = [blocked EXCEPT ![c] = B] /\ sleepq' = [sleepq EXCEPT ![c] = Q]
      /\ sleepqueue' = [sleepqueue EXCEPT ![td] = q] /\ wchan' = [wchan EXCEPT ![td] = NULL]
  BY DEF td, q, B, Q, Removes
<1>6. /\ blocked \in [Conds -> Seq(Threads)] /\ sleepq \in [Conds -> Seq(Threads)]
      /\ sleepqueue \in [Threads -> Threads \union {NULL}]
      /\ wchan \in [Threads -> Conds \union {NULL}]
  BY DEF TypeOK
<1>7. /\ \A d \in Conds : blocked'[d] = IF d = c THEN B ELSE blocked[d]
      /\ \A d \in Conds : sleepq'[d] = IF d = c THEN Q ELSE sleepq[d]
      /\ \A u \in Threads : sleepqueue'[u] = IF u = td THEN q ELSE sleepqueue[u]
      /\ \A u \in Threads : wchan'[u] = IF u = td THEN NULL ELSE wchan[u]
  BY <1>5, <1>6, Zenon
<1>8. \A d \in Conds : Distinct(blocked[d])' /\ Distinct(sleepq[d])'
  BY <1>3, <1>4, <1>7 DEF QueuesOK, Distinct
<1>9. ASSUME NEW d \in Conds, NEW u \in Threads
      PROVE  InSeq(u, blocked'[d]) <=> wchan'[u] = d
  BY MutexAssumption, <1>1, <1>3, <1>7 DEF QueuesOK
<1>10. \A u \in Threads : wchan'[u] # NULL <=> sleepqueue'[u] = NULL
  BY MutexAssumption, <1>1, <1>7 DEF QueuesOK
<1>11. \A u \in Threads : u # td => sleepqueue[u] # q
  BY <1>1 DEF QueuesOK
<1>12. \A u, v \in Threads : u # v /\ sleepqueue'[u] = sleepqueue'[v] => sleepqueue'[u] = NULL
  BY <1>7, <1>11 DEF QueuesOK
<1>13. ASSUME NEW u \in Threads, NEW d \in Conds
       PROVE  ~InSeq(sleepqueue'[u], sleepq'[d])
  BY <1>1, <1>4, <1>7 DEF QueuesOK
<1>14. ASSUME NEW d \in Conds, NEW e \in Conds, NEW x \in Threads,
              InSeq(x, sleepq'[d]), InSeq(x, sleepq'[e])
       PROVE  d = e
  BY <1>4, <1>7, <1>14 DEF QueuesOK
<1>15. QueuesOK'
  BY <1>8, <1>9, <1>10, <1>12, <1>13, <1>14 DEF QueuesOK, InSeq
<1>16. wchan[td] = c
  BY <1>1 DEF QueuesOK
<1> QED BY <1>1, <1>15, <1>16 DEF td

\* Giving the thread's object to a queue, and queueing the thread, keeps them.
LEMMA AddQueues ==
  ASSUME TypeOK, QueuesOK, NEW t \in Threads, NEW c \in Conds, wchan[t] = NULL,
         SleepqAdd(c, t)
  PROVE  QueuesOK'
<1> DEFINE q == sleepqueue[t]
           B == <<t>> \o blocked[c]
           Q == IF sleepq[c] = << >> THEN <<sleepqueue[t]>>
                ELSE <<Head(sleepq[c]), sleepqueue[t]>> \o Tail(sleepq[c])
<1>0. blocked[c] \in Seq(Threads) /\ sleepq[c] \in Seq(Threads)
  BY DEF TypeOK
<1>1. q \in Threads /\ q # NULL /\ ~InSeq(q, sleepq[c]) /\ ~InSeq(t, blocked[c])
  BY MutexAssumption DEF QueuesOK, TypeOK
<1>2. Distinct(blocked[c]) /\ Distinct(sleepq[c])
  BY DEF QueuesOK
<1>3. Distinct(B) /\ \A x : InSeq(x, B) <=> InSeq(x, blocked[c]) \/ x = t
  BY <1>0, <1>1, <1>2, PrependMembers
<1>4. Distinct(Q) /\ \A x : InSeq(x, Q) <=> InSeq(x, sleepq[c]) \/ x = q
  BY <1>0, <1>1, <1>2, InsertMembers
<1>5. /\ blocked' = [blocked EXCEPT ![c] = B] /\ sleepq' = [sleepq EXCEPT ![c] = Q]
      /\ sleepqueue' = [sleepqueue EXCEPT ![t] = NULL] /\ wchan' = [wchan EXCEPT ![t] = c]
  BY DEF SleepqAdd
<1> HIDE DEF q, B, Q
<1>6. /\ blocked \in [Conds -> Seq(Threads)] /\ sleepq \in [Conds -> Seq(Threads)]
      /\ sleepqueue \in [Threads -> Threads \union {NULL}]
      /\ wchan \in [Threads -> Conds \union {NULL}]
  BY DEF TypeOK
<1>7. /\ \A d \in Conds : blocked'[d] = IF d = c THEN B ELSE blocked[d]
      /\ \A d \in Conds : sleepq'[d] = IF d = c THEN Q ELSE sleepq[d]
      /\ \A u \in Threads : sleepqueue'[u] = IF u = t THEN NULL ELSE sleepqueue[u]
      /\ \A u \in Threads : wchan'[u] = IF u = t THEN c ELSE wchan[u]
  BY <1>5, <1>6, Zenon
<1>8. \A d \in Conds : Distinct(blocked[d])' /\ Distinct(sleepq[d])'
  BY <1>3, <1>4, <1>7 DEF QueuesOK, Distinct
<1>9. ASSUME NEW d \in Conds, NEW u \in Threads
      PROVE  InSeq(u, blocked'[d]) <=> wchan'[u] = d
  BY MutexAssumption, <1>1, <1>3, <1>7 DEF QueuesOK
<1>10. \A u \in Threads : wchan'[u] # NULL <=> sleepqueue'[u] = NULL
  BY MutexAssumption, <1>1, <1>7 DEF QueuesOK
<1>11. \A u \in Threads : u # t => sleepqueue[u] # q
  BY <1>1 DEF QueuesOK, q
<1>12. \A u, v \in Threads : u # v /\ sleepqueue'[u] = sleepqueue'[v] => sleepqueue'[u] = NULL
  BY <1>7 DEF QueuesOK
<1>13. ASSUME NEW u \in Threads, NEW d \in Conds
       PROVE  ~InSeq(sleepqueue'[u], sleepq'[d])
  <2>1. CASE u = t
    <3>1. sleepqueue'[u] = NULL /\ NULL \notin Threads /\ sleepq[d] \in Seq(Threads)
      BY MutexAssumption, <1>6, <1>7, <2>1
    <3>2. ~InSeq(NULL, sleepq[d])
      BY <3>1 DEF InSeq
    <3> QED BY <1>1, <1>4, <1>7, <3>1, <3>2
  <2>2. CASE u # t
    BY <1>4, <1>7, <1>11, <2>2 DEF QueuesOK
  <2> QED BY <2>1, <2>2
<1>14. ASSUME NEW d \in Conds, NEW e \in Conds, NEW x \in Threads,
              InSeq(x, sleepq'[d]), InSeq(x, sleepq'[e])
       PROVE  d = e
  <2>1. \A f \in Conds : ~InSeq(q, sleepq[f])
    BY DEF QueuesOK, q
  <2> QED BY <1>4, <1>7, <1>14, <2>1 DEF QueuesOK
<1> QED BY <1>8, <1>9, <1>10, <1>12, <1>13, <1>14 DEF QueuesOK, InSeq

\* SleepqRemove, and a step of SleepqDrop, are such moves.
LEMMA SleepqRemoveMoves ==
  ASSUME IInv, NEW c \in Conds, NEW i \in DOMAIN blocked[c], SleepqRemove(c, i)
  PROVE  /\ i \in 1 .. Len(blocked[c])
         /\ \E k \in 1 .. Len(sleepq[c]) : Removes(c, i, k)
         /\ hasUserWaiters' = [hasUserWaiters EXCEPT ![c] = Len(blocked[c]) # 1]
<1>1. blocked[c] \in Seq(Threads) /\ Len(sleepq[c]) = Len(blocked[c])
  BY DEF IInv, TypeOK, QueueInv
<1>2. i \in 1 .. Len(blocked[c]) /\ Len(blocked[c]) \in Nat
  BY <1>1
<1> DEFINE k == IF Len(blocked[c]) = 1 THEN 1 ELSE 2
<1>3. k \in 1 .. Len(blocked[c])
  <2>1. ASSUME NEW n \in Nat, i \in 1 .. n PROVE (IF n = 1 THEN 1 ELSE 2) \in 1 .. n
    BY <2>1
  <2> QED BY <1>2, <2>1
<1>4. Removes(c, i, k)
  BY DEF SleepqRemove, Removes
<1>5. hasUserWaiters' = [hasUserWaiters EXCEPT ![c] = Len(blocked[c]) # 1]
  BY DEF SleepqRemove
<1> HIDE DEF k
<1> QED BY <1>1, <1>2, <1>3, <1>4, <1>5

LEMMA BroadcastDropMoves ==
  ASSUME IInv, NEW t \in Threads, NEW c \in Conds, BroadcastDrop(t, c)
  PROVE  /\ 1 \in 1 .. Len(blocked[c]) /\ 1 \in 1 .. Len(sleepq[c]) /\ Removes(c, 1, 1)
         /\ Head(blocked[c]) = blocked[c][1]
<1>1. /\ blocked[c] \in Seq(Threads) /\ sleepq[c] \in Seq(Threads)
      /\ Len(sleepq[c]) = Len(blocked[c]) /\ blocked[c] # << >>
  BY DEF IInv, TypeOK, QueueInv, BroadcastDrop
<1>2. sleepq[c] # << >>
  BY <1>1, EmptySeq
<1>3. /\ Tail(blocked[c]) = Without(blocked[c], 1) /\ Head(blocked[c]) = blocked[c][1]
      /\ 1 \in 1 .. Len(blocked[c])
  BY <1>1, TailIsWithout
<1>4. /\ Tail(sleepq[c]) = Without(sleepq[c], 1) /\ Head(sleepq[c]) = sleepq[c][1]
      /\ 1 \in 1 .. Len(sleepq[c])
  BY <1>1, <1>2, TailIsWithout
<1> QED BY <1>3, <1>4 DEF BroadcastDrop, Removes

\* Every step keeps the queues: it leaves them alone, adds the thread that is
\* entering Wait, or takes off one waiter.
LEMMA QueueMoves ==
  ASSUME IInv, NEW t \in Threads, StepOf(t)
  PROVE  \/ UNCHANGED <<blocked, sleepq, sleepqueue, wchan>>
         \/ WaitAdd(t) /\ call[t] \in Conds /\ wchan[t] = NULL /\ SleepqAdd(call[t], t)
         \/ \E c \in Conds : \E i \in 1 .. Len(blocked[c]), k \in 1 .. Len(sleepq[c]) :
              Removes(c, i, k)
<1> DEFINE Still == UNCHANGED <<blocked, sleepq, sleepqueue, wchan>>
           Adds == WaitAdd(t) /\ call[t] \in Conds /\ wchan[t] = NULL /\ SleepqAdd(call[t], t)
           Takes == \E c \in Conds : \E i \in 1 .. Len(blocked[c]), k \in 1 .. Len(sleepq[c]) :
                      Removes(c, i, k)
<1>0. TypeOK /\ ControlOK(t)
  BY DEF IInv, ControlInv
<1>r. ASSUME NEW c \in Conds, NEW i \in DOMAIN blocked[c], SleepqRemove(c, i) PROVE Takes
  BY <1>r, SleepqRemoveMoves, Zenon
<1>1. ASSUME LibraryStep(t) PROVE Still \/ Adds \/ Takes
  <2>1. CASE WaitAdd(t)
    <3>1. call[t] \in Conds /\ wchan[t] = NULL
      BY <1>0, <2>1 DEF WaitAdd, ControlOK, WaitOnlyPcs, TypeOK, MutexTypeOK
    <3> QED BY <2>1, <3>1 DEF WaitAdd
  <2>2. CASE WaitWake(t)
    <3>1. call[t] \in Conds
      BY <1>0, <2>2 DEF WaitWake, ControlOK, WaitOnlyPcs, TypeOK, MutexTypeOK
    <3>2. Still \/ \E i \in DOMAIN blocked[call[t]] : SleepqRemove(call[t], i)
      BY <2>2 DEF WaitWake
    <3> HIDE DEF Still, Takes
    <3> QED BY <1>r, <3>1, <3>2
  <2>3. ASSUME NEW c \in Conds, BroadcastDrop(t, c) PROVE Takes
    BY <2>3, BroadcastDropMoves
  <2> HIDE DEF Takes, Adds
  <2> QED BY <1>1, <2>1, <2>2, <2>3 DEF LibraryStep, condVars, WaitCvUnlock, WaitSleep,
             WaitFlush, WaitAcquire, WaitRelock, PostRelease, BroadcastEnd
<1>2. ASSUME NEW c \in Conds, CondCall(t, c) PROVE Still \/ Takes
  <2>1. ASSUME NEW i, Signal(t, c, i) PROVE Takes
    <3>1. i \in DOMAIN blocked[c] /\ SleepqRemove(c, i)
      BY <2>1 DEF Signal
    <3> HIDE DEF Takes
    <3> QED BY <1>r, <3>1
  <2> HIDE DEF Takes
  <2> QED BY <1>2, <2>1 DEF CondCall, CondSignal, CondSignalTo, WaitBegin, CondBroadcast,
             CondSignalToUnqueued, CondDestroy, CondInit, condVars
<1> HIDE DEF Takes, Adds
<1>3. Still \/ Adds \/ Takes
  BY <1>1, <1>2 DEF StepOf, condVars, Cancel, WaitExpire
<1> QED BY <1>3 DEF Still, Adds, Takes

\* A thread that is queued keeps its mutex_obj and stays in its Wait.
LEMMA QueuedKeeps ==
  ASSUME IInv, NEW t \in Threads, StepOf(t), wchan[t] # NULL
  PROVE  mutexObj'[t] = mutexObj[t] /\ call'[t] = call[t]
<1>1. /\ TypeOK
      /\ pc[t] \in {"willSleep", "flush", "sleep", "woken", "expired", "unreachable"}
  BY DEF IInv, ControlInv, ControlOK
<1> USE DEF objVars, wakeVars, ctlVars, condVars
<1> DEFINE Kept == mutexObj'[t] = mutexObj[t] /\ call'[t] = call[t]
<1>2. ASSUME LibraryStep(t) PROVE Kept
  BY <1>1, <1>2 DEF LibraryStep, LockAcquire, SetOwner, UnlockRelease, UnlockWakeAll,
     WaitCvUnlock, WaitAdd, WaitSleep, WaitFlush, WaitAcquire, WaitWake, WaitRelock,
     PostRelease, BroadcastDrop, BroadcastEnd
<1>3. ASSUME NEW m \in Mutexes, MutexCall(t, m), UNCHANGED condVars PROVE Kept
  BY <1>1, <1>3 DEF MutexCall, LockSelfRecursive, LockSelfNormal, LockBegin, TryLock,
     UnlockRecursive, UnlockBegin, MutexInit, MutexDestroy
<1>4. ASSUME NEW c \in Conds, CondCall(t, c) PROVE Kept
  BY <1>1, <1>4 DEF CondCall, CondSignal, CondSignalTo, Signal, WaitBegin, CondBroadcast,
     CondSignalToUnqueued, CondDestroy, CondInit
<1> QED BY <1>2, <1>3, <1>4 DEF StepOf, Cancel, LockTimeout, WaitExpire

\* has_user_waiters is only cleared when the queue is, or becomes, empty.
LEMMA FlagMoves ==
  ASSUME IInv, NoMissedSignal, EntryOK, SleepqInv, NEW t \in Threads, StepOf(t),
         NEW d \in Conds, blocked'[d] # << >>
  PROVE  hasUserWaiters'[d]
<1>0. /\ TypeOK /\ hasUserWaiters \in [Conds -> BOOLEAN]
      /\ blocked \in [Conds -> Seq(Threads)]
  BY DEF IInv, TypeOK
<1>1. blocked[d] # << >> => hasUserWaiters[d]
  BY DEF SleepqInv, WaitersOK
<1>s. ASSUME hasUserWaiters' = hasUserWaiters, blocked' = blocked PROVE hasUserWaiters'[d]
  BY <1>1, <1>s
<1>r. ASSUME NEW c \in Conds, NEW i \in DOMAIN blocked[c], SleepqRemove(c, i)
      PROVE  hasUserWaiters'[d]
  <2>1. /\ i \in 1 .. Len(blocked[c]) /\ blocked' = [blocked EXCEPT ![c] = Without(blocked[c], i)]
        /\ hasUserWaiters' = [hasUserWaiters EXCEPT ![c] = Len(blocked[c]) # 1]
    BY <1>r, SleepqRemoveMoves DEF Removes
  <2>2. CASE d # c
    BY <1>0, <1>1, <2>1, <2>2
  <2>3. CASE d = c
    <3>1. Len(Without(blocked[c], i)) = Len(blocked[c]) - 1 /\ Without(blocked[c], i) \in Seq(Threads)
      BY <1>0, <2>1, WithoutType
    <3>2. Without(blocked[c], i) # << >>
      BY <1>0, <2>1, <2>3
    <3>3. Len(Without(blocked[c], i)) # 0
      BY <3>1, <3>2, EmptySeq
    <3>4. Len(blocked[c]) # 1
      BY <3>1, <3>3
    <3> QED BY <1>0, <2>1, <2>3, <3>4
  <2> QED BY <2>2, <2>3
<1>2. ASSUME LibraryStep(t) PROVE hasUserWaiters'[d]
  <2>1. CASE WaitAdd(t)
    <3>1. /\ pc[t] = "waitAdd" /\ hasUserWaiters' = hasUserWaiters
          /\ blocked' = [blocked EXCEPT ![call[t]] = <<t>> \o @]
      BY <2>1 DEF WaitAdd, SleepqAdd
    <3>2. call[t] \in Conds /\ hasUserWaiters[call[t]]
      BY <1>0, <3>1 DEF EntryOK, EntryPcs, IInv, ControlInv, ControlOK, WaitOnlyPcs, TypeOK, MutexTypeOK
    <3> QED BY <1>0, <1>1, <3>1, <3>2
  <2>2. CASE WaitWake(t)
    <3>1. call[t] \in Conds
      BY <1>0, <2>2 DEF WaitWake, IInv, ControlInv, ControlOK, WaitOnlyPcs, TypeOK, MutexTypeOK
    <3>2. \/ hasUserWaiters' = hasUserWaiters /\ blocked' = blocked
          \/ \E i \in DOMAIN blocked[call[t]] : SleepqRemove(call[t], i)
      BY <2>2 DEF WaitWake
    <3> QED BY <1>r, <1>s, <3>1, <3>2
  <2>3. ASSUME NEW c \in Conds, BroadcastDrop(t, c) PROVE hasUserWaiters'[d]
    <3>1. /\ hasUserWaiters' = hasUserWaiters /\ blocked[c] # << >>
          /\ \A e \in Conds : e # c => blocked'[e] = blocked[e]
      BY <1>0, <2>3 DEF BroadcastDrop
    <3> QED BY <1>1, <3>1
  <2>4. ASSUME NEW c \in Conds, BroadcastEnd(t, c) PROVE hasUserWaiters'[d]
    <3>1. /\ blocked' = blocked /\ blocked[c] = << >>
          /\ \A e \in Conds : e # c => hasUserWaiters'[e] = hasUserWaiters[e]
      BY <1>0, <2>4 DEF BroadcastEnd
    <3> QED BY <1>1, <3>1
  <2> QED BY <1>2, <1>s, <2>1, <2>2, <2>3, <2>4 DEF LibraryStep, condVars, WaitCvUnlock,
             WaitSleep, WaitFlush, WaitAcquire, WaitRelock, PostRelease
<1>3. ASSUME NEW c \in Conds, CondCall(t, c) PROVE hasUserWaiters'[d]
  <2>1. ASSUME NEW i, Signal(t, c, i) PROVE hasUserWaiters'[d]
    <3>1. i \in DOMAIN blocked[c] /\ SleepqRemove(c, i)
      BY <2>1 DEF Signal
    <3> QED BY <1>r, <3>1
  <2>2. ASSUME NEW m \in Mutexes, NEW b \in BOOLEAN, WaitBegin(t, c, m, b) PROVE hasUserWaiters'[d]
    <3>1. hasUserWaiters' = [hasUserWaiters EXCEPT ![c] = TRUE] /\ blocked' = blocked
      BY <2>2 DEF WaitBegin
    <3> QED BY <1>0, <1>1, <3>1
  <2>3. ASSUME CondDestroy(t, c) PROVE hasUserWaiters'[d]
    <3>1. /\ hasUserWaiters' = [hasUserWaiters EXCEPT ![c] = FALSE] /\ blocked' = blocked
          /\ \A u \in Threads : call[u] # c
      BY <2>3 DEF CondDestroy
    <3>2. ASSUME blocked[c] # << >> PROVE FALSE
      <4>1. 1 \in DOMAIN blocked[c] /\ blocked[c][1] \in Threads
        BY <1>0, <3>2, EmptySeq
      <4>2. InSeq(blocked[c][1], blocked[c])
        BY <4>1 DEF InSeq
      <4>3. wchan[blocked[c][1]] = c /\ c # NULL
        BY MutexAssumption, <4>1, <4>2 DEF SleepqInv, QueuesOK
      <4>4. call[blocked[c][1]] = c
        BY <4>1, <4>3 DEF SleepqInv, WaitersOK
      <4> QED BY <3>1, <4>1, <4>4
    <3> QED BY <1>0, <1>1, <3>1, <3>2
  <2> QED BY <1>3, <1>s, <2>1, <2>2, <2>3 DEF CondCall, CondSignal, CondSignalTo,
             CondBroadcast, CondSignalToUnqueued, CondInit, condVars
<1> QED BY <1>2, <1>3, <1>s DEF StepOf, condVars, Cancel, WaitExpire

\* Every step keeps the sleep queues consistent.
LEMMA NextSleepq ==
  ASSUME IInv, NoMissedSignal, EntryOK, SleepqInv, [Next]_vars
  PROVE  SleepqInv'
<1>1. CASE UNCHANGED coreVars
  BY <1>1 DEF SleepqInv, QueuesOK, WaitersOK, Distinct, InSeq, coreVars, ctlVars
<1>2. CASE \E t \in Threads : StepOf(t)
  <2> PICK t \in Threads : StepOf(t)
    BY <1>2
  <2>0. TypeOK /\ QueuesOK
    BY DEF IInv, SleepqInv
  <2> DEFINE Kept == \A u \in Threads : wchan'[u] # NULL =>
                       \/ wchan'[u] = wchan[u]
                       \/ u = t /\ WaitAdd(t) /\ wchan'[t] = call[t]
  <2>1. QueuesOK' /\ Kept
    <3>1. CASE UNCHANGED <<blocked, sleepq, sleepqueue, wchan>>
      BY <2>0, <3>1 DEF QueuesOK, Distinct, InSeq
    <3>2. CASE WaitAdd(t) /\ call[t] \in Conds /\ wchan[t] = NULL /\ SleepqAdd(call[t], t)
      <4>1. QueuesOK'
        BY <2>0, <3>2, AddQueues
      <4>2. wchan' = [wchan EXCEPT ![t] = call[t]] /\ wchan \in [Threads -> Conds \union {NULL}]
        BY <2>0, <3>2 DEF SleepqAdd, TypeOK
      <4> QED BY <3>2, <4>1, <4>2
    <3>3. ASSUME NEW c \in Conds, NEW i \in 1 .. Len(blocked[c]), NEW k \in 1 .. Len(sleepq[c]),
                 Removes(c, i, k)
          PROVE  QueuesOK' /\ Kept
      <4>1. QueuesOK' /\ blocked[c][i] \in Threads
        BY <2>0, <3>3, RemoveQueues
      <4>2. /\ wchan' = [wchan EXCEPT ![blocked[c][i]] = NULL]
            /\ wchan \in [Threads -> Conds \union {NULL}]
        BY <2>0, <3>3 DEF Removes, TypeOK
      <4>3. Kept
        BY <4>1, <4>2
      <4> QED BY <4>1, <4>3
    <3> HIDE DEF Kept
    <3> QED BY <3>1, <3>2, <3>3, QueueMoves
  <2>2. \A d \in Conds : blocked'[d] # << >> => hasUserWaiters'[d]
    BY FlagMoves
  <2>3. ASSUME NEW u \in Threads, wchan'[u] # NULL
        PROVE  mutexObj'[u] # NULL /\ wchan'[u] = call'[u]
    <3>1. CASE wchan'[u] = wchan[u]
      <4>1. mutexObj'[u] = mutexObj[u] /\ call'[u] = call[u]
        BY <2>3, <3>1, QueuedKeeps, Locality DEF Untouched
      <4> QED BY <2>3, <3>1, <4>1 DEF SleepqInv, WaitersOK
    <3>2. CASE u = t /\ WaitAdd(t) /\ wchan'[t] = call[t]
      <4>1. mutexObj' = [mutexObj EXCEPT ![t] = mx[t]] /\ call' = call /\ pc[t] = "waitAdd"
        BY <3>2 DEF WaitAdd
      <4>2. mx[t] # NULL /\ mutexObj \in [Threads -> Mutexes \union {NULL}]
        BY <2>0, <4>1 DEF IInv, ControlInv, ControlOK, NoMutexPcs, TypeOK
      <4> QED BY <3>2, <4>1, <4>2
    <3> QED BY <2>1, <2>3, <3>1, <3>2
  <2> QED BY <2>1, <2>2, <2>3 DEF SleepqInv, WaitersOK
<1> QED BY <1>1, <1>2, SomeStep

-----------------------------------------------------------------------------
\* A Deferred flag on a mutex someone owns survives until the owner's Unlock
\* fetches it.
LEMMA FlagKept ==
  ASSUME IInv, SleepqInv, NEW t \in Threads, StepOf(t), NEW u \in Threads, NEW m \in Mutexes,
         mOwner[m] = u, mDeferred[m]
  PROVE  \/ mOwner'[m] = u /\ mDeferred'[m]
         \/ u = t /\ deferred'[t]
<1> DEFINE Kept == \/ mOwner'[m] = u /\ mDeferred'[m]
                   \/ u = t /\ deferred'[t]
<1>0. /\ TypeOK /\ u # NULL /\ mOwner \in [Mutexes -> Threads \union {NULL}]
      /\ mDeferred \in [Mutexes -> BOOLEAN] /\ deferred \in [Threads -> BOOLEAN]
  BY MutexAssumption DEF IInv, TypeOK, MutexTypeOK
<1>s. ASSUME mOwner' = mOwner, mDeferred' = mDeferred PROVE Kept
  BY <1>s
<1>w. ASSUME NEW td \in Threads, WakeOne(t, td), mOwner' = mOwner PROVE Kept
  <2>1. mDeferred' = mDeferred \/ mDeferred' = [mDeferred EXCEPT ![mutexObj[td]] = TRUE]
    BY <1>w DEF WakeOne
  <2> QED BY <1>0, <1>w, <2>1
<1>d. ASSUME NEW n \in Mutexes, mOwner[n] = t, DropOwner(t, n) PROVE Kept
  BY <1>0, <1>d DEF DropOwner
<1> HIDE DEF Kept
<1>1. ASSUME LibraryStep(t) PROVE Kept
  <2>1. CASE SetOwner(t)
    <3>1. pc[t] = "own" /\ mOwner' = [mOwner EXCEPT ![mx[t]] = t] /\ mDeferred' = mDeferred
      BY <2>1 DEF SetOwner
    <3>2. /\ mx[t] \in Mutexes /\ mLock[mx[t]] = t
      BY <3>1, BusyFacts DEF NoMutexPcs, OwnerOK
    <3>3. mLock[m] = u
      BY DEF IInv, DepthAgrees, DepthOK
    <3> QED BY <1>0, <3>1, <3>2, <3>3 DEF Kept
  <2>2. CASE WaitCvUnlock(t)
    <3>1. mx[t] \in Mutexes /\ mOwner[mx[t]] = t /\ DropOwner(t, mx[t])
      BY <2>2, BusyFacts DEF WaitCvUnlock, NoMutexPcs, OwnerOK
    <3> QED BY <1>d, <3>1
  <2>3. ASSUME NEW c \in Conds, BroadcastDrop(t, c) PROVE Kept
    <3>1. Head(blocked[c]) \in Threads /\ WakeOne(t, Head(blocked[c])) /\ mOwner' = mOwner
      BY <1>0, <2>3 DEF BroadcastDrop, TypeOK
    <3> QED BY <1>w, <3>1
  <2> QED BY <1>1, <1>s, <2>1, <2>2, <2>3 DEF LibraryStep, objVars, LockAcquire, UnlockRelease,
             UnlockWakeAll, WaitAdd, WaitSleep, WaitFlush, WaitAcquire, WaitWake, WaitRelock,
             PostRelease, BroadcastEnd
<1>2. ASSUME NEW n \in Mutexes, MutexCall(t, n), UNCHANGED condVars PROVE Kept
  <2>1. CASE UnlockBegin(t, n)
    BY <2>1, <1>d DEF UnlockBegin
  <2>2. CASE MutexDestroy(t, n)
    <3>1. mOwner[n] = NULL /\ mOwner' = mOwner /\ mDeferred' = [mDeferred EXCEPT ![n] = FALSE]
      BY <2>2 DEF MutexDestroy
    <3> QED BY <1>0, <3>1 DEF Kept
  <2> QED BY <1>2, <1>s, <2>1, <2>2 DEF MutexCall, objVars, LockSelfRecursive, LockSelfNormal,
             LockBegin, TryLock, UnlockRecursive, MutexInit
<1>3. ASSUME NEW c \in Conds, CondCall(t, c) PROVE Kept
  <2>1. ASSUME NEW i, Signal(t, c, i) PROVE Kept
    <3>1. blocked[c][i] \in Threads /\ WakeOne(t, blocked[c][i]) /\ mOwner' = mOwner
      BY <1>0, <2>1 DEF Signal, TypeOK
    <3> QED BY <1>w, <3>1
  <2> QED BY <1>3, <1>s, <2>1 DEF CondCall, objVars, CondSignal, CondSignalTo, WaitBegin,
             CondBroadcast, CondSignalToUnqueued, CondDestroy, CondInit
<1> QED BY <1>1, <1>2, <1>3, <1>s DEF StepOf, objVars, Cancel, LockTimeout, WaitExpire, Kept

\* A thread only defers a wake-up while it owns the mutex the waiter waits with,
\* whose Deferred flag it sets.
LEMMA DeferMoves ==
  ASSUME IInv, SleepqInv, NEW t \in Threads, StepOf(t), deferWaiters'[t] # << >>
  PROVE  \/ deferWaiters[t] # << >>
         \/ \E m \in Mutexes : mOwner'[m] = t /\ mDeferred'[m]
<1> DEFINE Held == \E m \in Mutexes : mOwner'[m] = t /\ mDeferred'[m]
           Known == deferWaiters[t] # << >> \/ Held
<1>0. TypeOK
  BY DEF IInv
<1>w. ASSUME NEW c \in Conds, NEW i \in DOMAIN blocked[c], WakeOne(t, blocked[c][i]), mOwner' = mOwner
      PROVE  Known
  <2>1. blocked[c][i] \in Threads /\ InSeq(blocked[c][i], blocked[c])
    BY <1>0 DEF TypeOK, InSeq
  <2>2. wchan[blocked[c][i]] = c /\ c # NULL
    BY MutexAssumption, <2>1 DEF SleepqInv, QueuesOK
  <2>3. mutexObj[blocked[c][i]] \in Mutexes
    BY <1>0, <2>1, <2>2 DEF SleepqInv, WaitersOK, TypeOK
  <2>4. CASE mOwner[mutexObj[blocked[c][i]]] = t
    <3>1. mDeferred' = [mDeferred EXCEPT ![mutexObj[blocked[c][i]]] = TRUE]
      BY <1>w, <2>4 DEF WakeOne
    <3>2. mDeferred'[mutexObj[blocked[c][i]]]
      BY <1>0, <2>3, <3>1 DEF TypeOK, MutexTypeOK
    <3> QED BY <1>w, <2>3, <2>4, <3>2
  <2>5. CASE mOwner[mutexObj[blocked[c][i]]] # t
    BY <1>w, <2>5 DEF WakeOne
  <2> QED BY <2>4, <2>5
<1>n. ASSUME NEW done, WakeAllNext(t, done) PROVE Known
  BY <1>n DEF WakeAllNext
<1> HIDE DEF Held
<1>1. ASSUME LibraryStep(t) PROVE Known
  <2>1. ASSUME NEW c \in Conds, BroadcastDrop(t, c) PROVE Known
    <3>1. /\ 1 \in DOMAIN blocked[c] /\ Head(blocked[c]) = blocked[c][1]
      BY <1>0, <2>1, BroadcastDropMoves DEF TypeOK
    <3>2. WakeOne(t, blocked[c][1]) /\ mOwner' = mOwner
      BY <2>1, <3>1 DEF BroadcastDrop
    <3> QED BY <1>w, <3>1, <3>2
  <2>2. CASE UnlockWakeAll(t)
    BY <2>2, <1>n DEF UnlockWakeAll, WakeAllNext
  <2>3. CASE WaitFlush(t)
    BY <2>3, <1>n DEF WaitFlush, WakeAllNext
  <2> QED BY <1>1, <2>1, <2>2, <2>3 DEF LibraryStep, wakeVars, SetOwner, LockAcquire, UnlockRelease,
             WaitCvUnlock, WaitAdd, WaitSleep, WaitAcquire, WaitWake, WaitRelock,
             PostRelease, BroadcastEnd
<1>2. ASSUME NEW n \in Mutexes, MutexCall(t, n), UNCHANGED condVars PROVE Known
  BY <1>2 DEF MutexCall, wakeVars, LockSelfRecursive, LockSelfNormal,
     LockBegin, TryLock, UnlockRecursive, UnlockBegin, MutexInit, MutexDestroy
<1>3. ASSUME NEW c \in Conds, CondCall(t, c) PROVE Known
  <2>1. ASSUME NEW i, Signal(t, c, i) PROVE Known
    <3>1. i \in DOMAIN blocked[c] /\ WakeOne(t, blocked[c][i]) /\ mOwner' = mOwner
      BY <2>1 DEF Signal
    <3> QED BY <1>w, <3>1
  <2> QED BY <1>3, <2>1 DEF CondCall, wakeVars, CondSignal, CondSignalTo, WaitBegin,
             CondBroadcast, CondSignalToUnqueued, CondDestroy, CondInit
<1> QED BY <1>1, <1>2, <1>3 DEF StepOf, wakeVars, Cancel, LockTimeout, WaitExpire, Held

\* A thread on its way to WakeAll gets there with its list.
LEMMA FlushMoves ==
  ASSUME IInv, ListsOK, NEW t \in Threads, StepOf(t),
         deferWaiters[t] # << >>, deferWaiters'[t] # << >>,
         deferred[t] \/ pc[t] \in {"wakeAll", "waitAdd", "willSleep", "flush"}
  PROVE  deferred'[t] \/ pc'[t] \in {"wakeAll", "waitAdd", "willSleep", "flush"}
<1>0. TypeOK /\ ControlOK(t) /\ pc[t] \in {"release", "wakeAll", "waitAdd", "willSleep", "flush"}
  BY DEF IInv, ControlInv, ListsOK
<1> DEFINE Going == pc'[t] \in {"wakeAll", "waitAdd", "willSleep", "flush"}
<1>1. ASSUME LibraryStep(t) PROVE Going
  <2>1. CASE UnlockRelease(t)
    <3>1. deferred[t] /\ pc[t] = "release"
      BY <1>0, <2>1 DEF UnlockRelease
    <3>2. call[t] # NULL \/ ~willSleep[t]
      BY <1>0, <3>1 DEF ControlOK
    <3> QED BY <1>0, <2>1, <3>1, <3>2 DEF UnlockRelease, Goto, TypeOK, MutexTypeOK
  <2>2. CASE UnlockWakeAll(t)
    BY <2>2 DEF UnlockWakeAll, WakeAllNext
  <2>3. CASE WaitFlush(t)
    BY <2>3 DEF WaitFlush, WakeAllNext
  <2>4. CASE WaitAdd(t) \/ WaitSleep(t)
    BY <1>0, <2>4 DEF WaitAdd, WaitSleep, Goto, TypeOK
  <2> QED BY <1>0, <1>1, <2>1, <2>2, <2>3, <2>4 DEF LibraryStep, SetOwner, LockAcquire,
             WaitCvUnlock, WaitAcquire, WaitWake, WaitRelock, PostRelease, BroadcastDrop,
             BroadcastEnd
<1>2. ASSUME NEW n \in Mutexes, MutexCall(t, n), UNCHANGED condVars PROVE Going
  BY <1>0, <1>2 DEF MutexCall, LockSelfRecursive, LockSelfNormal,
     LockBegin, TryLock, UnlockRecursive, UnlockBegin, MutexInit, MutexDestroy
<1>3. ASSUME NEW c \in Conds, CondCall(t, c) PROVE Going
  BY <1>0, <1>3 DEF CondCall, CondSignal, CondSignalTo, Signal, WaitBegin,
     CondBroadcast, CondSignalToUnqueued, CondDestroy, CondInit
<1> QED BY <1>0, <1>1, <1>2, <1>3 DEF StepOf, Cancel, LockTimeout, WaitExpire

\* Every step keeps a deferred wake-up on its way.
LEMMA NextDefer ==
  ASSUME IInv, SleepqInv, ListsOK, DeferFlushed, [Next]_vars
  PROVE  DeferFlushed'
<1>1. CASE UNCHANGED coreVars
  BY <1>1 DEF DeferFlushed, coreVars, objVars, wakeVars, ctlVars
<1>2. CASE \E t \in Threads : StepOf(t)
  <2> PICK t \in Threads : StepOf(t)
    BY <1>2
  <2> SUFFICES ASSUME NEW u \in Threads, deferWaiters'[u] # << >>
               PROVE  \/ \E m \in Mutexes : mOwner'[m] = u /\ mDeferred'[m]
                      \/ deferred'[u]
                      \/ pc'[u] \in {"wakeAll", "waitAdd", "willSleep", "flush"}
    BY DEF DeferFlushed
  <2>1. CASE deferWaiters[u] # << >>
    <3>1. ASSUME NEW m \in Mutexes, mOwner[m] = u, mDeferred[m]
          PROVE  \/ mOwner'[m] = u /\ mDeferred'[m]
                 \/ u = t /\ deferred'[t]
      BY <3>1, FlagKept
    <3>2. ASSUME deferred[u] \/ pc[u] \in {"wakeAll", "waitAdd", "willSleep", "flush"}
          PROVE  deferred'[u] \/ pc'[u] \in {"wakeAll", "waitAdd", "willSleep", "flush"}
      <4>1. CASE u = t
        BY <2>1, <3>2, <4>1, FlushMoves
      <4>2. CASE u # t
        BY <3>2, <4>2, Locality DEF Untouched
      <4> QED BY <4>1, <4>2
    <3> QED BY <2>1, <3>1, <3>2 DEF DeferFlushed
  <2>2. CASE deferWaiters[u] = << >>
    <3>1. u = t
      BY <2>2, Locality DEF Untouched
    <3> QED BY <2>2, <3>1, DeferMoves
  <2> QED BY <2>1, <2>2
<1> QED BY <1>1, <1>2, SomeStep

-----------------------------------------------------------------------------
\* The thread has a token, or someone has its semaphore on a list.
Pending(u) ==
  \/ wakeSema[u] > 0
  \/ \E v \in Threads : InSeq(u, deferWaiters[v]) \/ InSeq(u, toRelease[v])

\* Releasing a list gives a token to everyone on it and takes none away.
LEMMA ReleaseGives ==
  ASSUME MutexTypeOK, NEW s \in Seq(Threads), ReleaseAll(s), NEW u \in Threads
  PROVE  /\ wakeSema'[u] >= wakeSema[u]
         /\ InSeq(u, s) => wakeSema'[u] > 0
<1> DEFINE I == {i \in DOMAIN s : s[i] = u}
<1>1. IsFiniteSet(I)
  <2>1. IsFiniteSet(1 .. Len(s)) /\ I \subseteq 1 .. Len(s)
    BY FS_Interval
  <2> QED BY <2>1, FS_Subset
<1>2. Cardinality(I) \in Nat /\ (Cardinality(I) = 0 <=> I = {})
  BY <1>1, FS_CardinalityType, FS_EmptySet
<1>3. wakeSema'[u] = wakeSema[u] + Cardinality(I) /\ wakeSema[u] \in Nat
  BY DEF ReleaseAll, Tokens, MutexTypeOK
<1>4. InSeq(u, s) => I # {}
  BY DEF InSeq
<1> HIDE DEF I
<1> QED BY <1>2, <1>3, <1>4

\* A wake-up in progress stays one when lists are released or grow.
LEMMA WakeOneGives ==
  ASSUME TypeOK, NEW t \in Threads, NEW td \in Threads, WakeOne(t, td), NEW u \in Threads,
         u = td \/ Pending(u)
  PROVE  Pending(u)'
<1> DEFINE Full(list) == Len(list) >= MaxDeferWaiters
           Put(list) == IF Full(list) THEN <<td>> ELSE Append(list, td)
<1>0. MutexTypeOK /\ deferWaiters[t] \in Seq(Threads) /\ toRelease[t] \in Seq(Threads)
      /\ deferWaiters \in [Threads -> Seq(Threads)] /\ toRelease \in [Threads -> Seq(Threads)]
      /\ wakeSema \in [Threads -> Nat]
  BY DEF TypeOK, MutexTypeOK
<1>1. ASSUME NEW list \in Seq(Threads)
      PROVE  InSeq(td, Put(list)) /\ (~Full(list) /\ InSeq(u, list) => InSeq(u, Put(list)))
  <2>1. CASE Full(list)
    <3>1. Put(list) = <<td>> /\ 1 \in DOMAIN <<td>> /\ <<td>>[1] = td
      BY <2>1
    <3> QED BY <2>1, <3>1 DEF InSeq
  <2>2. CASE ~Full(list)
    <3>1. /\ Put(list) = Append(list, td) /\ Len(list) \in Nat
          /\ DOMAIN Append(list, td) = 1 .. Len(list) + 1
          /\ Append(list, td)[Len(list) + 1] = td
          /\ \A i \in DOMAIN list : i \in DOMAIN Append(list, td) /\ Append(list, td)[i] = list[i]
      BY <2>2
    <3>2. Len(list) + 1 \in DOMAIN Append(list, td)
      BY <3>1
    <3> HIDE DEF Put, Full
    <3> QED BY <3>1, <3>2 DEF InSeq
  <2> QED BY <2>1, <2>2
<1>2. ASSUME NEW list \in Seq(Threads),
             IF Full(list) THEN ReleaseAll(list) ELSE wakeSema' = wakeSema
      PROVE  /\ wakeSema'[u] \in Int /\ wakeSema'[u] >= wakeSema[u]
             /\ Full(list) /\ InSeq(u, list) => wakeSema'[u] > 0
  <2>1. CASE Full(list)
    <3>1. ReleaseAll(list)
      BY <1>2, <2>1
    <3>2. wakeSema' \in [Threads -> Nat]
      BY <1>0, <3>1, ReleaseType
    <3> QED BY <1>0, <3>1, <3>2, ReleaseGives
  <2>2. CASE ~Full(list)
    BY <1>0, <1>2, <2>2
  <2> QED BY <2>1, <2>2
<1>3. CASE mOwner[mutexObj[td]] = t
  <2>1. /\ IF Full(deferWaiters[t]) THEN ReleaseAll(deferWaiters[t]) ELSE wakeSema' = wakeSema
        /\ deferWaiters' = [deferWaiters EXCEPT ![t] = Put(deferWaiters[t])]
        /\ toRelease' = toRelease
    BY <1>3 DEF WakeOne
  <2> HIDE DEF Full, Put
  <2>2. deferWaiters'[t] = Put(deferWaiters[t])
        /\ \A v \in Threads : v # t => deferWaiters'[v] = deferWaiters[v]
    BY <1>0, <2>1
  <2>3. CASE u = td
    BY <1>0, <1>1, <2>2, <2>3 DEF Pending
  <2>4. CASE wakeSema[u] > 0
    <3>1. wakeSema'[u] > 0
      BY <1>0, <1>2, <2>1, <2>4
    <3> QED BY <3>1 DEF Pending
  <2>5. ASSUME NEW v \in Threads, InSeq(u, deferWaiters[v]) \/ InSeq(u, toRelease[v])
        PROVE  Pending(u)'
    BY <1>0, <1>1, <1>2, <2>1, <2>2, <2>5 DEF Pending
  <2> QED BY <2>3, <2>4, <2>5 DEF Pending
<1>4. CASE mOwner[mutexObj[td]] # t
  <2>1. /\ IF Full(toRelease[t]) THEN ReleaseAll(toRelease[t]) ELSE wakeSema' = wakeSema
        /\ toRelease' = [toRelease EXCEPT ![t] = Put(toRelease[t])]
        /\ deferWaiters' = deferWaiters
    BY <1>4 DEF WakeOne
  <2> HIDE DEF Full, Put
  <2>2. toRelease'[t] = Put(toRelease[t])
        /\ \A v \in Threads : v # t => toRelease'[v] = toRelease[v]
    BY <1>0, <2>1
  <2>3. CASE u = td
    BY <1>0, <1>1, <2>2, <2>3 DEF Pending
  <2>4. CASE wakeSema[u] > 0
    <3>1. wakeSema'[u] > 0
      BY <1>0, <1>2, <2>1, <2>4
    <3> QED BY <3>1 DEF Pending
  <2>5. ASSUME NEW v \in Threads, InSeq(u, deferWaiters[v]) \/ InSeq(u, toRelease[v])
        PROVE  Pending(u)'
    BY <1>0, <1>1, <1>2, <2>1, <2>2, <2>5 DEF Pending
  <2> QED BY <2>3, <2>4, <2>5 DEF Pending
<1> QED BY <1>3, <1>4

\* Releasing the first semaphore of a list and taking it off.
LEMMA HeadOrTail ==
  ASSUME NEW s \in Seq(Threads), s # << >>, NEW u, InSeq(u, s)
  PROVE  InSeq(u, Tail(s)) \/ InSeq(u, <<Head(s)>>)
<1>1. Len(s) \in Nat \ {0} /\ DOMAIN s = 1 .. Len(s)
  BY EmptySeq
<1>2. PICK i \in 1 .. Len(s) : s[i] = u
  BY <1>1 DEF InSeq
<1>3. CASE i = 1
  <2>1. 1 \in DOMAIN <<Head(s)>> /\ <<Head(s)>>[1] = u
    BY <1>2, <1>3
  <2> QED BY <2>1 DEF InSeq
<1>4. CASE i # 1
  <2>1. i - 1 \in DOMAIN Tail(s) /\ Tail(s)[i - 1] = s[(i - 1) + 1] /\ (i - 1) + 1 = i
    BY <1>1, <1>2, <1>4
  <2>2. i - 1 \in DOMAIN Tail(s) /\ Tail(s)[i - 1] = u
    BY <1>2, <2>1
  <2> QED BY <2>2 DEF InSeq
<1> QED BY <1>3, <1>4

Asleep == {"willSleep", "flush", "sleep"}

\* A wake-up in progress is not lost while the thread is (about to be) asleep: the
\* only steps that take a token away are the sleeper's own acquire, which ends the
\* sleep, and its ClearWake, before it.
LEMMA PendingKept ==
  ASSUME IInv, ListsOK, NEW t \in Threads, StepOf(t), NEW u \in Threads,
         pc[u] \in Asleep, pc'[u] \in Asleep, Pending(u)
  PROVE  Pending(u)'
<1>0. /\ TypeOK /\ MutexTypeOK
      /\ deferWaiters \in [Threads -> Seq(Threads)] /\ toRelease \in [Threads -> Seq(Threads)]
      /\ wakeSema \in [Threads -> Nat] /\ pc \in [Threads -> MutexPcs \union CondPcs]
  BY DEF IInv, TypeOK, MutexTypeOK
<1>s. ASSUME deferWaiters' = deferWaiters, toRelease' = toRelease, wakeSema'[u] = wakeSema[u]
      PROVE  Pending(u)'
  BY <1>s DEF Pending
<1>n. ASSUME deferWaiters[t] # << >>, ReleaseAll(<<Head(deferWaiters[t])>>),
             deferWaiters' = [deferWaiters EXCEPT ![t] = Tail(@)], toRelease' = toRelease
      PROVE  Pending(u)'
  <2>1. deferWaiters[t] \in Seq(Threads) /\ <<Head(deferWaiters[t])>> \in Seq(Threads)
    BY <1>0, <1>n
  <2>2. /\ wakeSema'[u] >= wakeSema[u]
        /\ InSeq(u, <<Head(deferWaiters[t])>>) => wakeSema'[u] > 0
    BY <1>0, <1>n, <2>1, ReleaseGives
  <2>3. wakeSema' \in [Threads -> Nat]
    BY <1>0, <1>n, <2>1, ReleaseType
  <2>4. InSeq(u, deferWaiters[t]) => InSeq(u, deferWaiters'[t]) \/ wakeSema'[u] > 0
    BY <1>0, <1>n, <2>1, <2>2, HeadOrTail
  <2>5. \A v \in Threads : v # t => deferWaiters'[v] = deferWaiters[v]
    BY <1>0, <1>n
  <2>6. wakeSema[u] > 0 => wakeSema'[u] > 0
    BY <1>0, <2>2, <2>3
  <2> QED BY <1>n, <2>4, <2>5, <2>6 DEF Pending
<1>1. ASSUME LibraryStep(t) PROVE Pending(u)'
  <2>1. CASE UnlockWakeAll(t) /\ UNCHANGED condVars
    BY <2>1, <1>n, <1>s DEF UnlockWakeAll, WakeAllNext, condVars
  <2>2. CASE WaitFlush(t)
    BY <2>2, <1>n, <1>s DEF WaitFlush, WakeAllNext, condVars
  <2>3. CASE WaitAdd(t)
    <3>1. /\ pc[t] = "waitAdd" /\ deferWaiters' = deferWaiters /\ toRelease' = toRelease
          /\ \A v \in Threads : v # t => wakeSema'[v] = wakeSema[v]
      BY <1>0, <2>3 DEF WaitAdd
    <3>2. u # t
      BY <3>1 DEF Asleep
    <3> QED BY <1>s, <3>1, <3>2
  <2>4. CASE WaitAcquire(t)
    <3>1. /\ pc'[t] = "woken" /\ deferWaiters' = deferWaiters /\ toRelease' = toRelease
          /\ \A v \in Threads : v # t => wakeSema'[v] = wakeSema[v]
      BY <1>0, <2>4 DEF WaitAcquire, Goto, condVars
    <3>2. u # t
      BY <3>1 DEF Asleep
    <3> QED BY <1>s, <3>1, <3>2
  <2>5. CASE PostRelease(t)
    <3>1. /\ pc[t] = "post" /\ ReleaseAll(<<Head(toRelease[t])>>) /\ deferWaiters' = deferWaiters
          /\ toRelease' = [toRelease EXCEPT ![t] = Tail(@)]
      BY <2>5 DEF PostRelease
    <3>2. toRelease[t] # << >>
      BY <3>1 DEF IInv, ControlInv, ControlOK
    <3>3. toRelease[t] \in Seq(Threads) /\ <<Head(toRelease[t])>> \in Seq(Threads)
      BY <1>0, <3>2
    <3>4. /\ wakeSema'[u] >= wakeSema[u]
          /\ InSeq(u, <<Head(toRelease[t])>>) => wakeSema'[u] > 0
      BY <1>0, <3>1, <3>3, ReleaseGives
    <3>5. wakeSema' \in [Threads -> Nat]
      BY <1>0, <3>1, <3>3, ReleaseType
    <3>6. InSeq(u, toRelease[t]) => InSeq(u, toRelease'[t]) \/ wakeSema'[u] > 0
      BY <1>0, <3>1, <3>2, <3>3, <3>4, HeadOrTail
    <3>7. \A v \in Threads : v # t => toRelease'[v] = toRelease[v]
      BY <1>0, <3>1
    <3>8. wakeSema[u] > 0 => wakeSema'[u] > 0
      BY <1>0, <3>4, <3>5
    <3> QED BY <3>1, <3>6, <3>7, <3>8 DEF Pending
  <2>6. ASSUME NEW c \in Conds, BroadcastDrop(t, c) PROVE Pending(u)'
    <3>1. Head(blocked[c]) \in Threads /\ WakeOne(t, Head(blocked[c]))
      BY <1>0, <2>6 DEF BroadcastDrop, TypeOK
    <3> QED BY <1>0, <3>1, WakeOneGives
  <2> QED BY <1>1, <1>s, <2>1, <2>2, <2>3, <2>4, <2>5, <2>6 DEF LibraryStep, wakeVars, condVars,
             SetOwner, LockAcquire, UnlockRelease, WaitCvUnlock, WaitSleep, WaitWake,
             WaitRelock, BroadcastEnd
<1>2. ASSUME NEW n \in Mutexes, MutexCall(t, n), UNCHANGED condVars PROVE Pending(u)'
  BY <1>2, <1>s DEF MutexCall, wakeVars, condVars, LockSelfRecursive, LockSelfNormal,
     LockBegin, TryLock, UnlockRecursive, UnlockBegin, MutexInit, MutexDestroy
<1>3. ASSUME NEW c \in Conds, CondCall(t, c) PROVE Pending(u)'
  <2>1. ASSUME NEW i, Signal(t, c, i) PROVE Pending(u)'
    <3>1. blocked[c][i] \in Threads /\ WakeOne(t, blocked[c][i])
      BY <1>0, <2>1 DEF Signal, TypeOK
    <3> QED BY <1>0, <3>1, WakeOneGives
  <2> QED BY <1>3, <1>s, <2>1 DEF CondCall, wakeVars, condVars, CondSignal, CondSignalTo,
             WaitBegin, CondBroadcast, CondSignalToUnqueued, CondDestroy, CondInit
<1>4. ASSUME NEW td \in Threads, Cancel(t, td) PROVE Pending(u)'
  <2>1. pc[t] = "idle" /\ deferWaiters' = deferWaiters /\ wakeSema' = wakeSema
    BY <1>4 DEF Cancel, wakeVars
  <2>2. toRelease[t] = << >>
    BY <2>1 DEF ListsOK
  <2>3. \A v \in Threads : v # t => toRelease'[v] = toRelease[v]
    BY <1>0, <1>4 DEF Cancel
  <2>4. ~InSeq(u, toRelease[t])
    BY <2>2 DEF InSeq
  <2> QED BY <2>1, <2>3, <2>4 DEF Pending
<1> QED BY <1>1, <1>2, <1>3, <1>4, <1>s DEF StepOf, wakeVars, condVars, LockTimeout, WaitExpire

\* A sleeper is taken off its queue by a thread that puts it on a list.
LEMMA RemovedIsPending ==
  ASSUME IInv, SleepqInv, NEW t \in Threads, StepOf(t), NEW u \in Threads,
         wchan[u] # NULL, wchan'[u] = NULL, pc'[u] \in Asleep
  PROVE  Pending(u)'
<1>0. TypeOK /\ wchan \in [Threads -> Conds \union {NULL}]
      /\ pc \in [Threads -> MutexPcs \union CondPcs]
  BY DEF IInv, TypeOK
<1>s. ASSUME wchan' = wchan PROVE Pending(u)'
  BY <1>s
<1>1. ASSUME LibraryStep(t) PROVE Pending(u)'
  <2>1. CASE WaitAdd(t)
    <3>1. wchan' = [wchan EXCEPT ![t] = call[t]] /\ pc[t] = "waitAdd"
      BY <2>1 DEF WaitAdd, SleepqAdd
    <3>2. wchan[t] = NULL
      BY <3>1 DEF IInv, ControlInv, ControlOK
    <3> QED BY <1>0, <3>1, <3>2
  <2>2. CASE WaitWake(t)
    <3>1. pc'[t] \in {"relock", "unreachable"}
      BY <1>0, <2>2 DEF WaitWake, Goto
    <3>2. wchan' = wchan \/ wchan' = [wchan EXCEPT ![t] = NULL]
      BY <2>2 DEF WaitWake, SleepqRemove
    <3>3. u # t
      BY <3>1 DEF Asleep
    <3> QED BY <1>0, <3>2, <3>3
  <2>3. ASSUME NEW c \in Conds, BroadcastDrop(t, c) PROVE Pending(u)'
    <3>1. /\ Head(blocked[c]) \in Threads /\ WakeOne(t, Head(blocked[c]))
          /\ wchan' = [wchan EXCEPT ![Head(blocked[c])] = NULL]
      BY <1>0, <2>3 DEF BroadcastDrop, TypeOK
    <3>2. u = Head(blocked[c])
      BY <1>0, <3>1
    <3> QED BY <1>0, <3>1, <3>2, WakeOneGives
  <2> QED BY <1>1, <1>s, <2>1, <2>2, <2>3 DEF LibraryStep, condVars, WaitCvUnlock, WaitSleep,
             WaitFlush, WaitAcquire, WaitRelock, PostRelease, BroadcastEnd
<1>2. ASSUME NEW c \in Conds, CondCall(t, c) PROVE Pending(u)'
  <2>1. ASSUME NEW i, Signal(t, c, i) PROVE Pending(u)'
    <3>1. /\ blocked[c][i] \in Threads /\ WakeOne(t, blocked[c][i])
          /\ wchan' = [wchan EXCEPT ![blocked[c][i]] = NULL]
      BY <1>0, <2>1 DEF Signal, SleepqRemove, TypeOK
    <3>2. u = blocked[c][i]
      BY <1>0, <3>1
    <3> QED BY <1>0, <3>1, <3>2, WakeOneGives
  <2> QED BY <1>2, <1>s, <2>1 DEF CondCall, condVars, CondSignal, CondSignalTo, WaitBegin,
             CondBroadcast, CondSignalToUnqueued, CondDestroy, CondInit
<1> QED BY <1>1, <1>2, <1>s DEF StepOf, condVars, Cancel, WaitExpire

\* A thread falls asleep queued.
LEMMA AsleepQueued ==
  ASSUME IInv, NEW t \in Threads, StepOf(t), pc[t] \notin Asleep, pc'[t] \in Asleep
  PROVE  wchan'[t] # NULL
<1>0. TypeOK /\ ControlOK(t)
  BY DEF IInv, ControlInv
<1> DEFINE Queued == wchan'[t] # NULL
<1> USE DEF Asleep, Goto, Return
<1>1. ASSUME LibraryStep(t) PROVE Queued
  <2>1. CASE WaitAdd(t)
    <3>1. call[t] \in Conds /\ wchan' = [wchan EXCEPT ![t] = call[t]]
      BY <1>0, <2>1 DEF WaitAdd, SleepqAdd, ControlOK, WaitOnlyPcs, TypeOK, MutexTypeOK
    <3> QED BY MutexAssumption, <1>0, <3>1 DEF TypeOK
  <2>2. CASE UnlockRelease(t) \/ LockAcquire(t) \/ SetOwner(t)
    BY <1>0, <2>2 DEF UnlockRelease, LockAcquire, SetOwner, TypeOK
  <2>3. CASE UnlockWakeAll(t)
    BY <1>0, <2>3 DEF UnlockWakeAll, WakeAllNext, TypeOK
  <2>4. CASE WaitWake(t)
    BY <1>0, <2>4 DEF WaitWake, TypeOK
  <2>5. CASE PostRelease(t)
    BY <1>0, <2>5 DEF PostRelease, TypeOK
  <2>6. CASE WaitCvUnlock(t) \/ WaitAcquire(t) \/ WaitRelock(t)
    BY <1>0, <2>6 DEF WaitCvUnlock, DropOwner, WaitAcquire, WaitRelock, TypeOK
  <2>7. ASSUME NEW c \in Conds, BroadcastDrop(t, c) \/ BroadcastEnd(t, c) PROVE Queued
    BY <1>0, <2>7 DEF BroadcastDrop, BroadcastEnd, ctlVars, TypeOK
  <2> QED BY <1>1, <2>1, <2>2, <2>3, <2>4, <2>5, <2>6, <2>7 DEF LibraryStep, WaitSleep, WaitFlush
<1>2. ASSUME NEW n \in Mutexes, MutexCall(t, n), UNCHANGED condVars PROVE Queued
  BY <1>0, <1>2 DEF MutexCall, ctlVars, LockSelfRecursive, LockSelfNormal, LockBegin, TryLock,
     UnlockRecursive, UnlockBegin, DropOwner, MutexInit, MutexDestroy, TypeOK
<1>3. ASSUME NEW c \in Conds, CondCall(t, c) PROVE Queued
  <2>1. ASSUME NEW i, Signal(t, c, i) PROVE Queued
    BY <1>0, <2>1 DEF Signal, TypeOK
  <2> QED BY <1>0, <1>3, <2>1 DEF CondCall, ctlVars, CondSignal, CondSignalTo, WaitBegin,
             CondBroadcast, CondSignalToUnqueued, CondDestroy, CondInit, TypeOK
<1>4. ASSUME NEW td \in Threads, Cancel(t, td) PROVE Queued
  BY <1>0, <1>4 DEF Cancel, TypeOK
<1> QED BY <1>0, <1>1, <1>2, <1>3, <1>4 DEF StepOf, LockTimeout, WaitExpire, TypeOK

\* Every step keeps the wake-ups of the sleepers.
LEMMA NextWakeup ==
  ASSUME IInv, SleepqInv, ListsOK, NoLostWakeup, [Next]_vars
  PROVE  NoLostWakeup'
<1>1. CASE UNCHANGED coreVars
  BY <1>1 DEF NoLostWakeup, InSeq, coreVars, wakeVars, ctlVars
<1>2. CASE \E t \in Threads : StepOf(t)
  <2> PICK t \in Threads : StepOf(t)
    BY <1>2
  <2> SUFFICES ASSUME NEW u \in Threads, pc'[u] \in Asleep, wchan'[u] = NULL
               PROVE  Pending(u)'
    BY DEF NoLostWakeup, Pending, Asleep, InSeq
  <2>1. pc[u] \in Asleep
    BY AsleepQueued, Locality DEF Untouched
  <2>2. CASE wchan[u] = NULL
    <3>1. Pending(u)
      BY <2>1, <2>2 DEF NoLostWakeup, Pending, Asleep
    <3> QED BY <2>1, <3>1, PendingKept
  <2>3. CASE wchan[u] # NULL
    BY <2>3, RemovedIsPending
  <2> QED BY <2>2, <2>3
<1> QED BY <1>1, <1>2, SomeStep

-----------------------------------------------------------------------------
\* All of it together.
MInv == /\ IInv /\ ListsOK /\ NoMissedSignal /\ EntryOK /\ SleepqInv
        /\ DeferFlushed /\ NoLostWakeup

LEMMA InitMInv == Init => MInv
<1> SUFFICES ASSUME Init PROVE MInv
  OBVIOUS
<1>1. IInv
  BY InitIInv
<1> USE MutexAssumption DEF Init, InitMutexes
<1>2. ListsOK /\ NoMissedSignal /\ EntryOK
  BY DEF ListsOK, NoMissedSignal, EntryOK, EntryPcs
<1>3. \A c \in Conds : blocked[c] = << >> /\ sleepq[c] = << >>
  OBVIOUS
<1>4. \A x : ~InSeq(x, << >>)
  BY DEF InSeq
<1>5. Distinct(<< >>)
  BY DEF Distinct
<1>6. QueuesOK
  BY <1>3, <1>4, <1>5 DEF QueuesOK
<1>7. WaitersOK
  BY <1>3 DEF WaitersOK
<1>8. DeferFlushed /\ NoLostWakeup
  BY DEF DeferFlushed, NoLostWakeup
<1> QED BY <1>1, <1>2, <1>6, <1>7, <1>8 DEF MInv, SleepqInv

LEMMA NextMInv == MInv /\ [Next]_vars => MInv'
BY NextIInv, NextLists, NextEntry, NextSleepq, NextDefer, NextWakeup DEF MInv

\* Nobody looks for waiters between the CvUnlock of a Wait and its SleepqAdd, so a
\* Signal misses no thread that has already released its mutex.
THEOREM SignalsMissNobody == Spec => []NoMissedSignal
<1>1. MInv => NoMissedSignal
  BY DEF MInv
<1> QED BY InitMInv, NextMInv, <1>1, PTL DEF Spec

\* The queue objects of sleepq.cpp: one per waiter, each in one place, and every
\* thread queued where its wchan says, whatever signals, broadcasts, timeouts and
\* cancellations do.
THEOREM QueuesConsistent == Spec => []SleepqConsistent
<1>1. MInv => SleepqConsistent
  BY SleepqInvSuffices DEF MInv
<1> QED BY InitMInv, NextMInv, <1>1, PTL DEF Spec

\* A deferred wake-up is always on its way to a WakeAll.
THEOREM DefersFlushed == Spec => []DeferFlushed
<1>1. MInv => DeferFlushed
  BY DEF MInv
<1> QED BY InitMInv, NextMInv, <1>1, PTL DEF Spec

\* A thread taken off its queue has a token or will be given one.
THEOREM WakeupsKept == Spec => []NoLostWakeup
<1>1. MInv => NoLostWakeup
  BY DEF MInv
<1> QED BY InitMInv, NextMInv, <1>1, PTL DEF Spec

-----------------------------------------------------------------------------
\* The refinement mapping of Monitor, by name.
Waits(t, c) == \/ wchan[t] = c
               \/ call[t] = c /\ pc[t] \in {"release", "waitAdd"}
Parks(t) == IF call[t] # NULL /\ pc[t] # "waitUnlock" THEN mx[t] ELSE NULL
WaitingMap == [c \in Conds |-> {t \in Threads : Waits(t, c)}]
ParkedMap == [t \in Threads |-> Parks(t)]

\* The steps of the monitor, in terms of the mapping.
LEMMA MapLock ==
  ASSUME NEW t \in Threads, NEW m \in Mutexes, Parks(t) = NULL,
         \/ mOwner[m] = NULL /\ depth[t][m] = 0
         \/ mOwner[m] = t,
         mOwner' = [mOwner EXCEPT ![m] = t],
         depth' = [depth EXCEPT ![t][m] = @ + 1],
         WaitingMap' = WaitingMap, ParkedMap' = ParkedMap
  PROVE  Monitor!MonitorNext
<1>1. Monitor!Lock(t, m)
  BY DEF Monitor!Lock, WaitingMap, ParkedMap, Waits, Parks
<1> QED BY <1>1 DEF Monitor!MonitorNext

LEMMA MapUnlock ==
  ASSUME NEW t \in Threads, NEW m \in Mutexes, Parks(t) = NULL, mOwner[m] = t,
         depth' = [depth EXCEPT ![t][m] = @ - 1],
         mOwner' = IF depth[t][m] = 1 THEN [mOwner EXCEPT ![m] = NULL] ELSE mOwner,
         WaitingMap' = WaitingMap, ParkedMap' = ParkedMap
  PROVE  Monitor!MonitorNext
<1>1. Monitor!Unlock(t, m)
  BY DEF Monitor!Unlock, WaitingMap, ParkedMap, Waits, Parks
<1> QED BY <1>1 DEF Monitor!MonitorNext

LEMMA MapWait ==
  ASSUME NEW t \in Threads, NEW c \in Conds, NEW m \in Mutexes, Parks(t) = NULL,
         mOwner[m] = t, mOwner' = [mOwner EXCEPT ![m] = NULL], depth' = depth,
         WaitingMap' = [WaitingMap EXCEPT ![c] = @ \union {t}],
         ParkedMap' = [ParkedMap EXCEPT ![t] = m]
  PROVE  Monitor!MonitorNext
<1>1. Monitor!Wait(t, c, m)
  BY DEF Monitor!Wait, WaitingMap, ParkedMap, Waits, Parks
<1> QED BY <1>1 DEF Monitor!MonitorNext

LEMMA MapWake ==
  ASSUME NEW t \in Threads, NEW c \in Conds, t \in WaitingMap[c],
         mOwner' = mOwner, depth' = depth, ParkedMap' = ParkedMap,
         WaitingMap' = [WaitingMap EXCEPT ![c] = @ \ {t}]
  PROVE  Monitor!MonitorNext
<1>1. Monitor!Wake(t, c)
  BY DEF Monitor!Wake, WaitingMap, ParkedMap, Waits, Parks
<1> QED BY <1>1 DEF Monitor!MonitorNext

LEMMA MapResume ==
  ASSUME NEW t \in Threads, Parks(t) # NULL, \A c \in Conds : t \notin WaitingMap[c],
         mOwner[Parks(t)] = NULL, mOwner' = [mOwner EXCEPT ![Parks(t)] = t],
         ParkedMap' = [ParkedMap EXCEPT ![t] = NULL], depth' = depth,
         WaitingMap' = WaitingMap
  PROVE  Monitor!MonitorNext
<1>1. Monitor!Resume(t)
  BY DEF Monitor!Resume, WaitingMap, ParkedMap, Waits, Parks
<1> QED BY <1>1 DEF Monitor!MonitorNext

LEMMA MapStutter ==
  ASSUME mOwner' = mOwner, depth' = depth, ParkedMap' = ParkedMap, WaitingMap' = WaitingMap
  PROVE  UNCHANGED Monitor!monitorVars
BY DEF Monitor!monitorVars, WaitingMap, ParkedMap, Waits, Parks

\* The maps change only for the thread that moves and, in waiting, for threads
\* taken off a queue.
LEMMA MapsSame ==
  ASSUME IInv, NEW t \in Threads, StepOf(t), wchan' = wchan,
         \A c \in Conds : Waits(t, c)' <=> Waits(t, c), Parks(t)' = Parks(t)
  PROVE  WaitingMap' = WaitingMap /\ ParkedMap' = ParkedMap
<1>1. \A u \in Threads, c \in Conds : Waits(u, c)' <=> Waits(u, c)
  BY Locality DEF Untouched, Waits
<1>2. \A u \in Threads : Parks(u)' = Parks(u)
  BY Locality DEF Untouched, Parks
<1> QED BY <1>1, <1>2 DEF WaitingMap, ParkedMap

\* A thread running guest code is not in the maps.
LEMMA IdleMaps ==
  ASSUME IInv, NEW t \in Threads, call[t] = NULL, wchan[t] = NULL
  PROVE  Parks(t) = NULL /\ \A c \in Conds : ~Waits(t, c)
BY MutexAssumption DEF Parks, Waits

\* A waiter that leaves its queue makes a Wake step of the monitor.
LEMMA RemoveMaps ==
  ASSUME IInv, SleepqInv, NEW t \in Threads, StepOf(t), NEW c \in Conds,
         NEW i \in DOMAIN blocked[c], wchan' = [wchan EXCEPT ![blocked[c][i]] = NULL],
         mOwner' = mOwner, depth' = depth, mx' = mx, call' = call,
         pc' = pc \/ (pc[t] \notin EntryPcs /\ pc'[t] \notin EntryPcs)
  PROVE  Monitor!MonitorNext
<1> DEFINE td == blocked[c][i]
<1>0. TypeOK /\ wchan \in [Threads -> Conds \union {NULL}]
  BY DEF IInv, TypeOK
<1>1. td \in Threads /\ InSeq(td, blocked[c])
  BY <1>0 DEF TypeOK, InSeq
<1>2. wchan[td] = c /\ c # NULL
  BY MutexAssumption, <1>1 DEF SleepqInv, QueuesOK
<1>3. pc[td] \notin EntryPcs
  BY <1>1, <1>2 DEF IInv, ControlInv, ControlOK, EntryPcs
<1> HIDE DEF td
<1>4. \A u \in Threads : wchan'[u] = IF u = td THEN NULL ELSE wchan[u]
  BY <1>0 DEF td
<1>5. \A u \in Threads : pc'[u] = pc[u] \/ (pc[u] \notin EntryPcs /\ pc'[u] \notin EntryPcs)
  BY Locality DEF Untouched
<1>6. ASSUME NEW u \in Threads, NEW d \in Conds
      PROVE  Waits(u, d)' <=> Waits(u, d) /\ ~(u = td /\ d = c)
  <2>1. CASE u = td
    BY MutexAssumption, <1>2, <1>3, <1>4, <1>5, <2>1 DEF Waits, EntryPcs
  <2>2. CASE u # td
    BY <1>4, <1>5, <2>2 DEF Waits, EntryPcs
  <2> QED BY <2>1, <2>2
<1>7. WaitingMap' = [WaitingMap EXCEPT ![c] = @ \ {td}]
  BY <1>6 DEF WaitingMap
<1>8. \A u \in Threads : Parks(u)' = Parks(u)
  BY <1>5 DEF Parks, EntryPcs
<1>9. ParkedMap' = ParkedMap
  BY <1>8 DEF ParkedMap
<1>10. td \in WaitingMap[c]
  BY <1>1, <1>2 DEF WaitingMap, Waits
<1> QED BY <1>1, <1>7, <1>9, <1>10, MapWake

\* SetOwner is a Lock of the monitor, or the Resume of a Wait.
LEMMA SetOwnerMaps ==
  ASSUME IInv, NEW t \in Threads, StepOf(t), SetOwner(t), UNCHANGED condVars
  PROVE  Monitor!MonitorNext
<1> DEFINE m == mx[t]
<1>0. TypeOK /\ pc[t] = "own" /\ wchan' = wchan
  BY DEF IInv, SetOwner, condVars
<1>1. m \in Mutexes /\ ControlOK(t) /\ OwnerOK(t, m) /\ DepthOK(t, m)
  BY <1>0, BusyFacts DEF NoMutexPcs
<1> HIDE DEF m
<1>2. mLock[m] = t /\ mOwner[m] # t /\ wchan[t] = NULL
  BY <1>0, <1>1 DEF OwnerOK, ControlOK, m
<1>3. mOwner[m] = NULL
  <2>1. ASSUME NEW u \in Threads, mOwner[m] = u PROVE FALSE
    <3>1. mLock[m] = u
      BY <1>1, <2>1 DEF IInv, DepthAgrees, DepthOK
    <3> QED BY <1>2, <2>1, <3>1
  <2> QED BY <1>0, <1>1, <2>1 DEF TypeOK, MutexTypeOK
<1>4. /\ mOwner' = [mOwner EXCEPT ![m] = t] /\ call'[t] = NULL /\ pc'[t] = "idle"
      /\ depth' = IF call[t] = NULL THEN [depth EXCEPT ![t][m] = 1] ELSE depth
  BY <1>0 DEF SetOwner, Return, Goto, TypeOK, MutexTypeOK, m
<1>5. (\A c \in Conds : ~Waits(t, c)) /\ (\A c \in Conds : ~Waits(t, c)')
  BY MutexAssumption, <1>0, <1>2, <1>4 DEF Waits
<1>6. Parks(t)' = NULL
  BY <1>4 DEF Parks
<1>7. CASE call[t] = NULL
  <2>1. Parks(t) = NULL
    BY <1>7 DEF Parks
  <2>2. WaitingMap' = WaitingMap /\ ParkedMap' = ParkedMap
    BY <1>0, <1>5, <1>6, <2>1, MapsSame
  <2>3. depth[t][m] = 0
    BY <1>1, <1>2, <1>7 DEF DepthOK, Suspended
  <2>4. depth' = [depth EXCEPT ![t][m] = @ + 1]
    BY <1>4, <1>7, <2>3
  <2> QED BY <1>1, <1>3, <1>4, <2>1, <2>2, <2>3, <2>4, MapLock
<1>8. CASE call[t] # NULL
  <2>1. Parks(t) = m /\ m # NULL
    BY MutexAssumption, <1>0, <1>1, <1>8 DEF Parks, m
  <2>2. \A u \in Threads : Parks(u)' = IF u = t THEN NULL ELSE Parks(u)
    BY <1>6, Locality DEF Untouched, Parks
  <2>3. ParkedMap' = [ParkedMap EXCEPT ![t] = NULL]
    BY <2>2 DEF ParkedMap
  <2>4. \A u \in Threads, c \in Conds : Waits(u, c)' <=> Waits(u, c)
    BY <1>0, <1>5, Locality DEF Untouched, Waits
  <2>5. WaitingMap' = WaitingMap
    BY <2>4 DEF WaitingMap
  <2>6. \A c \in Conds : t \notin WaitingMap[c]
    BY <1>5 DEF WaitingMap
  <2>7. depth' = depth
    BY <1>4, <1>8
  <2> QED BY <1>3, <1>4, <2>1, <2>3, <2>5, <2>6, <2>7, MapResume
<1> QED BY <1>7, <1>8

\* CvUnlock is the Wait of the monitor.
LEMMA WaitCvUnlockMaps ==
  ASSUME IInv, NEW t \in Threads, StepOf(t), WaitCvUnlock(t)
  PROVE  Monitor!MonitorNext
<1> DEFINE m == mx[t]
           c == call[t]
<1>0. TypeOK /\ pc[t] = "waitUnlock" /\ wchan' = wchan /\ call' = call /\ depth' = depth
  BY DEF IInv, WaitCvUnlock, condVars
<1>1. m \in Mutexes /\ ControlOK(t) /\ OwnerOK(t, m)
  BY <1>0, BusyFacts DEF NoMutexPcs
<1>2. /\ mOwner' = [mOwner EXCEPT ![m] = NULL] /\ pc'[t] = "release" /\ mx'[t] = m
  BY <1>0 DEF WaitCvUnlock, DropOwner, Goto, TypeOK, MutexTypeOK
<1>3. c \in Conds /\ call'[t] = c
  BY <1>0, <1>1 DEF ControlOK, WaitOnlyPcs, TypeOK, MutexTypeOK
<1> HIDE DEF m, c
<1>4. mOwner[m] = t /\ wchan[t] = NULL /\ c # NULL
  BY MutexAssumption, <1>0, <1>1, <1>3 DEF OwnerOK, ControlOK, m
<1>5. Parks(t) = NULL /\ Parks(t)' = m
  BY <1>0, <1>2, <1>3, <1>4 DEF Parks
<1>6. \A u \in Threads : Parks(u)' = IF u = t THEN m ELSE Parks(u)
  BY <1>5, Locality DEF Untouched, Parks
<1>7. ParkedMap' = [ParkedMap EXCEPT ![t] = m]
  BY <1>6 DEF ParkedMap
<1>8. ASSUME NEW u \in Threads, NEW d \in Conds
      PROVE  Waits(u, d)' <=> Waits(u, d) \/ (u = t /\ d = c)
  <2>1. CASE u = t
    BY MutexAssumption, <1>0, <1>2, <1>3, <1>4, <2>1 DEF Waits
  <2>2. CASE u # t
    BY <1>0, <2>2, Locality DEF Untouched, Waits
  <2> QED BY <2>1, <2>2
<1>9. WaitingMap' = [WaitingMap EXCEPT ![c] = @ \union {t}]
  BY <1>3, <1>8 DEF WaitingMap
<1> QED BY <1>0, <1>1, <1>2, <1>3, <1>4, <1>5, <1>7, <1>9, MapWait

\* The lock and unlock calls.
LEMMA MutexCallMaps ==
  ASSUME IInv, NEW t \in Threads, StepOf(t), NEW m \in Mutexes, MutexCall(t, m),
         UNCHANGED condVars
  PROVE  Monitor!MonitorNext \/ UNCHANGED Monitor!monitorVars
<1> USE DEF objVars, wakeVars, ctlVars, condVars
<1>0. TypeOK /\ wchan' = wchan /\ pc[t] = "idle" /\ call' = call
  BY DEF IInv, MutexCall, LockSelfRecursive, LockSelfNormal, LockBegin, TryLock,
     UnlockRecursive, UnlockBegin, MutexInit, MutexDestroy
<1>1. /\ call[t] = NULL /\ wchan[t] = NULL
      /\ \A n \in Mutexes : depth[t][n] = IF mOwner[n] = t THEN mCount[n] + 1 ELSE 0
  BY <1>0, IdleFacts
<1>2. Parks(t) = NULL /\ Parks(t)' = NULL
  BY <1>0, <1>1 DEF Parks
<1>3. \A c \in Conds : ~Waits(t, c) /\ ~Waits(t, c)'
  BY MutexAssumption, <1>0, <1>1 DEF Waits
<1>4. WaitingMap' = WaitingMap /\ ParkedMap' = ParkedMap
  BY <1>0, <1>2, <1>3, MapsSame
<1>5. /\ mOwner \in [Mutexes -> Threads \union {NULL}] /\ mCount \in [Mutexes -> 0 .. MaxRecursion]
      /\ MaxRecursion \in Nat /\ CountOK(m)
  BY <1>0, MutexAssumption DEF IInv, OwnerInv, TypeOK, MutexTypeOK
<1>6. CASE LockSelfRecursive(t, m)
  <2>1. mOwner[m] = t /\ mOwner' = mOwner /\ depth' = [depth EXCEPT ![t][m] = @ + 1]
    BY <1>6 DEF LockSelfRecursive
  <2>2. mOwner' = [mOwner EXCEPT ![m] = t]
    BY <1>5, <2>1
  <2> QED BY <1>2, <1>4, <2>1, <2>2, MapLock
<1>7. CASE UnlockRecursive(t, m)
  <2>1. /\ mOwner[m] = t /\ mOwner' = mOwner /\ depth' = [depth EXCEPT ![t][m] = @ - 1]
        /\ mCount[m] > 0
    BY <1>7 DEF UnlockRecursive
  <2>2. depth[t][m] # 1
    BY <1>1, <1>5, <2>1
  <2> QED BY <1>2, <1>4, <2>1, <2>2, MapUnlock
<1>8. CASE UnlockBegin(t, m)
  <2>1. /\ mOwner[m] = t /\ mOwner' = [mOwner EXCEPT ![m] = NULL]
        /\ depth' = [depth EXCEPT ![t][m] = 0] /\ mCount[m] = 0
    BY <1>5, <1>8 DEF UnlockBegin, DropOwner, CountOK
  <2>2. depth[t][m] = 1
    BY <1>1, <1>5, <2>1
  <2>3. depth' = [depth EXCEPT ![t][m] = @ - 1]
    BY <2>1, <2>2
  <2> QED BY <1>2, <1>4, <2>1, <2>2, <2>3, MapUnlock
<1>9. ASSUME mOwner' = mOwner, depth' = depth PROVE UNCHANGED Monitor!monitorVars
  BY <1>4, <1>9, MapStutter
<1> QED BY <1>6, <1>7, <1>8, <1>9 DEF MutexCall, LockSelfNormal, LockBegin, TryLock,
           MutexInit, MutexDestroy

\* The steps inside a call.
LEMMA LibraryMaps ==
  ASSUME IInv, SleepqInv, NEW t \in Threads, LibraryStep(t)
  PROVE  Monitor!MonitorNext \/ UNCHANGED Monitor!monitorVars
<1> DEFINE Fine == Monitor!MonitorNext \/ UNCHANGED Monitor!monitorVars
<1> USE DEF objVars, wakeVars, ctlVars, condVars
<1>0. /\ TypeOK /\ ControlOK(t) /\ StepOf(t)
      /\ pc \in [Threads -> MutexPcs \union CondPcs] /\ call \in [Threads -> Conds \union {NULL}]
      /\ mx \in [Threads -> Mutexes \union {NULL}] /\ wchan \in [Threads -> Conds \union {NULL}]
  BY DEF IInv, ControlInv, StepOf, TypeOK, MutexTypeOK
\* A step the monitor does not see.
<1>q. ASSUME mOwner' = mOwner, depth' = depth, wchan' = wchan, call'[t] = call[t],
             call[t] = NULL \/ /\ mx'[t] = mx[t]
                               /\ \/ pc'[t] = pc[t]
                                  \/ pc[t] \notin EntryPcs /\ pc'[t] \notin EntryPcs
                                  \/ pc[t] = "release" /\ pc'[t] = "waitAdd"
      PROVE  Fine
  <2>1. \A c \in Conds : Waits(t, c)' <=> Waits(t, c)
    BY MutexAssumption, <1>q DEF Waits, EntryPcs
  <2>2. Parks(t)' = Parks(t)
    BY <1>q DEF Parks, EntryPcs
  <2>3. WaitingMap' = WaitingMap /\ ParkedMap' = ParkedMap
    BY <1>0, <1>q, <2>1, <2>2, MapsSame
  <2> QED BY <1>q, <2>3, MapStutter
<1> SUFFICES Fine
  OBVIOUS
<1> HIDE DEF Fine
<1>1. CASE LockAcquire(t) /\ UNCHANGED condVars
  BY <1>0, <1>1, <1>q DEF LockAcquire, Goto, EntryPcs
<1>2. CASE UnlockRelease(t) /\ UNCHANGED condVars
  <2>1. pc[t] = "release" /\ mOwner' = mOwner /\ depth' = depth /\ wchan' = wchan /\ call' = call
    BY <1>2 DEF UnlockRelease
  <2>2. CASE call[t] = NULL
    BY <1>q, <2>1, <2>2
  <2>3. CASE call[t] # NULL
    <3>1. willSleep[t]
      BY <1>0, <2>1, <2>3 DEF ControlOK
    <3>2. pc'[t] = "waitAdd" /\ mx' = mx
      BY <1>0, <1>2, <2>3, <3>1 DEF UnlockRelease, Goto
    <3> QED BY <1>q, <2>1, <3>2
  <2> QED BY <2>2, <2>3
<1>3. CASE UnlockWakeAll(t) /\ UNCHANGED condVars
  <2>1. /\ pc[t] = "wakeAll" /\ mOwner' = mOwner /\ depth' = depth /\ wchan' = wchan
        /\ call' = call
    BY <1>3 DEF UnlockWakeAll
  <2>2. call[t] = NULL
    BY <1>0, <2>1 DEF ControlOK, WaitOnlyPcs
  <2> QED BY <1>q, <2>1, <2>2
<1>4. CASE WaitAdd(t)
  <2>1. /\ pc[t] = "waitAdd" /\ pc'[t] = "willSleep" /\ mOwner' = mOwner /\ depth' = depth
        /\ call' = call /\ mx' = mx /\ wchan' = [wchan EXCEPT ![t] = call[t]]
    BY <1>0, <1>4 DEF WaitAdd, SleepqAdd, Goto
  <2>2. call[t] \in Conds /\ wchan[t] = NULL
    BY <1>0, <2>1 DEF ControlOK, WaitOnlyPcs
  <2>3. ASSUME NEW u \in Threads, NEW d \in Conds PROVE Waits(u, d)' <=> Waits(u, d)
    <3>1. CASE u = t
      BY MutexAssumption, <1>0, <2>1, <2>2, <3>1 DEF Waits
    <3>2. CASE u # t
      BY <1>0, <2>1, <3>2, Locality DEF Untouched, Waits
    <3> QED BY <3>1, <3>2
  <2>4. WaitingMap' = WaitingMap
    BY <2>3 DEF WaitingMap
  <2>5. \A u \in Threads : Parks(u)' = Parks(u)
    BY <1>0, <2>1, Locality DEF Untouched, Parks
  <2>6. ParkedMap' = ParkedMap
    BY <2>5 DEF ParkedMap
  <2> QED BY <2>1, <2>4, <2>6, MapStutter DEF Fine
<1>5. CASE WaitSleep(t) \/ WaitAcquire(t) \/ WaitRelock(t)
  <2>1. /\ pc[t] \notin EntryPcs /\ pc'[t] \notin EntryPcs /\ call' = call /\ mx' = mx
        /\ mOwner' = mOwner /\ depth' = depth /\ wchan' = wchan
    BY <1>0, <1>5 DEF WaitSleep, WaitAcquire, WaitRelock, Goto, EntryPcs
  <2> QED BY <1>q, <2>1
<1>6. CASE WaitFlush(t)
  <2>1. /\ pc[t] \notin EntryPcs /\ pc'[t] \notin EntryPcs /\ call' = call /\ mx' = mx
        /\ mOwner' = mOwner /\ depth' = depth /\ wchan' = wchan
    BY <1>0, <1>6 DEF WaitFlush, WakeAllNext, Goto, EntryPcs
  <2> QED BY <1>q, <2>1
<1>7. CASE WaitWake(t)
  <2>1. /\ pc[t] \notin EntryPcs /\ pc'[t] \notin EntryPcs /\ call' = call /\ mx' = mx
        /\ mOwner' = mOwner /\ depth' = depth
    BY <1>0, <1>7 DEF WaitWake, Goto, EntryPcs
  <2>2. call[t] \in Conds
    BY <1>0, <1>7 DEF WaitWake, ControlOK, WaitOnlyPcs
  <2>3. ASSUME NEW i \in DOMAIN blocked[call[t]], SleepqRemove(call[t], i) PROVE Fine
    <3>1. wchan' = [wchan EXCEPT ![blocked[call[t]][i]] = NULL]
      BY <2>3 DEF SleepqRemove
    <3> QED BY <1>0, <2>1, <2>2, <3>1, RemoveMaps DEF Fine
  <2>4. CASE wchan' = wchan
    BY <1>q, <2>1, <2>4
  <2> QED BY <1>7, <2>3, <2>4 DEF WaitWake
<1>8. CASE PostRelease(t)
  <2>1. /\ pc[t] = "post" /\ call' = call /\ mOwner' = mOwner /\ depth' = depth /\ wchan' = wchan
    BY <1>8 DEF PostRelease
  <2>2. call[t] = NULL
    BY <1>0, <2>1 DEF ControlOK, WaitOnlyPcs
  <2> QED BY <1>q, <2>1, <2>2
<1>9. ASSUME NEW c \in Conds, BroadcastEnd(t, c) PROVE Fine
  <2>1. /\ pc[t] = "drop" /\ call' = call /\ mOwner' = mOwner /\ depth' = depth /\ wchan' = wchan
    BY <1>9 DEF BroadcastEnd
  <2>2. call[t] = NULL
    BY <1>0, <2>1 DEF ControlOK, WaitOnlyPcs
  <2> QED BY <1>q, <2>1, <2>2
<1>10. ASSUME NEW c \in Conds, BroadcastDrop(t, c) PROVE Fine
  <2>1. /\ 1 \in DOMAIN blocked[c] /\ wchan' = [wchan EXCEPT ![blocked[c][1]] = NULL]
    BY <1>0, <1>10, BroadcastDropMoves DEF Removes, TypeOK
  <2>2. pc' = pc /\ mx' = mx /\ call' = call /\ mOwner' = mOwner /\ depth' = depth
    BY <1>10 DEF BroadcastDrop
  <2> QED BY <1>0, <2>1, <2>2, RemoveMaps DEF Fine
<1>11. CASE SetOwner(t) /\ UNCHANGED condVars
  BY <1>0, <1>11, SetOwnerMaps DEF Fine
<1>12. CASE WaitCvUnlock(t)
  BY <1>0, <1>12, WaitCvUnlockMaps DEF Fine
<1> QED
  BY <1>1, <1>2, <1>3, <1>4, <1>5, <1>6, <1>7, <1>8, <1>9, <1>10, <1>11, <1>12 DEF LibraryStep

\* The calls on condition variables, cancellation and the timeouts.
LEMMA OtherMaps ==
  ASSUME IInv, SleepqInv, NEW t \in Threads,
         \/ \E c \in Conds : CondCall(t, c)
         \/ \E td \in Threads : Cancel(t, td)
         \/ LockTimeout(t) /\ UNCHANGED condVars
         \/ WaitExpire(t)
  PROVE  Monitor!MonitorNext \/ UNCHANGED Monitor!monitorVars
<1> DEFINE Fine == Monitor!MonitorNext \/ UNCHANGED Monitor!monitorVars
<1> USE DEF objVars, wakeVars, ctlVars, condVars
<1>0. /\ TypeOK /\ ControlOK(t) /\ StepOf(t)
      /\ pc \in [Threads -> MutexPcs \union CondPcs] /\ call \in [Threads -> Conds \union {NULL}]
  BY DEF IInv, ControlInv, StepOf, TypeOK, MutexTypeOK
<1>q. ASSUME mOwner' = mOwner, depth' = depth, wchan' = wchan,
             \A c \in Conds : Waits(t, c)' <=> Waits(t, c), Parks(t)' = Parks(t)
      PROVE  Fine
  <2>1. WaitingMap' = WaitingMap /\ ParkedMap' = ParkedMap
    BY <1>0, <1>q, MapsSame
  <2> QED BY <1>q, <2>1, MapStutter
<1> SUFFICES Fine
  OBVIOUS
<1> HIDE DEF Fine
<1>i. ASSUME mOwner' = mOwner, depth' = depth, wchan' = wchan, call'[t] = call[t], call[t] = NULL
      PROVE  Fine
  <2>1. /\ \A c \in Conds : Waits(t, c)' <=> Waits(t, c)
        /\ Parks(t)' = Parks(t)
    BY MutexAssumption, <1>i DEF Waits, Parks
  <2> QED BY <1>q, <1>i, <2>1
<1>1. ASSUME NEW c \in Conds, CondCall(t, c) PROVE Fine
  <2>0. pc[t] = "idle"
    BY <1>1 DEF CondCall, CondSignal, CondSignalTo, Signal, WaitBegin,
             CondBroadcast, CondSignalToUnqueued, CondDestroy, CondInit
  <2>1. call[t] = NULL /\ wchan[t] = NULL
    BY <2>0, IdleFacts
  <2>2. ASSUME NEW i, Signal(t, c, i) PROVE Fine
    <3>1. /\ i \in DOMAIN blocked[c] /\ wchan' = [wchan EXCEPT ![blocked[c][i]] = NULL]
          /\ mx' = mx /\ call' = call /\ mOwner' = mOwner /\ depth' = depth
          /\ pc' = pc \/ pc'[t] = "post"
      BY <1>0, <2>2 DEF Signal, SleepqRemove, Goto
    <3>2. pc' = pc \/ (pc[t] \notin EntryPcs /\ pc'[t] \notin EntryPcs)
      BY <2>0, <3>1 DEF EntryPcs
    <3> QED BY <1>0, <3>1, <3>2, RemoveMaps DEF Fine
  <2>3. ASSUME NEW m \in Mutexes, NEW b \in BOOLEAN, WaitBegin(t, c, m, b) PROVE Fine
    <3>1. /\ pc'[t] = "waitUnlock" /\ mOwner' = mOwner /\ depth' = depth /\ wchan' = wchan
      BY <1>0, <2>3 DEF WaitBegin, Goto
    <3>2. /\ \A d \in Conds : Waits(t, d)' <=> Waits(t, d)
          /\ Parks(t)' = Parks(t)
      BY MutexAssumption, <2>1, <3>1 DEF Waits, Parks
    <3> QED BY <1>q, <3>1, <3>2
  <2> QED BY <1>1, <1>i, <2>1, <2>2, <2>3 DEF CondCall, CondSignal, CondSignalTo,
             CondBroadcast, CondSignalToUnqueued, CondDestroy, CondInit
<1>2. ASSUME NEW td \in Threads, Cancel(t, td) PROVE Fine
  <2>1. call[t] = NULL /\ call' = call /\ mOwner' = mOwner /\ depth' = depth /\ wchan' = wchan
    BY <1>2, IdleFacts DEF Cancel
  <2> QED BY <1>i, <2>1
<1>3. CASE LockTimeout(t) /\ UNCHANGED condVars
  <2>1. call[t] = NULL /\ call' = call /\ mOwner' = mOwner /\ depth' = depth /\ wchan' = wchan
    BY <1>0, <1>3 DEF LockTimeout, ControlOK
  <2> QED BY <1>i, <2>1
<1>4. CASE WaitExpire(t)
  <2>1. /\ pc[t] = "sleep" /\ pc'[t] = "expired" /\ call' = call /\ mx' = mx
        /\ mOwner' = mOwner /\ depth' = depth /\ wchan' = wchan
    BY <1>0, <1>4 DEF WaitExpire, Goto
  <2>2. /\ \A c \in Conds : Waits(t, c)' <=> Waits(t, c)
        /\ Parks(t)' = Parks(t)
    BY <2>1 DEF Waits, Parks
  <2> QED BY <1>q, <2>1, <2>2
<1> QED BY <1>1, <1>2, <1>3, <1>4

\* Every step of the library is a step of the monitor or invisible to it.
LEMMA NextMaps ==
  MInv /\ [Next]_vars => [Monitor!MonitorNext]_(Monitor!monitorVars)
<1> SUFFICES ASSUME MInv, [Next]_vars
             PROVE  Monitor!MonitorNext \/ UNCHANGED Monitor!monitorVars
  OBVIOUS
<1>1. CASE UNCHANGED coreVars
  BY <1>1 DEF coreVars, objVars, ctlVars, Monitor!monitorVars
<1>2. CASE \E t \in Threads : StepOf(t)
  <2> PICK t \in Threads : StepOf(t)
    BY <1>2
  <2>0. IInv /\ SleepqInv
    BY DEF MInv
  <2>1. CASE LibraryStep(t)
    BY <2>0, <2>1, LibraryMaps
  <2>2. ASSUME NEW m \in Mutexes, MutexCall(t, m), UNCHANGED condVars
        PROVE  Monitor!MonitorNext \/ UNCHANGED Monitor!monitorVars
    BY <2>0, <2>2, MutexCallMaps
  <2>3. CASE \/ \E c \in Conds : CondCall(t, c)
             \/ \E td \in Threads : Cancel(t, td)
             \/ LockTimeout(t) /\ UNCHANGED condVars
             \/ WaitExpire(t)
    BY <2>0, <2>3, OtherMaps
  <2> QED BY <2>1, <2>2, <2>3 DEF StepOf
<1> QED BY <1>1, <1>2, SomeStep

LEMMA InitMaps == Init => Monitor!MonitorInit
<1> SUFFICES ASSUME Init PROVE Monitor!MonitorInit
  OBVIOUS
<1>1. \A t \in Threads : wchan[t] = NULL /\ call[t] = NULL
  BY DEF Init, InitMutexes
<1>2. \A c \in Conds : {t \in Threads : Waits(t, c)} = {}
  BY MutexAssumption, <1>1 DEF Waits
<1>3. \A t \in Threads : Parks(t) = NULL
  BY <1>1 DEF Parks
<1>4. WaitingMap = [c \in Conds |-> {}] /\ ParkedMap = [t \in Threads |-> NULL]
  BY <1>2, <1>3 DEF WaitingMap, ParkedMap
<1> QED BY <1>4 DEF Init, InitMutexes, Monitor!MonitorInit, WaitingMap, ParkedMap, Waits, Parks

\* The mutexes and condition variables of the library implement the guest's monitor:
\* a Wait gives up the mutex and joins the waiters in one step, and comes back
\* holding it as deeply as before, only after it has left them.
THEOREM MonitorImplemented == Spec => ImplementsMonitor
<1>1. Spec => []MInv
  BY InitMInv, NextMInv, PTL DEF Spec
<1>2. []MInv /\ [][Next]_vars => [][Monitor!MonitorNext]_(Monitor!monitorVars)
  BY NextMaps, PTL
<1> QED BY <1>1, <1>2, InitMaps, PTL DEF Spec, ImplementsMonitor, Monitor!MonitorSpec

-----------------------------------------------------------------------------
\* The wake-ups of a thread x, when W holds the semaphores and D and R the lists:
\* nowhere, or in one place only.
Once(x, s) == \A i, j \in DOMAIN s : s[i] = x /\ s[j] = x => i = j
Unlisted(x, D, R) == \A u \in Threads : ~InSeq(x, D[u]) /\ ~InSeq(x, R[u])
NoneIn(x, W, D, R) == W[x] = 0 /\ Unlisted(x, D, R)
OneIn(x, W, D, R) ==
  /\ \A u \in Threads : Once(x, D[u]) /\ Once(x, R[u])
  /\ \A u, v \in Threads : InSeq(x, D[u]) /\ InSeq(x, D[v]) => u = v
  /\ \A u, v \in Threads : InSeq(x, R[u]) /\ InSeq(x, R[v]) => u = v
  /\ \A u, v \in Threads : ~(InSeq(x, D[u]) /\ InSeq(x, R[v]))
  /\ W[x] > 0 => W[x] = 1 /\ Unlisted(x, D, R)

\* A list that names x at most once gives it one token, or none.
LEMMA OnceTokens ==
  ASSUME NEW s \in Seq(Threads), NEW x, Once(x, s)
  PROVE  Tokens(s, x) = IF InSeq(x, s) THEN 1 ELSE 0
<1> DEFINE I == {i \in DOMAIN s : s[i] = x}
<1>1. CASE InSeq(x, s)
  <2>1. PICK i \in DOMAIN s : s[i] = x
    BY <1>1 DEF InSeq
  <2>2. I = {i}
    BY <2>1 DEF Once
  <2>3. Cardinality(I) = 1
    BY <2>2, FS_Singleton
  <2> QED BY <1>1, <2>3 DEF Tokens
<1>2. CASE ~InSeq(x, s)
  <2>1. I = {}
    BY <1>2 DEF InSeq
  <2>2. Cardinality(I) = 0
    BY <2>1, FS_EmptySet
  <2> QED BY <1>2, <2>2 DEF Tokens
<1> QED BY <1>1, <1>2

\* The first element of a list goes, and it alone.
LEMMA OnceTail ==
  ASSUME NEW s \in Seq(Threads), s # << >>, NEW x, Once(x, s)
  PROVE  /\ Once(x, Tail(s))
         /\ InSeq(x, Tail(s)) <=> InSeq(x, s) /\ x # Head(s)
         /\ <<Head(s)>> \in Seq(Threads)
         /\ Once(x, <<Head(s)>>) /\ (InSeq(x, <<Head(s)>>) <=> x = Head(s))
         /\ x = Head(s) => InSeq(x, s)
<1>1. /\ Len(s) \in Nat /\ 1 \in DOMAIN s /\ Head(s) = s[1] /\ DOMAIN s = 1 .. Len(s)
      /\ DOMAIN Tail(s) = 1 .. Len(s) - 1
      /\ \A i \in 1 .. Len(s) - 1 : i + 1 \in DOMAIN s /\ Tail(s)[i] = s[i + 1]
  BY EmptySeq
<1>2. Once(x, Tail(s))
  BY <1>1 DEF Once
<1>3. /\ <<Head(s)>> \in Seq(Threads) /\ DOMAIN <<Head(s)>> = {1} /\ <<Head(s)>>[1] = Head(s)
  BY <1>1
<1>4. Once(x, <<Head(s)>>) /\ (InSeq(x, <<Head(s)>>) <=> x = Head(s))
  BY <1>3 DEF Once, InSeq
<1>5. ASSUME InSeq(x, Tail(s)) PROVE InSeq(x, s) /\ x # Head(s)
  <2>1. PICK i \in 1 .. Len(s) - 1 : Tail(s)[i] = x
    BY <1>1, <1>5 DEF InSeq
  <2>2. i + 1 \in DOMAIN s /\ s[i + 1] = x /\ i + 1 # 1
    BY <1>1, <2>1
  <2> QED BY <1>1, <2>2 DEF InSeq, Once
<1>6. ASSUME InSeq(x, s), x # Head(s) PROVE InSeq(x, Tail(s))
  <2>1. PICK i \in 1 .. Len(s) : s[i] = x
    BY <1>1, <1>6 DEF InSeq
  <2>2. i # 1
    BY <1>1, <1>6, <2>1
  <2>3. i - 1 \in 1 .. Len(s) - 1 /\ (i - 1) + 1 = i
    BY <1>1, <2>1, <2>2
  <2>4. i - 1 \in DOMAIN Tail(s) /\ Tail(s)[i - 1] = x
    BY <1>1, <2>1, <2>3
  <2> QED BY <2>4 DEF InSeq
<1>7. x = Head(s) => InSeq(x, s)
  BY <1>1 DEF InSeq
<1> QED BY <1>2, <1>3, <1>4, <1>5, <1>6, <1>7

\* A list grows by an element.
LEMMA OnceAppend ==
  ASSUME NEW s \in Seq(Threads), NEW td \in Threads, NEW x, Once(x, s), x = td => ~InSeq(x, s)
  PROVE  /\ Once(x, Append(s, td))
         /\ InSeq(x, Append(s, td)) <=> InSeq(x, s) \/ x = td
         /\ Once(x, <<td>>) /\ (InSeq(x, <<td>>) <=> x = td)
<1>1. /\ Len(s) \in Nat /\ DOMAIN s = 1 .. Len(s) /\ DOMAIN Append(s, td) = 1 .. Len(s) + 1
      /\ Append(s, td)[Len(s) + 1] = td /\ Len(s) + 1 \in 1 .. Len(s) + 1
      /\ \A i \in DOMAIN s : Append(s, td)[i] = s[i] /\ i \in 1 .. Len(s) + 1
      /\ \A i \in 1 .. Len(s) + 1 : i # Len(s) + 1 => i \in DOMAIN s
  OBVIOUS
<1>2. Once(x, Append(s, td))
  BY <1>1 DEF Once, InSeq
<1>3. InSeq(x, Append(s, td)) <=> InSeq(x, s) \/ x = td
  BY <1>1 DEF InSeq
<1>4. DOMAIN <<td>> = {1} /\ <<td>>[1] = td
  OBVIOUS
<1>5. Once(x, <<td>>) /\ (InSeq(x, <<td>>) <=> x = td)
  BY <1>4 DEF Once, InSeq
<1> QED BY <1>2, <1>3, <1>5

\* The two kinds of list count alike.
LEMMA ListsAlike ==
  ASSUME NEW x, NEW W, NEW D, NEW R
  PROVE  /\ OneIn(x, W, D, R) <=> OneIn(x, W, R, D)
         /\ NoneIn(x, W, D, R) <=> NoneIn(x, W, R, D)
BY DEF OneIn, NoneIn, Unlisted

\* How a step changes the semaphores and a list.
Gives(W, W2, s) == \A u \in Threads : W2[u] = W[u] + Tokens(s, u)
Sets(D, D2, t, s) == D2[t] = s /\ \A u \in Threads : u # t => D2[u] = D[u]
Puts(W, W2, D, D2, t, td) ==
  \/ Gives(W, W2, D[t]) /\ Sets(D, D2, t, <<td>>)
  \/ W2 = W /\ Sets(D, D2, t, Append(D[t], td))

\* The first semaphore of the list of t is released: its wake-up moves from the
\* list to the semaphore.
LEMMA PopMove ==
  ASSUME NEW W \in [Threads -> Nat], NEW D \in [Threads -> Seq(Threads)],
         NEW R \in [Threads -> Seq(Threads)], NEW t \in Threads, D[t] # << >>,
         NEW W2, Gives(W, W2, <<Head(D[t])>>), NEW D2, Sets(D, D2, t, Tail(D[t])),
         NEW x \in Threads, OneIn(x, W, D, R)
  PROVE  /\ OneIn(x, W2, D2, R)
         /\ NoneIn(x, W, D, R) => NoneIn(x, W2, D2, R)
<1>1. D[t] \in Seq(Threads) /\ Once(x, D[t])
  BY DEF OneIn
<1>2. PICK h : h = Head(D[t])
  OBVIOUS
<1>3. /\ Once(x, Tail(D[t])) /\ (InSeq(x, Tail(D[t])) <=> InSeq(x, D[t]) /\ x # h)
      /\ <<h>> \in Seq(Threads) /\ Once(x, <<h>>) /\ (InSeq(x, <<h>>) <=> x = h)
      /\ x = h => InSeq(x, D[t])
  BY <1>1, <1>2, OnceTail
<1>4. Tokens(<<h>>, x) = IF x = h THEN 1 ELSE 0
  BY <1>3, OnceTokens
<1>5. W2[x] = W[x] + IF x = h THEN 1 ELSE 0
  BY <1>2, <1>4 DEF Gives
<1>6. /\ D2[t] = Tail(D[t]) /\ \A u \in Threads : u # t => D2[u] = D[u]
      /\ \A u \in Threads : Once(x, D2[u])
  BY <1>3 DEF OneIn, Sets
<1>7. /\ InSeq(x, D2[t]) <=> InSeq(x, D[t]) /\ x # h
      /\ \A u \in Threads : InSeq(x, D2[u]) => InSeq(x, D[u])
  BY <1>3, <1>6
<1>8. CASE x = h
  <2>0. InSeq(x, D[t]) /\ ~(W[x] > 0) /\ W[x] \in Nat
    BY <1>3, <1>8 DEF OneIn, Unlisted
  <2>1. InSeq(x, D[t]) /\ W[x] = 0 /\ W2[x] = 1
    BY <1>5, <1>8, <2>0
  <2>2. Unlisted(x, D2, R)
    BY <1>6, <1>7, <1>8, <2>1 DEF OneIn, Unlisted
  <2>3. OneIn(x, W2, D2, R)
    BY <1>6, <2>1, <2>2 DEF OneIn, Unlisted
  <2> QED BY <2>1, <2>3 DEF NoneIn, Unlisted
<1>9. CASE x # h
  <2>1. W2[x] = W[x]
    BY <1>5, <1>9
  <2>2. OneIn(x, W2, D2, R)
    BY <1>6, <1>7, <2>1 DEF OneIn, Unlisted
  <2>3. NoneIn(x, W, D, R) => NoneIn(x, W2, D2, R)
    BY <1>7, <2>1 DEF NoneIn, Unlisted
  <2> QED BY <2>2, <2>3
<1> QED BY <1>8, <1>9

\* The semaphore of td, which has no wake-up, is put on the list of t; a full list
\* is released first.
LEMMA PutMove ==
  ASSUME NEW W \in [Threads -> Nat], NEW D \in [Threads -> Seq(Threads)],
         NEW R \in [Threads -> Seq(Threads)], NEW t \in Threads, NEW td \in Threads,
         NEW W2, NEW D2, Puts(W, W2, D, D2, t, td),
         NEW x \in Threads, OneIn(x, W, D, R), NoneIn(x, W, D, R) \/ x # td
  PROVE  /\ OneIn(x, W2, D2, R)
         /\ NoneIn(x, W, D, R) => NoneIn(x, W2, D2, R) \/ x = td
<1>1. /\ D[t] \in Seq(Threads) /\ Once(x, D[t]) /\ (x = td => ~InSeq(x, D[t]))
      /\ W[x] \in Nat /\ \A u \in Threads : u # t => D2[u] = D[u]
  BY DEF OneIn, NoneIn, Unlisted, Puts, Sets
<1>2. /\ Once(x, Append(D[t], td)) /\ (InSeq(x, Append(D[t], td)) <=> InSeq(x, D[t]) \/ x = td)
      /\ Once(x, <<td>>) /\ (InSeq(x, <<td>>) <=> x = td)
  BY <1>1, OnceAppend
<1>3. Tokens(D[t], x) = IF InSeq(x, D[t]) THEN 1 ELSE 0
  BY <1>1, OnceTokens
<1>4. CASE Gives(W, W2, D[t]) /\ Sets(D, D2, t, <<td>>)
  <2>1. D2[t] = <<td>> /\ W2[x] = W[x] + IF InSeq(x, D[t]) THEN 1 ELSE 0
    BY <1>3, <1>4 DEF Gives, Sets
  <2>2. /\ \A u \in Threads : Once(x, D2[u])
        /\ InSeq(x, D2[t]) <=> x = td
    BY <1>1, <1>2, <2>1 DEF OneIn
  <2>3. CASE InSeq(x, D[t])
    <3>1. x # td /\ W[x] = 0 /\ W2[x] = 1
      BY <1>1, <2>1, <2>3 DEF OneIn, Unlisted
    <3>2. Unlisted(x, D2, R)
      BY <1>1, <2>2, <2>3, <3>1 DEF OneIn, Unlisted
    <3>3. OneIn(x, W2, D2, R)
      BY <2>2, <3>1, <3>2 DEF OneIn, Unlisted
    <3> QED BY <2>3, <3>3 DEF NoneIn, Unlisted
  <2>4. CASE ~InSeq(x, D[t])
    <3>1. W2[x] = W[x]
      BY <1>1, <2>1, <2>4
    <3>2. CASE x = td
      <4>1. /\ \A u \in Threads : InSeq(x, D2[u]) => u = t
            /\ \A u \in Threads : ~InSeq(x, R[u]) /\ Once(x, R[u])
            /\ W2[x] = 0
        BY <1>1, <3>1, <3>2 DEF OneIn, NoneIn, Unlisted
      <4>2. ~(W2[x] > 0)
        BY <4>1
      <4>3. OneIn(x, W2, D2, R)
        BY <2>2, <4>1, <4>2 DEF OneIn
      <4> QED BY <3>2, <4>3
    <3>3. CASE x # td
      <4>1. \A u \in Threads : InSeq(x, D2[u]) => InSeq(x, D[u])
        BY <1>1, <2>2, <3>3
      <4>2. OneIn(x, W2, D2, R)
        BY <2>2, <3>1, <4>1 DEF OneIn, Unlisted
      <4> QED BY <3>1, <4>1, <4>2 DEF NoneIn, Unlisted
    <3> QED BY <3>2, <3>3
  <2> QED BY <2>3, <2>4
<1>5. CASE W2 = W /\ Sets(D, D2, t, Append(D[t], td))
  <2>1. D2[t] = Append(D[t], td) /\ W2 = W
    BY <1>5 DEF Sets
  <2>2. /\ \A u \in Threads : Once(x, D2[u])
        /\ InSeq(x, D2[t]) <=> InSeq(x, D[t]) \/ x = td
    BY <1>1, <1>2, <2>1 DEF OneIn
  <2>3. CASE x = td
    <3>1. /\ \A u \in Threads : InSeq(x, D2[u]) => u = t
          /\ \A u \in Threads : ~InSeq(x, R[u]) /\ Once(x, R[u])
          /\ W2[x] = 0
      BY <1>1, <2>1, <2>3 DEF OneIn, NoneIn, Unlisted
    <3>2. ~(W2[x] > 0)
      BY <3>1
    <3>3. OneIn(x, W2, D2, R)
      BY <2>2, <3>1, <3>2 DEF OneIn
    <3> QED BY <2>3, <3>3
  <2>4. CASE x # td
    <3>1. \A u \in Threads : InSeq(x, D2[u]) <=> InSeq(x, D[u])
      BY <1>1, <2>2, <2>4
    <3>2. OneIn(x, W2, D2, R)
      BY <2>1, <2>2, <3>1 DEF OneIn, Unlisted
    <3> QED BY <2>1, <3>1, <3>2 DEF NoneIn, Unlisted
  <2> QED BY <2>3, <2>4
<1> QED BY <1>4, <1>5 DEF Puts

\* In a state.
One(x) == OneIn(x, wakeSema, deferWaiters, toRelease)
None(x) == NoneIn(x, wakeSema, deferWaiters, toRelease)

LEMMA WakeOneMoves ==
  ASSUME TypeOK, NEW t \in Threads, NEW td \in Threads, WakeOne(t, td),
         NEW x \in Threads, One(x), None(x) \/ x # td
  PROVE  /\ One(x)'
         /\ None(x) => None(x)' \/ x = td
<1>0. /\ wakeSema \in [Threads -> Nat] /\ deferWaiters \in [Threads -> Seq(Threads)]
      /\ toRelease \in [Threads -> Seq(Threads)]
  BY DEF TypeOK, MutexTypeOK
<1>w. PICK W2, D2, R2 : W2 = wakeSema' /\ D2 = deferWaiters' /\ R2 = toRelease'
  OBVIOUS
<1>1. CASE mOwner[mutexObj[td]] = t
  <2>1. Puts(wakeSema, W2, deferWaiters, D2, t, td) /\ R2 = toRelease
    <3>1. CASE Len(deferWaiters[t]) >= MaxDeferWaiters
      <4>1. /\ ReleaseAll(deferWaiters[t]) /\ toRelease' = toRelease
            /\ deferWaiters' = [deferWaiters EXCEPT ![t] = <<td>>]
        BY <1>1, <3>1 DEF WakeOne
      <4>2. Gives(wakeSema, W2, deferWaiters[t])
        BY <1>w, <4>1 DEF ReleaseAll, Gives
      <4>3. Sets(deferWaiters, D2, t, <<td>>)
        BY <1>0, <1>w, <4>1 DEF Sets
      <4> QED BY <1>w, <4>1, <4>2, <4>3 DEF Puts
    <3>2. CASE ~(Len(deferWaiters[t]) >= MaxDeferWaiters)
      BY <1>0, <1>w, <1>1, <3>2 DEF WakeOne, Puts, Sets
    <3> QED BY <3>1, <3>2
  <2>2. /\ OneIn(x, wakeSema, deferWaiters, toRelease)
        /\ NoneIn(x, wakeSema, deferWaiters, toRelease) \/ x # td
    BY DEF One, None
  <2>3. /\ OneIn(x, W2, D2, toRelease)
        /\ NoneIn(x, wakeSema, deferWaiters, toRelease)
             => NoneIn(x, W2, D2, toRelease) \/ x = td
    BY <1>0, <2>1, <2>2, PutMove
  <2> QED BY <1>w, <2>1, <2>3 DEF One, None
<1>2. CASE mOwner[mutexObj[td]] # t
  <2>1. Puts(wakeSema, W2, toRelease, R2, t, td) /\ D2 = deferWaiters
    <3>1. CASE Len(toRelease[t]) >= MaxDeferWaiters
      BY <1>0, <1>w, <1>2, <3>1 DEF WakeOne, ReleaseAll, Puts, Gives, Sets
    <3>2. CASE ~(Len(toRelease[t]) >= MaxDeferWaiters)
      BY <1>0, <1>w, <1>2, <3>2 DEF WakeOne, Puts, Sets
    <3> QED BY <3>1, <3>2
  <2>2. /\ OneIn(x, wakeSema, toRelease, deferWaiters)
        /\ NoneIn(x, wakeSema, toRelease, deferWaiters) \/ x # td
    BY ListsAlike DEF One, None
  <2>3. /\ OneIn(x, W2, R2, deferWaiters)
        /\ NoneIn(x, wakeSema, toRelease, deferWaiters)
             => NoneIn(x, W2, R2, deferWaiters) \/ x = td
    BY <1>0, <2>1, <2>2, PutMove
  <2> QED BY <1>w, <2>1, <2>3, ListsAlike DEF One, None
<1> QED BY <1>1, <1>2

\* One iteration of WakeAll, or of the releases after SleepqUnlock.
PopsDefer(t) ==
  /\ deferWaiters[t] # << >> /\ ReleaseAll(<<Head(deferWaiters[t])>>)
  /\ deferWaiters' = [deferWaiters EXCEPT ![t] = Tail(deferWaiters[t])]
  /\ toRelease' = toRelease
PopsRelease(t) ==
  /\ toRelease[t] # << >> /\ ReleaseAll(<<Head(toRelease[t])>>)
  /\ toRelease' = [toRelease EXCEPT ![t] = Tail(toRelease[t])]
  /\ deferWaiters' = deferWaiters

LEMMA PopMoves ==
  ASSUME TypeOK, NEW t \in Threads, NEW x \in Threads, One(x), PopsDefer(t) \/ PopsRelease(t)
  PROVE  One(x)' /\ (None(x) => None(x)')
<1>0. /\ wakeSema \in [Threads -> Nat] /\ deferWaiters \in [Threads -> Seq(Threads)]
      /\ toRelease \in [Threads -> Seq(Threads)]
  BY DEF TypeOK, MutexTypeOK
<1>w. PICK W2, D2, R2 : W2 = wakeSema' /\ D2 = deferWaiters' /\ R2 = toRelease'
  OBVIOUS
<1>1. CASE PopsDefer(t)
  <2>1. /\ deferWaiters[t] # << >>
        /\ Gives(wakeSema, W2, <<Head(deferWaiters[t])>>)
        /\ Sets(deferWaiters, D2, t, Tail(deferWaiters[t])) /\ R2 = toRelease
    BY <1>0, <1>w, <1>1 DEF PopsDefer, ReleaseAll, Gives, Sets
  <2>2. OneIn(x, wakeSema, deferWaiters, toRelease)
    BY DEF One
  <2>3. /\ OneIn(x, W2, D2, toRelease)
        /\ NoneIn(x, wakeSema, deferWaiters, toRelease) => NoneIn(x, W2, D2, toRelease)
    BY <1>0, <2>1, <2>2, PopMove
  <2> QED BY <1>w, <2>1, <2>3 DEF One, None
<1>2. CASE PopsRelease(t)
  <2>1. /\ toRelease[t] # << >>
        /\ Gives(wakeSema, W2, <<Head(toRelease[t])>>)
        /\ Sets(toRelease, R2, t, Tail(toRelease[t])) /\ D2 = deferWaiters
    BY <1>0, <1>w, <1>2 DEF PopsRelease, ReleaseAll, Gives, Sets
  <2>2. OneIn(x, wakeSema, toRelease, deferWaiters)
    BY ListsAlike DEF One
  <2>3. /\ OneIn(x, W2, R2, deferWaiters)
        /\ NoneIn(x, wakeSema, toRelease, deferWaiters) => NoneIn(x, W2, R2, deferWaiters)
    BY <1>0, <2>1, <2>2, PopMove
  <2> QED BY <1>w, <2>1, <2>3, ListsAlike DEF One, None
<1> QED BY <1>1, <1>2

\* The acquire of Sleep uses the wake-up up.
LEMMA AcquireMoves ==
  ASSUME TypeOK, NEW t \in Threads, WaitAcquire(t), One(t)
  PROVE  One(t)' /\ None(t)' /\ ~None(t)
<1>1. /\ wakeSema \in [Threads -> Nat] /\ wakeSema[t] > 0
      /\ wakeSema' = [wakeSema EXCEPT ![t] = @ - 1]
      /\ deferWaiters' = deferWaiters /\ toRelease' = toRelease
  BY DEF TypeOK, MutexTypeOK, WaitAcquire, condVars
<1>2. wakeSema[t] = 1 /\ wakeSema'[t] = 0 /\ Unlisted(t, deferWaiters, toRelease)
  BY <1>1 DEF One, OneIn
<1>3. None(t)' /\ ~None(t)
  BY <1>1, <1>2 DEF None, NoneIn
<1>4. ~(wakeSema'[t] > 0)
  BY <1>2
<1>5. One(t)'
  BY <1>1, <1>4 DEF One, OneIn
<1> QED BY <1>3, <1>5

\* Every step keeps the wake-ups of x in one place.  Without a cancellation, a thread
\* gets a wake-up only when somebody else takes it off its queue.
LEMMA TokenMoves ==
  ASSUME IInv, ListsOK, SleepqInv, NEW t \in Threads, StepOf(t), NEW x \in Threads,
         ~cancelPending'[x], One(x), None(x) \/ wchan[x] = NULL
  PROVE  /\ One(x)'
         /\ None(x) => None(x)' \/ (wchan[x] # NULL /\ wchan'[x] = NULL /\ pc'[x] = pc[x])
<1> DEFINE Moved == wchan[x] # NULL /\ wchan'[x] = NULL /\ pc'[x] = pc[x]
           Fine == One(x)' /\ (None(x) => None(x)' \/ Moved)
<1>0. /\ TypeOK /\ wakeSema \in [Threads -> Nat] /\ wchan \in [Threads -> Conds \union {NULL}]
      /\ deferWaiters \in [Threads -> Seq(Threads)] /\ toRelease \in [Threads -> Seq(Threads)]
  BY DEF IInv, TypeOK, MutexTypeOK
<1>s. ASSUME deferWaiters' = deferWaiters, toRelease' = toRelease, wakeSema' = wakeSema
      PROVE  Fine
  BY <1>s DEF One, None
<1>p. ASSUME PopsDefer(t) \/ PopsRelease(t) PROVE Fine
  BY <1>0, <1>p, PopMoves
<1>q. ASSUME NEW c \in Conds, NEW i \in 1 .. Len(blocked[c]), NEW k \in 1 .. Len(sleepq[c]),
             Removes(c, i, k), WakeOne(t, blocked[c][i]), pc[t] \in {"idle", "drop"}
      PROVE  Fine
  <2>1. /\ blocked[c][i] \in Threads /\ wchan[blocked[c][i]] = c /\ c # NULL
        /\ wchan' = [wchan EXCEPT ![blocked[c][i]] = NULL]
    BY MutexAssumption, <1>0, <1>q, RemoveQueues DEF SleepqInv, Removes
  <2>2. None(x) \/ x # blocked[c][i]
    BY <2>1
  <2>3. One(x)' /\ (None(x) => None(x)' \/ x = blocked[c][i])
    BY <1>0, <1>q, <2>1, <2>2, WakeOneMoves
  <2>4. ASSUME x = blocked[c][i] PROVE Moved
    <3>1. wchan[x] # NULL /\ wchan'[x] = NULL
      BY <1>0, <2>1, <2>4
    <3>2. x # t
      BY <1>q, <3>1 DEF IInv, ControlInv, ControlOK
    <3>3. pc'[x] = pc[x]
      BY <3>2, Locality DEF Untouched
    <3> QED BY <3>1, <3>3
  <2> HIDE DEF Moved
  <2> QED BY <2>3, <2>4
<1> HIDE DEF Fine
<1>1. ASSUME LibraryStep(t) PROVE Fine
  <2>1. CASE UnlockWakeAll(t) /\ UNCHANGED condVars
    BY <2>1, <1>p, <1>s DEF UnlockWakeAll, WakeAllNext, condVars, PopsDefer
  <2>2. CASE WaitFlush(t)
    BY <2>2, <1>p, <1>s DEF WaitFlush, WakeAllNext, condVars, PopsDefer
  <2>3. CASE WaitAdd(t)
    <3>1. /\ deferWaiters' = deferWaiters /\ toRelease' = toRelease
          /\ wakeSema' = [wakeSema EXCEPT ![t] = IF @ > 0 THEN @ - 1 ELSE 0]
      BY <2>3 DEF WaitAdd
    <3>2. CASE x # t
      BY <1>0, <3>1, <3>2 DEF Fine, One, None, OneIn, NoneIn
    <3>3. CASE x = t
      <4>1. CASE wakeSema[t] > 0
        <5>1. wakeSema[t] = 1 /\ Unlisted(t, deferWaiters, toRelease)
          BY <3>3, <4>1 DEF One, OneIn
        <5>2. wakeSema'[t] = 0 /\ ~None(t)
          BY <1>0, <3>1, <5>1 DEF None, NoneIn
        <5>3. ~(wakeSema'[t] > 0)
          BY <5>2
        <5> QED BY <3>1, <3>3, <5>2, <5>3 DEF Fine, One, OneIn
      <4>2. CASE ~(wakeSema[t] > 0)
        <5>1. wakeSema'[t] = wakeSema[t]
          BY <1>0, <3>1, <4>2
        <5> QED BY <3>1, <3>3, <5>1 DEF Fine, One, None, OneIn, NoneIn
      <4> QED BY <4>1, <4>2
    <3> QED BY <3>2, <3>3
  <2>4. CASE WaitAcquire(t)
    <3>1. CASE x = t
      BY <1>0, <2>4, <3>1, AcquireMoves DEF Fine
    <3>2. CASE x # t
      <4>1. /\ deferWaiters' = deferWaiters /\ toRelease' = toRelease
            /\ wakeSema'[x] = wakeSema[x]
        BY <1>0, <2>4, <3>2 DEF WaitAcquire, condVars
      <4> QED BY <4>1 DEF Fine, One, None, OneIn, NoneIn
    <3> QED BY <3>1, <3>2
  <2>5. CASE PostRelease(t)
    <3>1. pc[t] = "post" /\ toRelease[t] # << >>
      BY <2>5 DEF PostRelease, IInv, ControlInv, ControlOK
    <3> QED BY <2>5, <1>p, <3>1 DEF PostRelease, PopsRelease
  <2>6. ASSUME NEW c \in Conds, BroadcastDrop(t, c) PROVE Fine
    BY <2>6, <1>q, BroadcastDropMoves DEF BroadcastDrop
  <2> QED BY <1>1, <1>s, <2>1, <2>2, <2>3, <2>4, <2>5, <2>6 DEF LibraryStep, wakeVars, condVars,
             SetOwner, LockAcquire, UnlockRelease, WaitCvUnlock, WaitSleep, WaitWake,
             WaitRelock, BroadcastEnd
<1>2. ASSUME NEW n \in Mutexes, MutexCall(t, n), UNCHANGED condVars PROVE Fine
  BY <1>2, <1>s DEF MutexCall, wakeVars, condVars, LockSelfRecursive, LockSelfNormal,
     LockBegin, TryLock, UnlockRecursive, UnlockBegin, MutexInit, MutexDestroy
<1>3. ASSUME NEW c \in Conds, CondCall(t, c) PROVE Fine
  <2>1. ASSUME NEW i, Signal(t, c, i) PROVE Fine
    <3>1. i \in DOMAIN blocked[c] /\ SleepqRemove(c, i) /\ WakeOne(t, blocked[c][i])
          /\ pc[t] = "idle"
      BY <2>1 DEF Signal
    <3>2. i \in 1 .. Len(blocked[c]) /\ \E k \in 1 .. Len(sleepq[c]) : Removes(c, i, k)
      BY <3>1, SleepqRemoveMoves
    <3> QED BY <1>q, <3>1, <3>2
  <2> QED BY <1>3, <1>s, <2>1 DEF CondCall, wakeVars, condVars, CondSignal, CondSignalTo,
             WaitBegin, CondBroadcast, CondSignalToUnqueued, CondDestroy, CondInit
<1>4. ASSUME NEW td \in Threads, Cancel(t, td) PROVE Fine
  <2>1. /\ pc[t] = "idle" /\ deferWaiters' = deferWaiters /\ wakeSema' = wakeSema
        /\ cancelPending' = [cancelPending EXCEPT ![td] = TRUE]
    BY <1>4 DEF Cancel, wakeVars
  <2>2. td # x
    BY <1>0, <2>1 DEF TypeOK
  <2>3. toRelease[t] = << >>
    BY <2>1 DEF ListsOK
  <2>4. toRelease' = toRelease \/ toRelease' = [toRelease EXCEPT ![t] = <<td>>]
    BY <1>4 DEF Cancel
  <2>5. CASE toRelease' = [toRelease EXCEPT ![t] = <<td>>]
    <3>1. /\ toRelease'[t] = <<td>> /\ \A u \in Threads : u # t => toRelease'[u] = toRelease[u]
      BY <1>0, <2>5
    <3>2. DOMAIN <<td>> = {1} /\ <<td>>[1] = td
      OBVIOUS
    <3>3. ~InSeq(x, toRelease'[t]) /\ Once(x, toRelease'[t]) /\ ~InSeq(x, toRelease[t])
      BY <2>2, <2>3, <3>1, <3>2 DEF InSeq, Once
    <3>4. \A u \in Threads : /\ InSeq(x, toRelease'[u]) <=> InSeq(x, toRelease[u])
                             /\ Once(x, toRelease[u]) => Once(x, toRelease'[u])
      BY <3>1, <3>3
    <3>5. One(x)' /\ (None(x) => None(x)')
      BY <2>1, <3>4 DEF One, None, OneIn, NoneIn, Unlisted
    <3> QED BY <3>5 DEF Fine
  <2> QED BY <1>s, <2>1, <2>4, <2>5
<1>5. Fine
  BY <1>1, <1>2, <1>3, <1>4, <1>s DEF StepOf, wakeVars, condVars, LockTimeout, WaitExpire
<1> QED BY <1>5 DEF Fine

\* How a thread can leave Sleep, and the rest of Wait.
LEMMA SleepMoves ==
  ASSUME IInv, NEW t \in Threads, StepOf(t)
  PROVE  /\ pc[t] \in Asleep /\ pc'[t] \notin Asleep => WaitAcquire(t) \/ WaitExpire(t)
         /\ pc'[t] = "woken" /\ pc[t] # "woken" => WaitAcquire(t)
         /\ pc'[t] = "expired" /\ pc[t] # "expired" => WaitExpire(t)
         /\ pc'[t] = "unreachable" /\ pc[t] # "unreachable"
              => pc[t] \in {"woken", "expired"} /\ wchan[t] # NULL /\ ~ShouldCancel(t)
<1> DEFINE Fine ==
      /\ pc[t] \in Asleep /\ pc'[t] \notin Asleep => WaitAcquire(t) \/ WaitExpire(t)
      /\ pc'[t] = "woken" /\ pc[t] # "woken" => WaitAcquire(t)
      /\ pc'[t] = "expired" /\ pc[t] # "expired" => WaitExpire(t)
      /\ pc'[t] = "unreachable" /\ pc[t] # "unreachable"
           => pc[t] \in {"woken", "expired"} /\ wchan[t] # NULL /\ ~ShouldCancel(t)
<1>0. TypeOK /\ pc \in [Threads -> MutexPcs \union CondPcs]
  BY DEF IInv, TypeOK
<1>n. ASSUME pc[t] \notin Asleep, pc'[t] \notin {"woken", "expired", "unreachable"} PROVE Fine
  BY <1>n
<1>s. ASSUME pc' = pc PROVE Fine
  BY <1>s
<1> HIDE DEF Fine
<1> USE DEF Goto, Return, Asleep
<1>1. ASSUME LibraryStep(t) PROVE Fine
  <2>1. CASE LockAcquire(t) \/ SetOwner(t) \/ UnlockRelease(t)
    BY <1>0, <1>n, <2>1 DEF LockAcquire, SetOwner, UnlockRelease
  <2>2. CASE UnlockWakeAll(t)
    BY <1>0, <1>n, <2>2 DEF UnlockWakeAll, WakeAllNext
  <2>3. CASE WaitCvUnlock(t) \/ WaitAdd(t) \/ WaitRelock(t)
    BY <1>0, <1>n, <2>3 DEF WaitCvUnlock, DropOwner, WaitAdd, WaitRelock
  <2>4. CASE WaitSleep(t)
    <3>1. pc[t] = "willSleep" /\ pc'[t] = "flush"
      BY <1>0, <2>4 DEF WaitSleep
    <3> QED BY <3>1 DEF Fine
  <2>5. CASE WaitFlush(t)
    <3>1. pc[t] = "flush" /\ pc'[t] \in {"flush", "sleep"}
      BY <1>0, <2>5 DEF WaitFlush, WakeAllNext
    <3> QED BY <3>1 DEF Fine
  <2>6. CASE WaitAcquire(t)
    <3>1. pc[t] = "sleep" /\ pc'[t] = "woken"
      BY <1>0, <2>6 DEF WaitAcquire
    <3> QED BY <2>6, <3>1 DEF Fine
  <2>7. CASE WaitWake(t)
    <3>1. /\ pc[t] \in {"woken", "expired"} /\ pc'[t] \in {"relock", "unreachable"}
          /\ pc'[t] = "unreachable" => wchan[t] # NULL /\ ~ShouldCancel(t)
      BY <1>0, <2>7 DEF WaitWake
    <3> QED BY <3>1 DEF Fine
  <2>8. CASE PostRelease(t)
    BY <1>0, <1>n, <2>8 DEF PostRelease
  <2>9. ASSUME NEW c \in Conds, BroadcastDrop(t, c) \/ BroadcastEnd(t, c) PROVE Fine
    BY <1>0, <1>n, <2>9 DEF BroadcastDrop, BroadcastEnd, ctlVars
  <2> QED BY <1>1, <2>1, <2>2, <2>3, <2>4, <2>5, <2>6, <2>7, <2>8, <2>9 DEF LibraryStep
<1>2. ASSUME NEW n \in Mutexes, MutexCall(t, n), UNCHANGED condVars PROVE Fine
  BY <1>0, <1>2, <1>n DEF MutexCall, ctlVars, LockSelfRecursive, LockSelfNormal, LockBegin,
     TryLock, UnlockRecursive, UnlockBegin, DropOwner, MutexInit, MutexDestroy
<1>3. ASSUME NEW c \in Conds, CondCall(t, c) PROVE Fine
  <2>1. ASSUME NEW i, Signal(t, c, i) PROVE Fine
    BY <1>0, <1>n, <2>1 DEF Signal
  <2> QED BY <1>0, <1>3, <1>n, <2>1 DEF CondCall, ctlVars, CondSignal, CondSignalTo, WaitBegin,
             CondBroadcast, CondSignalToUnqueued, CondDestroy, CondInit
<1>4. ASSUME NEW td \in Threads, Cancel(t, td) PROVE Fine
  BY <1>0, <1>4, <1>n DEF Cancel
<1>5. ASSUME LockTimeout(t) PROVE Fine
  BY <1>0, <1>5, <1>n DEF LockTimeout
<1>6. ASSUME WaitExpire(t) PROVE Fine
  <2>1. pc[t] = "sleep" /\ pc'[t] = "expired"
    BY <1>0, <1>6 DEF WaitExpire
  <2> QED BY <1>6, <2>1 DEF Fine
<1>7. Fine
  BY <1>1, <1>2, <1>3, <1>4, <1>5, <1>6 DEF StepOf
<1> QED BY <1>7 DEF Fine

\* A thread joins a queue in its own Wait only.
LEMMA WchanMoves ==
  ASSUME IInv, SleepqInv, NEW t \in Threads, StepOf(t), NEW x \in Threads,
         wchan[x] = NULL, wchan'[x] # NULL
  PROVE  x = t /\ pc[t] = "waitAdd" /\ WaitAdd(t)
<1>0. wchan \in [Threads -> Conds \union {NULL}]
  BY DEF IInv, TypeOK
<1>1. CASE WaitAdd(t) /\ call[t] \in Conds /\ wchan[t] = NULL /\ SleepqAdd(call[t], t)
  <2>1. pc[t] = "waitAdd" /\ wchan' = [wchan EXCEPT ![t] = call[t]]
    BY <1>1 DEF WaitAdd, SleepqAdd
  <2> QED BY <1>0, <1>1, <2>1
<1>2. ASSUME NEW c \in Conds, NEW i, NEW k, Removes(c, i, k) PROVE FALSE
  <2>1. wchan' = [wchan EXCEPT ![blocked[c][i]] = NULL]
    BY <1>2 DEF Removes
  <2> QED BY <1>0, <2>1
<1> QED BY <1>1, <1>2, QueueMoves

\* Only timed waits have a timeout, and cancel_pending is never cleared.
Untimed == \A t \in Threads : pc[t] # "expired" /\ (call[t] # NULL => ~timed[t])

LEMMA NextUntimed ==
  ASSUME IInv, Untimed, "timedwait" \notin guestOps, NEW t \in Threads, StepOf(t)
  PROVE  /\ Untimed' /\ ~WaitExpire(t)
         /\ \A x \in Threads : cancelPending[x] => cancelPending'[x]
<1>0. /\ TypeOK /\ timed \in [Threads -> BOOLEAN] /\ cancelPending \in [Threads -> BOOLEAN]
      /\ call \in [Threads -> Conds \union {NULL}] /\ ControlOK(t)
  BY DEF IInv, TypeOK, MutexTypeOK, ControlInv
<1>1. ~WaitExpire(t)
  <2>1. WaitExpire(t) => pc[t] = "sleep" /\ timed[t]
    BY DEF WaitExpire
  <2> QED BY <1>0, <2>1 DEF Untimed, ControlOK, WaitOnlyPcs
<1>2. \A u \in Threads : pc'[u] # "expired"
  <2>1. pc'[t] # "expired"
    BY <1>1, SleepMoves DEF Untimed
  <2> QED BY <2>1, Locality DEF Untouched, Untimed
<1> DEFINE Fine == /\ \A u \in Threads : call'[u] # NULL => ~timed'[u]
                   /\ \A x \in Threads : cancelPending[x] => cancelPending'[x]
<1>s. ASSUME call' = call, timed' = timed, cancelPending' = cancelPending PROVE Fine
  BY <1>s DEF Untimed
<1>r. ASSUME call' = call, timed' = [timed EXCEPT ![t] = FALSE], cancelPending' = cancelPending
      PROVE  Fine
  BY <1>0, <1>r DEF Untimed
<1> USE DEF Goto, Return, ctlVars, condVars
<1>3. ASSUME LibraryStep(t) PROVE Fine
  <2>1. CASE SetOwner(t) /\ UNCHANGED condVars
    <3>1. /\ call' = [call EXCEPT ![t] = NULL] /\ timed' = [timed EXCEPT ![t] = FALSE]
          /\ cancelPending' = cancelPending
      BY <2>1 DEF SetOwner
    <3> QED BY <1>0, <3>1 DEF Untimed
  <2>2. CASE UnlockRelease(t) /\ UNCHANGED condVars
    <3> HIDE DEF Fine
    <3> QED BY <1>r, <1>s, <2>2 DEF UnlockRelease
  <2>3. CASE UnlockWakeAll(t) /\ UNCHANGED condVars
    <3> HIDE DEF Fine
    <3> QED BY <1>r, <1>s, <2>3 DEF UnlockWakeAll, WakeAllNext
  <2>4. CASE WaitFlush(t)
    <3> HIDE DEF Fine
    <3> QED BY <1>r, <1>s, <2>4 DEF WaitFlush, WakeAllNext
  <2> HIDE DEF Fine
  <2> QED BY <1>3, <1>s, <1>r, <2>1, <2>2, <2>3, <2>4 DEF LibraryStep, LockAcquire, WaitCvUnlock,
             DropOwner, WaitAdd, WaitSleep, WaitAcquire, WaitWake, WaitRelock, PostRelease,
             BroadcastDrop, BroadcastEnd
<1>4. ASSUME NEW m \in Mutexes, MutexCall(t, m), UNCHANGED condVars PROVE Fine
  <2>1. /\ call' = call /\ cancelPending' = cancelPending
        /\ \A u \in Threads : u # t => timed'[u] = timed[u]
    BY <1>0, <1>4 DEF MutexCall, LockSelfRecursive, LockSelfNormal, LockBegin, TryLock,
       UnlockRecursive, UnlockBegin, DropOwner, MutexInit, MutexDestroy
  <2>2. pc[t] = "idle"
    BY <1>4 DEF MutexCall, LockSelfRecursive, LockSelfNormal, LockBegin, TryLock,
       UnlockRecursive, UnlockBegin, DropOwner, MutexInit, MutexDestroy
  <2>3. call[t] = NULL
    BY <2>2, IdleFacts
  <2> QED BY <2>1, <2>3 DEF Untimed
<1>5. ASSUME NEW c \in Conds, CondCall(t, c) PROVE Fine
  <2>1. ASSUME NEW m \in Mutexes, NEW b \in BOOLEAN, WaitBegin(t, c, m, b) PROVE Fine
    <3>1. /\ b = FALSE /\ timed' = [timed EXCEPT ![t] = b] /\ cancelPending' = cancelPending
          /\ call' = [call EXCEPT ![t] = c]
      BY <2>1 DEF WaitBegin
    <3> QED BY <1>0, <3>1 DEF Untimed
  <2> HIDE DEF Fine
  <2> QED BY <1>5, <1>s, <2>1 DEF CondCall, CondSignal, CondSignalTo, Signal, CondBroadcast,
             CondSignalToUnqueued, CondDestroy, CondInit
<1>6. ASSUME NEW td \in Threads, Cancel(t, td) PROVE Fine
  <2>1. /\ call' = call /\ timed' = timed
        /\ cancelPending' = [cancelPending EXCEPT ![td] = TRUE]
    BY <1>6 DEF Cancel
  <2> QED BY <1>0, <2>1 DEF Untimed
<1>7. Fine
  <2> HIDE DEF Fine
  <2> QED BY <1>1, <1>3, <1>4, <1>5, <1>6, <1>r DEF StepOf, LockTimeout
<1> QED BY <1>1, <1>2, <1>7 DEF Untimed

\* The wake-ups of a thread nobody has cancelled: at most one, and none unless the
\* thread is (about to be) asleep and off its queue; it wakes up off its queue.
TokenOK(x) ==
  ~cancelPending[x] =>
    /\ One(x)
    /\ pc[x] \notin Asleep \/ wchan[x] # NULL => None(x)
    /\ pc[x] = "woken" => wchan[x] = NULL

\* A guest that cancels leaves cancellation enabled, or none is ever pending.
CancelOK ==
  IF "cancel" \in guestOps
    THEN /\ guestOps \intersect {"setcancelstate", "exit"} = {}
         /\ \A x \in Threads : cancelState[x] = "enabled"
    ELSE \A x \in Threads : ~cancelPending[x]

TokenInv == Untimed /\ NoStrayWake /\ CancelOK /\ \A x \in Threads : TokenOK(x)

\* The guest programs the theorem is about.
PlainProgram ==
  /\ "timedwait" \notin guestOps
  /\ "cancel" \in guestOps => guestOps \intersect {"setcancelstate", "exit"} = {}

LEMMA InitTokens == Init /\ PlainProgram => TokenInv
<1> SUFFICES ASSUME Init, PlainProgram PROVE TokenInv
  OBVIOUS
<1>1. /\ \A u \in Threads : deferWaiters[u] = << >> /\ toRelease[u] = << >> /\ wakeSema[u] = 0
      /\ \A u \in Threads : pc[u] = "idle" /\ call[u] = NULL
  BY DEF Init, InitMutexes
<1>2. \A x : ~InSeq(x, << >>) /\ Once(x, << >>)
  BY DEF InSeq, Once
<1>3. \A x \in Threads : One(x) /\ None(x)
  BY <1>1, <1>2 DEF One, None, OneIn, NoneIn, Unlisted
<1>4. CancelOK
  BY DEF CancelOK, PlainProgram, Init
<1> QED BY <1>1, <1>3, <1>4 DEF TokenInv, Untimed, NoStrayWake, TokenOK

\* No step changes the program, and one that cancels has no step that disables.
LEMMA NextCancel ==
  ASSUME TypeOK, CancelOK, [Next]_vars
  PROVE  CancelOK'
<1> USE DEF CancelOK, TypeOK
<1>1. CASE UNCHANGED vars
  BY <1>1 DEF vars, condVars
<1>2. CASE Next
  <2>1. guestOps' = guestOps
    BY <1>2 DEF Next
  <2> PICK t \in Threads :
        \/ LibraryStep(t)
        \/ \E m \in Mutexes : MutexCall(t, m) /\ UNCHANGED condVars
        \/ \E c \in Conds : CondCall(t, c)
        \/ \E td \in Threads : Cancel(t, td)
        \/ (\E s \in {"enabled", "disabled"} : SetCancelState(t, s)) \/ Exit(t)
        \/ LockTimeout(t) /\ UNCHANGED condVars
        \/ WaitExpire(t)
    BY <1>2 DEF Next
  <2> DEFINE Fine == \/ UNCHANGED <<cancelState, cancelPending>>
                     \/ "cancel" \in guestOps /\ UNCHANGED cancelState
                     \/ guestOps \intersect {"setcancelstate", "exit"} # {}
                           /\ UNCHANGED cancelPending
  <2>2. ASSUME LibraryStep(t) PROVE UNCHANGED <<cancelState, cancelPending>>
    <3>1. ASSUME NEW c \in Conds, BroadcastDrop(t, c) \/ BroadcastEnd(t, c)
          PROVE  UNCHANGED <<cancelState, cancelPending>>
      BY <3>1 DEF BroadcastDrop, BroadcastEnd
    <3> QED BY <2>2, <3>1 DEF LibraryStep, condVars, WaitCvUnlock, WaitAdd, WaitSleep, WaitFlush,
               WaitAcquire, WaitWake, WaitRelock, PostRelease
  <2>3. ASSUME NEW c \in Conds, CondCall(t, c) PROVE UNCHANGED <<cancelState, cancelPending>>
    <3>1. ASSUME NEW i, Signal(t, c, i) PROVE UNCHANGED <<cancelState, cancelPending>>
      BY <3>1 DEF Signal
    <3>2. ASSUME NEW m \in Mutexes, NEW b \in BOOLEAN, WaitBegin(t, c, m, b)
          PROVE  UNCHANGED <<cancelState, cancelPending>>
      BY <3>2 DEF WaitBegin
    <3> QED BY <2>3, <3>1, <3>2 DEF CondCall, condVars, CondSignal, CondSignalTo, CondBroadcast,
               CondSignalToUnqueued, CondDestroy, CondInit
  <2>4. ASSUME NEW td \in Threads, Cancel(t, td) PROVE Fine
    BY <2>4 DEF Cancel
  <2>5. ASSUME NEW s \in {"enabled", "disabled"}, SetCancelState(t, s) PROVE Fine
    BY <2>5 DEF SetCancelState
  <2>6. ASSUME Exit(t) PROVE Fine
    BY <2>6 DEF Exit
  <2>7. Fine
    BY <2>2, <2>3, <2>4, <2>5, <2>6 DEF condVars, WaitExpire
  <2> QED BY <2>1, <2>7
<1> QED BY <1>1, <1>2

LEMMA NextTokens ==
  ASSUME MInv, TokenInv, PlainProgram, [Next]_vars
  PROVE  TokenInv' /\ PlainProgram'
<1>p. PlainProgram'
  BY DEF PlainProgram, Next, vars
<1>c. CancelOK'
  BY NextCancel DEF MInv, IInv, TokenInv
<1>1. CASE UNCHANGED coreVars
  <2>1. /\ pc' = pc /\ call' = call /\ timed' = timed /\ wakeSema' = wakeSema /\ wchan' = wchan
        /\ deferWaiters' = deferWaiters /\ toRelease' = toRelease
        /\ cancelPending' = cancelPending
    BY <1>1 DEF coreVars, wakeVars, ctlVars
  <2> QED BY <2>1, <1>c, <1>p DEF TokenInv, Untimed, NoStrayWake, TokenOK, One, None
<1>2. CASE \E t \in Threads : StepOf(t)
  <2> PICK t \in Threads : StepOf(t)
    BY <1>2
  <2>0. IInv /\ ListsOK /\ SleepqInv /\ Untimed /\ TypeOK
    BY DEF MInv, TokenInv, IInv
  <2>1. /\ Untimed' /\ ~WaitExpire(t)
        /\ \A x \in Threads : cancelPending[x] => cancelPending'[x]
    BY <2>0, NextUntimed DEF PlainProgram
  <2>2. NoStrayWake'
    <3>1. pc[t] # "unreachable" /\ pc[t] # "expired" /\ TokenOK(t)
      BY DEF TokenInv, NoStrayWake, Untimed
    <3>2. pc'[t] # "unreachable"
      <4>1. ~ShouldCancel(t) => ~cancelPending[t]
        BY DEF ShouldCancel, TokenInv, CancelOK
      <4> QED BY <2>0, <3>1, <4>1, SleepMoves DEF TokenOK
    <3>3. \A u \in Threads : u # t => pc'[u] = pc[u]
      BY <2>0, Locality DEF Untouched
    <3> QED BY <3>2, <3>3 DEF NoStrayWake, TokenInv
  <2>3. ASSUME NEW x \in Threads, ~cancelPending'[x]
        PROVE  /\ One(x)'
               /\ pc'[x] \notin Asleep \/ wchan'[x] # NULL => None(x)'
               /\ pc'[x] = "woken" => wchan'[x] = NULL
    <3>1. /\ ~cancelPending[x] /\ One(x) /\ (None(x) \/ wchan[x] = NULL)
          /\ pc[x] \notin Asleep => None(x)
          /\ pc[x] = "woken" => wchan[x] = NULL
          /\ pc[x] # "expired" /\ pc[x] # "unreachable"
      BY <2>1, <2>3 DEF TokenInv, TokenOK, Untimed, NoStrayWake
    <3>2. /\ One(x)'
          /\ None(x) => None(x)' \/ (wchan[x] # NULL /\ wchan'[x] = NULL /\ pc'[x] = pc[x])
      BY <2>0, <2>3, <3>1, TokenMoves
    <3>3. wchan[x] # NULL => pc[x] \in Asleep
      BY <2>0, <3>1 DEF IInv, ControlInv, ControlOK, Asleep
    <3>4. wchan[x] = NULL /\ wchan'[x] # NULL => x = t /\ pc[t] = "waitAdd" /\ WaitAdd(t)
      BY <2>0, WchanMoves
    <3>5. ASSUME pc'[x] \notin Asleep \/ wchan'[x] # NULL PROVE None(x)'
      <4>1. CASE None(x)
        BY <3>2, <3>3, <3>5, <4>1
      <4>2. CASE ~None(x)
        <5>1. pc[x] \in Asleep /\ wchan[x] = NULL /\ pc[x] # "waitAdd"
          BY <3>1, <4>2 DEF Asleep
        <5>2. pc'[x] \notin Asleep
          BY <3>4, <3>5, <5>1
        <5>3. x = t
          BY <2>0, <5>1, <5>2, Locality DEF Untouched
        <5>4. WaitAcquire(t)
          BY <2>0, <2>1, <5>1, <5>2, <5>3, SleepMoves
        <5> QED BY <2>0, <3>1, <5>3, <5>4, AcquireMoves
      <4> QED BY <4>1, <4>2
    <3>6. ASSUME pc'[x] = "woken" PROVE wchan'[x] = NULL
      <4>1. CASE pc[x] = "woken"
        <5>1. wchan[x] = NULL /\ pc[x] # "waitAdd"
          BY <3>1, <4>1
        <5> QED BY <3>4, <5>1
      <4>2. CASE pc[x] # "woken"
        <5>1. x = t
          BY <2>0, <3>6, <4>2, Locality DEF Untouched
        <5>2. WaitAcquire(t) /\ ~None(t)
          BY <2>0, <3>1, <3>6, <4>2, <5>1, SleepMoves, AcquireMoves
        <5>3. wchan[x] = NULL /\ wchan' = wchan
          BY <3>1, <5>1, <5>2 DEF WaitAcquire, condVars
        <5> QED BY <5>3
      <4> QED BY <4>1, <4>2
    <3> QED BY <3>2, <3>5, <3>6
  <2>4. \A x \in Threads : TokenOK(x)'
    BY <2>3 DEF TokenOK
  <2> QED BY <2>1, <2>2, <2>4, <1>c, <1>p DEF TokenInv
<1> QED BY <1>1, <1>2, SomeStep

\* A guest that makes no timed waits, and cancels threads only if none of them
\* disables cancellation or exits, never reaches the UNREACHABLE() at the end of Wait's
\* loop, whatever it signals, broadcasts and defers: the token that a waiter takes in
\* Sleep is the one of the thread that took it off its queue, or of a cancel it obeys.
\* With timed waits it can be reached (the run cond_stray); so it can when the token is
\* that of a cancel which the target, having disabled cancellation, does not obey.
THEOREM WakesKnown == Spec => (PlainProgram => []NoStrayWake)
<1>1. Init /\ PlainProgram => MInv /\ TokenInv /\ PlainProgram
  BY InitMInv, InitTokens
<1>2. MInv /\ TokenInv /\ PlainProgram /\ [Next]_vars => MInv' /\ TokenInv' /\ PlainProgram'
  BY NextMInv, NextTokens
<1>3. TokenInv => NoStrayWake
  BY DEF TokenInv
<1> QED BY <1>1, <1>2, <1>3, PTL DEF Spec
=============================================================================
