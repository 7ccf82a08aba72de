----------------------------- MODULE PthreadCond -----------------------------
(***************************************************************************)
(* Condition variables over the mutexes of module PthreadMutex:            *)
(* core/libraries/kernel/threads/{condvar.cpp,sleepq.cpp} and the          *)
(* cancellation of pthread.cpp.                                            *)
(*                                                                         *)
(* Each condition variable has its own sleep queue lock (the code hashes   *)
(* several onto one spin lock, which only removes interleavings).  A       *)
(* critical section of that lock is one step, except the first one of      *)
(* Wait, inside which the mutex is released and other threads can run.     *)
(***************************************************************************)
EXTENDS PthreadMutex

CONSTANT MaxDeferWaiters      \* Pthread::MaxDeferWaiters (50 in the code)

ASSUME CondAssumption == MaxDeferWaiters \in Nat \ {0}

VARIABLES
  cslot,           \* PthreadCondT: "live" or "destroyed"
  hasUserWaiters,  \* PthreadCond::has_user_waiters
  sleepqLock,      \* sc_lock: the thread inside Wait that holds it, or NULL
  sleepq,          \* << >>, or the active SleepQueue followed by its sq_freeq
  blocked,         \* sq_blocked of the active queue, most recent first
  sleepqueue,      \* Pthread::sleepqueue, named after the thread it came with
  wchan,           \* Pthread::wchan
  mutexObj,        \* Pthread::mutex_obj
  toRelease,       \* semaphores a call still has to release (waddr, waddrs)
  cancelPending,   \* Pthread::cancel_pending
  cancelState      \* cancel_enable, or "exiting" once no_cancel is set

condVars == <<cslot, hasUserWaiters, sleepqLock, sleepq, blocked,
              sleepqueue, wchan, mutexObj, toRelease, cancelPending, cancelState>>
vars == <<guestOps, objVars, wakeVars, ctlVars, depth, condVars>>

CondPcs == {"waitUnlock", "waitAdd", "willSleep", "flush", "sleep", "woken",
            "expired", "relock", "drop", "post", "unreachable"}

Init ==
  /\ InitMutexes
  /\ cslot = [c \in Conds |-> "live"]
  /\ hasUserWaiters = [c \in Conds |-> FALSE]
  /\ sleepqLock = [c \in Conds |-> NULL]
  /\ sleepq = [c \in Conds |-> << >>]
  /\ blocked = [c \in Conds |-> << >>]
  /\ sleepqueue = [t \in Threads |-> t]
  /\ wchan = [t \in Threads |-> NULL]
  /\ mutexObj = [t \in Threads |-> NULL]
  /\ toRelease = [t \in Threads |-> << >>]
  /\ cancelPending = [t \in Threads |-> FALSE]
  /\ cancelState = [t \in Threads |-> "enabled"]

\* s without its i-th element
Without(s, i) == [j \in 1 .. Len(s) - 1 |-> IF j < i THEN s[j] ELSE s[j + 1]]
InSeq(t, s) == \E i \in DOMAIN s : s[i] = t

-----------------------------------------------------------------------------
\* Mutant of WaitBegin: the caller need not own the mutex.
WaitBeginUnowned(t, c, m, isTimed) ==
  /\ pc[t] = "idle" /\ cslot[c] = "live"
  /\ isTimed => "timedwait" \in guestOps
  /\ sleepqLock[c] = NULL
  /\ sleepqLock' = [sleepqLock EXCEPT ![c] = t]
  /\ hasUserWaiters' = [hasUserWaiters EXCEPT ![c] = TRUE]
  /\ willSleep' = [willSleep EXCEPT ![t] = TRUE]
  /\ Goto(t, "waitUnlock")
  /\ mx' = [mx EXCEPT ![t] = m]
  /\ call' = [call EXCEPT ![t] = c]
  /\ timed' = [timed EXCEPT ![t] = isTimed]
  /\ UNCHANGED <<objVars, wakeSema, deferWaiters, deferred, recurse, depth,
                 cslot, sleepq, blocked, sleepqueue, wchan, mutexObj,
                 toRelease, cancelPending, cancelState>>

\* Wait, first part: the caller owns m; SleepqLock, has_user_waiters, will_sleep.
WaitBegin(t, c, m, isTimed) ==
  /\ pc[t] = "idle" /\ cslot[c] = "live"
  /\ isTimed => "timedwait" \in guestOps
  /\ mOwner[m] = t
  /\ sleepqLock[c] = NULL
  /\ sleepqLock' = [sleepqLock EXCEPT ![c] = t]
  /\ hasUserWaiters' = [hasUserWaiters EXCEPT ![c] = TRUE]
  /\ willSleep' = [willSleep EXCEPT ![t] = TRUE]
  /\ Goto(t, "waitUnlock")
  /\ mx' = [mx EXCEPT ![t] = m]
  /\ call' = [call EXCEPT ![t] = c]
  /\ timed' = [timed EXCEPT ![t] = isTimed]
  /\ UNCHANGED <<objVars, wakeSema, deferWaiters, deferred, recurse, depth,
                 cslot, sleepq, blocked, sleepqueue, wchan, mutexObj,
                 toRelease, cancelPending, cancelState>>

\* Mutant of WaitCvUnlock: SleepqUnlock comes before CvUnlock.
WaitCvUnlockEarly(t) ==
  /\ pc[t] = "waitUnlock"
  /\ recurse' = [recurse EXCEPT ![t] = mCount[mx[t]]]
  /\ mCount' = [mCount EXCEPT ![mx[t]] = 0]
  /\ DropOwner(t, mx[t])
  /\ sleepqLock' = [sleepqLock EXCEPT ![call[t]] = NULL]
  /\ UNCHANGED <<slot, mLock, wakeVars, timed, call, depth, cslot,
                 hasUserWaiters, sleepq, blocked, sleepqueue, wchan, mutexObj,
                 toRelease, cancelPending, cancelState>>

\* CvUnlock: save and clear m_count, then Unlock, which continues in
\* UnlockRelease.
WaitCvUnlock(t) ==
  /\ pc[t] = "waitUnlock"
  /\ recurse' = [recurse EXCEPT ![t] = mCount[mx[t]]]
  /\ mCount' = [mCount EXCEPT ![mx[t]] = 0]
  /\ DropOwner(t, mx[t])
  /\ UNCHANGED <<slot, mLock, wakeVars, timed, call, depth, condVars>>

\* SleepqAdd: the thread gives its queue object to the condition variable.
SleepqAdd(c, t) ==
  /\ sleepq' = [sleepq EXCEPT ![c] =
                  IF @ = << >> THEN <<sleepqueue[t]>>
                  ELSE <<Head(@), sleepqueue[t]>> \o Tail(@)]
  /\ sleepqueue' = [sleepqueue EXCEPT ![t] = NULL]
  /\ wchan' = [wchan EXCEPT ![t] = c]
  /\ blocked' = [blocked EXCEPT ![c] = <<t>> \o @]

\* mutex_obj, SleepqAdd, ClearWake, SleepqUnlock.
WaitAdd(t) ==
  LET c == call[t] IN
  /\ pc[t] = "waitAdd"
  /\ mutexObj' = [mutexObj EXCEPT ![t] = mx[t]]
  /\ SleepqAdd(c, t)
  /\ wakeSema' = [wakeSema EXCEPT ![t] = IF @ > 0 THEN @ - 1 ELSE 0]
  /\ sleepqLock' = [sleepqLock EXCEPT ![c] = NULL]
  /\ Goto(t, "willSleep")
  /\ UNCHANGED <<objVars, willSleep, deferWaiters, mx, timed, deferred, call,
                 recurse, depth, cslot, hasUserWaiters, toRelease,
                 cancelPending, cancelState>>

\* Mutant of WaitSleep: ClearWake is called as late as in Sleep.
WaitSleepClears(t) ==
  /\ pc[t] = "willSleep"
  /\ willSleep' = [willSleep EXCEPT ![t] = FALSE]
  /\ wakeSema' = [wakeSema EXCEPT ![t] = 0]
  /\ Goto(t, "flush")
  /\ UNCHANGED <<objVars, deferWaiters, mx, timed, deferred, call,
                 recurse, depth, condVars>>

\* Sleep: will_sleep = false ...
WaitSleep(t) ==
  /\ pc[t] = "willSleep"
  /\ willSleep' = [willSleep EXCEPT ![t] = FALSE]
  /\ Goto(t, "flush")
  /\ UNCHANGED <<objVars, wakeSema, deferWaiters, mx, timed, deferred, call,
                 recurse, depth, condVars>>

\* ... then WakeAll over what Unlock left deferred ...
WaitFlush(t) ==
  /\ pc[t] = "flush"
  /\ WakeAllNext(t, Goto(t, "sleep") /\ UNCHANGED <<mx, timed>>)
  /\ UNCHANGED <<objVars, willSleep, deferred, call, recurse, depth, condVars>>

\* ... and the acquire, which takes a token or, with a timeout, gives up.
WaitAcquire(t) ==
  /\ pc[t] = "sleep" /\ wakeSema[t] > 0
  /\ wakeSema' = [wakeSema EXCEPT ![t] = @ - 1]
  /\ Goto(t, "woken")
  /\ UNCHANGED <<objVars, willSleep, deferWaiters, mx, timed, deferred, call,
                 recurse, depth, condVars>>

WaitExpire(t) ==
  /\ pc[t] = "sleep" /\ timed[t] /\ wakeSema[t] = 0
  /\ Goto(t, "expired")
  /\ UNCHANGED <<objVars, wakeVars, mx, timed, deferred, call, recurse, depth,
                 condVars>>

\* Mutant of SleepqRemove: td->wchan keeps its value.
SleepqRemoveKeepsWchan(c, i) ==
  LET last == Len(blocked[c]) = 1
      q == IF last THEN 1 ELSE 2 IN
  /\ blocked' = [blocked EXCEPT ![c] = Without(@, i)]
  /\ sleepqueue' = [sleepqueue EXCEPT ![blocked[c][i]] = sleepq[c][q]]
  /\ sleepq' = [sleepq EXCEPT ![c] = Without(@, q)]
  /\ hasUserWaiters' = [hasUserWaiters EXCEPT ![c] = ~last]
  /\ UNCHANGED wchan

\* SleepqRemove of the i-th waiter (a thread is queued at most once, so that is
\* what std::erase removes).  The waiter takes back a queue object: the active
\* one if it was the last, the first free one otherwise.
SleepqRemove(c, i) ==
  LET td == blocked[c][i]
      last == Len(blocked[c]) = 1 IN
  /\ blocked' = [blocked EXCEPT ![c] = Without(@, i)]
  /\ sleepqueue' = [sleepqueue EXCEPT ![td] = sleepq[c][IF last THEN 1 ELSE 2]]
  /\ sleepq' = [sleepq EXCEPT ![c] = Without(@, IF last THEN 1 ELSE 2)]
  /\ wchan' = [wchan EXCEPT ![td] = NULL]
  /\ hasUserWaiters' = [hasUserWaiters EXCEPT ![c] = ~last]

\* ShouldCancel: cancel_pending, cancel_enable, and no_cancel still 0.
ShouldCancel(t) == cancelPending[t] /\ cancelState[t] = "enabled"

\* Back from Sleep, under SleepqLock: a signaller has already removed the
\* thread, or it was cancelled or timed out and removes itself; anything else
\* is UNREACHABLE().  Then SleepqUnlock, and CvLock contends for the mutex.
WaitWake(t) ==
  LET c == call[t]
      leave == wchan[t] # NULL /\ (ShouldCancel(t) \/ pc[t] = "expired") IN
  /\ pc[t] \in {"woken", "expired"} /\ sleepqLock[c] = NULL
  /\ \/ /\ wchan[t] = NULL
        /\ Goto(t, "relock")
        /\ UNCHANGED <<hasUserWaiters, sleepq, blocked, sleepqueue, wchan>>
     \/ /\ leave
        /\ \E i \in DOMAIN blocked[c] : blocked[c][i] = t /\ SleepqRemove(c, i)
        /\ Goto(t, "relock")
     \/ /\ wchan[t] # NULL /\ ~leave
        /\ Goto(t, "unreachable")
        /\ UNCHANGED <<hasUserWaiters, sleepq, blocked, sleepqueue, wchan>>
  /\ UNCHANGED <<objVars, wakeVars, mx, timed, deferred, call, recurse, depth,
                 cslot, sleepqLock, mutexObj, toRelease, cancelPending, cancelState>>

\* mutex_obj = nullptr; CvLock enters Lock without a timeout.
WaitRelock(t) ==
  /\ pc[t] = "relock"
  /\ mutexObj' = [mutexObj EXCEPT ![t] = NULL]
  /\ timed' = [timed EXCEPT ![t] = FALSE]
  /\ Goto(t, "lock")
  /\ UNCHANGED <<objVars, wakeVars, mx, deferred, call, recurse, depth,
                 cslot, hasUserWaiters, sleepqLock, sleepq, blocked, sleepqueue,
                 wchan, toRelease, cancelPending, cancelState>>

-----------------------------------------------------------------------------
\* Mutant of WakeOne: a full list is dropped instead of released.
WakeOneOverwrites(t, td) ==
  LET Put(list) == IF Len(list) >= MaxDeferWaiters THEN <<td>> ELSE Append(list, td) IN
  /\ UNCHANGED wakeSema
  /\ IF mOwner[mutexObj[td]] = t
       THEN /\ deferWaiters' = [deferWaiters EXCEPT ![t] = Put(@)]
            /\ mDeferred' = [mDeferred EXCEPT ![mutexObj[td]] = TRUE]
            /\ UNCHANGED toRelease
       ELSE /\ toRelease' = [toRelease EXCEPT ![t] = Put(@)]
            /\ UNCHANGED <<deferWaiters, mDeferred>>

\* A thread td just taken off a queue by t.  If t owns the mutex td waits with,
\* the release is deferred to t's Unlock; otherwise it follows SleepqUnlock.  A
\* full list is released first.
WakeOne(t, td) ==
  LET mp == mutexObj[td]
      Put(list) == IF Len(list) >= MaxDeferWaiters THEN <<td>> ELSE Append(list, td)
      Flush(list) == IF Len(list) >= MaxDeferWaiters
                       THEN ReleaseAll(list) ELSE UNCHANGED wakeSema IN
  IF mOwner[mp] = t
    THEN /\ Flush(deferWaiters[t])
         /\ deferWaiters' = [deferWaiters EXCEPT ![t] = Put(@)]
         /\ mDeferred' = [mDeferred EXCEPT ![mp] = TRUE]
         /\ UNCHANGED toRelease
    ELSE /\ Flush(toRelease[t])
         /\ toRelease' = [toRelease EXCEPT ![t] = Put(@)]
         /\ UNCHANGED <<deferWaiters, mDeferred>>

\* Signal(nullptr) wakes the front of the queue, Signal(thread) that thread.
Signal(t, c, i) ==
  LET td == blocked[c][i] IN
  /\ pc[t] = "idle" /\ cslot[c] = "live" /\ sleepqLock[c] = NULL
  /\ i \in DOMAIN blocked[c]
  /\ SleepqRemove(c, i)
  /\ WakeOne(t, td)
  /\ IF mOwner[mutexObj[td]] = t THEN UNCHANGED pc ELSE Goto(t, "post")
  /\ UNCHANGED <<slot, mLock, mOwner, mCount, willSleep, mx, timed, deferred,
                 call, recurse, depth, cslot, sleepqLock, mutexObj,
                 cancelPending, cancelState>>

CondSignal(t, c) == Signal(t, c, 1)

CondSignalTo(t, c, i) == "signalto_np" \in guestOps /\ Signal(t, c, i)

\* signalto_np for a thread that is not on this queue, while others are: the
\* code dereferences its null mutex_obj or, if Wait has not cleared that yet,
\* gives it a queue object it does not have a right to.  The model ends here.
CondSignalToUnqueued(t, c, td) ==
  /\ "signalto_np" \in guestOps
  /\ pc[t] = "idle" /\ cslot[c] = "live" /\ sleepqLock[c] = NULL
  /\ blocked[c] # << >> /\ ~InSeq(td, blocked[c])
  /\ Goto(t, "aborted")
  /\ UNCHANGED <<objVars, wakeVars, mx, timed, deferred, call, recurse, depth,
                 condVars>>

\* Broadcast takes SleepqLock and runs SleepqDrop, one waiter per step.
CondBroadcast(t, c) ==
  /\ "broadcast" \in guestOps
  /\ pc[t] = "idle" /\ cslot[c] = "live" /\ sleepqLock[c] = NULL
  /\ blocked[c] # << >>
  /\ sleepqLock' = [sleepqLock EXCEPT ![c] = t]
  /\ Goto(t, "drop")
  /\ UNCHANGED <<objVars, wakeVars, mx, timed, deferred, call, recurse, depth,
                 cslot, hasUserWaiters, sleepq, blocked, sleepqueue, wchan,
                 mutexObj, toRelease, cancelPending, cancelState>>

\* The front waiter gets the active queue object, the others the free ones.
BroadcastDrop(t, c) ==
  LET td == Head(blocked[c]) IN
  /\ pc[t] = "drop" /\ sleepqLock[c] = t
  /\ blocked[c] # << >>
  /\ WakeOne(t, td)
  /\ blocked' = [blocked EXCEPT ![c] = Tail(@)]
  /\ sleepq' = [sleepq EXCEPT ![c] = Tail(@)]
  /\ sleepqueue' = [sleepqueue EXCEPT ![td] = Head(sleepq[c])]
  /\ wchan' = [wchan EXCEPT ![td] = NULL]
  /\ UNCHANGED <<slot, mLock, mOwner, mCount, willSleep, ctlVars, depth, cslot,
                 hasUserWaiters, sleepqLock, mutexObj, cancelPending, cancelState>>

\* has_user_waiters = false; SleepqUnlock; the releases follow.
BroadcastEnd(t, c) ==
  /\ pc[t] = "drop" /\ sleepqLock[c] = t
  /\ blocked[c] = << >>
  /\ hasUserWaiters' = [hasUserWaiters EXCEPT ![c] = FALSE]
  /\ sleepqLock' = [sleepqLock EXCEPT ![c] = NULL]
  /\ Goto(t, IF toRelease[t] = << >> THEN "idle" ELSE "post")
  /\ UNCHANGED <<objVars, wakeVars, mx, timed, deferred, call, recurse, depth,
                 cslot, sleepq, blocked, sleepqueue, wchan, mutexObj,
                 toRelease, cancelPending, cancelState>>

\* Mutant of PostRelease: returns without releasing.
PostReleaseForgets(t) ==
  /\ pc[t] = "post"
  /\ toRelease' = [toRelease EXCEPT ![t] = << >>]
  /\ Goto(t, "idle")
  /\ UNCHANGED <<objVars, wakeVars, mx, timed, deferred, call,
                 recurse, depth, cslot, hasUserWaiters, sleepqLock, sleepq,
                 blocked, sleepqueue, wchan, mutexObj, cancelPending, cancelState>>

\* waddr->release(), one semaphore per step; then the call returns.
PostRelease(t) ==
  /\ pc[t] = "post"
  /\ ReleaseAll(<<Head(toRelease[t])>>)
  /\ toRelease' = [toRelease EXCEPT ![t] = Tail(@)]
  /\ IF Len(toRelease[t]) = 1 THEN Goto(t, "idle") ELSE UNCHANGED pc
  /\ UNCHANGED <<objVars, willSleep, deferWaiters, mx, timed, deferred, call,
                 recurse, depth, cslot, hasUserWaiters, sleepqLock, sleepq,
                 blocked, sleepqueue, wchan, mutexObj, cancelPending, cancelState>>

\* posix_pthread_cancel: set the flag and sample will_sleep; release after.
Cancel(t, td) ==
  /\ "cancel" \in guestOps
  /\ pc[t] = "idle" /\ t # td
  /\ ~cancelPending[td]   \* bound: a thread is cancelled once
  /\ cancelPending' = [cancelPending EXCEPT ![td] = TRUE]
  /\ IF willSleep[td]
       THEN /\ toRelease' = [toRelease EXCEPT ![t] = <<td>>]
            /\ Goto(t, "post")
       ELSE UNCHANGED <<toRelease, pc>>
  /\ UNCHANGED <<objVars, wakeVars, mx, timed, deferred, call, recurse, depth,
                 cslot, hasUserWaiters, sleepqLock, sleepq, blocked, sleepqueue,
                 wchan, mutexObj, cancelState>>

\* posix_pthread_setcancelstate.  Enabling ends in TestCancel, as setcanceltype to
\* asynchronous does: a thread that should cancel exits.
SetCancelState(t, s) ==
  /\ "setcancelstate" \in guestOps
  /\ pc[t] = "idle" /\ cancelState[t] # "exiting"
  /\ cancelState' = [cancelState EXCEPT ![t] =
                       IF s = "enabled" /\ cancelPending[t] THEN "exiting" ELSE s]
  /\ UNCHANGED <<objVars, wakeVars, ctlVars, depth, cslot, hasUserWaiters,
                 sleepqLock, sleepq, blocked, sleepqueue, wchan, mutexObj,
                 toRelease, cancelPending>>

\* posix_pthread_exit sets no_cancel; its cleanup handlers and destructors are
\* guest code, so the calls that follow are theirs.
Exit(t) ==
  /\ "exit" \in guestOps
  /\ pc[t] = "idle" /\ cancelState[t] # "exiting"
  /\ cancelState' = [cancelState EXCEPT ![t] = "exiting"]
  /\ UNCHANGED <<objVars, wakeVars, ctlVars, depth, cslot, hasUserWaiters,
                 sleepqLock, sleepq, blocked, sleepqueue, wchan, mutexObj,
                 toRelease, cancelPending>>

\* posix_pthread_cond_destroy and cond_init; the guest must not destroy a
\* condition variable that has waiters.
CondDestroy(t, c) ==
  /\ "cond_destroy" \in guestOps
  /\ pc[t] = "idle" /\ cslot[c] = "live"
  /\ sleepqLock[c] = NULL /\ \A u \in Threads : call[u] # c
  /\ cslot' = [cslot EXCEPT ![c] = "destroyed"]
  /\ hasUserWaiters' = [hasUserWaiters EXCEPT ![c] = FALSE]
  /\ UNCHANGED <<objVars, wakeVars, ctlVars, depth, sleepqLock, sleepq,
                 blocked, sleepqueue, wchan, mutexObj, toRelease, cancelPending, cancelState>>

CondInit(t, c) ==
  /\ pc[t] = "idle" /\ cslot[c] = "destroyed"
  /\ cslot' = [cslot EXCEPT ![c] = "live"]
  /\ UNCHANGED <<objVars, wakeVars, ctlVars, depth, hasUserWaiters, sleepqLock,
                 sleepq, blocked, sleepqueue, wchan, mutexObj, toRelease,
                 cancelPending, cancelState>>

-----------------------------------------------------------------------------
\* The steps inside a call: the host scheduler runs them, so they are fair.
LibraryStep(t) ==
  \/ (LockAcquire(t) \/ SetOwner(t) \/ UnlockRelease(t) \/ UnlockWakeAll(t))
     /\ UNCHANGED condVars
  \/ WaitCvUnlock(t) \/ WaitAdd(t) \/ WaitSleep(t) \/ WaitFlush(t)
  \/ WaitAcquire(t) \/ WaitWake(t) \/ WaitRelock(t)
  \/ PostRelease(t)
  \/ \E c \in Conds : BroadcastDrop(t, c) \/ BroadcastEnd(t, c)

\* The calls a guest thread makes.
MutexCall(t, m) ==
  \/ LockSelfRecursive(t, m) \/ LockSelfNormal(t, m)
  \/ \E isTimed \in BOOLEAN : LockBegin(t, m, isTimed)
  \/ TryLock(t, m) \/ UnlockRecursive(t, m) \/ UnlockBegin(t, m)
  \/ MutexInit(t, m) \/ MutexDestroy(t, m)

CondCall(t, c) ==
  \/ \E m \in Mutexes, isTimed \in BOOLEAN : WaitBegin(t, c, m, isTimed)
  \/ CondSignal(t, c) \/ CondBroadcast(t, c)
  \/ \E i \in DOMAIN blocked[c] : CondSignalTo(t, c, i)
  \/ \E td \in Threads : CondSignalToUnqueued(t, c, td)
  \/ CondDestroy(t, c) \/ CondInit(t, c)

\* UNREACHABLE, ASSERT and a null dereference end the process.
Alive == \A t \in Threads : pc[t] \notin {"aborted", "unreachable"}

Next ==
  /\ Alive /\ UNCHANGED guestOps
  /\ \E t \in Threads :
    \/ LibraryStep(t)
    \/ \E m \in Mutexes : MutexCall(t, m) /\ UNCHANGED condVars
    \/ \E c \in Conds : CondCall(t, c)
    \/ \E td \in Threads : Cancel(t, td)
    \/ (\E s \in {"enabled", "disabled"} : SetCancelState(t, s)) \/ Exit(t)
    \/ LockTimeout(t) /\ UNCHANGED condVars
    \/ WaitExpire(t)

Spec == Init /\ [][Next]_vars
FairSpec == Spec /\ \A t \in Threads : WF_vars(Alive /\ UNCHANGED guestOps /\ LibraryStep(t))

-----------------------------------------------------------------------------
TypeOK ==
  /\ MutexTypeOK
  /\ pc \in [Threads -> MutexPcs \union CondPcs]
  /\ cslot \in [Conds -> {"live", "destroyed"}]
  /\ hasUserWaiters \in [Conds -> BOOLEAN]
  /\ sleepqLock \in [Conds -> Threads \union {NULL}]
  /\ sleepq \in [Conds -> Seq(Threads)]
  /\ blocked \in [Conds -> Seq(Threads)]
  /\ sleepqueue \in [Threads -> Threads \union {NULL}]
  /\ wchan \in [Threads -> Conds \union {NULL}]
  /\ mutexObj \in [Threads -> Mutexes \union {NULL}]
  /\ toRelease \in [Threads -> Seq(Threads)]
  /\ cancelPending \in [Threads -> BOOLEAN]
  /\ cancelState \in [Threads -> {"enabled", "disabled", "exiting"}]

\* Between CvUnlock and the end of CvLock the guest does not hold the mutex it
\* passed to Wait, although it will hold it again, at the same depth, on return.
Suspended(t, m) == call[t] # NULL /\ mx[t] = m /\ pc[t] # "waitUnlock"

\* The guest's view of a mutex agrees with the object: a thread was told it
\* holds m to depth n exactly when m_owner names it, m_lock is its own and
\* m_count is n - 1; a Wait restores the depth it interrupted (SelfLock, Unlock,
\* CvUnlock and CvLock all move m_count and m_owner separately from m_lock).
DepthOK(t, m) ==
  /\ mOwner[m] = t => mLock[m] = t
  /\ IF Suspended(t, m)
       THEN depth[t][m] = recurse[t] + 1 /\ mOwner[m] # t
       ELSE depth[t][m] = IF mOwner[m] = t THEN mCount[m] + 1 ELSE 0

DepthAgrees == \A t \in Threads, m \in Mutexes : DepthOK(t, m)

\* What pc says about a thread's locals: it works on a mutex, it is inside Wait,
\* will_sleep is set.
NoMutexPcs == {"idle", "aborted", "drop", "post"}
WaitOnlyPcs == {"waitUnlock", "waitAdd", "willSleep", "flush", "sleep", "woken",
                "expired", "relock", "unreachable"}
ControlOK(t) ==
  /\ mx[t] = NULL <=> pc[t] \in NoMutexPcs
  /\ call[t] # NULL => pc[t] \in WaitOnlyPcs \union {"release", "lock", "own"}
  /\ pc[t] \in WaitOnlyPcs => call[t] # NULL
  /\ call[t] = NULL => recurse[t] = 0
  /\ willSleep[t] <=> \/ pc[t] \in {"waitUnlock", "waitAdd", "willSleep"}
                      \/ pc[t] = "release" /\ call[t] # NULL
  /\ pc[t] \in {"lock", "own"} /\ timed[t] => call[t] = NULL
  /\ wchan[t] # NULL => pc[t] \in {"willSleep", "flush", "sleep", "woken",
                                   "expired", "unreachable"}
  /\ pc[t] = "post" => toRelease[t] # << >>

ControlInv == \A t \in Threads : ControlOK(t)

\* What holds of a mutex: m_lock is held by its owner, or by the thread that is
\* about to become, or has just ceased to be, its owner; a free mutex has
\* m_count 0, and only a recursive one counts.
CountOK(m) ==
  /\ mOwner[m] = NULL => mCount[m] = 0
  /\ mCount[m] > 0 => Type[m] = "Recursive"

OwnerOK(t, m) ==
  /\ mLock[m] = t <=> \/ mOwner[m] = t
                      \/ mx[t] = m /\ pc[t] \in {"own", "release"}
  /\ mx[t] = m => (mOwner[m] = t <=> pc[t] = "waitUnlock")
  /\ mx[t] = m /\ recurse[t] > 0 => Type[m] = "Recursive"

OwnerInv == /\ \A m \in Mutexes : CountOK(m)
            /\ \A t \in Threads, m \in Mutexes : OwnerOK(t, m)

\* What SleepqRemove relies on: a queue object per waiter, and a thread off the
\* queues has one.
QueueInv ==
  /\ \A c \in Conds : Len(sleepq[c]) = Len(blocked[c])
  /\ \A t \in Threads : wchan[t] = NULL => sleepqueue[t] # NULL

\* Mutual exclusion, as the guest sees it: two threads were told they hold the
\* same mutex only if one of them is inside a Wait that released it.
MutualExclusion ==
  \A t, u \in Threads, m \in Mutexes :
    (t # u /\ depth[t][m] > 0 /\ depth[u][m] > 0)
      => (Suspended(t, m) \/ Suspended(u, m))

\* sleepq.cpp hands queue objects around: a thread is queued on the condition
\* variable its wchan names and on no other, a queue has one object per waiter,
\* every object is in one place only, a queued thread has a mutex for Signal to
\* look at, and no thread starts a Wait while queued (the ASSERT in Wait).
SleepqConsistent ==
  /\ \A c \in Conds :
       /\ Len(sleepq[c]) = Len(blocked[c])
       /\ \A t \in Threads : InSeq(t, blocked[c]) <=> wchan[t] = c
       /\ \A i, j \in DOMAIN blocked[c] :
            i # j => blocked[c][i] # blocked[c][j] /\ sleepq[c][i] # sleepq[c][j]
       /\ blocked[c] # << >> => hasUserWaiters[c]
  /\ \A t \in Threads :
       /\ wchan[t] # NULL <=> sleepqueue[t] = NULL
       /\ wchan[t] # NULL => mutexObj[t] # NULL /\ pc[t] # "idle"
       /\ \A u \in Threads : t # u /\ sleepqueue[t] = sleepqueue[u] => sleepqueue[t] = NULL
       /\ \A c \in Conds : ~InSeq(sleepqueue[t], sleepq[c])

\* A waiter that a signaller removed from the queue and that is (about to be)
\* asleep has a token, or some thread still has to release its semaphore: the
\* ClearWake of Wait never eats the token of the signal meant for that Wait.
NoLostWakeup ==
  \A t \in Threads :
    (pc[t] \in {"willSleep", "flush", "sleep"} /\ wchan[t] = NULL)
      => \/ wakeSema[t] > 0
         \/ \E u \in Threads : InSeq(t, deferWaiters[u]) \/ InSeq(t, toRelease[u])

\* Nobody can look for waiters between the moment Wait gives up the mutex and
\* the moment it is queued: it holds the sleep queue lock throughout, so a
\* Signal that finds no queue misses no thread that already released its mutex.
NoMissedSignal ==
  \A t \in Threads :
    (call[t] # NULL /\ pc[t] \in {"waitUnlock", "release", "waitAdd"})
      => sleepqLock[call[t]] = t

\* A deferred wake-up is never forgotten: while a thread's list is not empty it
\* still owns a mutex whose Deferred flag will make Unlock run WakeAll, or it is
\* already on its way to WakeAll in Unlock or in Sleep.
DeferFlushed ==
  \A t \in Threads :
    deferWaiters[t] # << >> =>
      \/ \E m \in Mutexes : mOwner[m] = t /\ mDeferred[m]
      \/ deferred[t]
      \/ pc[t] \in {"wakeAll", "waitAdd", "willSleep", "flush"}

\* Wait only ever comes back from Sleep for a reason it knows: removed by a
\* signaller, cancelled or timed out (the UNREACHABLE() at the end of its loop).
NoStrayWake == \A t \in Threads : pc[t] # "unreachable"

\* The calls implement the guest's monitor: Wait takes effect when it clears
\* m_owner, and a waiter counts as waiting until it is taken off the queue.
Monitor == INSTANCE GuestMonitor WITH
  holder  <- mOwner,
  level   <- depth,
  waiting <- [c \in Conds |->
               {t \in Threads : \/ wchan[t] = c
                                \/ call[t] = c /\ pc[t] \in {"release", "waitAdd"}}],
  parked  <- [t \in Threads |->
               IF call[t] # NULL /\ pc[t] # "waitUnlock" THEN mx[t] ELSE NULL]

\* Every step of the library is a step of that monitor, or invisible to it.
ImplementsMonitor == Monitor!MonitorSpec

\* A sleeping thread that was removed from its queue wakes up, once no thread
\* keeps its semaphore in a deferred list.
SignalDelivered ==
  \A t \in Threads :
    (/\ pc[t] = "sleep" /\ wchan[t] = NULL
     /\ \A u \in Threads : ~InSeq(t, deferWaiters[u])) ~> (pc[t] # "sleep")
=============================================================================
