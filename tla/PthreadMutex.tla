---------------------------- MODULE PthreadMutex ----------------------------
(***************************************************************************)
(* The guest mutex of the kernel library: PthreadMutex in                  *)
(* core/libraries/kernel/threads/{pthread.h,mutex.cpp}, together with the   *)
(* part of Pthread that Unlock touches (will_sleep, the deferred wake list *)
(* and the per-thread wake semaphore).  Module PthreadCond adds condition  *)
(* variables and the next-state relation.                                  *)
(*                                                                         *)
(* A thread runs one library call at a time; pc says where it is between   *)
(* two steps other threads can observe.  A call that returns an error code *)
(* without writing anything (EPERM, EBUSY, EDEADLK, EAGAIN, EINVAL) is a   *)
(* stuttering step and is not written out.                                 *)
(***************************************************************************)
EXTENDS Integers, Sequences, FiniteSets

CONSTANTS Threads,       \* guest threads (Pthread objects)
          Mutexes,       \* guest mutex slots (PthreadMutexT variables)
          Conds,         \* guest condition variables
          Type,          \* [Mutexes -> MutexTypes], PthreadMutex::Type()
          GuestPrograms, \* the sets of optional calls a guest program may make
          MaxRecursion,  \* bound: deepest m_count a guest reaches
          NULL           \* nullptr

MutexTypes == {"ErrorCheck", "Recursive", "Normal", "AdaptiveNp"}

OptionalOps == {"trylock", "timedlock", "mutex_destroy", "timedwait",
                "broadcast", "signalto_np", "cancel", "setcancelstate", "exit",
                "cond_destroy"}

ASSUME MutexAssumption ==
  /\ Type \in [Mutexes -> MutexTypes]
  /\ GuestPrograms \subseteq SUBSET OptionalOps
  /\ MaxRecursion \in Nat
  /\ NULL \notin Threads \union Mutexes \union Conds

VARIABLES
  guestOps,      \* the optional calls this guest program makes
  slot,          \* PthreadMutexT: "static", "live" or "destroyed"
  mLock,         \* m_lock: the thread that holds the host mutex, or NULL
  mOwner,        \* m_owner
  mCount,        \* m_count
  mDeferred,     \* PthreadMutexFlags::Deferred
  wakeSema,      \* Pthread::wake_sema, tokens available
  willSleep,     \* Pthread::will_sleep
  deferWaiters,  \* Pthread::defer_waiters[0 .. nwaiter_defer - 1]
  pc,            \* where the thread is
  mx,            \* the mutex its current call works on, or NULL
  timed,         \* its current call has a timeout
  deferred,      \* Unlock's local: the Deferred flag it found
  call,          \* the condition variable whose Wait it is in, or NULL
  recurse,       \* Wait's local: the m_count CvUnlock saved
  depth          \* history: how often the guest was told it locked m

objVars  == <<slot, mLock, mOwner, mCount, mDeferred>>
wakeVars == <<wakeSema, willSleep, deferWaiters>>
ctlVars  == <<pc, mx, timed, deferred, call, recurse>>

MutexPcs == {"idle", "lock", "own", "release", "wakeAll", "aborted"}

InitMutexes ==
  /\ guestOps \in GuestPrograms
  /\ slot = [m \in Mutexes |-> "static"]
  /\ mLock = [m \in Mutexes |-> NULL]
  /\ mOwner = [m \in Mutexes |-> NULL]
  /\ mCount = [m \in Mutexes |-> 0]
  /\ mDeferred = [m \in Mutexes |-> FALSE]
  /\ wakeSema = [t \in Threads |-> 0]
  /\ willSleep = [t \in Threads |-> FALSE]
  /\ deferWaiters = [t \in Threads |-> << >>]
  /\ pc = [t \in Threads |-> "idle"]
  /\ mx = [t \in Threads |-> NULL]
  /\ timed = [t \in Threads |-> FALSE]
  /\ deferred = [t \in Threads |-> FALSE]
  /\ call = [t \in Threads |-> NULL]
  /\ recurse = [t \in Threads |-> 0]
  /\ depth = [t \in Threads |-> [m \in Mutexes |-> 0]]

Goto(t, l) == pc' = [pc EXCEPT ![t] = l]

\* A call that takes no further step: the thread returns to guest code.
Return(t) ==
  /\ Goto(t, "idle")
  /\ mx' = [mx EXCEPT ![t] = NULL]
  /\ timed' = [timed EXCEPT ![t] = FALSE]

\* BinarySemaphore::release on each semaphore of the sequence s.
Tokens(s, t) == Cardinality({i \in DOMAIN s : s[i] = t})
ReleaseAll(s) == wakeSema' = [t \in Threads |-> wakeSema[t] + Tokens(s, t)]

-----------------------------------------------------------------------------
\* CHECK_AND_INIT_MUTEX: a statically initialised or destroyed slot gets a
\* fresh object of the default or the adaptive type, which differ only in how
\* long they spin; a mutex of another type is used after mutex_init only.
\* Destroy resets the fields, so only the slot changes here.
CheckAndInit(m) ==
  /\ slot[m] = "live" \/ Type[m] \in {"ErrorCheck", "AdaptiveNp"}
  /\ slot' = [slot EXCEPT ![m] = "live"]

\* posix_pthread_mutex_init, on a slot that holds no object.
MutexInit(t, m) ==
  /\ pc[t] = "idle" /\ slot[m] # "live"
  /\ slot' = [slot EXCEPT ![m] = "live"]
  /\ UNCHANGED <<mLock, mOwner, mCount, mDeferred, wakeVars, ctlVars, depth>>

\* Lock, the caller already owning the mutex (SelfLock, SelfTryLock).  Only a
\* recursive mutex counts up; m_count is bounded by MaxRecursion.
LockSelfRecursive(t, m) ==
  /\ pc[t] = "idle" /\ slot[m] = "live" /\ mOwner[m] = t
  /\ Type[m] = "Recursive"
  /\ mCount[m] < MaxRecursion
  /\ mCount' = [mCount EXCEPT ![m] = @ + 1]
  /\ depth' = [depth EXCEPT ![t][m] = @ + 1]
  /\ UNCHANGED <<slot, mLock, mOwner, mDeferred, wakeVars, ctlVars>>

\* SelfLock on a normal mutex without a timeout: UNREACHABLE_MSG.
LockSelfNormal(t, m) ==
  /\ pc[t] = "idle" /\ slot[m] = "live" /\ mOwner[m] = t
  /\ Type[m] = "Normal"
  /\ Goto(t, "aborted")
  /\ UNCHANGED <<objVars, wakeVars, mx, timed, deferred, call, recurse, depth>>

\* Lock by a thread that is not the owner: it will contend for m_lock.
LockBegin(t, m, isTimed) ==
  /\ pc[t] = "idle" /\ mOwner[m] # t
  /\ isTimed => "timedlock" \in guestOps
  /\ CheckAndInit(m)
  /\ Goto(t, "lock")
  /\ mx' = [mx EXCEPT ![t] = m]
  /\ timed' = [timed EXCEPT ![t] = isTimed]
  /\ UNCHANGED <<mLock, mOwner, mCount, mDeferred, wakeVars,
                 deferred, call, recurse, depth>>

\* TryLock that gets m_lock; a failing one returns EBUSY.
TryLock(t, m) ==
  /\ "trylock" \in guestOps
  /\ pc[t] = "idle" /\ mOwner[m] # t /\ mLock[m] = NULL
  /\ CheckAndInit(m)
  /\ mLock' = [mLock EXCEPT ![m] = t]
  /\ Goto(t, "own")
  /\ mx' = [mx EXCEPT ![t] = m]
  /\ UNCHANGED <<mOwner, mCount, mDeferred, wakeVars, timed,
                 deferred, call, recurse, depth>>

\* Mutant of LockAcquire: does not wait for m_lock.
LockAcquireUnguarded(t) ==
  /\ pc[t] = "lock"
  /\ mLock' = [mLock EXCEPT ![mx[t]] = t]
  /\ Goto(t, "own")
  /\ UNCHANGED <<slot, mOwner, mCount, mDeferred, wakeVars, mx, timed,
                 deferred, call, recurse, depth>>

\* m_lock.lock(), try_lock in the spin loops, try_lock_for, try_lock_until.
LockAcquire(t) ==
  /\ pc[t] = "lock" /\ mLock[mx[t]] = NULL
  /\ mLock' = [mLock EXCEPT ![mx[t]] = t]
  /\ Goto(t, "own")
  /\ UNCHANGED <<slot, mOwner, mCount, mDeferred, wakeVars, mx, timed,
                 deferred, call, recurse, depth>>

\* The timeout of a timed lock expires (or its abstime is invalid).
LockTimeout(t) ==
  /\ pc[t] = "lock" /\ timed[t]
  /\ Return(t)
  /\ UNCHANGED <<objVars, wakeVars, deferred, call, recurse, depth>>

\* Mutant of SetOwner: CvLock does not restore m_count.
SetOwnerNoRecurse(t) ==
  /\ pc[t] = "own"
  /\ mOwner' = [mOwner EXCEPT ![mx[t]] = t]
  /\ depth' = IF call[t] = NULL THEN [depth EXCEPT ![t][mx[t]] = 1] ELSE depth
  /\ call' = [call EXCEPT ![t] = NULL]
  /\ recurse' = [recurse EXCEPT ![t] = 0]
  /\ Return(t)
  /\ UNCHANGED <<slot, mLock, mCount, mDeferred, wakeVars, deferred>>

\* m_owner = curthread, after m_lock was acquired; in CvLock, m_count = recurse
\* follows and Wait returns.
SetOwner(t) ==
  LET m == mx[t] IN
  /\ pc[t] = "own"
  /\ mOwner' = [mOwner EXCEPT ![m] = t]
  /\ mCount' = IF call[t] = NULL THEN mCount
                                 ELSE [mCount EXCEPT ![m] = recurse[t]]
  /\ depth' = IF call[t] = NULL THEN [depth EXCEPT ![t][m] = 1] ELSE depth
  /\ call' = [call EXCEPT ![t] = NULL]
  /\ recurse' = [recurse EXCEPT ![t] = 0]
  /\ Return(t)
  /\ UNCHANGED <<slot, mLock, mDeferred, wakeVars, deferred>>

-----------------------------------------------------------------------------
\* Mutant of UnlockRecursive: counts down without looking at m_count.
UnlockRecursiveAlways(t, m) ==
  /\ pc[t] = "idle" /\ mOwner[m] = t
  /\ Type[m] = "Recursive"
  /\ mCount' = [mCount EXCEPT ![m] = @ - 1]
  /\ depth' = [depth EXCEPT ![t][m] = @ - 1]
  /\ UNCHANGED <<slot, mLock, mOwner, mDeferred, wakeVars, ctlVars>>

\* Unlock of a recursive mutex locked more than once.
UnlockRecursive(t, m) ==
  /\ pc[t] = "idle" /\ mOwner[m] = t
  /\ Type[m] = "Recursive" /\ mCount[m] > 0
  /\ mCount' = [mCount EXCEPT ![m] = @ - 1]
  /\ depth' = [depth EXCEPT ![t][m] = @ - 1]
  /\ UNCHANGED <<slot, mLock, mOwner, mDeferred, wakeVars, ctlVars>>

\* Mutant of DropOwner: clears the Deferred flag without looking at it.
DropOwnerForgets(t, m) ==
  /\ mDeferred' = [mDeferred EXCEPT ![m] = FALSE]
  /\ mOwner' = [mOwner EXCEPT ![m] = NULL]
  /\ Goto(t, "release")
  /\ mx' = [mx EXCEPT ![t] = m]
  /\ UNCHANGED deferred

\* The first half of a final Unlock: fetch and clear the Deferred flag, clear
\* m_owner.  m_lock is released in a step of its own.
DropOwner(t, m) ==
  /\ deferred' = [deferred EXCEPT ![t] = mDeferred[m]]
  /\ mDeferred' = [mDeferred EXCEPT ![m] = FALSE]
  /\ mOwner' = [mOwner EXCEPT ![m] = NULL]
  /\ Goto(t, "release")
  /\ mx' = [mx EXCEPT ![t] = m]

UnlockBegin(t, m) ==
  /\ pc[t] = "idle" /\ mOwner[m] = t
  /\ ~(Type[m] = "Recursive" /\ mCount[m] > 0)
  /\ DropOwner(t, m)
  /\ depth' = [depth EXCEPT ![t][m] = 0]
  /\ UNCHANGED <<slot, mLock, mCount, wakeVars, timed, call, recurse>>

\* m_lock.unlock(), and the test that decides whether to run WakeAll.
UnlockRelease(t) ==
  /\ pc[t] = "release"
  /\ mLock' = [mLock EXCEPT ![mx[t]] = NULL]
  /\ IF ~willSleep[t] /\ deferred[t]
       THEN Goto(t, "wakeAll") /\ UNCHANGED <<mx, timed>>
       ELSE IF call[t] = NULL
              THEN Return(t)
              ELSE Goto(t, "waitAdd") /\ UNCHANGED <<mx, timed>>
  /\ deferred' = [deferred EXCEPT ![t] = FALSE]
  /\ UNCHANGED <<slot, mOwner, mCount, mDeferred, wakeVars, call, recurse, depth>>

\* Mutant of WakeAllNext: nwaiter_defer is not reset.
WakeAllNoReset(t, done) ==
  /\ ReleaseAll(deferWaiters[t])
  /\ done
  /\ UNCHANGED deferWaiters

\* One iteration of Pthread::WakeAll, or its end.
WakeAllNext(t, done) ==
  IF deferWaiters[t] # << >>
    THEN /\ ReleaseAll(<<Head(deferWaiters[t])>>)
         /\ deferWaiters' = [deferWaiters EXCEPT ![t] = Tail(@)]
         /\ UNCHANGED <<pc, mx, timed>>
    ELSE /\ done
         /\ UNCHANGED <<wakeSema, deferWaiters>>

UnlockWakeAll(t) ==
  /\ pc[t] = "wakeAll"
  /\ WakeAllNext(t, Return(t))
  /\ UNCHANGED <<objVars, willSleep, deferred, call, recurse, depth>>

\* posix_pthread_mutex_destroy.  EBUSY if owned; the guest must not destroy a
\* mutex another call is using (POSIX leaves that undefined).
MutexDestroy(t, m) ==
  /\ "mutex_destroy" \in guestOps
  /\ pc[t] = "idle" /\ slot[m] = "live" /\ mOwner[m] = NULL
  /\ \A u \in Threads : mx[u] # m
  /\ slot' = [slot EXCEPT ![m] = "destroyed"]
  /\ mCount' = [mCount EXCEPT ![m] = 0]
  /\ mDeferred' = [mDeferred EXCEPT ![m] = FALSE]
  /\ UNCHANGED <<mLock, mOwner, wakeVars, ctlVars, depth>>
-----------------------------------------------------------------------------
MutexTypeOK ==
  /\ slot \in [Mutexes -> {"static", "live", "destroyed"}]
  /\ mLock \in [Mutexes -> Threads \union {NULL}]
  /\ mOwner \in [Mutexes -> Threads \union {NULL}]
  /\ mCount \in [Mutexes -> 0 .. MaxRecursion]
  /\ mDeferred \in [Mutexes -> BOOLEAN]
  /\ wakeSema \in [Threads -> Nat]
  /\ willSleep \in [Threads -> BOOLEAN]
  /\ deferWaiters \in [Threads -> Seq(Threads)]
  /\ mx \in [Threads -> Mutexes \union {NULL}]
  /\ timed \in [Threads -> BOOLEAN]
  /\ deferred \in [Threads -> BOOLEAN]
  /\ call \in [Threads -> Conds \union {NULL}]
  /\ recurse \in [Threads -> 0 .. MaxRecursion]
  /\ depth \in [Threads -> [Mutexes -> 0 .. MaxRecursion + 1]]
=============================================================================
