---------------------------- MODULE PthreadRwlock ----------------------------
(***************************************************************************)
(* Guest read-write locks: PthreadRwlock in                                *)
(* core/libraries/kernel/threads/rwlock.cpp over Common::SharedFirstMutex   *)
(* (common/shared_first_mutex.h).  A critical section of                   *)
(* SharedFirstMutex::mtx is one step; the writer's owner field is written  *)
(* outside it, after the lock is taken and before it is given back, and    *)
(* unlock decides by that field whether the caller reads or writes.        *)
(*                                                                         *)
(* The guest unlocks only what it holds, and destroys only what is unused  *)
(* (POSIX leaves the rest undefined).                                      *)
(***************************************************************************)
EXTENDS Integers, FiniteSets

CONSTANTS Threads, Locks, NULL,
          MaxReads     \* bound: read locks a thread holds on one lock

ASSUME RwlockAssumption ==
  /\ MaxReads \in Nat
  /\ NULL \notin Threads \union Locks

VARIABLES
  slot,          \* PthreadRwlockT: "static", "live" or "destroyed"
  readers,       \* SharedFirstMutex::readers
  writerActive,  \* SharedFirstMutex::writer_active
  owner,         \* PthreadRwlock::owner
  rdlockCount,   \* Pthread::rdlock_count
  pc,            \* where the thread is
  lk,            \* the lock its current call works on, or NULL
  timed,         \* the call has an abstime
  asleep,        \* in cv.wait, and not notified since it tested its condition
  reads,         \* history: read locks the guest was told it holds
  writes         \* history: the guest was told it holds the write lock

objVars == <<slot, readers, writerActive, owner>>
ctlVars == <<pc, lk, timed, asleep>>
vars == <<objVars, rdlockCount, ctlVars, reads, writes>>

Init ==
  /\ slot = [l \in Locks |-> "static"]
  /\ readers = [l \in Locks |-> 0]
  /\ writerActive = [l \in Locks |-> FALSE]
  /\ owner = [l \in Locks |-> NULL]
  /\ rdlockCount = [t \in Threads |-> 0]
  /\ pc = [t \in Threads |-> "idle"]
  /\ lk = [t \in Threads |-> NULL]
  /\ timed = [t \in Threads |-> FALSE]
  /\ asleep = [t \in Threads |-> FALSE]
  /\ reads = [t \in Threads |-> [l \in Locks |-> 0]]
  /\ writes = [t \in Threads |-> [l \in Locks |-> FALSE]]

\* CHECK_AND_INIT_RWLOCK: a destroyed slot is refused, a static one initialised.
CheckAndInit(l) ==
  /\ slot[l] # "destroyed"
  /\ slot' = [slot EXCEPT ![l] = "live"]

\* Mutant of CanWrite: a writer does not wait for the readers.
CanWriteOverReaders(l) == ~writerActive[l]

CanRead(l)  == ~writerActive[l]
CanWrite(l) == ~writerActive[l] /\ readers[l] = 0

Goto(t, p, l) == pc' = [pc EXCEPT ![t] = p] /\ lk' = [lk EXCEPT ![t] = l]

\* cv.notify_all() of the lock l
NotifyAll(l) == asleep' = [t \in Threads |-> asleep[t] /\ lk[t] # l]

\* ++readers and ++rdlock_count, which only its own thread uses.
TakeRead(t, l) ==
  /\ readers' = [readers EXCEPT ![l] = @ + 1]
  /\ rdlockCount' = [rdlockCount EXCEPT ![t] = @ + 1]
  /\ reads' = [reads EXCEPT ![t][l] = @ + 1]

-----------------------------------------------------------------------------
\* Rdlock and tryrdlock, when try_lock_shared succeeds; a failing try is EBUSY.
RdlockTry(t, l) ==
  /\ pc[t] = "idle" /\ CanRead(l)
  /\ reads[t][l] < MaxReads
  /\ CheckAndInit(l)
  /\ TakeRead(t, l)
  /\ UNCHANGED <<writerActive, owner, ctlVars, writes>>

\* Rdlock on to lock_shared or try_lock_shared_until, which tests again.
RdlockSlow(t, l, isTimed) ==
  /\ pc[t] = "idle" /\ ~CanRead(l)
  /\ CheckAndInit(l)
  /\ Goto(t, "rdwait", l)
  /\ timed' = [timed EXCEPT ![t] = isTimed]
  /\ UNCHANGED <<readers, writerActive, owner, rdlockCount, asleep, reads, writes>>

RdlockTake(t) ==
  /\ pc[t] = "rdwait" /\ CanRead(lk[t])
  /\ TakeRead(t, lk[t])
  /\ Goto(t, "idle", NULL)
  /\ timed' = [timed EXCEPT ![t] = FALSE]
  /\ asleep' = [asleep EXCEPT ![t] = FALSE]
  /\ UNCHANGED <<slot, writerActive, owner, writes>>

RdlockSleep(t) ==
  /\ pc[t] = "rdwait" /\ ~CanRead(lk[t]) /\ ~asleep[t]
  /\ asleep' = [asleep EXCEPT ![t] = TRUE]
  /\ UNCHANGED <<objVars, rdlockCount, pc, lk, timed, reads, writes>>

\* Wrlock and trywrlock, when try_lock succeeds.
WrlockTry(t, l) ==
  /\ pc[t] = "idle" /\ CanWrite(l)
  /\ CheckAndInit(l)
  /\ writerActive' = [writerActive EXCEPT ![l] = TRUE]
  /\ Goto(t, "own", l)
  /\ UNCHANGED <<readers, owner, rdlockCount, timed, asleep, reads, writes>>

WrlockSlow(t, l, isTimed) ==
  /\ pc[t] = "idle" /\ ~CanWrite(l)
  /\ CheckAndInit(l)
  /\ Goto(t, "wrwait", l)
  /\ timed' = [timed EXCEPT ![t] = isTimed]
  /\ UNCHANGED <<readers, writerActive, owner, rdlockCount, asleep, reads, writes>>

WrlockTake(t) ==
  /\ pc[t] = "wrwait" /\ CanWrite(lk[t])
  /\ writerActive' = [writerActive EXCEPT ![lk[t]] = TRUE]
  /\ Goto(t, "own", lk[t])
  /\ timed' = [timed EXCEPT ![t] = FALSE]
  /\ asleep' = [asleep EXCEPT ![t] = FALSE]
  /\ UNCHANGED <<slot, readers, owner, rdlockCount, reads, writes>>

WrlockSleep(t) ==
  /\ pc[t] = "wrwait" /\ ~CanWrite(lk[t]) /\ ~asleep[t]
  /\ asleep' = [asleep EXCEPT ![t] = TRUE]
  /\ UNCHANGED <<objVars, rdlockCount, pc, lk, timed, reads, writes>>

\* owner = curthread
WrlockOwn(t) ==
  /\ pc[t] = "own"
  /\ owner' = [owner EXCEPT ![lk[t]] = t]
  /\ writes' = [writes EXCEPT ![t][lk[t]] = TRUE]
  /\ Goto(t, "idle", NULL)
  /\ UNCHANGED <<slot, readers, writerActive, rdlockCount, timed, asleep, reads>>

\* wait_until tests the condition when the time is up; an invalid abstime is
\* refused the same way.
Timeout(t) ==
  /\ timed[t]
  /\ \/ pc[t] = "rdwait" /\ ~CanRead(lk[t])
     \/ pc[t] = "wrwait" /\ ~CanWrite(lk[t])
  /\ Goto(t, "idle", NULL)
  /\ timed' = [timed EXCEPT ![t] = FALSE]
  /\ asleep' = [asleep EXCEPT ![t] = FALSE]
  /\ UNCHANGED <<objVars, rdlockCount, reads, writes>>

-----------------------------------------------------------------------------
\* unlock by the thread that owner names: owner = nullptr, then lock.unlock().
UnlockOwner(t, l) ==
  /\ pc[t] = "idle" /\ slot[l] = "live" /\ owner[l] = t
  /\ reads[t][l] > 0 \/ writes[t][l]
  /\ owner' = [owner EXCEPT ![l] = NULL]
  /\ writes' = [writes EXCEPT ![t][l] = FALSE]
  /\ Goto(t, "unlock", l)
  /\ UNCHANGED <<slot, readers, writerActive, rdlockCount, timed, asleep, reads>>

\* Mutant of UnlockWriter: notifies nobody.
UnlockWriterSilent(t) ==
  /\ pc[t] = "unlock"
  /\ writerActive' = [writerActive EXCEPT ![lk[t]] = FALSE]
  /\ Goto(t, "idle", NULL)
  /\ UNCHANGED <<slot, readers, owner, rdlockCount, timed, asleep, reads, writes>>

UnlockWriter(t) ==
  /\ pc[t] = "unlock"
  /\ writerActive' = [writerActive EXCEPT ![lk[t]] = FALSE]
  /\ NotifyAll(lk[t])
  /\ Goto(t, "idle", NULL)
  /\ UNCHANGED <<slot, readers, owner, rdlockCount, timed, reads, writes>>

\* Mutants of UnlockReader: rdlock_count keeps its value; the last reader
\* notifies nobody.
UnlockReaderUncounted(t, l) ==
  /\ pc[t] = "idle" /\ slot[l] = "live" /\ owner[l] # t
  /\ reads[t][l] > 0 \/ writes[t][l]
  /\ readers' = [readers EXCEPT ![l] = @ - 1]
  /\ IF readers[l] = 1 THEN NotifyAll(l) ELSE UNCHANGED asleep
  /\ reads' = [reads EXCEPT ![t][l] = @ - 1]
  /\ UNCHANGED <<slot, writerActive, owner, rdlockCount, pc, lk, timed, writes>>
UnlockReaderSilent(t, l) ==
  /\ pc[t] = "idle" /\ slot[l] = "live" /\ owner[l] # t
  /\ reads[t][l] > 0 \/ writes[t][l]
  /\ rdlockCount' = [rdlockCount EXCEPT ![t] = @ - 1]
  /\ readers' = [readers EXCEPT ![l] = @ - 1]
  /\ reads' = [reads EXCEPT ![t][l] = @ - 1]
  /\ UNCHANGED <<slot, writerActive, owner, ctlVars, writes>>

\* unlock by any other thread gives back a read lock.
UnlockReader(t, l) ==
  /\ pc[t] = "idle" /\ slot[l] = "live" /\ owner[l] # t
  /\ reads[t][l] > 0 \/ writes[t][l]
  /\ rdlockCount' = IF owner[l] = NULL THEN [rdlockCount EXCEPT ![t] = @ - 1]
                                       ELSE rdlockCount
  /\ readers' = [readers EXCEPT ![l] = @ - 1]
  /\ IF readers[l] = 1 THEN NotifyAll(l) ELSE UNCHANGED asleep
  /\ reads' = [reads EXCEPT ![t][l] = @ - 1]
  /\ UNCHANGED <<slot, writerActive, owner, pc, lk, timed, writes>>

\* posix_pthread_rwlock_init and posix_pthread_rwlock_destroy.
RwlockInit(t, l) ==
  /\ pc[t] = "idle" /\ slot[l] # "live"
  /\ slot' = [slot EXCEPT ![l] = "live"]
  /\ UNCHANGED <<readers, writerActive, owner, rdlockCount, ctlVars, reads, writes>>

RwlockDestroy(t, l) ==
  /\ pc[t] = "idle" /\ slot[l] = "live"
  /\ \A u \in Threads : lk[u] # l /\ reads[u][l] = 0 /\ ~writes[u][l]
  /\ slot' = [slot EXCEPT ![l] = "destroyed"]
  /\ UNCHANGED <<readers, writerActive, owner, rdlockCount, ctlVars, reads, writes>>

LibraryStep(t) ==
  \/ RdlockTake(t) \/ RdlockSleep(t) \/ WrlockTake(t) \/ WrlockSleep(t)
  \/ WrlockOwn(t) \/ UnlockWriter(t)

Next ==
  \E t \in Threads :
    \/ LibraryStep(t) \/ Timeout(t)
    \/ \E l \in Locks :
         \/ RdlockTry(t, l) \/ WrlockTry(t, l)
         \/ \E isTimed \in BOOLEAN : RdlockSlow(t, l, isTimed) \/ WrlockSlow(t, l, isTimed)
         \/ UnlockOwner(t, l) \/ UnlockReader(t, l)
         \/ RwlockInit(t, l) \/ RwlockDestroy(t, l)

Spec == Init /\ [][Next]_vars

\* The host scheduler runs a thread that was notified or never slept.
Fairness == \A t \in Threads : WF_vars(~asleep[t] /\ LibraryStep(t))
FairSpec == Spec /\ Fairness

-----------------------------------------------------------------------------
TypeOK ==
  /\ slot \in [Locks -> {"static", "live", "destroyed"}]
  /\ readers \in [Locks -> Nat]
  /\ writerActive \in [Locks -> BOOLEAN]
  /\ owner \in [Locks -> Threads \union {NULL}]
  /\ rdlockCount \in [Threads -> Nat]
  /\ pc \in [Threads -> {"idle", "rdwait", "wrwait", "own", "unlock"}]
  /\ lk \in [Threads -> Locks \union {NULL}]
  /\ timed \in [Threads -> BOOLEAN]
  /\ asleep \in [Threads -> BOOLEAN]
  /\ reads \in [Threads -> [Locks -> 0 .. MaxReads + 1]]
  /\ writes \in [Threads -> [Locks -> BOOLEAN]]

\* A writer is alone: while a thread was told it holds the write lock, no other
\* thread holds it and nobody, itself included, holds a read lock.
WriterAlone ==
  \A t, u \in Threads, l \in Locks :
    writes[t][l] => /\ reads[u][l] = 0
                    /\ u # t => ~writes[u][l]

\* The counters agree with what the guest was told: readers with the read locks
\* held on a lock, rdlock_count with the read locks held by a thread (unlock
\* only counts down when it sees no owner, which a reader must always see).
ReadsOn(l) == {r \in Threads \X (1 .. MaxReads + 1) : r[2] <= reads[r[1]][l]}
ReadsBy(t) == {r \in Locks \X (1 .. MaxReads + 1) : r[2] <= reads[t][r[1]]}
CountsAgree ==
  /\ \A l \in Locks : readers[l] = Cardinality(ReadsOn(l))
  /\ \A t \in Threads : rdlockCount[t] = Cardinality(ReadsBy(t))

\* owner is never stale: it names a thread only while that thread holds the
\* write lock, so unlock takes the right branch for readers and for writers.
OwnerFresh ==
  \A t \in Threads, l \in Locks : owner[l] = t <=> writes[t][l]

\* No lost wake-up: a waiter sleeps un-notified only while its condition is false.
NoLostWakeup ==
  \A t \in Threads : asleep[t] =>
    \/ pc[t] = "rdwait" /\ ~CanRead(lk[t])
    \/ pc[t] = "wrwait" /\ ~CanWrite(lk[t])

\* A waiter that could have the lock does not sleep through it: it takes it, or
\* another thread takes it first.
FreeLockTaken ==
  \A t \in Threads :
    /\ (pc[t] = "rdwait" /\ CanRead(lk[t])) ~> (pc[t] # "rdwait" \/ ~CanRead(lk[t]))
    /\ (pc[t] = "wrwait" /\ CanWrite(lk[t])) ~> (pc[t] # "wrwait" \/ ~CanWrite(lk[t]))
=============================================================================
