# Verification of the AetherPS4 kernel

AetherPS4 runs PlayStation 4 programs. Guest threads are host threads, and every kernel
call that the guest makes is implemented by the emulator's own library. This directory
holds TLA+ specifications of the parts of it that threads share: mutexes, condition
variables, semaphores, event flags, read-write locks, the threads themselves, event
queues with their timers, video output with its flips, and the guest memory manager with
the cache in front of it. TLC checks them on small instances; TLAPS proves the safety
properties that the runs check, and a refinement, for every instance.

Paths below are relative to `src/src/core/libraries/kernel/threads/` unless they say
otherwise.

## 1. The system

| Component | State | Operations | What is hard |
|---|---|---|---|
| guest mutexes (`mutex.cpp`, `pthread.h`) | `m_lock`, `m_owner`, `m_count`, the Deferred flag; the slot that is initialised on first use | lock, timed lock, trylock, unlock, init, destroy | `m_owner` and `m_count` move outside `m_lock`; unlock also delivers wake-ups that a signal deferred |
| condition variables and sleep queues (`condvar.cpp`, `sleepq.cpp`) | hashed queues, queue objects that threads exchange, one wake semaphore and one deferred list per thread | wait, timed wait, signal, signalto_np, broadcast, init, destroy | release-and-sleep, wake-ups that follow the critical section, timeouts that race with them, list limits |
| thread life cycle (`pthread.cpp`, `thread_state.cpp`) | thread states, reference counts, gc list | create, exit, join, detach, references, cancel, once | a thread is freed while others, or it itself, still hold pointers to it; memory reused for the next thread |
| kernel semaphores (`semaphore.cpp`) | token count, wait list, one flag and one host semaphore per waiter | create, wait, poll, signal, cancel, delete | a timeout races with a signal that has paid; order of service; a delete frees the object under its waiters |
| event flags (`event_flag.cpp`) | bits, waiter count, status | create, wait, poll, set, clear, cancel, delete | Cancel polls with the mutex released until the waiters are gone |
| read-write locks (`rwlock.cpp`, `common/shared_first_mutex.h`) | reader count, writer bit, owner, per-thread read count | rdlock, wrlock, try and timed forms, unlock, init, destroy | unlock decides by the owner field, which is outside the lock |
| event queues (`../equeue.cpp`, `../kernel.cpp`) | registered and triggered events, timers, requests to the service thread | add, delete, trigger, wait, poll | notify_one with several waiters, after the mutex is released; timers that re-arm; the hand-over to the service thread |
| asynchronous I/O (`../aio.cpp`) | request table | submit, poll, wait, cancel, delete | states read without a lock |
| video output (`core/libraries/videoout`, flips of `video_core/amdgpu/liverpool.cpp`) | port, buffers, flip queue, labels and their generations | open, close, register, submit, present, retire | guest, GPU and present threads change labels and the pending count; a buffer is locked again while its release is on its way; the GPU thread waits for labels and for presentation frames |
| memory manager (`core/memory.cpp`, `core/address_space.cpp`) | VMAs, direct and flexible memory | map, unmap, protect, allocate, release, pool expand, commit, decommit, query | two locks with checks before and between them; overlapping mappings and aliases; counters that must match the maps |
| validation cache (`core/memory_map_generation.h`, `core/guest_cpu/guest_memory_validation_cache.h`) | generation counter, four cached ranges per thread | begin and end of a mutation, lookup, store | a stale entry used after a change of the map |
| GPU: command processor, scheduler, caches (`video_core`) | command queues, ticks, page tracking | submit, wait, recycle | resources recycled before the GPU is done |
| loader, file system, guest CPU, iOS JIT allocator, HLE libraries, front ends | | | mostly sequential, or the binding of vendored code |

Interaction. The objects are called by guest threads through the HLE bridge. Condition variables
own part of the mutex protocol: Wait releases and retakes the mutex through CvUnlock and CvLock,
Signal puts its wake-up on the list of the thread that owns the waiter's mutex, and Unlock
flushes that list. Cancellation writes into a waiting thread, and the thread's own cancel state
decides whether it sees that. Semaphores, event flags and read-write locks are self-contained:
each waits on host primitives of its own. Event queues are triggered by guest threads, by the
kernel service thread, which runs the timers, and by the present thread of the video output,
which in turn shares the labels of buffers and the presentation frames with the GPU thread. The
guest CPU asks the memory manager whether it may access a range, and keeps the answers per
thread.

What makes each component correct:

- mutexes: mutual exclusion as the guest sees it; the recursion depth agrees with
  `m_owner`, `m_count` and `m_lock` at every step, across waits;
- condition variables: a signal that finds a waiter wakes it, exactly once, and not in
  a later wait; no waiter is missed between the release of the mutex and the queue; the
  queue objects are neither lost nor shared;
- semaphores: tokens are conserved; nobody sleeps on tokens it could have; waiters are
  served in order;
- event flags: nobody sleeps on a condition that holds; Cancel turns away everybody it
  found before it returns, and it does return;
- read-write locks: a writer is alone; the counters and the owner agree with what the
  guest holds; nobody sleeps on a lock it could have;
- threads: a Pthread is not collected while a call uses it, and is collected in the end;
  its memory is in one place at a time; a once-routine completes once; joins return;
- event queues: an event that was triggered does not leave all waiters asleep; a timer
  that was armed expires;
- video output: the pending count is the number of flips not shown; a retirement does not
  release a buffer that was locked again; the GPU's wait for a buffer ends; a flip of the
  command stream finds room;
- memory: the cache never promises an access that the map forbids; flexible memory and
  the pool budget match the maps, as far as the code keeps them (section 3, disagreements);
  a direct mapping does not outlive its pages.

## 2. Modules

| Module | Models | Used by |
|---|---|---|
| `PthreadMutex` | `PthreadMutex`, `Pthread::WakeAll`, wake semaphores; actions only | `PthreadCond` |
| `PthreadCond` | condition variables, sleep queues, `posix_pthread_cancel`, `setcancelstate` and the start of `posix_pthread_exit`; composes with the mutexes into `Spec` | `MCPthreadCond`, `PthreadCond_proofs`, `PthreadMonitor_proofs` |
| `GuestMonitor` | abstract specification: a monitor with atomic release-and-wait | `PthreadCond` (`ImplementsMonitor`) |
| `KernelSema` | `OrbisSem` and `sceKernel*Sema` | `MCKernelSema`, `KernelSema_proofs` |
| `EventFlag` | `EventFlagInternal` and `sceKernel*EventFlag` | `MCEventFlag`, `EventFlag_proofs` |
| `PthreadRwlock` | `PthreadRwlock` over `SharedFirstMutex` | `MCPthreadRwlock`, `PthreadRwlock_proofs` |
| `ThreadState` | `ThreadState`, create, exit, join, detach, `RefAdd`/`RefDelete`, `pthread_once` | `MCThreadState`, `ThreadState_proofs` |
| `Equeue` | `EqueueInternal`, the `sceKernel*Event` calls, `KernelServiceThread`; actions only | `VideoOut` |
| `VideoOut` | `VideoOutDriver`, `FlipLabelTracker`, the presentation frames of `Presenter`, the GPU thread as far as flips need it; composes with the event queue into `Spec` | `MCVideoOut`, `VideoOut_proofs` |
| `GuestMemory` | `MemoryManager`, `MemoryMapGeneration`, `GuestMemoryValidationCache`, `ValidateGuestMemory` | `MCGuestMemory`, `GuestMemory_proofs` |

A definition whose name ends a comment "Mutant of X" is a plausible mistake in X. It is
used nowhere in the specifications; substituted for X it makes a property of a run
fail, which shows that the property depends on X.

### Granularity

A thread is inside at most one call, and `pc` tells where. A step is what another thread
can observe as one: a critical section of a spin lock or `std::mutex` is one step,
unless the thread can be seen inside it. The exceptions:

- Wait holds the sleep queue lock while it gives up the mutex (`WaitBegin`, `WaitCvUnlock`,
  `UnlockRelease`, `WaitAdd`), and the mutex can change hands between;
- `m_owner` is set after `m_lock` is taken and cleared before it is released, both without
  protection (`LockAcquire`/`SetOwner`, `DropOwner`/`UnlockRelease`);
- wake-ups that follow the critical section are one step per semaphore (`PostRelease`,
  `UnlockWakeAll`);
- Broadcast and the scan of `OrbisSem::Signal` take one step per waiter;
- the owner of a read-write lock is written outside `SharedFirstMutex::mtx` (`WrlockOwn`,
  `UnlockOwner`);
- TryCollect lets go of the thread between its two tests, and of the list before the thread
  (`TryCollect`, `Recheck`, `Unlock`); Alloc tests, counts, takes, constructs and links in
  separate steps, and Free returns the memory before it counts it (`FreeThread`, `Uncount`);
  `ExitThread` goes on using its slot after `TidTerminated` (`Terminate`, `NativeExit`);
- `sceKernelDeleteSema` releases the waiters under the mutex and erases the object without it
  (`Delete`, `Erase`);
- TriggerEvent notifies after it has released `m_mutex`; a poll reads and clears without it; the
  expiry of a timer asks whether the event exists and triggers it in two critical sections
  (`Callback`, `CallbackTrigger`), and the deletion of a high-resolution timer asks for small
  timers and removes in two (`DeleteHRTimerEvent`, `DeleteHRTimer`); the service thread's
  `run()`, `restart()` and `asio_requests = 0` are apart;
- SubmitFlip counts a flip in one step and sends it in another; the GPU thread waits for a
  presentation frame before it queues one (`PrepareFrame`); the present thread shows a flip,
  which frees its frame, changes the status, triggers each event, releases the label and saves
  `prev_index` in separate steps, and a retirement is decided and carried out in two;
- a change of the memory map is a call (with its unlocked check), the checks under
  `unmap_mutex`, the writer lock with the first half of the generation, the change, and the
  second half (`Call`, `Lock`, `Begin`, `Apply`, `Finish`).

Coarser than the code, on purpose: the look-up of a semaphore (`is_allocated`) and the lock
of its mutex are one step; so are the test of the cache of threads and the return to the heap
in `ThreadState::Free`; a blank frame is taken, shown and freed in one; open, close,
register and unregister of the video output are one each. The loops of the memory manager
that carve area by area run under the writer lock, so nobody sees them half done: a mapping
of flexible memory takes the lowest free pages (`Carve`), which is what the loop takes.

A call that returns an error without writing anything is a stuttering step and is not
written out. Times are not modelled except for the arithmetic on `*timeout` in
`KernelSema`; a timed call may expire at any moment at which the code would find its
condition false.

### Correspondence of state

`PthreadMutex`/`PthreadCond`: `slot` is the guest's pointer variable (static initialiser,
object, destroyed); `mLock`, `mOwner`, `mCount`, `mDeferred` are fields of the mutex;
`wakeSema`, `willSleep`, `deferWaiters`, `sleepqueue`, `wchan`, `mutexObj`, `cancelPending` are
fields of `Pthread`; `cancelState` stands for `cancel_enable` and `no_cancel` (enabled,
disabled, exiting), and `ShouldCancel` reads it; `guestOps` is the set of optional calls that
the guest of this behaviour makes, one of `GuestPrograms`; `blocked` and `sleepq` are
`sq_blocked` and the active queue followed by `sq_freeq`; `toRelease` is `waddr` or `waddrs`.
`depth` is a history variable: how often the guest was told that it locked the mutex.

`KernelSema`: `taken` is history, the tokens that waits returned with, less those signalled.
`deleting` are the threads between the two halves of a delete. `flag` stands for the three
booleans of `WaitingThread`, at most one of which is ever set.

`EventFlag`: a pattern is the set of its 1 bits; `asleep` says that the thread has not
been notified since it last tested its condition; `counted` is history, the waiters that
the current Cancel found.

`PthreadRwlock`: `reads` and `writes` are history, what the guest was told it holds.

`ThreadState`: a slot is a Pthread of the thread heap; `pt` has its fields, `run` says
where the host thread that runs in it is. `work` is Collect's `work_list`, `tails` the host
threads that have stored `TidTerminated` and not yet ended. `inits` is history.

`Equeue`: `events` are the registered events that the queue holds and whether each is
triggered, `armed` the timers that wait in `io_context`, `small` the small timers,
`asioRequests` the counter of `kernel.cpp`. A user event is "edge" (with `Clear`) or
"level".

`VideoOut`: `port` has the fields of `VideoOutPort`, `label` is `buffer_labels`, `gens` and
`retire` are `FlipLabelTracker`, `commands` the closures sent to the GPU thread, `prep` the flip
that the GPU thread prepares a frame for, `requests` the flip queue. A request holds one of
`Frames` presentation frames, the images of the swapchain, until it is shown (`FramesHeld`).
Vblanks are counted modulo 2, and `due_vblank` is the number of vblanks left.

`GuestMemory`: `mm` has `vma_map`, `dmem_map` and `fmem_map` as functions on pages, and the two
counters. Carving and merging of areas are thereby what they mean: an area is a maximal
run of pages that merge (`FindVMA`). The one place where areas matter beyond that, the
size that a release takes from each area, is a choice between the two extremes
(`RemoveLists`). `TotalFlexible` and the size of `fmem_map` are separate, as in the code. Three
history variables record what the code's accounts do not follow: the flexible pages whose
mapping a decommit made a reservation (`leaked`), the number of pool pages that releases took
from under the budget (`overpromised`), and whether a release took a page that a commit had
mapped (`committedFreed`). Which addresses, sizes and protections the guest asks for is given by
`Programs`, sets of calls; a behaviour runs one program.

### What is assumed of the guest

The specifications follow the code where the code defines the outcome. They assume that
the guest does not destroy or delete an object that a call is using, unlocks only read
and write locks that it holds, and uses a mutex of a non-default type only after
`mutex_init`. `signalto_np` for a thread that does not wait on that variable while others
do is an action (`CondSignalToUnqueued`) that ends the behaviour. Deleting a semaphore
under its waiters is allowed, since the code handles it: the waiters are told, and then
use the freed object, which either works or ends the process.

`BinarySemaphore` counts its releases on the Apple and POSIX builds and saturates at one
on Windows; the specifications have the counting one.

## 3. Runs

| Run | Instance | Shows |
|---|---|---|
| `cond_signal` | 3 threads, 1 mutex, 1 condition; trylock, broadcast; fair | exclusion, consistent queues, no lost, missed, forgotten or stray wake-up, refinement of `GuestMonitor`; a signalled sleeper wakes |
| `cond_ops` | 2 threads, a recursive and a normal mutex; timed calls, cancel, signalto_np, broadcast, destroy; and a program of cancel, setcancelstate and exit | types, recursion depth, wake-ups with timeouts and cancellation |
| `cond_stray` | 2 threads, timed waits | **violated**: `UNREACHABLE()` in Wait is reachable |
| `sema` | 3 threads, 2 priorities, needs 0, 1 and 2, max 3; fair | wait list, conservation, order, no satisfiable sleeper; released waiters return |
| `evf` | 3 threads, 2 bits, flags of both thread modes; fair | counting, one waiter at most on a single-waiter flag, no lost wake-up; Cancel is complete and ends, satisfied waiters return |
| `rwlock` | 3 threads, 2 locks; fair | exclusion, counters, no lost wake-up; a free lock is taken |
| `threads` | 3 slots, at most `MaxThreads` + 1 = 3 in use, gc threshold 1, cache of 1; a program of joins, detaches and references, one of `pthread_once`; fair | no thread collected in use, none forgotten, slots accounted, once-routine exact; joins and once-waits end |
| `thread_exit` | the same, detached threads too | **violated**: "Never reach!" in `ExitThread` is reached |
| `devices` | 2 guest threads, the service, GPU and present threads, 2 buffers, flip queue of 2, 1 presentation frame, 8 programs; fair | no event left with its waiters asleep, pending flips counted, retirement safe, EOP flips accepted; label waits end |
| `timer_lost` | 2 threads that add high-resolution timers; fair | **violated**: an armed timer never expires |
| `memory` | 2 threads, 5 virtual, 5 direct, 3 flexible pages of which 2 may be used, cache of 2 entries, 4 changes of the map, 4 programs | cached validations sound, counters off by what decommits and releases are known to lose and by nothing else, direct mappings backed |
| `pool_commit` | the same with a program that expands, releases and commits one page | **violated**: a commit that the budget admits finds no page |

Why the bounds are enough. The objects have no identity beyond equality, so symmetry is used in
the runs that check no liveness. Two threads suffice for a race of a waiter with a waker; the
third gives a queue of two (broadcast, exchange of queue objects, priority ties, service past a
waiter that needs more) or a third party that takes what another was woken for.
`MaxDeferWaiters` is 50 in the code; it is 1 here so that the list fills up. `MaxRecursion` 1
gives mutexes locked twice. A need of 2 with at most 3 tokens gives waiters that are skipped.
`TimeMod` 2 stands for 2^32; `Timeouts` and `MaxElapsed` are 1, so the subtraction does not wrap
in the run, and no property looks at its result. Two condition variables or more would add
nothing but hash collisions, which merge locks. `cond_signal` has one mutex and no timed waits:
wake-ups deferred over several mutexes and with timeouts happen in `cond_ops`, which checks that
none is lost, the release that comes after a timeout in `cond_stray`; that the list is flushed
whatever the number of mutexes is proved (`DefersFlushed`). `MaxReads` 1 lets a thread read a
lock once; recursive reads are covered by the proofs of `PthreadRwlock_proofs` only. Three
thread slots give a collector, a thread that is collected and a third that joins or references
it; thresholds of 1 (5 and 100 in the code) make collection and the return of memory to the heap
happen, `MaxThreads` 2 makes creations fail at the limit, and `MaxTails` 1 allows one late host
thread per slot. A flip queue of 2 stands for 16 and one presentation frame for the handful of
the swapchain: what matters is that there are fewer frames than places (`FramesAssumption`), and
that both run out. `MaxGeneration` of `VideoOut` stands for 2^64, where the code wraps to 1, and
the wrap is reached. `MaxRequests` 1: only whether there is a request is looked at. The calls of
the `devices` and `memory` programs are grouped by what can interact; four changes of the map
suffice to map, alias, release and map again. Validations are in the programs of flexible memory
and of the pool; that a cached range does not survive a release of direct memory rests on the
proof (`CacheSoundness`), which covers every call. A decommit that ends inside a flexible
mapping (`memory.cpp:811`) and releases of pool pages, mapped ones included (`memory.cpp:298`),
are in the programs. Five pages hold a mapping of two with a neighbour on one side and a pool on
the other.

Deadlock is checked in `devices` and `timer_lost`, where the present thread never
stops (a failed assertion is a state that stays). The other runs do not check it: guest
threads may legitimately all wait for one another, an abort ends a behaviour, and the
`memory` run ends at its bound on changes.

Fairness. The host scheduler runs every thread that can run: weak fairness on the library steps
(`LibraryStep`, `Scans`, `CancelEnd`, the return of a notified waiter). A woken semaphore waiter
needs the mutex that others keep taking; it is given strong fairness, since `std::mutex` does
not starve a thread for ever in practice. The same holds in `ThreadState`: weak fairness for a
thread inside a call, strong where it needs a thread's lock that others keep taking, and an init
routine ends. In `VideoOut` the service and present threads are fair, timers expire (the host's
clock), and the GPU thread goes on when a presentation frame is free. Its test of a label is
strongly fair: flips of guest threads keep coming in between, each of which may wait for a
frame, but `ProcessCommands` returns after those that are there
(`video_core/amdgpu/liverpool.cpp:98-131`), and the stream tests its label again. Nothing is
assumed of what the guest calls, nor that a timeout expires.

### Disagreements found

- `condvar.cpp:145`. Signal takes a thread off the queue and releases its semaphore
  after it has released the queue lock. A timed wait may expire in between, return, and
  the thread may start another wait whose ClearWake precedes the release. The release
  then ends that second wait with `wchan` still set, and Wait reaches `UNREACHABLE()`.
- `pthread.cpp:75`. `ExitThread` stores `TidTerminated` and then leaves through
  `native_thr.Exit()` of its own Pthread. From the store on, another thread's create may
  collect and zero that memory; Exit then finds no handle, returns, and the
  `UNREACHABLE();` marked "Never reach!" is reached.
- `core/memory.cpp:453`. Free refuses only areas of type Free (`memory.cpp:298`), so a release
  takes the pages of a pool as any others and leaves `pool_budget` as it was. A later commit
  passes the test of the budget and fails "Failed to commit pooled memory".
- `kernel.cpp:79`. The service thread clears `asio_requests` after `run()` has returned. A timer
  added in between is in `io_context`, but the thread waits for a request that it has just
  discarded.

Others that the specifications contain and no run asserts. A thread that has disabled
cancellation and is cancelled while its `will_sleep` is set gets the release all the same
(`pthread.cpp:743-750`); Wait does not recognise it (`pthread.h:332-334`) and reaches the same
`UNREACHABLE()` without a timed wait. A release of a page that a commit has mapped leaves that
mapping in place; a later decommit puts the page back into the pool whoever has it by then
(`memory.cpp:298`, `memory.cpp:838-868`). The check of a decommit looks only at areas that end
within the range (`memory.cpp:811`): a mapping that crosses its end becomes a reservation, and
its flexible pages stay counted and are never given back (`memory.cpp:868`). `AccountsExact` and
`DirectBacked` are stated up to these two and to nothing else. A shown buffer is released twice:
by its retirement, which looks at the generation, and when the next buffer is shown, which does
not (`videoout/driver.cpp:299-300`). One buffer can so have several flips outstanding; that "EOP
flip submission failed" (`videoout/video_out.cpp:393`) is not reached by the command stream
alone is due to the presentation frames it waits for, and is `EopFlipAccepted`. (Guest threads
that fill the queue of 16 themselves can still make the next flip of the stream fail.) Cancel
should "kick it out of any cond/sleep wait" (`pthread.cpp:738`); it does so only while
`will_sleep` is set, which Sleep clears before blocking (`pthread.h:349`). The "remaining time"
of a semaphore wait (`semaphore.cpp:159`) is `*timeout -= time`, which wraps if the signal came
after the timeout.

Smaller observations, all in the specifications as the code has them: DeleteHRTimer looks
only at small timers as soon as there is one (`equeue.cpp:533`); the expiry of a deleted timer
finds one re-added under its ident (`equeue.cpp:41`); a level event is handed out in place of
the event behind it (`equeue.cpp:237`); a pool commit of exactly the budget is refused
(`memory.cpp:396`); a release can unmap pages behind its own (`memory.cpp:331`); a fixed mapping
over a committed pool fails an assertion (`memory.cpp:488`), and so does the second of two
flexible mappings that both passed the unlocked check (`memory.cpp:512`); a present thread that
is late while the port is closed waits for a presentation frame for its blank one
(`videoout/driver.cpp:441`), and nobody else frees frames if the queued flips hold them all.

## 4. Proofs

All theorems hold for every value of the constants under the named assumptions of the modules
(`MutexAssumption`, `CondAssumption`, `SemaAssumption`, `EventFlagAssumption`,
`RwlockAssumption`, `ThreadAssumption`, `EqueueAssumption`, `VideoOutAssumption`,
`FramesAssumption`, `MemoryAssumption`, `PagesAssumption`, `ProgramsAssumption`). They say what
kind of value a constant is; beyond that, the threads of an event flag and of an event queue,
the slots of the thread heap and the pages of memory are finite, the buffers that a program
registers are buffers, there are fewer presentation frames than flips that may be pending, and a
call of the memory manager has a positive size and, where the manager asserts it, a valid
address range. Two theorems have a hypothesis of their own: `WakesKnown` (no timed waits, no
cancellation of threads that disable it or exit) and `RetirementIsSafe` (enough generations).
The inductive invariants were checked with TLC before they were proved.

`PthreadCond_proofs`: `TypeCorrect`, `DepthCorrect`, `Exclusion`. `DepthAgrees` is not
inductive: that unlocking gives up the right mutex needs to know what each control point says
about the thread's locals (`ControlInv`) and that `m_lock` is held exactly by the owner or by a
thread between the two halves of an acquisition or a release (`OwnerInv`). `SleepqRemove` needs
a queue object for each waiter (`QueueInv`) for its result to be typed. The invariant is the
conjunction of `TypeOK` and these four; there is one lemma per action, and `QuietStep` covers
the actions that touch no mutex. Mutual exclusion follows from `DepthAgrees`: two owners would
hold the same `m_lock`.

`PthreadMonitor_proofs`, on top of it: `SignalsMissNobody`, `QueuesConsistent`, `DefersFlushed`,
`WakeupsKept`, `WakesKnown` and `MonitorImplemented`, the first four and the last for all the
optional calls (timed waits, cancellation, `signalto_np`, broadcast, destroy). The invariant
`MInv` adds to that of the first module the four properties, each with what it lacks.
`SleepqConsistent` lacks that a queue object is on one condition variable only (`QueuesOK`), and
that a queued thread is inside a call on that variable with its mutex recorded (`WaitersOK`).
`NoMissedSignal` needs `EntryOK`, that `has_user_waiters` stays set while a Wait enters.
`DeferFlushed` and `NoLostWakeup` need `ListsOK`, that only a call on its way out has semaphores
to release, and the queues. `Locality` says once and for all that a step of one thread leaves
the call of every other thread alone, so each lemma looks only at the thread that moves and at
what it does to the waiter it takes off. The refinement maps the waiting and the parked threads
of `GuestMonitor` to what the code knows of them (`WaitingMap`, `ParkedMap`): a thread counts as
waiting from the release of the mutex, before it is on any queue, which is right because of
`NoMissedSignal`. Every step then is a step of the monitor or a stutter (`NextMaps`).
`WakesKnown` is about the property that `cond_stray` violates: for a `PlainProgram`, without
timed waits and with cancellation only of threads that leave it enabled and have not begun to
exit, though with `signalto_np`, broadcast and deferred wake-ups, no wait ends with `wchan`
still set, and the `UNREACHABLE()` of Wait is not reached. "A wake-up is coming"
(`NoLostWakeup`) is not enough for that; the invariant `TokenInv` says that a thread that nobody
has cancelled has at most one coming, counting the tokens of its semaphore and its entries on
all lists together, and none at all unless it is asleep, or about to be, and off its queue.
Every step that moves an entry from a queue to a list, from a list to a list or from a list to
the semaphore keeps that count (`TokenMoves`), and Sleep takes it back to none. (A cancelled
thread may be woken twice, but Wait sees the cancellation first, which is why it must be
enabled.) A timed wait ends without taking its token, which is where the argument, and the code,
break.

`KernelSema_proofs`: `NobodyLeftBehind`, `WaitListCorrect`, `ServiceOrder`, from the invariant
`TypeOK /\ WaitListInv /\ NoSatisfiableWaiter`. The last is stated for the waiters already
passed by a scan in progress, which makes it inductive: serving a waiter only lowers the count.
`ServiceOrder` is an action property that follows from it. `ListSorted` shows that the place
where AddWaiter inserts and the removals keep the order of priorities. `TokensAreConserved`
counts the tokens paid to waiters as a set of pairs, one per token, so that no sum has to be
computed by recursion: a signal that pays adds the pairs of one waiter, the return of that
waiter removes them, also when its time ran out first.

`EventFlag_proofs`: `WaitersCountedCorrect`, `NoWakeupLost`, `CanceledTurnedAway`,
`CancelIsComplete`. The invariant adds to the checked ones that only a Cancel in progress has
waiters to turn away (`CountedOK`) and that nobody is inside a call on a flag that does not
exist (`LiveOK`, needed when a flag is created). That the counter at zero means that nobody
waits is a fact about cardinality, which `CancelIsComplete` uses.

`PthreadRwlock_proofs`: `TypeCorrect`, `WritersAreAlone`, `CountersAgree`, `OwnerIsFresh`,
`WakeupsAreKept` (`OwnerIsFresh` is not among the checked properties: the others rest on it).
The invariant says that a call works on a lock exactly while it runs, and that a reader that
waits for a lock holds none on it (`CallsOK`), that the writer bit is set exactly while one
thread claims the lock, from taking `SharedFirstMutex` until it is given back (`ClaimsOK`), and
that the reader count is the number of pairs of a thread and one of its reads (`CountsOK`, a
cardinality again). That the owner field is fresh although it is written outside the lock
follows because only the thread with the claim writes it. Exclusion follows from the claims and
the counts: a claim needs the count at zero.

`ThreadState_proofs`: `TypeCorrect`, `CollectIsSafe`, `CollectIsComplete`, `SlotsAccounted`,
`OnceIsExact`, for any finite heap. The invariant says what every control point knows of its own
slot and of its target (`LiveOK`, `UseOK`), that no two calls construct a thread in the same
slot (`MakersOK`), that the places of a slot are disjoint (`Apart`) and that `total_threads` is
the number of slots out of the heap and of calls between a step on the heap and the one on the
counter (`Counted`), that the reference count is exact (`CollectComplete`), and which
thread runs the once-routine (`OnceOK`). Safety and completeness of the collection depend on
each other: `Recheck` collects only because the count says that nobody else refers to the
thread.

`VideoOut_proofs`: `FlipsAreAccounted`, `EopAccepted`, `NoEventLost` and the action property
`RetirementIsSafe`. The first needs only the types and that Close is the one step that forgets
flips (`AccountsOK`); it also bounds the flips on their way. `EopAccepted` adds that the
requests and the flip being shown hold at most `Frames` frames (`FramesHeld`), and that in a
program of the command stream alone the GPU thread starts no frame while it prepares a flip:
with the exact count of pending flips, the queue has room at the interrupt. The last is about
generations, which wrap from 2^64 - 1 to 1. The invariant gives every flip of the command stream
an age, the number of locks of its buffer since its own (`FlipOK`): each such lock has a flip
behind it in the queue or is still with the GPU thread, so the age is at most the number of
flips behind it, and flips of one buffer have different ages. A retirement is decided before the
next flip is taken (`RetireOK`), so it is the oldest of all; if its generation is the buffer's,
its age is zero, and nothing of that buffer is behind it. Its hypothesis, that there are more
generations than flips on their way (`MaxGeneration > MaxOutstanding + MaxPending + 3`), is what
makes ages well defined; in the code 2^64 stands against 16 and the requests that fit into
memory. The run has fewer generations than that, and shows that the wrap does no harm there
either. Nothing is assumed of the event queue. `NoEventLost` is about the queue alone, with
guest, service and present threads that trigger: no edge-triggered event is left in the queue
while a waiter sleeps and nobody is on the way to wake one. The invariant (`EventInv`) says that
no key is twice in the queue (`IsQueue`) and that, while somebody sleeps, there are at most as
many triggered events as there are notifications about to be sent and waiters awake to look
(`Covered`): a trigger adds one to both sides, a notification hands its credit to the waiter it
wakes, and a waiter that looks and goes back to sleep found nothing, or leaves with the one
event it was woken for. Adding, deleting and Close only ever thin the queue out (`Thinner`).

`GuestMemory_proofs`: `CacheSoundness`, for any number of threads, pages, cache entries,
programs and changes of the map. `CacheSound` speaks of entries with the current, even
generation. The invariant says that the generation is odd exactly while a thread is between the
two halves of a change, and that this thread holds the writer lock (`WriterInv`); that every
entry has an even generation, none above the current one (`EntriesInv`), so that an entry stored
before a change cannot match a number given out after it; and that an entry with the current
generation agrees with the map on every page it covers (`EntriesTrue`). The map changes only
when the generation is odd, and the step that makes it even again makes it larger than that of
every entry. Only what a page is mapped as and with which protection enters, so none of the
calls that change the map is looked into.

`AccountsHold` and `DirectStaysBacked` are about those calls. The invariant
`MemoryInv` says that the virtual pages of type Flexible and the flexible pages in use correspond
one to one, and so do the pages of type Pooled and the committed pages (`Exact`), that the two
counters are the numbers of flexible pages in use and of pooled pages left, and that what is
behind a direct mapping is allocated (`DirectHeld`). A change of the manager's state drops pages
with what was behind them (`ExactDrop`), adds pages on physical pages that were not in use
(`ExactAdd`, with `CarveFacts`: what is carved is carved once), or touches neither; the counters
follow because a one-to-one correspondence preserves cardinality. There is one lemma per
operation (`UnmapAccount`, `MapAccount`, `ProtectAccount`, `CommitAccount`, `DecommitAccount`,
`FreeAccount`, `AllocateAccount`, `ExpandAccount`). The other half, `CallsInv`, is about the two
locks: what a call found in its checks under `unmap_mutex`, in particular that the physical range
of a direct mapping is allocated, is still so when it makes its change under the writer lock,
because every call that changes the map, Allocate and PoolExpand need that mutex. Aliases need
no bookkeeping: `Free` removes every direct page over the range, and the proof uses nothing about
how areas were split, so it covers both extremes of `RemoveLists`.

Nothing is assumed of the guest. Where the code loses track, the history variables say by how
much: `leaked` leaves the correspondence of the flexible pages when a decommit overwrites their
mapping, and `overpromised` is added to what the budget counts. Once a release has taken a page
that a commit had mapped (`committedFreed`), the correspondence of the pool is lost for good, and
with it what a later decommit may do to a direct mapping; from there on `PoolExact` and
`DirectBacked` claim nothing, while `FlexibleExact` and `CacheSound` still hold.

Only model-checked:

- liveness (`SignalDelivered`, `ReleasedReturns`, `SatisfiedReturns`, `CancelTerminates`,
  `FreeLockTaken`, `WaitsEnd`, `LabelWaitEnds`), since fairness is beyond the prover;
- the properties of the four runs that expect a violation, which are false. One of them,
  `NoStrayWake`, is proved for a `PlainProgram`.

## 5. Plan

Done: the modules of section 2. Next, in this order:

1. `ThreadState` composed with `PthreadCond`: the late wake-up of `cond_stray` reaching the next
   thread in the same memory.
2. POSIX semaphores and the slot table of `semaphore.cpp`; asynchronous I/O.
3. The master semaphore and the recycling of resources in the Vulkan scheduler; the coroutine
   scheduler of the command processor.
4. The iOS JIT allocator and `RangeLock`, against a page-by-page reference.
5. Several event queues, `posix_kevent`, and the deletion of a queue under its waiters.

Proofs: every invariant and action property of the passing runs is proved. What is left is to
prove the same of the components above as they are added.

### Not modelled

Inside the modelled components: `posix_kevent`, `sceKernelDeleteEqueue` and the data of events;
WaitVblank, buffer attributes, HDR and more than one port or group of buffers, with open, close
and registration as single steps; the redrawing of the last frame (DrawLastFrame), which takes
no presentation frame; in the memory manager, the contents of files (file, code and stack
mappings are areas without physical pages), `NoCoalesce`, executable protection and sealing, the
rasterizer's mappings, memory types, names, alignment, PRT, unchecked release and the host's
page permissions; a timed join that would have to wait, which the code asserts against; negative
counts of a semaphore. In the thread life cycle: the affinity that create sets through the new
thread's handle after it was started (`pthread.cpp:382-383`), another use of a thread that may
already have ended; and, on a slot that was reused and whose native handle is set again, the
outcome of the old thread's Exit, which zeroes the new thread's native id and frees its signal
stack (`core/thread.cpp:47`, `59-62`).

Not planned: the shader recompiler, the loader, the renderer's state translation, the font
and media libraries, the front ends, and vendored or generated code (FEX, box64, the symbol
tables of aerolib, register headers), which are most of the repository's lines. They are data
transformations or plumbing without protocol state of a size that a finite model could
represent.
