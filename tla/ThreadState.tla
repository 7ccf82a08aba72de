---------------------------- MODULE ThreadState ----------------------------
(***************************************************************************)
(* The life of guest threads: ThreadState (threads/thread_state.cpp), the  *)
(* calls of threads/pthread.cpp that create, end, join, detach and look up *)
(* threads, and pthread_once.  A Pthread is a slot of the thread heap.  It *)
(* is linked in `threads` while it can be looked up, moved to gc_list by   *)
(* TryCollect once it is dead, detached and not referenced, and freed by   *)
(* the Collect of a later Alloc, which looks only at its tid.  The slot is *)
(* then reused.  Stacks and TCBs come and go with the Pthread and are not  *)
(* told apart.                                                             *)
(*                                                                         *)
(* thread_list_lock is only held inside a step.  Pthread::lock is part of  *)
(* the slot: the window in which TryCollect still holds it after it has    *)
(* released thread_list_lock is a state of its own.                        *)
(***************************************************************************)
EXTENDS Integers, FiniteSets

CONSTANTS Slots, NULL,
          Main,             \* the slot of the first thread
          Detached,         \* the detach states that pthread_create is given
          Programs,         \* the sets of calls that guest programs make
          GcThreshold, MaxCachedThreads, MaxThreads,
          MaxTails          \* bound: host threads of one slot still ending

ASSUME ThreadAssumption ==
  /\ NULL \notin Slots /\ Main \in Slots /\ IsFiniteSet(Slots)
  /\ Detached \subseteq BOOLEAN
  /\ Programs \subseteq SUBSET {"join", "detach", "ref", "once"}
  /\ GcThreshold \in Nat /\ MaxCachedThreads \in Nat /\ MaxThreads \in Nat
  /\ MaxTails \in Nat \ {0}

VARIABLES
  calls,         \* the calls this guest program makes, besides create and exit
  pt,            \* the Pthread in each slot
  threads,       \* ThreadState::threads
  gcList,        \* ThreadState::gc_list
  freeThreads,   \* ThreadState::free_threads
  totalThreads,  \* ThreadState::total_threads
  run,           \* where the host thread of each slot is, and the Pthread it works on
  work,          \* Collect's work_list, for the thread that runs it
  tails,         \* host threads that stored TidTerminated and have yet to end
  once,          \* PthreadOnce::state
  inits,         \* history: completed calls of the init routine
  aborted        \* the UNREACHABLE() at the end of ExitThread was reached

stateVars == <<threads, gcList, freeThreads, totalThreads, work>>
onceVars == <<once, inits>>
vars == <<calls, pt, stateVars, run, tails, onceVars, aborted>>

\* The Pthread that pthread_create links.
NewPthread(detached) ==
  [state |-> "Running", tid |-> "live", detached |-> detached, joiner |-> NULL,
   refcount |-> 1, handle |-> FALSE, lock |-> NULL]

At(pc, s) == [pc |-> pc, target |-> s]
Goto(t, pc) == run' = [run EXCEPT ![t].pc = pc]
Return(t) == run' = [run EXCEPT ![t] = At("idle", NULL)]

\* Slots that thread_heap.Allocate() can return.
Constructing == {run[t].target : t \in {u \in Slots : run[u].pc \in {"construct", "link"}}}
Collecting == {s \in Slots : \E t \in Slots : s \in work[t]}
Heap == Slots \ (threads \union gcList \union freeThreads \union Constructing \union Collecting)

Init ==
  /\ calls \in Programs
  /\ pt = [s \in Slots |-> IF s = Main
             THEN [NewPthread(FALSE) EXCEPT !.handle = TRUE]
             ELSE [NewPthread(FALSE) EXCEPT !.tid = "none", !.refcount = 0]]
  /\ threads = {Main} /\ gcList = {} /\ freeThreads = {}
  /\ totalThreads = 1
  /\ run = [s \in Slots |-> At(IF s = Main THEN "idle" ELSE "none", NULL)]
  /\ work = [s \in Slots |-> {}]
  /\ tails = [s \in Slots |-> 0]
  /\ once = "NeverDone" /\ inits = 0
  /\ aborted = FALSE

-----------------------------------------------------------------------------
ShouldCollect(p) == p.refcount = 0 /\ p.state = "Dead" /\ p.detached

\* TryCollect is done: a thread that exits goes on to TidTerminated.
Resume(t, s, p) ==
  run' = [run EXCEPT ![t] = At(IF t = s /\ p.state = "Dead" THEN "terminate" ELSE "idle", NULL)]

\* TryCollect up to the first unlock, entered with the Pthread's lock held and
\* the caller's changes p made: a collectable thread is referenced and unlocked,
\* any other only unlocked.
TryCollect(t, s, p) ==
  \/ /\ ShouldCollect(p)
     /\ pt' = [pt EXCEPT ![s] = [p EXCEPT !.refcount = @ + 1]]
     /\ run' = [run EXCEPT ![t] = At("recheck", s)]
  \/ /\ ~ShouldCollect(p)
     /\ pt' = [pt EXCEPT ![s] = p]
     /\ Resume(t, s, p)

\* The rest of it, under thread_list_lock and the Pthread's lock.  A thread that
\* someone referenced meanwhile is unlocked and left to them ...
Recheck(t) ==
  LET s == run[t].target
      p == [pt[s] EXCEPT !.refcount = @ - 1] IN
  /\ run[t].pc = "recheck" /\ pt[s].lock = NULL
  /\ \/ /\ ShouldCollect(p)
        /\ pt' = [pt EXCEPT ![s] = [p EXCEPT !.lock = t]]
        /\ threads' = threads \ {s}
        /\ gcList' = gcList \union {s}
        /\ Goto(t, "unlock")
     \/ /\ ~ShouldCollect(p)
        /\ pt' = [pt EXCEPT ![s] = p]
        /\ Resume(t, s, p)
        /\ UNCHANGED <<threads, gcList>>
  /\ UNCHANGED <<freeThreads, totalThreads, work, tails, onceVars, aborted>>

\* ... and SCOPE_EXIT unlocks the Pthread after thread_list_lock is free: another
\* thread may have freed the slot by now, and this writes to it all the same.
Unlock(t) ==
  LET s == run[t].target IN
  /\ run[t].pc = "unlock"
  /\ pt' = [pt EXCEPT ![s].lock = NULL]
  /\ Resume(t, s, pt[s])
  /\ UNCHANGED <<stateVars, tails, onceVars, aborted>>

-----------------------------------------------------------------------------
\* Alloc: GcNeeded(), and the first half of Collect.
CreateBegin(t) ==
  LET dead == {s \in gcList : pt[s].tid = "Terminated"}
      collect == Cardinality(gcList) >= GcThreshold /\ dead # {} IN
  /\ run[t].pc = "idle"
  /\ Goto(t, IF collect THEN "collect" ELSE "alloc")
  /\ work' = IF collect THEN [work EXCEPT ![t] = dead] ELSE work
  /\ gcList' = IF collect THEN gcList \ dead ELSE gcList
  /\ UNCHANGED <<pt, threads, freeThreads, totalThreads, tails, onceVars, aborted>>

\* Mutant of FreeThread: a slot that goes back to the heap is still counted.
FreeThreadUncounted(t, s) ==
  /\ run[t].pc = "collect" /\ s \in work[t]
  /\ work' = [work EXCEPT ![t] = @ \ {s}]
  /\ freeThreads' = IF Cardinality(freeThreads) >= MaxCachedThreads THEN freeThreads
                    ELSE freeThreads \union {s}
  /\ Goto(t, IF work[t] = {s} THEN "alloc" ELSE "collect")
  /\ UNCHANGED <<pt, threads, gcList, totalThreads, tails, onceVars, aborted>>

\* Free, for each thread of the work list: destroy_at leaves the fields as they
\* are; the slot is cached, or returned to the heap when the cache is full.
FreeThread(t, s) ==
  /\ run[t].pc = "collect" /\ s \in work[t]
  /\ work' = [work EXCEPT ![t] = @ \ {s}]
  /\ \/ /\ Cardinality(freeThreads) >= MaxCachedThreads
        /\ Goto(t, "freed")
        /\ UNCHANGED freeThreads
     \/ /\ Cardinality(freeThreads) < MaxCachedThreads
        /\ freeThreads' = freeThreads \union {s}
        /\ Goto(t, IF work[t] = {s} THEN "alloc" ELSE "collect")
  /\ UNCHANGED <<pt, threads, gcList, totalThreads, tails, onceVars, aborted>>

\* total_threads.fetch_sub, after the slot is back in the heap, or none was there.
Uncount(t) ==
  /\ run[t].pc \in {"freed", "refused"}
  /\ totalThreads' = totalThreads - 1
  /\ Goto(t, IF run[t].pc = "refused" THEN "idle" ELSE IF work[t] = {} THEN "alloc" ELSE "collect")
  /\ UNCHANGED <<pt, threads, gcList, freeThreads, work, tails, onceVars, aborted>>

\* Alloc: a cached slot, or the test of total_threads ...
AllocCached(t, s) ==
  /\ run[t].pc = "alloc" /\ s \in freeThreads
  /\ freeThreads' = freeThreads \ {s}
  /\ run' = [run EXCEPT ![t] = At("construct", s)]
  /\ UNCHANGED <<pt, threads, gcList, totalThreads, work, tails, onceVars, aborted>>
AllocTest(t) ==
  /\ run[t].pc = "alloc" /\ freeThreads = {}
  /\ Goto(t, IF totalThreads > MaxThreads THEN "idle" ELSE "count")
  /\ UNCHANGED <<pt, stateVars, tails, onceVars, aborted>>

\* ... and a slot of the heap, counted first; the count is taken back and the
\* call fails with EAGAIN when the heap is empty.
AllocCount(t) ==
  /\ run[t].pc = "count"
  /\ totalThreads' = totalThreads + 1
  /\ Goto(t, "take")
  /\ UNCHANGED <<pt, threads, gcList, freeThreads, work, tails, onceVars, aborted>>
AllocTake(t) ==
  /\ run[t].pc = "take"
  /\ \/ Heap = {} /\ Goto(t, "refused")
     \/ \E s \in Heap : run' = [run EXCEPT ![t] = At("construct", s)]
  /\ UNCHANGED <<pt, stateVars, tails, onceVars, aborted>>

\* The memset and construct_at of Alloc, and what pthread_create sets before Link.
Construct(t, detached) ==
  /\ run[t].pc = "construct"
  /\ pt' = [pt EXCEPT ![run[t].target] = NewPthread(detached)]
  /\ Goto(t, "link")
  /\ UNCHANGED <<stateVars, tails, onceVars, aborted>>

Link(t) ==
  /\ run[t].pc = "link"
  /\ threads' = threads \union {run[t].target}
  /\ Goto(t, "start")
  /\ UNCHANGED <<pt, gcList, freeThreads, totalThreads, work, tails, onceVars, aborted>>

\* native_thr.Create: the new thread runs, and the call returns.
Start(t) ==
  LET s == run[t].target IN
  /\ run[t].pc = "start"
  /\ pt' = [pt EXCEPT ![s].handle = TRUE]
  /\ run' = [run EXCEPT ![t] = At("idle", NULL), ![s] = At("idle", NULL)]
  /\ UNCHANGED <<stateVars, tails, onceVars, aborted>>

-----------------------------------------------------------------------------
\* pthread_exit and ExitThread up to TryCollect.  An ASSERT stops the process if
\* the last thread exits, so another thread must be active (active_threads).
Active == {s \in Slots : s \in threads /\ pt[s].state = "Running"}
ExitThread(t) ==
  /\ run[t].pc \in {"idle", "exit"} /\ pt[t].lock = NULL
  /\ Active # {t} /\ tails[t] < MaxTails
  /\ TryCollect(t, t, [pt[t] EXCEPT !.state = "Dead", !.refcount = @ - 1])
  /\ UNCHANGED <<stateVars, tails, onceVars, aborted>>

\* tid.store(TidTerminated) and notify_all(): a joiner may go on, and a collector
\* may free the slot.
Terminate(t) ==
  /\ run[t].pc = "terminate"
  /\ pt' = [pt EXCEPT ![t].tid = "Terminated"]
  /\ Goto(t, "none")
  /\ tails' = [tails EXCEPT ![t] = @ + 1]
  /\ UNCHANGED <<stateVars, onceVars, aborted>>

\* native_thr.Exit() reads the slot once more: it returns when native_handle is
\* zero, and ExitThread reaches its UNREACHABLE().
NativeExit(s) ==
  /\ tails[s] > 0
  /\ tails' = [tails EXCEPT ![s] = @ - 1]
  /\ aborted' = ~pt[s].handle
  /\ UNCHANGED <<pt, stateVars, run, onceVars>>

\* A call that finds s with FindThread, and gets its lock.
Find(t, s, call) ==
  call \in calls /\ run[t].pc = "idle" /\ s \in threads /\ pt[s].lock = NULL

\* JoinThread up to the wait; EDEADLK, ESRCH, EINVAL and ENOTSUP change nothing.
JoinBegin(t, s) ==
  /\ Find(t, s, "join") /\ t # s
  /\ ~pt[s].detached /\ pt[s].joiner = NULL
  /\ pt' = [pt EXCEPT ![s].joiner = t]
  /\ run' = [run EXCEPT ![t] = At("join", s)]
  /\ UNCHANGED <<stateVars, tails, onceVars, aborted>>

\* Its end, once tid is TidTerminated.
JoinEnd(t) ==
  LET s == run[t].target IN
  /\ run[t].pc = "join" /\ pt[s].tid = "Terminated" /\ pt[s].lock = NULL
  /\ TryCollect(t, s, [pt[s] EXCEPT !.detached = TRUE, !.joiner = NULL])
  /\ UNCHANGED <<stateVars, tails, onceVars, aborted>>

\* Mutant of Detach: a thread that is being joined is detached.
DetachJoined(t, s) ==
  /\ Find(t, s, "detach") /\ ~pt[s].detached
  /\ TryCollect(t, s, [pt[s] EXCEPT !.detached = TRUE])
  /\ UNCHANGED <<stateVars, tails, onceVars, aborted>>

Detach(t, s) ==
  /\ Find(t, s, "detach") /\ ~pt[s].detached /\ pt[s].joiner = NULL
  /\ TryCollect(t, s, [pt[s] EXCEPT !.detached = TRUE])
  /\ UNCHANGED <<stateVars, tails, onceVars, aborted>>

\* RefAdd and RefDelete around a call on another thread (getname_np, rename_np,
\* getschedparam, setprio), which changes nothing this module tells apart.
RefAdd(t, s) ==
  /\ Find(t, s, "ref") /\ t # s /\ pt[s].state # "Dead"
  /\ pt' = [pt EXCEPT ![s].refcount = @ + 1]
  /\ run' = [run EXCEPT ![t] = At("ref", s)]
  /\ UNCHANGED <<stateVars, tails, onceVars, aborted>>

\* Mutant of RefDelete: drops the reference without TryCollect.
RefDeleteOnly(t) ==
  /\ run[t].pc = "ref" /\ pt[run[t].target].lock = NULL
  /\ pt' = [pt EXCEPT ![run[t].target].refcount = @ - 1]
  /\ Return(t)
  /\ UNCHANGED <<stateVars, tails, onceVars, aborted>>

RefDelete(t) ==
  LET s == run[t].target IN
  /\ run[t].pc = "ref" /\ pt[s].lock = NULL
  /\ TryCollect(t, s, [pt[s] EXCEPT !.refcount = @ - 1])
  /\ UNCHANGED <<stateVars, tails, onceVars, aborted>>

-----------------------------------------------------------------------------
\* pthread_once: load the state, then act on what was loaded.
OnceLoad(t) ==
  /\ run[t].pc = "once" \/ (run[t].pc = "idle" /\ "once" \in calls)
  /\ Goto(t, CASE once = "Done" -> "idle"        [] once = "NeverDone" -> "casNever"
               [] once = "Wait" -> "onceWait"    [] once = "InProgress" -> "casProgress")
  /\ UNCHANGED <<pt, stateVars, tails, onceVars, aborted>>

\* Mutant of OnceCas: a store instead of the compare and exchange.
OnceCasStore(t) ==
  /\ run[t].pc \in {"casNever", "casProgress"}
  /\ once' = IF run[t].pc = "casNever" THEN "InProgress" ELSE "Wait"
  /\ Goto(t, IF run[t].pc = "casNever" THEN "init" ELSE "onceWait")
  /\ UNCHANGED <<pt, stateVars, tails, inits, aborted>>

\* compare_exchange_strong to InProgress or to Wait; if it fails, start again.
OnceCas(t) ==
  /\ run[t].pc \in {"casNever", "casProgress"}
  /\ \/ /\ run[t].pc = "casNever" /\ once = "NeverDone"
        /\ once' = "InProgress" /\ Goto(t, "init")
     \/ /\ run[t].pc = "casProgress" /\ once = "InProgress"
        /\ once' = "Wait" /\ Goto(t, "onceWait")
     \/ /\ once # (IF run[t].pc = "casNever" THEN "NeverDone" ELSE "InProgress")
        /\ Goto(t, "once") /\ UNCHANGED once
  /\ UNCHANGED <<pt, stateVars, tails, inits, aborted>>

\* once_control->state.wait(Wait) blocks while the state is Wait.
OnceWait(t) ==
  /\ run[t].pc = "onceWait"
  /\ Goto(t, IF once = "Wait" THEN "onceSleep" ELSE "once")
  /\ UNCHANGED <<pt, stateVars, tails, onceVars, aborted>>

\* Mutant of OnceDone: waiters are not told.
OnceDoneSilent(t) ==
  /\ run[t].pc = "init"
  /\ inits' = inits + 1
  /\ once' = "Done"
  /\ Goto(t, "idle")
  /\ UNCHANGED <<pt, stateVars, tails, aborted>>

\* The init routine returns: InProgress becomes Done; Wait becomes Done and the
\* waiters are notified.
OnceDone(t) ==
  /\ run[t].pc = "init"
  /\ inits' = inits + 1
  /\ once' = "Done"
  /\ Goto(t, IF once = "InProgress" THEN "idle" ELSE "notify")
  /\ UNCHANGED <<pt, stateVars, tails, aborted>>

\* The init routine calls pthread_exit (or is cancelled): once_cancel_handler.
OnceExit(t) ==
  /\ run[t].pc = "init"
  /\ once' = "NeverDone"
  /\ Goto(t, IF once = "InProgress" THEN "exit" ELSE "notifyExit")
  /\ UNCHANGED <<pt, stateVars, tails, inits, aborted>>

OnceNotify(t) ==
  /\ run[t].pc \in {"notify", "notifyExit"}
  /\ run' = [u \in Slots |->
               IF run[u].pc = "onceSleep" THEN At("onceWait", NULL)
               ELSE IF u = t THEN At(IF run[t].pc = "notify" THEN "idle" ELSE "exit", NULL)
               ELSE run[u]]
  /\ UNCHANGED <<pt, stateVars, tails, onceVars, aborted>>

-----------------------------------------------------------------------------
Next ==
  /\ ~aborted /\ UNCHANGED calls
  /\ \E t \in Slots :
    \/ Recheck(t) \/ Unlock(t)
    \/ CreateBegin(t) \/ AllocTest(t) \/ AllocCount(t) \/ AllocTake(t) \/ Uncount(t)
    \/ \E d \in Detached : Construct(t, d)
    \/ Link(t) \/ Start(t)
    \/ ExitThread(t) \/ Terminate(t) \/ NativeExit(t)
    \/ JoinEnd(t) \/ RefDelete(t)
    \/ \E s \in Slots : \/ FreeThread(t, s) \/ AllocCached(t, s)
                        \/ JoinBegin(t, s) \/ Detach(t, s) \/ RefAdd(t, s)
    \/ OnceLoad(t) \/ OnceCas(t) \/ OnceWait(t)
    \/ OnceDone(t) \/ OnceExit(t) \/ OnceNotify(t)

Spec == Init /\ [][Next]_vars

\* The host scheduler runs every thread that is inside a call (what the guest
\* does between calls is its own affair), and an init routine ends.  Locks are
\* taken again and again by others, so they are got by strong fairness.
Steps(t) ==
  \/ Unlock(t) \/ AllocTest(t) \/ AllocCount(t) \/ AllocTake(t) \/ Uncount(t) \/ Link(t) \/ Start(t)
  \/ (\E d \in Detached : Construct(t, d))
  \/ (\E s \in Slots : FreeThread(t, s) \/ AllocCached(t, s))
  \/ Terminate(t) \/ OnceCas(t) \/ OnceWait(t) \/ OnceNotify(t)
  \/ OnceDone(t) \/ OnceExit(t) \/ (run[t].pc = "once" /\ OnceLoad(t))
Locks(t) ==
  Recheck(t) \/ JoinEnd(t) \/ RefDelete(t) \/ (run[t].pc = "exit" /\ ExitThread(t))
Fairness == \A t \in Slots :
  /\ WF_vars(~aborted /\ UNCHANGED calls /\ Steps(t))
  /\ SF_vars(~aborted /\ UNCHANGED calls /\ Locks(t))
FairSpec == Spec /\ Fairness

-----------------------------------------------------------------------------
Pthread == [state : {"Running", "Dead"}, tid : {"none", "live", "Terminated"},
            detached : BOOLEAN, joiner : Slots \union {NULL}, refcount : Nat,
            handle : BOOLEAN, lock : Slots \union {NULL}]
Positions == {"none", "idle", "recheck", "unlock", "terminate", "collect", "freed", "alloc",
              "count", "take", "refused", "construct", "link", "start", "join", "ref", "once", "casNever",
              "casProgress", "onceWait", "onceSleep", "init", "notify", "notifyExit", "exit"}
TypeOK ==
  /\ calls \in Programs
  /\ pt \in [Slots -> Pthread]
  /\ threads \subseteq Slots /\ gcList \subseteq Slots /\ freeThreads \subseteq Slots
  /\ totalThreads \in Nat
  /\ run \in [Slots -> [pc : Positions, target : Slots \union {NULL}]]
  /\ work \in [Slots -> SUBSET Slots]
  /\ tails \in [Slots -> Nat]
  /\ once \in {"NeverDone", "InProgress", "Wait", "Done"} /\ inits \in Nat
  /\ aborted \in BOOLEAN

\* No Pthread is collected under a call that uses it: a thread that is being
\* joined, that a RefAdd holds or that TryCollect has referenced and unlocked is
\* linked, and so is a thread that runs (an exiting one may be in gc_list, where
\* its tid protects it).
CollectSafe == \A t \in Slots :
  /\ run[t].pc \in {"join", "ref", "recheck"} => run[t].target \in threads
  /\ run[t].pc # "none" =>
       /\ t \in threads \/ (t \in gcList /\ run[t].pc \in {"unlock", "terminate"})
       /\ pt[t].tid = "live"

\* No dead thread is forgotten: whoever makes a linked thread dead, detached and
\* unreferenced collects it, however the calls that could do so overlap.  So a
\* linked thread that is dead and detached is still referenced, by exactly the
\* calls that will look at it again.
Holders(s) == {t \in Slots : run[t].pc \in {"ref", "recheck"} /\ run[t].target = s}
CollectComplete == \A s \in threads :
  /\ pt[s].refcount = Cardinality(Holders(s)) + (IF pt[s].state = "Dead" THEN 0 ELSE 1)
  /\ ~ShouldCollect(pt[s])

\* Every slot is in one place: linked, waiting in gc_list, on one collector's work
\* list, cached, under construction or in the heap; total_threads counts those
\* that are not in the heap, besides one for each call that has counted a slot it
\* has yet to take or that has yet to count one down; and the cache keeps to its
\* limit.
Places == <<threads, gcList, freeThreads, Constructing>>
Counting == {t \in Slots : run[t].pc \in {"take", "refused", "freed"}}
SlotAccounting ==
  /\ \A i, j \in 1 .. 4 : i # j => Places[i] \intersect Places[j] = {}
  /\ \A t \in Slots : /\ \A i \in 1 .. 4 : work[t] \intersect Places[i] = {}
                      /\ \A u \in Slots \ {t} : work[t] \intersect work[u] = {}
  /\ totalThreads = Cardinality(Slots \ Heap) + Cardinality(Counting)
  /\ Cardinality(freeThreads) <= MaxCachedThreads

\* pthread_once runs the init routine to its end once, in one thread at a time,
\* and no thread has seen Done before that.
OnceExact ==
  /\ Cardinality({t \in Slots : run[t].pc = "init"}) <= IF inits = 0 THEN 1 ELSE 0
  /\ inits = IF once = "Done" THEN 1 ELSE 0

\* A join of a thread that has died returns, and a thread that sleeps in
\* pthread_once gets to look at the state again.
WaitsEnd == \A t \in Slots :
  /\ (run[t].pc = "join" /\ pt[run[t].target].state = "Dead")
       ~> (run[t].pc # "join" \/ aborted)
  /\ (run[t].pc = "onceSleep") ~> (run[t].pc # "onceSleep" \/ aborted)

\* ExitThread does not return from native_thr.Exit() ("Never reach!").
NeverReach == ~aborted
=============================================================================
