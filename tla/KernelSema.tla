----------------------------- MODULE KernelSema -----------------------------
(***************************************************************************)
(* One kernel semaphore: OrbisSem in                                       *)
(* core/libraries/kernel/threads/semaphore.cpp and the sceKernel*Sema      *)
(* calls on it.  OrbisSem::mutex protects the token count and the wait     *)
(* list; a critical section is one step, except the scan of Signal, which  *)
(* releases one waiter per step while the signaller holds the mutex.       *)
(* A waiter sleeps on its own binary semaphore, outside the mutex, so a    *)
(* timeout can race with a signal that has already paid its tokens.        *)
(***************************************************************************)
EXTENDS Integers, Sequences, FiniteSets

CONSTANTS Threads, NULL,
          InitCount, MaxCount,  \* init_count, max_count
          IsFifo,               \* is_fifo
          Priority,             \* [Threads -> Nat], attr.prio: smaller is first
          Needs,                \* the need_count and signal_count arguments
          SetCounts,            \* the set_count arguments of Cancel
          Timeouts,             \* the *timeout arguments, in time units
          MaxElapsed,           \* bound: the longest measured wait
          TimeMod               \* *timeout is a u32: arithmetic modulo TimeMod

ASSUME SemaAssumption ==
  /\ InitCount \in Nat /\ MaxCount \in Nat \ {0} /\ InitCount <= MaxCount
  /\ IsFifo \in BOOLEAN
  /\ Priority \in [Threads -> Nat]
  /\ Needs \subseteq Nat
  /\ SetCounts \subseteq Nat \union {-1}
  /\ TimeMod \in Nat \ {0}
  /\ Timeouts \subseteq 1 .. TimeMod - 1
  /\ MaxElapsed \in Nat
  /\ NULL \notin Threads \union Timeouts

VARIABLES
  tokens,      \* token_count
  waitList,    \* wait_list, the waiting threads in order
  mutex,       \* OrbisSem::mutex: the thread inside Signal's scan, or NULL
  it,          \* Signal's iterator, an index into waitList
  allocated,   \* the semaphore is in orbis_sems
  deleting,    \* threads in sceKernelDeleteSema, between Delete and erase
  need,        \* WaitingThread::need_count
  timeout,     \* *timeout on entry, or NULL
  flag,        \* was_signaled, was_deleted, was_canceled: which one is set
  sem,         \* WaitingThread::sem
  remaining,   \* what the last timed wait to return stored in *timeout
  pc,          \* "idle", "sleep", "woken" or "expired"
  crashed,     \* a thread used the object after its slot was erased
  taken        \* history: tokens waits returned with, minus tokens signalled

vars == <<tokens, waitList, mutex, it, allocated, deleting, need, timeout, flag, sem,
          remaining, pc, crashed, taken>>

Init ==
  /\ tokens = InitCount
  /\ waitList = << >>
  /\ mutex = NULL
  /\ it = 1
  /\ allocated = TRUE
  /\ deleting = {}
  /\ need = [t \in Threads |-> 1]
  /\ timeout = [t \in Threads |-> NULL]
  /\ flag = [t \in Threads |-> "none"]
  /\ sem = [t \in Threads |-> 0]
  /\ remaining = 0
  /\ pc = [t \in Threads |-> "idle"]
  /\ crashed = FALSE
  /\ taken = 0

\* s with e before its i-th element, and without its i-th element
Insert(s, i, e) == [j \in 1 .. Len(s) + 1 |->
                      IF j < i THEN s[j] ELSE IF j = i THEN e ELSE s[j - 1]]
Without(s, i) == [j \in 1 .. Len(s) - 1 |-> IF j < i THEN s[j] ELSE s[j + 1]]

\* A call on the semaphore: the slot is allocated and the mutex is free.
Enter(t) == pc[t] = "idle" /\ t \notin deleting /\ allocated /\ mutex = NULL

-----------------------------------------------------------------------------
\* WaitSema and PollSema, when the tokens are there; a Poll that finds too few
\* (EBUSY) and a Wait with a zero timeout (ETIMEDOUT) change nothing.
WaitTake(t, n) ==
  /\ Enter(t) /\ tokens >= n
  /\ tokens' = tokens - n
  /\ taken' = taken + n
  /\ UNCHANGED <<waitList, mutex, it, allocated, deleting, need, timeout, flag, sem, remaining, pc, crashed>>

\* Mutant of InsertAt: before the first waiter of higher priority.
InsertAtReversed(t, i) ==
  IF IsFifo THEN i = Len(waitList) + 1
  ELSE /\ \A j \in 1 .. i - 1 : Priority[waitList[j]] >= Priority[t]
       /\ i <= Len(waitList) => Priority[waitList[i]] < Priority[t]

\* AddWaiter: at the end, or before the first waiter of lower priority.
InsertAt(t, i) ==
  IF IsFifo THEN i = Len(waitList) + 1
  ELSE /\ \A j \in 1 .. i - 1 : Priority[waitList[j]] <= Priority[t]
       /\ i <= Len(waitList) => Priority[waitList[i]] > Priority[t]

\* Wait with too few tokens: AddWaiter, then WaitingThread::Wait unlocks.
WaitBlock(t, n, tmo) ==
  /\ Enter(t) /\ tokens < n
  /\ \E i \in 1 .. Len(waitList) + 1 :
       InsertAt(t, i) /\ waitList' = Insert(waitList, i, t)
  /\ need' = [need EXCEPT ![t] = n]
  /\ timeout' = [timeout EXCEPT ![t] = tmo]
  /\ flag' = [flag EXCEPT ![t] = "none"]
  /\ sem' = [sem EXCEPT ![t] = 0]
  /\ pc' = [pc EXCEPT ![t] = "sleep"]
  /\ UNCHANGED <<tokens, mutex, it, allocated, deleting, remaining, crashed, taken>>

\* sem.acquire() or try_acquire_for() gets the token ...
WaitAcquire(t) ==
  /\ pc[t] = "sleep" /\ sem[t] > 0
  /\ sem' = [sem EXCEPT ![t] = @ - 1]
  /\ pc' = [pc EXCEPT ![t] = "woken"]
  /\ UNCHANGED <<tokens, waitList, mutex, it, allocated, deleting, need, timeout, flag,
                 remaining, crashed, taken>>

\* ... or the timeout runs out first.
WaitExpire(t) ==
  /\ pc[t] = "sleep" /\ timeout[t] # NULL /\ sem[t] = 0
  /\ pc' = [pc EXCEPT ![t] = "expired"]
  /\ UNCHANGED <<tokens, waitList, mutex, it, allocated, deleting, need, timeout, flag,
                 sem, remaining, crashed, taken>>

\* lk.lock(), the remaining time (unsigned subtraction of the measured wait),
\* GetResult, and the removal of a waiter that timed out.  The flags decide, so
\* a waiter that was signalled after its timeout still returns ORBIS_OK.
GetResult(t) == IF flag[t] = "none" THEN "timedout" ELSE flag[t]

\* Mutant of WaitReturn: a waiter that timed out stays in the list.
WaitReturnStays(t, elapsed) ==
  /\ pc[t] \in {"woken", "expired"} /\ mutex = NULL
  /\ taken' = IF GetResult(t) = "signaled" THEN taken + need[t] ELSE taken
  /\ pc' = [pc EXCEPT ![t] = "idle"]
  /\ timeout' = [timeout EXCEPT ![t] = NULL]
  /\ flag' = [flag EXCEPT ![t] = "none"]
  /\ sem' = [sem EXCEPT ![t] = 0]
  /\ need' = [need EXCEPT ![t] = 1]
  /\ UNCHANGED <<tokens, waitList, mutex, it, allocated, deleting, remaining, crashed>>

WaitReturn(t, elapsed) ==
  /\ pc[t] \in {"woken", "expired"} /\ mutex = NULL
  /\ pc[t] = "expired" => elapsed >= timeout[t]
  /\ remaining' = IF timeout[t] = NULL THEN remaining
                  ELSE IF flag[t] = "signaled"
                    THEN (timeout[t] - elapsed) % TimeMod ELSE 0
  /\ IF GetResult(t) = "timedout"
       THEN \E i \in DOMAIN waitList :
              waitList[i] = t /\ waitList' = Without(waitList, i)
       ELSE UNCHANGED waitList
  /\ taken' = IF GetResult(t) = "signaled" THEN taken + need[t] ELSE taken
  /\ pc' = [pc EXCEPT ![t] = "idle"]
  /\ timeout' = [timeout EXCEPT ![t] = NULL]
  /\ flag' = [flag EXCEPT ![t] = "none"]
  /\ sem' = [sem EXCEPT ![t] = 0]
  /\ need' = [need EXCEPT ![t] = 1]
  /\ UNCHANGED <<tokens, mutex, it, allocated, deleting, crashed>>

\* The same lock(), or the scan of a Signal, after DeleteSema has destroyed the
\* object: undefined, so it may find the old memory intact (WaitReturn and the
\* steps of the scan) or end the process.
UseAfterFree(t) ==
  /\ pc[t] \in {"woken", "expired"} \/ mutex = t
  /\ ~allocated
  /\ crashed' = TRUE
  /\ UNCHANGED <<tokens, waitList, mutex, it, allocated, deleting, need, timeout, flag, sem,
                 remaining, pc, taken>>

-----------------------------------------------------------------------------
\* Signal: refused if the count would exceed max_count.
SignalBegin(t, n) ==
  /\ Enter(t) /\ tokens + n <= MaxCount
  /\ tokens' = tokens + n
  /\ taken' = taken - n
  /\ mutex' = t
  /\ it' = 1
  /\ UNCHANGED <<waitList, allocated, deleting, need, timeout, flag, sem, remaining, pc, crashed>>

\* Mutants of SignalSkip: gives up at the first waiter it cannot serve; takes a
\* waiter that needs all the tokens for one that needs more.
SignalSkipGivesUp(t) ==
  /\ mutex = t /\ it <= Len(waitList)
  /\ need[waitList[it]] > tokens
  /\ it' = Len(waitList) + 1
  /\ UNCHANGED <<tokens, waitList, mutex, allocated, deleting, need, timeout, flag, sem,
                 remaining, pc, crashed, taken>>
SignalSkipEqual(t) ==
  /\ mutex = t /\ it <= Len(waitList)
  /\ need[waitList[it]] >= tokens
  /\ it' = it + 1
  /\ UNCHANGED <<tokens, waitList, mutex, allocated, deleting, need, timeout, flag, sem,
                 remaining, pc, crashed, taken>>

\* The loop over the wait list: skip a waiter that needs more than is left ...
SignalSkip(t) ==
  /\ mutex = t /\ it <= Len(waitList)
  /\ need[waitList[it]] > tokens
  /\ it' = it + 1
  /\ UNCHANGED <<tokens, waitList, mutex, allocated, deleting, need, timeout, flag, sem,
                 remaining, pc, crashed, taken>>

\* Mutant of SignalWake: the tokens are not paid.
SignalWakeFree(t) ==
  /\ mutex = t /\ it <= Len(waitList)
  /\ need[waitList[it]] <= tokens
  /\ waitList' = Without(waitList, it)
  /\ flag' = [flag EXCEPT ![waitList[it]] = "signaled"]
  /\ sem' = [sem EXCEPT ![waitList[it]] = @ + 1]
  /\ UNCHANGED <<tokens, mutex, it, allocated, deleting, need, timeout, remaining, pc, crashed, taken>>

\* ... pay for and release one that does not ...
SignalWake(t) ==
  LET w == waitList[it] IN
  /\ mutex = t /\ it <= Len(waitList)
  /\ need[w] <= tokens
  /\ waitList' = Without(waitList, it)
  /\ tokens' = tokens - need[w]
  /\ flag' = [flag EXCEPT ![w] = "signaled"]
  /\ sem' = [sem EXCEPT ![w] = @ + 1]
  /\ UNCHANGED <<mutex, it, allocated, deleting, need, timeout, remaining, pc, crashed, taken>>

\* ... and unlock at the end.
SignalEnd(t) ==
  /\ mutex = t /\ it > Len(waitList)
  /\ mutex' = NULL
  /\ it' = 1
  /\ UNCHANGED <<tokens, waitList, allocated, deleting, need, timeout, flag, sem,
                 remaining, pc, crashed, taken>>

Waiting == {waitList[i] : i \in DOMAIN waitList}

\* Mutant of ReleaseWaiters: the waiters are marked but not released.
ReleaseWaitersMarkOnly(why) ==
  /\ flag' = [t \in Threads |-> IF t \in Waiting THEN why ELSE flag[t]]
  /\ waitList' = << >>
  /\ UNCHANGED sem

\* Mark and release every waiter, and clear the list (Cancel, Delete).
ReleaseWaiters(why) ==
  /\ flag' = [t \in Threads |-> IF t \in Waiting THEN why ELSE flag[t]]
  /\ sem' = [t \in Threads |-> IF t \in Waiting THEN sem[t] + 1 ELSE sem[t]]
  /\ waitList' = << >>

\* CancelSema; a negative count stands for the initial one.
Cancel(t, setCount) ==
  /\ Enter(t)
  /\ ReleaseWaiters("canceled")
  /\ tokens' = IF setCount < 0 THEN InitCount ELSE setCount
  /\ taken' = taken + tokens - tokens'
  /\ UNCHANGED <<mutex, it, allocated, deleting, need, timeout, remaining, pc, crashed>>

\* DeleteSema: Delete releases the waiters under the mutex,
Delete(t) ==
  /\ Enter(t)
  /\ ReleaseWaiters("deleted")
  /\ deleting' = deleting \union {t}
  /\ UNCHANGED <<tokens, mutex, it, allocated, need, timeout, remaining, pc, crashed, taken>>

\* then the slot is erased, without the mutex: other calls may have come in between.
\* A second thread that deletes the semaphore destroys it again.
Erase(t) ==
  /\ t \in deleting
  /\ deleting' = deleting \ {t}
  /\ allocated' = FALSE
  /\ crashed' \in {crashed, ~allocated}
  /\ UNCHANGED <<tokens, waitList, mutex, it, need, timeout, flag, sem, remaining, pc, taken>>

Next ==
  /\ ~crashed
  /\ \E t \in Threads :
    \/ WaitAcquire(t) \/ WaitExpire(t)
    \/ \E e \in 0 .. MaxElapsed : WaitReturn(t, e)
    \/ UseAfterFree(t)
    \/ SignalSkip(t) \/ SignalWake(t) \/ SignalEnd(t)
    \/ \E n \in Needs : WaitTake(t, n) \/ SignalBegin(t, n)
    \/ \E n \in Needs, tmo \in Timeouts \union {NULL} : WaitBlock(t, n, tmo)
    \/ \E c \in SetCounts : Cancel(t, c)
    \/ Delete(t) \/ Erase(t)

Spec == Init /\ [][Next]_vars

\* The host scheduler runs a thread that can run.  Wakers take the mutex again
\* and again, so a woken waiter gets it by strong fairness.
Returns(t) == UseAfterFree(t) \/ \E e \in 0 .. MaxElapsed : WaitReturn(t, e)
Scans(t) == SignalSkip(t) \/ SignalWake(t) \/ SignalEnd(t) \/ Erase(t)
Fairness == \A t \in Threads :
  /\ WF_vars(~crashed /\ WaitAcquire(t))
  /\ WF_vars(~crashed /\ Scans(t))
  /\ SF_vars(~crashed /\ Returns(t))
FairSpec == Spec /\ Fairness

-----------------------------------------------------------------------------
TypeOK ==
  /\ tokens \in Nat
  /\ waitList \in Seq(Threads)
  /\ mutex \in Threads \union {NULL}
  /\ it \in Nat \ {0}
  /\ allocated \in BOOLEAN /\ deleting \subseteq Threads
  /\ need \in [Threads -> Nat \ {0}]
  /\ timeout \in [Threads -> Timeouts \union {NULL}]
  /\ flag \in [Threads -> {"none", "signaled", "canceled", "deleted"}]
  /\ sem \in [Threads -> Nat]
  /\ remaining \in 0 .. TimeMod - 1
  /\ pc \in [Threads -> {"idle", "sleep", "woken", "expired"}]
  /\ crashed \in BOOLEAN
  /\ taken \in Int

\* The wait list and the waiters agree: a thread is listed, once, exactly while
\* it is inside Wait and no flag was set; a flag comes with exactly one release
\* of its semaphore, which is still there unless Wait already took it.
WaitListInv ==
  /\ \A i, j \in DOMAIN waitList : waitList[i] = waitList[j] => i = j
  /\ \A t \in Threads :
       /\ t \in Waiting <=> pc[t] # "idle" /\ flag[t] = "none"
       /\ pc[t] = "idle" => flag[t] = "none"
       /\ sem[t] = IF flag[t] # "none" /\ pc[t] # "woken" THEN 1 ELSE 0
       /\ pc[t] = "woken" => flag[t] # "none"
       /\ pc[t] = "expired" => timeout[t] # NULL

\* No waiter sleeps on tokens it could have: outside the scan every listed waiter
\* needs more than there is, and during the scan every waiter already passed
\* does (Signal, Wait and the timeout all change the list or the count).
NoSatisfiableWaiter ==
  \A i \in DOMAIN waitList :
    (mutex = NULL \/ i < it) => need[waitList[i]] > tokens

\* Tokens are conserved: what the semaphore holds, what waits have returned with
\* (net of signals) and what was paid for waiters that have yet to return always
\* add up to the initial count, so a timeout that races with a signal neither
\* loses nor duplicates tokens.
InFlight == {t \in Threads : flag[t] = "signaled"}
Paid == UNION {{t} \X (1 .. need[t]) : t \in InFlight}
TokensConserved == tokens + taken + Cardinality(Paid) = InitCount

\* Waiters are served in list order: a step that releases u leaves no waiter v
\* in front of it that needs no more than u ("Wake up threads in order of
\* priority"), and the list is ordered by priority unless it is FIFO.
PrioritySorted ==
  ~IsFifo => \A i, j \in DOMAIN waitList :
               i < j => Priority[waitList[i]] <= Priority[waitList[j]]
ServedInOrder ==
  [][\A t \in Threads : SignalWake(t) =>
       \A i \in 1 .. it - 1 : need[waitList[i]] > need[waitList[it]]]_vars

\* A waiter that was signalled, cancelled or deleted returns, unless the process
\* ends because the semaphore was freed under it.
ReleasedReturns ==
  \A t \in Threads : flag[t] # "none" ~> (pc[t] = "idle" \/ crashed)
=============================================================================
