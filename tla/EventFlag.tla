----------------------------- MODULE EventFlag -----------------------------
(***************************************************************************)
(* One kernel event flag: EventFlagInternal in                             *)
(* core/libraries/kernel/threads/event_flag.cpp and the sceKernel*EventFlag*)
(* calls on it.  m_mutex protects everything, so a critical section is one *)
(* step.  Waiters sleep on one condition variable and test their own       *)
(* condition when they are notified; Cancel turns every waiter away and    *)
(* polls, with the mutex released, until they are gone.                    *)
(*                                                                         *)
(* The calls take an event flag pointer: the guest does not use one it has *)
(* deleted, nor delete one that a call is using.                           *)
(***************************************************************************)
EXTENDS Integers, FiniteSets

CONSTANTS Threads,
          Bits,         \* the bits of a u64 pattern that the guest uses
          InitPattern,  \* initPattern
          WaitArgs      \* the arguments of the Wait calls the guest makes

Patterns == SUBSET Bits
\* The arguments of Wait; sceKernelWaitEventFlag rejects an empty pattern.
Requests == [bits : Patterns \ {{}}, mode : {"And", "Or"},
             clear : {"None", "All", "Bits"}, timed : BOOLEAN]
NoRequest == [bits |-> Bits, mode |-> "And", clear |-> "None", timed |-> FALSE]

ASSUME EventFlagAssumption ==
  /\ IsFiniteSet(Threads)
  /\ InitPattern \subseteq Bits
  /\ WaitArgs \subseteq Requests

VARIABLES
  live,       \* the object exists
  isMulti,    \* m_thread_mode is ThreadMode::Multi
  mStatus,    \* m_status; nothing ever assigns Status::Deleted
  mBits,      \* m_bits, as the set of bits that are 1
  mWaiting,   \* m_waiting_threads
  pc,         \* "idle", "wait" (in m_cond_var.wait) or "drain" (in Cancel's loop)
  asleep,     \* in wait, and not notified since it last tested its condition
  request,    \* the arguments of the thread's Wait
  outcome,    \* what its last Wait returned
  result,     \* *result of its last Wait
  counted     \* history: the waiters that the current Cancel has to turn away

vars == <<live, isMulti, mStatus, mBits, mWaiting, pc, asleep, request, outcome,
          result, counted>>

Init ==
  /\ live = TRUE
  /\ isMulti \in BOOLEAN
  /\ mStatus = "Set"
  /\ mBits = InitPattern
  /\ mWaiting = 0
  /\ pc = [t \in Threads |-> "idle"]
  /\ asleep = [t \in Threads |-> FALSE]
  /\ request = [t \in Threads |-> NoRequest]
  /\ outcome = [t \in Threads |-> "none"]
  /\ result = [t \in Threads |-> {}]
  /\ counted = {}

\* waitFunc
WaitFunc(r) ==
  \/ mStatus = "Canceled"
  \/ r.mode = "And" /\ r.bits \subseteq mBits
  \/ r.mode = "Or" /\ r.bits \intersect mBits # {}

\* The bits that a Wait leaves behind.
Cleared(r) ==
  CASE r.clear = "None" -> mBits
    [] r.clear = "All"  -> {}
    [] r.clear = "Bits" -> mBits \ r.bits

\* The end of Wait once its condition holds: a cancelled Wait clears nothing.
WaitReturn(t, r) ==
  /\ outcome' = [outcome EXCEPT ![t] = IF mStatus = "Canceled" THEN "canceled" ELSE "ok"]
  /\ result' = [result EXCEPT ![t] = mBits]
  /\ mBits' = IF mStatus = "Canceled" THEN mBits ELSE Cleared(r)

\* m_cond_var.notify_all()
NotifyAll == asleep' = [t \in Threads |-> FALSE]

-----------------------------------------------------------------------------
\* Wait.  A flag created for single threads admits one waiter; the others get
\* EPERM.  Poll is a Wait whose timeout is zero.
WaitEnter(t) == live /\ pc[t] = "idle" /\ (isMulti \/ mWaiting = 0)

WaitNow(t, r) ==
  /\ WaitEnter(t) /\ WaitFunc(r)
  /\ WaitReturn(t, r)
  /\ UNCHANGED <<live, isMulti, mStatus, mWaiting, pc, asleep, request, counted>>

WaitBlock(t, r) ==
  /\ WaitEnter(t) /\ ~WaitFunc(r)
  /\ mWaiting' = mWaiting + 1
  /\ pc' = [pc EXCEPT ![t] = "wait"]
  /\ asleep' = [asleep EXCEPT ![t] = TRUE]
  /\ request' = [request EXCEPT ![t] = r]
  /\ UNCHANGED <<live, isMulti, mStatus, mBits, outcome, result, counted>>

\* A waiter takes the mutex again, notified or not, and tests its condition.
WaitWake(t) ==
  /\ pc[t] = "wait" /\ WaitFunc(request[t])
  /\ mWaiting' = mWaiting - 1
  /\ pc' = [pc EXCEPT ![t] = "idle"]
  /\ asleep' = [asleep EXCEPT ![t] = FALSE]
  /\ request' = [request EXCEPT ![t] = NoRequest]
  /\ WaitReturn(t, request[t])
  /\ UNCHANGED <<live, isMulti, mStatus, counted>>

WaitAgain(t) ==
  /\ pc[t] = "wait" /\ ~asleep[t] /\ ~WaitFunc(request[t])
  /\ asleep' = [asleep EXCEPT ![t] = TRUE]
  /\ UNCHANGED <<live, isMulti, mStatus, mBits, mWaiting, pc, request, outcome, result, counted>>

\* Mutants of WaitTimeout: the early return forgets --m_waiting_threads; the
\* condition is not tested when the time is up.
WaitTimeoutUncounted(t) ==
  /\ pc[t] = "wait" /\ request[t].timed /\ ~WaitFunc(request[t])
  /\ pc' = [pc EXCEPT ![t] = "idle"]
  /\ asleep' = [asleep EXCEPT ![t] = FALSE]
  /\ request' = [request EXCEPT ![t] = NoRequest]
  /\ outcome' = [outcome EXCEPT ![t] = "timedout"]
  /\ result' = [result EXCEPT ![t] = mBits]
  /\ UNCHANGED <<live, isMulti, mStatus, mBits, mWaiting, counted>>
WaitTimeoutUntested(t) ==
  /\ pc[t] = "wait" /\ request[t].timed
  /\ mWaiting' = mWaiting - 1
  /\ pc' = [pc EXCEPT ![t] = "idle"]
  /\ asleep' = [asleep EXCEPT ![t] = FALSE]
  /\ request' = [request EXCEPT ![t] = NoRequest]
  /\ outcome' = [outcome EXCEPT ![t] = "timedout"]
  /\ result' = [result EXCEPT ![t] = mBits]
  /\ UNCHANGED <<live, isMulti, mStatus, mBits, counted>>

\* wait_for tests the condition once more when the time is up.
WaitTimeout(t) ==
  /\ pc[t] = "wait" /\ request[t].timed /\ ~WaitFunc(request[t])
  /\ mWaiting' = mWaiting - 1
  /\ pc' = [pc EXCEPT ![t] = "idle"]
  /\ asleep' = [asleep EXCEPT ![t] = FALSE]
  /\ request' = [request EXCEPT ![t] = NoRequest]
  /\ outcome' = [outcome EXCEPT ![t] = "timedout"]
  /\ result' = [result EXCEPT ![t] = mBits]
  /\ UNCHANGED <<live, isMulti, mStatus, mBits, counted>>

-----------------------------------------------------------------------------
\* Mutant of Set: notifies nobody.
SetSilent(t, bits) ==
  /\ live /\ pc[t] = "idle" /\ mStatus = "Set"
  /\ mBits' = mBits \union bits
  /\ UNCHANGED <<live, isMulti, mStatus, mWaiting, pc, asleep, request, outcome, result, counted>>

\* Set and Clear wait for a Cancel in progress (they poll with the mutex
\* released), then change the bits.  Clear keeps the bits of its argument.
Set(t, bits) ==
  /\ live /\ pc[t] = "idle" /\ mStatus = "Set"
  /\ mBits' = mBits \union bits
  /\ NotifyAll
  /\ UNCHANGED <<live, isMulti, mStatus, mWaiting, pc, request, outcome, result, counted>>

Clear(t, bits) ==
  /\ live /\ pc[t] = "idle" /\ mStatus = "Set"
  /\ mBits' = mBits \intersect bits
  /\ UNCHANGED <<live, isMulti, mStatus, mWaiting, pc, asleep, request, outcome, result, counted>>

\* Cancel, too, waits for another Cancel.  Without waiters it is done at once;
\* otherwise it polls m_waiting_threads.
CancelIdle(t, pattern) ==
  /\ live /\ pc[t] = "idle" /\ mStatus = "Set" /\ mWaiting = 0
  /\ mBits' = pattern
  /\ NotifyAll
  /\ UNCHANGED <<live, isMulti, mStatus, mWaiting, pc, request, outcome, result, counted>>

\* Mutant of CancelBegin: notifies nobody.
CancelBeginSilent(t, pattern) ==
  /\ live /\ pc[t] = "idle" /\ mStatus = "Set" /\ mWaiting > 0
  /\ mStatus' = "Canceled"
  /\ mBits' = pattern
  /\ counted' = {u \in Threads : pc[u] = "wait"}
  /\ pc' = [pc EXCEPT ![t] = "drain"]
  /\ UNCHANGED <<live, isMulti, mWaiting, asleep, request, outcome, result>>

CancelBegin(t, pattern) ==
  /\ live /\ pc[t] = "idle" /\ mStatus = "Set" /\ mWaiting > 0
  /\ mStatus' = "Canceled"
  /\ mBits' = pattern
  /\ NotifyAll
  /\ counted' = {u \in Threads : pc[u] = "wait"}
  /\ pc' = [pc EXCEPT ![t] = "drain"]
  /\ UNCHANGED <<live, isMulti, mWaiting, request, outcome, result>>

\* Mutant of CancelEnd: does not wait for the waiters to leave.
CancelEndEarly(t) ==
  /\ pc[t] = "drain"
  /\ mStatus' = "Set"
  /\ counted' = {}
  /\ pc' = [pc EXCEPT ![t] = "idle"]
  /\ UNCHANGED <<live, isMulti, mBits, mWaiting, asleep, request, outcome, result>>

CancelEnd(t) ==
  /\ pc[t] = "drain" /\ mWaiting = 0
  /\ mStatus' = "Set"
  /\ counted' = {}
  /\ pc' = [pc EXCEPT ![t] = "idle"]
  /\ UNCHANGED <<live, isMulti, mBits, mWaiting, asleep, request, outcome, result>>

\* sceKernelCreateEventFlag, with either thread mode, and
\* sceKernelDeleteEventFlag.
Create(t, multi) ==
  /\ ~live /\ pc[t] = "idle"
  /\ live' = TRUE
  /\ isMulti' = multi
  /\ mBits' = InitPattern
  /\ UNCHANGED <<mStatus, mWaiting, pc, asleep, request, outcome, result, counted>>

Delete(t) ==
  /\ live /\ \A u \in Threads : pc[u] = "idle"
  /\ live' = FALSE
  /\ UNCHANGED <<isMulti, mStatus, mBits, mWaiting, pc, asleep, request, outcome, result, counted>>

Next ==
  \E t \in Threads :
    \/ \E r \in WaitArgs : WaitNow(t, r) \/ WaitBlock(t, r)
    \/ WaitWake(t) \/ WaitAgain(t) \/ WaitTimeout(t)
    \/ \E bits \in Patterns :
         Set(t, bits) \/ Clear(t, bits) \/ CancelIdle(t, bits) \/ CancelBegin(t, bits)
    \/ CancelEnd(t)
    \/ Delete(t) \/ \E multi \in BOOLEAN : Create(t, multi)

Spec == Init /\ [][Next]_vars

\* The host scheduler runs a notified waiter and a polling Cancel.  Nothing wakes
\* a waiter that sleeps, and nothing is assumed of what the guest calls next.
Fairness == \A t \in Threads :
  /\ WF_vars(~asleep[t] /\ (WaitWake(t) \/ WaitAgain(t)))
  /\ WF_vars(CancelEnd(t))
FairSpec == Spec /\ Fairness

-----------------------------------------------------------------------------
TypeOK ==
  /\ live \in BOOLEAN
  /\ isMulti \in BOOLEAN
  /\ mStatus \in {"Set", "Canceled"}
  /\ mBits \in SUBSET Bits
  /\ mWaiting \in Nat
  /\ pc \in [Threads -> {"idle", "wait", "drain"}]
  /\ asleep \in [Threads -> BOOLEAN]
  /\ request \in [Threads -> WaitArgs \union {NoRequest}]
  /\ outcome \in [Threads -> {"none", "ok", "canceled", "timedout"}]
  /\ result \in [Threads -> SUBSET Bits]
  /\ counted \subseteq Threads

\* m_waiting_threads is the number of threads inside Wait on every path out of
\* it (wake, timeout, cancellation), so Cancel's loop and the EPERM of a
\* single-threaded flag count the right thing; the status is Canceled exactly
\* while one Cancel, and only one, drains the waiters.
Waiters == {t \in Threads : pc[t] = "wait"}
WaitersCounted ==
  /\ mWaiting = Cardinality(Waiters)
  /\ ~isMulti => mWaiting <= 1
  /\ mStatus = "Canceled" <=> \E t \in Threads : pc[t] = "drain"
  /\ \A t, u \in Threads : pc[t] = "drain" /\ pc[u] = "drain" => t = u

\* No lost wake-up: a waiter that sleeps un-notified has a condition that is
\* false, whatever Set, Clear, Cancel and the other waiters did since it slept.
NoLostWakeup ==
  \A t \in Threads : asleep[t] => pc[t] = "wait" /\ ~WaitFunc(request[t])

\* Every waiter that a Cancel found is turned away with ECANCELED before the
\* Cancel returns, a waiter whose time ran out meanwhile included, and none of
\* them is inside Wait when the flag accepts Set again; all of them report the
\* pattern that the Cancel stored.
CancelTurnsAway ==
  \A t \in counted :
    pc[t] = "wait" \/ (outcome[t] = "canceled" /\ result[t] = mBits)
CancelComplete ==
  [][\A t \in Threads : (pc[t] = "drain" /\ pc'[t] = "idle") =>
       \A u \in counted : pc[u] # "wait" /\ outcome[u] = "canceled"]_vars

\* A waiter whose condition holds returns, unless another call takes the bits
\* away from it first.
SatisfiedReturns ==
  \A t \in Threads :
    (pc[t] = "wait" /\ WaitFunc(request[t]))
      ~> (pc[t] # "wait" \/ ~WaitFunc(request[t]))

\* Cancel returns: the waiters leave, and calls that arrive during the drain do
\* not keep it from finding m_waiting_threads at zero.
CancelTerminates == \A t \in Threads : pc[t] = "drain" ~> pc[t] = "idle"
=============================================================================
