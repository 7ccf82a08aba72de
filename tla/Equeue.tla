------------------------------- MODULE Equeue -------------------------------
(***************************************************************************)
(* A kernel event queue (kernel/equeue.cpp) and the service thread that    *)
(* runs its timers (kernel/kernel.cpp).  One queue, and one event of each  *)
(* kind on it: the flip and vblank events of VideoOut, an edge and a level *)
(* user event, a periodic and a high-resolution timer.  What an event      *)
(* carries (data, user data, intervals) is left out.                       *)
(*                                                                         *)
(* Waiters sleep on m_cond; TriggerEvent notifies one of them after it has *)
(* released m_mutex, which is a step of its own.  Short high-resolution    *)
(* timers are kept apart and a waiter spins for them.                      *)
(***************************************************************************)
EXTENDS Integers, Sequences, FiniteSets

CONSTANTS Threads, NULL,
          Programs,      \* guest programs: the calls they make, the buffers they register
          Nums,          \* values of WaitForEvents's num
          MaxRequests    \* bound: asio_requests

\* sceKernelWaitEqueue refuses num < 1.
ASSUME EqueueAssumption == IsFiniteSet(Threads) /\ Nums \subseteq Nat \ {0}

Keys == {"flip", "vblank", "edge", "level", "timer", "hrtimer"}
UserKeys == {"edge", "level"}
TimerKeys == {"timer", "hrtimer"}

VARIABLES
  calls,         \* the calls this guest program makes
  events,        \* m_events, in order
  armed,         \* timers with a pending async_wait
  small,         \* m_small_timers: the ids
  asioRequests,  \* asio_requests
  service,       \* KernelServiceThread: where it is, and the timer whose callback it runs
  thr            \* guest threads: where each is, and its call's arguments

eqVars == <<events, armed, small, asioRequests, service, thr>>

Idle == [pc |-> "idle", num |-> 1, keys |-> {}]

EqInit ==
  /\ events = <<>> /\ armed = {} /\ small = {} /\ asioRequests = 0
  /\ service = [pc |-> "wait", key |-> NULL]
  /\ thr = [t \in Threads |-> Idle]

Goto(t, pc) == thr' = [thr EXCEPT ![t].pc = pc]
Return(t) == thr' = [thr EXCEPT ![t] = Idle]

-----------------------------------------------------------------------------
Has(k) == \E i \in DOMAIN events : events[i].key = k
\* erase of the event that find_if finds.
Without(s, k) ==
  LET it == CHOOSE i \in DOMAIN s : s[i].key = k IN
  IF \E i \in DOMAIN s : s[i].key = k
  THEN [j \in 1 .. Len(s) - 1 |-> IF j < it THEN s[j] ELSE s[j + 1]]
  ELSE s

\* The event as AddEvent stores it: Clear is appended unless it is a user event,
\* and only high-resolution timers are added as OneShot.
NewEvent(k) == [key |-> k, clear |-> k # "level", trig |-> FALSE]
OneShot == "hrtimer"

\* AddEvent: an event that is there already keeps its trigger status.
Added(k) == IF Has(k) THEN events ELSE Append(events, NewEvent(k))

\* TriggerEvent under m_mutex.
Triggered(k) ==
  [i \in DOMAIN events |-> [events[i] EXCEPT !.trig = @ \/ events[i].key = k]]

Asleep == {t \in Threads : thr[t].pc = "asleep"}

\* Mutant of NotifyOne: a waiter that is awake already is thought to do.
NotifyOneUnlessWoken(th) ==
  \/ \E u \in Asleep : /\ \A w \in Threads : th[w].pc # "woken"
                      /\ thr' = [th EXCEPT ![u].pc = "woken"]
  \/ (Asleep = {} \/ \E w \in Threads : th[w].pc = "woken") /\ thr' = th

\* m_cond.notify_one(): one of the sleeping waiters, if there is one.
NotifyOne(th) ==
  \/ \E u \in Asleep : thr' = [th EXCEPT ![u].pc = "woken"]
  \/ Asleep = {} /\ thr' = th

\* GetTriggeredEvents: the first num triggered events, and the queue without them.
Ready(s) == {i \in DOMAIN s : s[i].trig}
Taken(num) ==
  {events[i].key : i \in {j \in Ready(events) :
                            Cardinality({h \in Ready(events) : h <= j}) <= num}}
Cleared(s, K) ==
  [i \in DOMAIN s |-> [s[i] EXCEPT !.trig = @ /\ ~(s[i].key \in K /\ s[i].clear)]]
AfterTaking(s, K) ==
  IF OneShot \in K THEN Without(Cleared(s, K), OneShot) ELSE Cleared(s, K)

-----------------------------------------------------------------------------
\* The Add calls.  Adding a timer goes on to ScheduleEvent unless it was there.
AddEvent(t, k) ==
  /\ thr[t].pc = "idle" /\ k \in calls
  /\ events' = Added(k)
  /\ IF k \in TimerKeys /\ ~Has(k)
     THEN thr' = [thr EXCEPT ![t].pc = "schedule", ![t].keys = {k}]
     ELSE UNCHANGED thr
  /\ UNCHANGED <<armed, small, asioRequests, service>>

\* ScheduleEvent: fails if the event was removed meanwhile; otherwise starts the
\* timer and sends the service thread a request.
ScheduleEvent(k) ==
  IF Has(k)
  THEN /\ armed' = armed \union {k}
       /\ asioRequests' = IF asioRequests < MaxRequests THEN asioRequests + 1 ELSE asioRequests
  ELSE UNCHANGED <<armed, asioRequests>>
Schedule(t) ==
  /\ thr[t].pc = "schedule"
  /\ \E k \in thr[t].keys : ScheduleEvent(k)
  /\ Return(t)
  /\ UNCHANGED <<events, small, service>>

\* RemoveEvent: the timer goes with the event, and its wait is cancelled.
Remove(k) ==
  /\ events' = Without(events, k)
  /\ armed' = armed \ {k}

\* The Delete calls.
DeleteEvent(t, k) ==
  /\ thr[t].pc = "idle" /\ k \in calls \ {"hrtimer"}
  /\ Remove(k)
  /\ UNCHANGED <<small, asioRequests, service, thr>>

\* sceKernelDeleteHRTimerEvent asks HasSmallTimer,
DeleteHRTimerEvent(t) ==
  /\ thr[t].pc = "idle" /\ "hrtimer" \in calls
  /\ Goto(t, IF small # {} THEN "delsmall" ELSE "delete")
  /\ UNCHANGED <<events, armed, small, asioRequests, service>>

\* and then looks for the timer among the small ones only, or the others only.
DeleteHRTimer(t) ==
  /\ \/ /\ thr[t].pc = "delsmall"
        /\ small' = small \ {"hrtimer"} /\ UNCHANGED <<events, armed>>
     \/ /\ thr[t].pc = "delete"
        /\ Remove("hrtimer") /\ UNCHANGED small
  /\ Return(t)
  /\ UNCHANGED <<asioRequests, service>>

\* sceKernelAddHRTimerEvent below the threshold: AddSmallTimer.
AddSmallTimer(t) ==
  /\ thr[t].pc = "idle" /\ "small" \in calls
  /\ small' = small \union {"hrtimer"}
  /\ UNCHANGED <<events, armed, asioRequests, service, thr>>

\* sceKernelTriggerUserEvent.
TriggerUserEvent(t, k) ==
  /\ thr[t].pc = "idle" /\ k \in calls \intersect UserKeys
  /\ events' = Triggered(k)
  /\ Goto(t, "notify")
  /\ UNCHANGED <<armed, small, asioRequests, service>>
Notify(t) ==
  /\ thr[t].pc = "notify"
  /\ NotifyOne([thr EXCEPT ![t] = Idle])
  /\ UNCHANGED <<events, armed, small, asioRequests, service>>

-----------------------------------------------------------------------------
\* WaitForEvents with a time limit other than 0, or none (it may then not run out):
\* HasSmallTimer decides how to wait.
WaitForEvents(t, num) ==
  /\ thr[t].pc = "idle" /\ "wait" \in calls
  /\ thr' = [thr EXCEPT ![t].pc = IF small # {} THEN "spin" ELSE "check", ![t].num = num]
  /\ UNCHANGED <<events, armed, small, asioRequests, service>>

\* The predicate of the wait, under m_mutex.
Check(t) ==
  LET K == Taken(thr[t].num) IN
  /\ thr[t].pc \in {"check", "woken"}
  /\ \/ /\ K # {}
        /\ events' = AfterTaking(events, K)
        /\ armed' = armed \ (K \intersect {OneShot})
        /\ Return(t)
     \/ /\ K = {} /\ Goto(t, "asleep")
        /\ UNCHANGED <<events, armed>>
  /\ UNCHANGED <<small, asioRequests, service>>

\* wait_for runs out: the predicate is tried once more.
WaitTimeout(t) ==
  LET K == Taken(thr[t].num) IN
  /\ thr[t].pc = "asleep"
  /\ events' = AfterTaking(events, K)
  /\ armed' = armed \ (K \intersect {OneShot})
  /\ Return(t)
  /\ UNCHANGED <<small, asioRequests, service>>

\* WaitForSmallTimer: ends with the small timers that have expired, or in time.
WaitForSmallTimer(t) ==
  /\ thr[t].pc = "spin"
  /\ \/ \E S \in SUBSET small : S # {} /\ Cardinality(S) <= thr[t].num /\ small' = small \ S
     \/ UNCHANGED small
  /\ Return(t)
  /\ UNCHANGED <<events, armed, asioRequests, service>>

\* WaitForEvents with a time limit of 0 reads the queue without m_mutex: what it
\* returns and what it then clears need not be the same events.
Poll(t, num) ==
  /\ thr[t].pc = "idle" /\ "poll" \in calls
  /\ thr' = [thr EXCEPT ![t].pc = "polled", ![t].keys = Taken(num)]
  /\ UNCHANGED <<events, armed, small, asioRequests, service>>
PollClear(t) ==
  /\ thr[t].pc = "polled"
  /\ events' = AfterTaking(events, thr[t].keys)
  /\ armed' = armed \ (thr[t].keys \intersect {OneShot})
  /\ Return(t)
  /\ UNCHANGED <<small, asioRequests, service>>

-----------------------------------------------------------------------------
\* KernelServiceThread: waits for a request and runs io_context ...
ServiceGoto(pc, k) == service' = [pc |-> pc, key |-> k]
ServiceRun ==
  /\ service.pc = "wait" /\ asioRequests # 0
  /\ ServiceGoto("run", NULL)
  /\ UNCHANGED <<events, armed, small, asioRequests, thr>>

\* ... which calls back for a timer that has expired,
Expire(k) ==
  /\ service.pc = "run" /\ k \in armed
  /\ armed' = armed \ {k}
  /\ ServiceGoto("callback", k)
  /\ UNCHANGED <<events, small, asioRequests, thr>>

\* HrTimerCallback, TimerCallback: EventExists for the latter, then TriggerEvent,
\* which finds the event by its id again, and the notification.
Callback ==
  /\ service.pc = "callback"
  /\ IF service.key = "hrtimer" \/ Has(service.key)
     THEN ServiceGoto("trigger", service.key) ELSE ServiceGoto("run", NULL)
  /\ UNCHANGED <<events, armed, small, asioRequests, thr>>
CallbackTrigger ==
  /\ service.pc = "trigger"
  /\ events' = Triggered(service.key)
  /\ ServiceGoto("notify", service.key)
  /\ UNCHANGED <<armed, small, asioRequests, thr>>
CallbackNotify ==
  /\ service.pc = "notify"
  /\ NotifyOne(thr)
  /\ IF service.key = "timer" THEN ServiceGoto("again", "timer") ELSE ServiceGoto("run", NULL)
  /\ UNCHANGED <<events, armed, small, asioRequests>>
Reschedule ==
  /\ service.pc = "again"
  /\ ScheduleEvent(service.key)
  /\ ServiceGoto("run", NULL)
  /\ UNCHANGED <<events, small, thr>>

\* ... until no timer is left, and then forgets the requests it was sent.
ServiceStop ==
  /\ service.pc = "run" /\ armed = {}
  /\ ServiceGoto("forget", NULL)
  /\ UNCHANGED <<events, armed, small, asioRequests, thr>>
ServiceForget ==
  /\ service.pc = "forget"
  /\ asioRequests' = 0
  /\ ServiceGoto("wait", NULL)
  /\ UNCHANGED <<events, armed, small, thr>>

-----------------------------------------------------------------------------
EqServiceStep ==
  \/ ServiceRun \/ Callback \/ CallbackTrigger \/ CallbackNotify \/ Reschedule
  \/ ServiceStop \/ ServiceForget
  \/ \E k \in TimerKeys : Expire(k)
EqCall(t) ==
  \/ \E k \in UserKeys \union TimerKeys : AddEvent(t, k) \/ DeleteEvent(t, k) \/ TriggerUserEvent(t, k)
  \/ AddSmallTimer(t) \/ DeleteHRTimerEvent(t)
  \/ \E num \in Nums : Poll(t, num) \/ WaitForEvents(t, num)
EqExpire(t) == WaitTimeout(t) \/ WaitForSmallTimer(t)
EqResume(t) == Schedule(t) \/ DeleteHRTimer(t) \/ Notify(t) \/ Check(t) \/ PollClear(t)
=============================================================================
