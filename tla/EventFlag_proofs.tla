-------------------------- MODULE EventFlag_proofs --------------------------
(***************************************************************************)
(* Proofs about EventFlag, for any number of threads and any set of bits.  *)
(***************************************************************************)
EXTENDS EventFlag, FiniteSetTheorems, TLAPS

\* Only a Cancel in progress has waiters to turn away.
CountedOK == counted # {} => mStatus = "Canceled"

\* The inductive invariant.
IInv == TypeOK /\ WaitersCounted /\ NoLostWakeup /\ CancelTurnsAway /\ CountedOK

\* A pattern that Wait leaves behind is a pattern.
LEMMA ClearedType ==
  ASSUME TypeOK, NEW r \in WaitArgs \union {NoRequest} PROVE Cleared(r) \in SUBSET Bits
<1>1. r.clear \in {"None", "All", "Bits"}
  BY EventFlagAssumption DEF Requests, NoRequest
<1> QED BY <1>1 DEF Cleared, TypeOK

\* The set of waiters is finite; what happens to its size when one joins or leaves.
LEMMA WaitersFinite == IsFiniteSet(Waiters) /\ Cardinality(Waiters) \in Nat
<1>1. Waiters \subseteq Threads
  BY DEF Waiters
<1>2. IsFiniteSet(Waiters)
  BY <1>1, EventFlagAssumption, FS_Subset
<1> QED BY <1>2, FS_CardinalityType

\* A thread that enters the wait makes one waiter more.
LEMMA WaiterJoins ==
  ASSUME TypeOK, NEW t \in Threads, pc[t] = "idle", pc' = [pc EXCEPT ![t] = "wait"]
  PROVE  Cardinality(Waiters') = Cardinality(Waiters) + 1
<1>1. Waiters' = Waiters \union {t} /\ t \notin Waiters
  BY DEF Waiters, TypeOK
<1> QED BY <1>1, WaitersFinite, FS_AddElement

\* A thread that leaves the wait makes one waiter less.
LEMMA WaiterLeaves ==
  ASSUME TypeOK, NEW t \in Threads, pc[t] = "wait", pc' = [pc EXCEPT ![t] = "idle"]
  PROVE  /\ Cardinality(Waiters') = Cardinality(Waiters) - 1
         /\ Cardinality(Waiters) > 0
<1>1. Waiters' = Waiters \ {t} /\ t \in Waiters
  BY DEF Waiters, TypeOK
<1>2. Cardinality(Waiters \ {t}) = Cardinality(Waiters) - 1
  BY <1>1, WaitersFinite, FS_RemoveElement
<1>3. Waiters # {}
  BY <1>1
<1>4. Cardinality(Waiters) # 0
  BY <1>3, WaitersFinite, FS_EmptySet
<1> QED BY <1>1, <1>2, <1>4, WaitersFinite

\* Initially nobody waits.
LEMMA InitIInv == Init => IInv
<1> SUFFICES ASSUME Init PROVE IInv
  OBVIOUS
<1> USE EventFlagAssumption DEF Init
<1>1. TypeOK
  <2>1. live \in BOOLEAN /\ isMulti \in BOOLEAN /\ asleep \in [Threads -> BOOLEAN]
    BY Zenon
  <2>2. NoRequest \in WaitArgs \union {NoRequest}
    OBVIOUS
  <2>3. /\ mStatus \in {"Set", "Canceled"} /\ mBits \in SUBSET Bits /\ mWaiting \in Nat
        /\ pc \in [Threads -> {"idle", "wait", "drain"}]
        /\ outcome \in [Threads -> {"none", "ok", "canceled", "timedout"}]
        /\ result \in [Threads -> SUBSET Bits] /\ counted \subseteq Threads
    OBVIOUS
  <2>4. request \in [Threads -> WaitArgs \union {NoRequest}]
    BY <2>2
  <2> QED BY <2>1, <2>3, <2>4 DEF TypeOK
<1>2. Waiters = {}
  BY DEF Waiters
<1>3. WaitersCounted
  BY <1>2, FS_EmptySet DEF WaitersCounted
<1>4. NoLostWakeup /\ CancelTurnsAway /\ CountedOK
  BY DEF NoLostWakeup, CancelTurnsAway, CountedOK
<1> QED BY <1>1, <1>3, <1>4 DEF IInv

\* A step that moves no thread and leaves the count and the status alone.
LEMMA SameCount ==
  ASSUME WaitersCounted, UNCHANGED <<isMulti, mWaiting, mStatus, pc>> PROVE WaitersCounted'
BY DEF WaitersCounted, Waiters

\* A Wait that returns at once only takes bits away, which wakes nobody.
LEMMA WaitNowIInv ==
  ASSUME IInv, NEW t \in Threads, NEW r \in WaitArgs, WaitNow(t, r) PROVE IInv'
<1> USE DEF IInv
<1>1. TypeOK'
  <2>1. mBits' \in SUBSET Bits
    BY ClearedType DEF WaitNow, WaitReturn, TypeOK
  <2>2. /\ outcome' \in [Threads -> {"none", "ok", "canceled", "timedout"}]
        /\ result' \in [Threads -> SUBSET Bits]
    BY DEF WaitNow, WaitReturn, TypeOK
  <2> QED BY <2>1, <2>2 DEF TypeOK, WaitNow
<1>2. WaitersCounted'
  BY SameCount DEF WaitNow
<1>3. mBits' \subseteq mBits
  BY EventFlagAssumption DEF WaitNow, WaitReturn, Cleared, Requests
<1>4. NoLostWakeup'
  BY <1>3 DEF NoLostWakeup, WaitFunc, WaitNow
<1>5. CountedOK'
  BY DEF CountedOK, WaitNow
<1>6. CancelTurnsAway'
  <2> SUFFICES ASSUME NEW u \in counted, mStatus = "Canceled", mBits' = mBits,
                      pc[u] # "wait"
               PROVE  outcome'[u] = "canceled" /\ result'[u] = mBits
    BY DEF CancelTurnsAway, CountedOK, WaitNow, WaitReturn
  <2>1. CASE u = t
    BY <2>1 DEF WaitNow, WaitReturn, TypeOK
  <2>2. CASE u # t
    BY <2>2 DEF CancelTurnsAway, WaitNow, WaitReturn, TypeOK
  <2> QED BY <2>1, <2>2
<1> QED BY <1>1, <1>2, <1>4, <1>5, <1>6

\* A Wait that blocks is counted, sleeps on a false condition and finds no Cancel.
LEMMA WaitBlockIInv ==
  ASSUME IInv, NEW t \in Threads, NEW r \in WaitArgs, WaitBlock(t, r) PROVE IInv'
<1> USE DEF IInv
<1>1. TypeOK'
  <2>1. /\ mWaiting' \in Nat /\ pc' \in [Threads -> {"idle", "wait", "drain"}]
        /\ request' \in [Threads -> WaitArgs \union {NoRequest}]
    BY DEF TypeOK, WaitBlock
  <2>2. asleep' \in [Threads -> BOOLEAN]
    BY DEF TypeOK, WaitBlock
  <2> QED BY <2>1, <2>2 DEF TypeOK, WaitBlock
<1>2. /\ mStatus = "Set" /\ counted = {} /\ mStatus' = mStatus /\ counted' = counted
      /\ isMulti' = isMulti
  BY DEF WaitBlock, WaitFunc, TypeOK, CountedOK
<1>3. WaitersCounted'
  <2>1. Cardinality(Waiters') = Cardinality(Waiters) + 1
    BY WaiterJoins DEF WaitBlock, WaitEnter
  <2>2. mWaiting' = mWaiting + 1 /\ mWaiting = Cardinality(Waiters) /\ (isMulti \/ mWaiting = 0)
    BY DEF WaitBlock, WaitEnter, WaitersCounted
  <2>3. \A u \in Threads : pc'[u] # "drain"
    BY <1>2 DEF WaitersCounted, WaitBlock, TypeOK
  <2> QED BY <1>2, <2>1, <2>2, <2>3, WaitersFinite DEF WaitersCounted
<1>4. NoLostWakeup'
  <2> SUFFICES ASSUME NEW u \in Threads, asleep'[u]
               PROVE  pc'[u] = "wait" /\ ~WaitFunc(request[u])'
    BY DEF NoLostWakeup
  <2>1. CASE u = t
    <3>1. pc'[u] = "wait" /\ request'[u] = r
      BY <2>1 DEF WaitBlock, TypeOK
    <3> QED BY <3>1 DEF WaitBlock, WaitFunc
  <2>2. CASE u # t
    <3>1. pc'[u] = pc[u] /\ request'[u] = request[u] /\ asleep[u]
      BY <2>2 DEF WaitBlock, TypeOK
    <3> QED BY <3>1 DEF WaitBlock, WaitFunc, NoLostWakeup
  <2> QED BY <2>1, <2>2
<1>5. CountedOK' /\ CancelTurnsAway'
  BY <1>2 DEF CountedOK, CancelTurnsAway
<1> QED BY <1>1, <1>3, <1>4, <1>5

\* A waiter that leaves takes bits away; during a Cancel it leaves with ECANCELED.
LEMMA WaitWakeIInv ==
  ASSUME IInv, NEW t \in Threads, WaitWake(t) PROVE IInv'
<1> USE DEF IInv
<1>0. /\ pc[t] = "wait" /\ pc' = [pc EXCEPT ![t] = "idle"] /\ mWaiting' = mWaiting - 1
      /\ mStatus' = mStatus /\ counted' = counted /\ isMulti' = isMulti
      /\ asleep' = [asleep EXCEPT ![t] = FALSE]
      /\ request' = [request EXCEPT ![t] = NoRequest]
      /\ request[t] \in WaitArgs \union {NoRequest}
  BY DEF WaitWake, TypeOK
<1>01. /\ Cardinality(Waiters') = Cardinality(Waiters) - 1 /\ Cardinality(Waiters) > 0
  BY <1>0, WaiterLeaves
<1>02. mWaiting = Cardinality(Waiters) /\ mWaiting' = Cardinality(Waiters') /\ mWaiting' \in Nat
  BY <1>0, <1>01, WaitersFinite DEF WaitersCounted
<1>1. TypeOK'
  <2>1. mBits' \in SUBSET Bits
    BY <1>0, ClearedType DEF WaitWake, WaitReturn, TypeOK
  <2>2. /\ outcome' \in [Threads -> {"none", "ok", "canceled", "timedout"}]
        /\ result' \in [Threads -> SUBSET Bits]
    BY DEF WaitWake, WaitReturn, TypeOK
  <2>3. asleep' \in [Threads -> BOOLEAN]
    BY <1>0 DEF TypeOK
  <2>4. /\ request' \in [Threads -> WaitArgs \union {NoRequest}]
        /\ pc' \in [Threads -> {"idle", "wait", "drain"}]
    BY <1>0 DEF TypeOK
  <2> QED BY <1>0, <1>02, <2>1, <2>2, <2>3, <2>4 DEF TypeOK, WaitWake
<1>2. WaitersCounted'
  <2>1. ~isMulti => mWaiting' <= 1
    BY <1>0, <1>02, WaitersFinite DEF WaitersCounted
  <2>2. \A u \in Threads : pc'[u] = "drain" <=> pc[u] = "drain"
    BY <1>0 DEF TypeOK
  <2> QED BY <1>0, <1>02, <2>1, <2>2 DEF WaitersCounted
<1>3. mBits' \subseteq mBits
  <2>1. request[t].clear \in {"None", "All", "Bits"}
    BY <1>0, EventFlagAssumption DEF Requests, NoRequest
  <2> QED BY <2>1 DEF WaitWake, WaitReturn, Cleared
<1>4. NoLostWakeup'
  <2> SUFFICES ASSUME NEW u \in Threads, asleep'[u]
               PROVE  pc'[u] = "wait" /\ ~WaitFunc(request[u])'
    BY DEF NoLostWakeup
  <2>1. u # t
    BY <1>0 DEF TypeOK
  <2>2. pc'[u] = pc[u] /\ request'[u] = request[u] /\ asleep[u]
    BY <1>0, <2>1 DEF TypeOK
  <2>3. pc[u] = "wait" /\ ~WaitFunc(request[u])
    BY <2>2 DEF NoLostWakeup
  <2> QED BY <1>0, <1>3, <2>2, <2>3 DEF WaitFunc
<1>5. CountedOK'
  BY <1>0 DEF CountedOK
<1>6. CancelTurnsAway'
  <2> SUFFICES ASSUME NEW u \in counted, mStatus = "Canceled", mBits' = mBits,
                      pc'[u] # "wait"
               PROVE  outcome'[u] = "canceled" /\ result'[u] = mBits
    BY <1>0 DEF CancelTurnsAway, CountedOK, WaitWake, WaitReturn
  <2>1. CASE u = t
    BY <2>1 DEF WaitWake, WaitReturn, TypeOK
  <2>2. CASE u # t
    <3>1. pc[u] # "wait" /\ u \in Threads
      BY <1>0, <2>2 DEF TypeOK
    <3> QED BY <2>2, <3>1 DEF CancelTurnsAway, WaitWake, WaitReturn, TypeOK
  <2> QED BY <2>1, <2>2
<1> QED BY <1>1, <1>2, <1>4, <1>5, <1>6

\* A notified waiter whose condition is false goes back to sleep.
LEMMA WaitAgainIInv ==
  ASSUME IInv, NEW t \in Threads, WaitAgain(t) PROVE IInv'
<1> USE DEF IInv
<1>1. TypeOK'
  <2>1. asleep' \in [Threads -> BOOLEAN]
    BY DEF TypeOK, WaitAgain
  <2> QED BY <2>1 DEF TypeOK, WaitAgain
<1>2. WaitersCounted'
  BY SameCount DEF WaitAgain
<1>3. NoLostWakeup'
  <2> SUFFICES ASSUME NEW u \in Threads, asleep'[u]
               PROVE  pc[u] = "wait" /\ ~WaitFunc(request[u])
    BY DEF NoLostWakeup, WaitAgain, WaitFunc
  <2>1. CASE u = t
    BY <2>1 DEF WaitAgain
  <2>2. CASE u # t
    BY <2>2 DEF WaitAgain, NoLostWakeup, TypeOK
  <2> QED BY <2>1, <2>2
<1>4. CountedOK' /\ CancelTurnsAway'
  BY DEF CountedOK, CancelTurnsAway, WaitAgain
<1> QED BY <1>1, <1>2, <1>3, <1>4

\* A waiter can only time out when no Cancel is in progress.
LEMMA WaitTimeoutIInv ==
  ASSUME IInv, NEW t \in Threads, WaitTimeout(t) PROVE IInv'
<1> USE DEF IInv
<1>0. /\ pc[t] = "wait" /\ pc' = [pc EXCEPT ![t] = "idle"] /\ mWaiting' = mWaiting - 1
      /\ mStatus' = mStatus /\ counted' = counted /\ mBits' = mBits
      /\ isMulti' = isMulti
      /\ asleep' = [asleep EXCEPT ![t] = FALSE]
      /\ request' = [request EXCEPT ![t] = NoRequest]
  BY DEF WaitTimeout
<1>01. /\ Cardinality(Waiters') = Cardinality(Waiters) - 1 /\ Cardinality(Waiters) > 0
  BY <1>0, WaiterLeaves
<1>02. mWaiting = Cardinality(Waiters) /\ mWaiting' = Cardinality(Waiters') /\ mWaiting' \in Nat
  BY <1>0, <1>01, WaitersFinite DEF WaitersCounted
<1>03. counted = {}
  BY DEF WaitTimeout, WaitFunc, CountedOK
<1>1. TypeOK'
  <2>2. /\ outcome' \in [Threads -> {"none", "ok", "canceled", "timedout"}]
        /\ result' \in [Threads -> SUBSET Bits]
    BY DEF WaitTimeout, TypeOK
  <2>3. asleep' \in [Threads -> BOOLEAN]
    BY <1>0 DEF TypeOK
  <2>4. /\ request' \in [Threads -> WaitArgs \union {NoRequest}]
        /\ pc' \in [Threads -> {"idle", "wait", "drain"}]
    BY <1>0 DEF TypeOK
  <2> QED BY <1>0, <1>02, <2>2, <2>3, <2>4 DEF TypeOK, WaitTimeout
<1>2. WaitersCounted'
  <2>1. ~isMulti => mWaiting' <= 1
    BY <1>0, <1>02, WaitersFinite DEF WaitersCounted
  <2>2. \A u \in Threads : pc'[u] = "drain" <=> pc[u] = "drain"
    BY <1>0 DEF TypeOK
  <2> QED BY <1>0, <1>02, <2>1, <2>2 DEF WaitersCounted
<1>4. NoLostWakeup'
  <2> SUFFICES ASSUME NEW u \in Threads, asleep'[u]
               PROVE  pc'[u] = "wait" /\ ~WaitFunc(request[u])'
    BY DEF NoLostWakeup
  <2>1. u # t
    BY <1>0 DEF TypeOK
  <2>2. pc'[u] = pc[u] /\ request'[u] = request[u] /\ asleep[u]
    BY <1>0, <2>1 DEF TypeOK
  <2> QED BY <1>0, <2>2 DEF WaitFunc, NoLostWakeup
<1>5. CountedOK' /\ CancelTurnsAway'
  BY <1>0, <1>03 DEF CountedOK, CancelTurnsAway
<1> QED BY <1>1, <1>2, <1>4, <1>5

-----------------------------------------------------------------------------
\* After notify_all nobody sleeps.
LEMMA NotifiedAwake ==
  ASSUME NotifyAll PROVE NoLostWakeup' /\ asleep' \in [Threads -> BOOLEAN]
BY DEF NotifyAll, NoLostWakeup

\* Set, Clear, Cancel without waiters, Create and Delete move no thread.
LEMMA SetClearIInv ==
  ASSUME IInv, NEW t \in Threads, NEW bits \in Patterns,
         Set(t, bits) \/ Clear(t, bits) \/ CancelIdle(t, bits)
  PROVE  IInv'
<1> USE DEF IInv
<1>1. /\ mStatus = "Set" /\ counted = {} /\ counted' = {}
      /\ UNCHANGED <<live, isMulti, mStatus, mWaiting, pc, request, outcome, result>>
  BY DEF Set, Clear, CancelIdle, CountedOK
<1>2. mBits' \in SUBSET Bits
  BY DEF Set, Clear, CancelIdle, TypeOK, Patterns
<1>3. NoLostWakeup' /\ asleep' \in [Threads -> BOOLEAN]
  <2>1. CASE Clear(t, bits)
    BY <2>1 DEF Clear, NoLostWakeup, WaitFunc, TypeOK
  <2>2. CASE Set(t, bits) \/ CancelIdle(t, bits)
    BY <2>2, NotifiedAwake DEF Set, CancelIdle
  <2> QED BY <2>1, <2>2
<1>4. TypeOK'
  BY <1>1, <1>2, <1>3 DEF TypeOK
<1>5. WaitersCounted'
  BY <1>1, SameCount
<1>6. CountedOK' /\ CancelTurnsAway'
  BY <1>1 DEF CountedOK, CancelTurnsAway
<1> QED BY <1>3, <1>4, <1>5, <1>6

\* The Cancel that begins is the only one, and every waiter is notified.
LEMMA CancelBeginIInv ==
  ASSUME IInv, NEW t \in Threads, NEW bits \in Patterns, CancelBegin(t, bits)
  PROVE  IInv'
<1> USE DEF IInv
<1>1. /\ pc[t] = "idle" /\ mStatus = "Set" /\ mStatus' = "Canceled" /\ mWaiting' = mWaiting
      /\ pc' = [pc EXCEPT ![t] = "drain"]
      /\ counted' = {u \in Threads : pc[u] = "wait"}
      /\ mBits' \in SUBSET Bits
      /\ UNCHANGED <<live, isMulti, request, outcome, result>>
  BY DEF CancelBegin, Patterns
<1>2. NoLostWakeup' /\ asleep' \in [Threads -> BOOLEAN]
  BY NotifiedAwake DEF CancelBegin
<1>3. TypeOK'
  <2>1. pc' \in [Threads -> {"idle", "wait", "drain"}]
    BY <1>1 DEF TypeOK
  <2> QED BY <1>1, <1>2, <2>1 DEF TypeOK
<1>4. \A u \in Threads : (pc'[u] = "wait" <=> pc[u] = "wait") /\ (pc'[u] = "drain" <=> u = t)
  BY <1>1 DEF TypeOK, WaitersCounted
<1>5. WaitersCounted'
  <2>1. Waiters' = Waiters
    BY <1>4 DEF Waiters
  <2> QED BY <1>1, <1>4, <2>1 DEF WaitersCounted
<1>6. CountedOK' /\ CancelTurnsAway'
  BY <1>1, <1>4 DEF CountedOK, CancelTurnsAway
<1> QED BY <1>2, <1>3, <1>5, <1>6

\* The Cancel that ends leaves no waiter behind.
LEMMA CancelEndIInv ==
  ASSUME IInv, NEW t \in Threads, CancelEnd(t) PROVE IInv'
<1> USE DEF IInv
<1>1. /\ pc[t] = "drain" /\ mStatus' = "Set" /\ counted' = {} /\ mWaiting' = mWaiting
      /\ mWaiting = 0 /\ pc' = [pc EXCEPT ![t] = "idle"]
      /\ UNCHANGED <<live, isMulti, mBits, asleep, request, outcome, result>>
  BY DEF CancelEnd
<1>2. TypeOK'
  <2>1. pc' \in [Threads -> {"idle", "wait", "drain"}]
    BY <1>1 DEF TypeOK
  <2> QED BY <1>1, <2>1 DEF TypeOK
<1>3. \A u \in Threads : (pc'[u] = "wait" <=> pc[u] = "wait") /\ pc'[u] # "drain"
  BY <1>1 DEF TypeOK, WaitersCounted
<1>4. Waiters' = Waiters
  BY <1>3 DEF Waiters
<1>5. WaitersCounted'
  BY <1>1, <1>3, <1>4 DEF WaitersCounted
<1>6. Waiters = {}
  BY <1>1, WaitersFinite, FS_EmptySet DEF WaitersCounted
<1>7. NoLostWakeup'
  BY <1>1, <1>6 DEF NoLostWakeup, Waiters
<1>8. CountedOK' /\ CancelTurnsAway'
  BY <1>1 DEF CountedOK, CancelTurnsAway
<1> QED BY <1>2, <1>5, <1>7, <1>8

\* Nobody is inside a call on a flag that does not exist.
LiveOK == ~live => \A t \in Threads : pc[t] = "idle"

\* Every action but Create needs the flag or a thread inside a call on it.
LEMMA NextLiveOK == LiveOK /\ [Next]_vars => LiveOK'
<1> SUFFICES ASSUME LiveOK, [Next]_vars PROVE LiveOK'
  OBVIOUS
<1> USE DEF LiveOK
<1>1. CASE UNCHANGED vars
  BY <1>1 DEF vars
<1>2. CASE Next
  <2>1. PICK t \in Threads :
          \/ \E r \in WaitArgs : WaitNow(t, r) \/ WaitBlock(t, r)
          \/ WaitWake(t) \/ WaitAgain(t) \/ WaitTimeout(t)
          \/ \E bits \in Patterns :
               Set(t, bits) \/ Clear(t, bits) \/ CancelIdle(t, bits) \/ CancelBegin(t, bits)
          \/ CancelEnd(t)
          \/ Delete(t) \/ \E multi \in BOOLEAN : Create(t, multi)
    BY <1>2 DEF Next
  <2>2. CASE \E r \in WaitArgs : WaitNow(t, r) \/ WaitBlock(t, r)
    BY <2>2 DEF WaitNow, WaitBlock, WaitEnter
  <2>3. CASE WaitWake(t) \/ WaitAgain(t) \/ WaitTimeout(t) \/ CancelEnd(t)
    <3>1. pc[t] # "idle" /\ live' = live
      BY <2>3 DEF WaitWake, WaitAgain, WaitTimeout, CancelEnd
    <3> QED BY <3>1
  <2>4. CASE \E bits \in Patterns :
               Set(t, bits) \/ Clear(t, bits) \/ CancelIdle(t, bits) \/ CancelBegin(t, bits)
    BY <2>4 DEF Set, Clear, CancelIdle, CancelBegin
  <2>5. CASE Delete(t) \/ \E multi \in BOOLEAN : Create(t, multi)
    BY <2>5 DEF Create, Delete
  <2> QED BY <2>1, <2>2, <2>3, <2>4, <2>5
<1> QED BY <1>1, <1>2

\* Nobody is in a call when the flag is created or deleted.
LEMMA CreateDeleteIInv ==
  ASSUME IInv, LiveOK, NEW t \in Threads,
         Delete(t) \/ \E multi \in BOOLEAN : Create(t, multi)
  PROVE  IInv'
<1> USE DEF IInv
<1>1. UNCHANGED <<mStatus, mWaiting, pc, asleep, request, outcome, result, counted>>
  BY DEF Create, Delete
<1>2. live' \in BOOLEAN /\ isMulti' \in BOOLEAN /\ mBits' \in SUBSET Bits
  BY EventFlagAssumption DEF Create, Delete, TypeOK
<1>3. \A u \in Threads : pc[u] = "idle"
  BY DEF Create, Delete, LiveOK
<1>4. TypeOK'
  BY <1>1, <1>2 DEF TypeOK
<1>5. WaitersCounted'
  <2>1. Waiters = {} /\ Waiters' = Waiters
    BY <1>1, <1>3 DEF Waiters
  <2>2. mWaiting = 0
    BY <2>1, FS_EmptySet DEF WaitersCounted
  <2> QED BY <1>1, <2>1, <2>2 DEF WaitersCounted
<1>6. NoLostWakeup'
  BY <1>1, <1>3 DEF NoLostWakeup
<1>7. mStatus # "Canceled"
  BY <1>3 DEF WaitersCounted
<1>8. CountedOK' /\ CancelTurnsAway'
  BY <1>1, <1>7 DEF CountedOK, CancelTurnsAway
<1> QED BY <1>4, <1>5, <1>6, <1>8

\* One case for each action.
LEMMA NextIInv == IInv /\ LiveOK /\ [Next]_vars => IInv'
<1> SUFFICES ASSUME IInv, LiveOK, [Next]_vars PROVE IInv'
  OBVIOUS
<1>1. CASE UNCHANGED vars
  BY <1>1 DEF vars, IInv, TypeOK, WaitersCounted, Waiters, NoLostWakeup, WaitFunc,
              CancelTurnsAway, CountedOK
<1>2. CASE Next
  <2>1. PICK t \in Threads :
          \/ \E r \in WaitArgs : WaitNow(t, r) \/ WaitBlock(t, r)
          \/ WaitWake(t) \/ WaitAgain(t) \/ WaitTimeout(t)
          \/ \E bits \in Patterns :
               Set(t, bits) \/ Clear(t, bits) \/ CancelIdle(t, bits) \/ CancelBegin(t, bits)
          \/ CancelEnd(t)
          \/ Delete(t) \/ \E multi \in BOOLEAN : Create(t, multi)
    BY <1>2 DEF Next
  <2>2. CASE \E r \in WaitArgs : WaitNow(t, r) \/ WaitBlock(t, r)
    BY <2>2, WaitNowIInv, WaitBlockIInv
  <2>3. CASE WaitWake(t) \/ WaitAgain(t) \/ WaitTimeout(t)
    BY <2>3, WaitWakeIInv, WaitAgainIInv, WaitTimeoutIInv
  <2>4. CASE \E bits \in Patterns :
               Set(t, bits) \/ Clear(t, bits) \/ CancelIdle(t, bits) \/ CancelBegin(t, bits)
    BY <2>4, SetClearIInv, CancelBeginIInv
  <2>5. CASE CancelEnd(t)
    BY <2>5, CancelEndIInv
  <2>6. CASE Delete(t) \/ \E multi \in BOOLEAN : Create(t, multi)
    BY <2>6, CreateDeleteIInv
  <2> QED BY <2>1, <2>2, <2>3, <2>4, <2>5, <2>6
<1> QED BY <1>1, <1>2

\* The invariant of every reachable state.
LEMMA InvariantHolds == Spec => [](IInv /\ LiveOK)
<1>1. Init => LiveOK
  BY DEF Init, LiveOK
<1> QED BY <1>1, InitIInv, NextIInv, NextLiveOK, PTL DEF Spec

-----------------------------------------------------------------------------
\* m_waiting_threads counts the threads inside Wait, and at most one Cancel
\* drains, for any number of threads.
THEOREM WaitersCountedCorrect == Spec => []WaitersCounted
<1>1. IInv => WaitersCounted
  BY DEF IInv
<1> QED BY <1>1, InvariantHolds, PTL

\* No waiter sleeps on a condition that holds, whatever the requests are.
THEOREM NoWakeupLost == Spec => []NoLostWakeup
<1>1. IInv => NoLostWakeup
  BY DEF IInv
<1> QED BY <1>1, InvariantHolds, PTL

\* A waiter that Cancel found leaves Wait with ECANCELED and the bits that Cancel
\* set, whichever sets, clears and timeouts come during the drain.
THEOREM CanceledTurnedAway == Spec => []CancelTurnsAway
<1>1. IInv => CancelTurnsAway
  BY DEF IInv
<1> QED BY <1>1, InvariantHolds, PTL

\* When a Cancel returns, every waiter that it found has left Wait with ECANCELED.
THEOREM CancelIsComplete == Spec => CancelComplete
<1> DEFINE Done == \A t \in Threads : (pc[t] = "drain" /\ pc'[t] = "idle") =>
                     \A u \in counted : pc[u] # "wait" /\ outcome[u] = "canceled"
<1>1. IInv /\ [Next]_vars => [Done]_vars
  <2> SUFFICES ASSUME IInv, Next, NEW t \in Threads, pc[t] = "drain", pc'[t] = "idle",
                      NEW u \in counted
               PROVE  pc[u] # "wait" /\ outcome[u] = "canceled"
    OBVIOUS
  <2>1. CancelEnd(t)
    <3>1. PICK v \in Threads :
            \/ \E r \in WaitArgs : WaitNow(v, r) \/ WaitBlock(v, r)
            \/ WaitWake(v) \/ WaitAgain(v) \/ WaitTimeout(v)
            \/ \E bits \in Patterns :
                 Set(v, bits) \/ Clear(v, bits) \/ CancelIdle(v, bits) \/ CancelBegin(v, bits)
            \/ CancelEnd(v)
            \/ Delete(v) \/ \E multi \in BOOLEAN : Create(v, multi)
      BY DEF Next
    <3>2. CASE CancelEnd(v)
      BY <3>2 DEF CancelEnd, IInv, WaitersCounted
    <3>3. CASE \/ WaitAgain(v) \/ Delete(v) \/ \E multi \in BOOLEAN : Create(v, multi)
               \/ \E r \in WaitArgs : WaitNow(v, r)
               \/ \E bits \in Patterns : Set(v, bits) \/ Clear(v, bits) \/ CancelIdle(v, bits)
      BY <3>3 DEF WaitAgain, Create, Delete, WaitNow, Set, Clear, CancelIdle
    <3>4. CASE WaitWake(v) \/ WaitTimeout(v) \/ \E r \in WaitArgs : WaitBlock(v, r)
      <4>1. v # t /\ \E s \in {"idle", "wait"} : pc' = [pc EXCEPT ![v] = s]
        BY <3>4 DEF WaitWake, WaitTimeout, WaitBlock, WaitEnter
      <4> QED BY <4>1 DEF IInv, TypeOK
    <3>5. CASE \E bits \in Patterns : CancelBegin(v, bits)
      <4>1. v # t /\ pc' = [pc EXCEPT ![v] = "drain"]
        BY <3>5 DEF CancelBegin
      <4> QED BY <4>1 DEF IInv, TypeOK
    <3> QED BY <3>1, <3>2, <3>3, <3>4, <3>5
  <2>2. Waiters = {}
    BY <2>1, WaitersFinite, FS_EmptySet DEF CancelEnd, IInv, WaitersCounted
  <2>3. u \in Threads
    BY DEF IInv, TypeOK
  <2>4. pc[u] # "wait"
    BY <2>2, <2>3 DEF Waiters
  <2> QED BY <2>4 DEF IInv, CancelTurnsAway
<1>2. Spec => [][Done]_vars
  BY <1>1, InvariantHolds, PTL DEF Spec
<1> QED BY <1>2 DEF CancelComplete
=============================================================================
