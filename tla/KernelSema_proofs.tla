-------------------------- MODULE KernelSema_proofs --------------------------
(***************************************************************************)
(* Proofs about KernelSema, for any number of threads and any counts.      *)
(***************************************************************************)
EXTENDS KernelSema, SequenceTheorems, FiniteSetTheorems, TLAPS

\* The inductive invariant.
IInv == TypeOK /\ WaitListInv /\ NoSatisfiableWaiter

\* Removing and inserting an element of a sequence without repetitions.
NoRepeat(s) == \A i, j \in DOMAIN s : s[i] = s[j] => i = j
Elems(s) == {s[i] : i \in DOMAIN s}

\* Without removes one element and keeps the others, once each and in order.
LEMMA WithoutFacts ==
  ASSUME NEW S, NEW s \in Seq(S), NEW i \in DOMAIN s
  PROVE  /\ Without(s, i) \in Seq(S)
         /\ Len(Without(s, i)) = Len(s) - 1
         /\ \A j \in 1 .. Len(s) - 1 :
              Without(s, i)[j] = IF j < i THEN s[j] ELSE s[j + 1]
         /\ NoRepeat(s) => /\ NoRepeat(Without(s, i))
                           /\ Elems(Without(s, i)) = Elems(s) \ {s[i]}
<1> DEFINE w == Without(s, i)
<1>1. /\ w \in Seq(S) /\ Len(w) = Len(s) - 1 /\ DOMAIN w = 1 .. Len(s) - 1
      /\ \A j \in 1 .. Len(s) - 1 : w[j] = IF j < i THEN s[j] ELSE s[j + 1]
  BY DEF Without
<1>2. DOMAIN s = 1 .. Len(s) /\ Len(s) \in Nat /\ i \in 1 .. Len(s)
  OBVIOUS
<1> HIDE DEF w
<1>3. ASSUME NoRepeat(s) PROVE NoRepeat(w)
  BY SMTT(30), <1>1, <1>2, <1>3 DEF NoRepeat
<1>4. ASSUME NoRepeat(s) PROVE Elems(w) = Elems(s) \ {s[i]}
  <2>1. ASSUME NEW e \in Elems(w) PROVE e \in Elems(s) /\ e # s[i]
    BY SMTT(30), <1>1, <1>2, <1>4, <2>1 DEF Elems, NoRepeat
  <2>2. ASSUME NEW j \in DOMAIN s, s[j] # s[i] PROVE s[j] \in Elems(w)
    <3>1. CASE j < i
      BY <1>1, <1>2, <3>1 DEF Elems
    <3>2. CASE j > i
      <4>1. j - 1 \in 1 .. Len(s) - 1 /\ w[j - 1] = s[j]
        BY <1>1, <1>2, <3>2
      <4> QED BY <1>1, <4>1 DEF Elems
    <3> QED BY <1>2, <2>2, <3>1, <3>2
  <2> QED BY <2>1, <2>2 DEF Elems
<1> QED BY <1>1, <1>3, <1>4 DEF w

\* Insert adds one element.
LEMMA InsertFacts ==
  ASSUME NEW S, NEW s \in Seq(S), NEW e \in S, NEW i \in 1 .. Len(s) + 1
  PROVE  /\ Insert(s, i, e) \in Seq(S)
         /\ Len(Insert(s, i, e)) = Len(s) + 1
         /\ \A j \in 1 .. Len(s) + 1 : Insert(s, i, e)[j] =
              IF j < i THEN s[j] ELSE IF j = i THEN e ELSE s[j - 1]
         /\ NoRepeat(s) /\ e \notin Elems(s) => NoRepeat(Insert(s, i, e))
         /\ Elems(Insert(s, i, e)) = Elems(s) \union {e}
<1> DEFINE w == Insert(s, i, e)
<1>2. DOMAIN s = 1 .. Len(s) /\ Len(s) \in Nat
  OBVIOUS
<1>1. /\ w \in Seq(S) /\ DOMAIN w = 1 .. Len(s) + 1 /\ Len(w) = Len(s) + 1
      /\ \A j \in 1 .. Len(s) + 1 :
           w[j] = IF j < i THEN s[j] ELSE IF j = i THEN e ELSE s[j - 1]
  <2>1. ASSUME NEW j \in 1 .. Len(s) + 1
        PROVE  (IF j < i THEN s[j] ELSE IF j = i THEN e ELSE s[j - 1]) \in S
    BY <1>2
  <2> QED BY <1>2, <2>1 DEF Insert
<1> HIDE DEF w
<1>3. ASSUME NoRepeat(s), e \notin Elems(s) PROVE NoRepeat(w)
  <2> SUFFICES ASSUME NEW j \in 1 .. Len(s) + 1, NEW k \in 1 .. Len(s) + 1, j < k
               PROVE  w[j] # w[k]
    BY <1>1, <1>2 DEF NoRepeat
  <2>0. \A x \in 1 .. Len(s) : s[x] # e
    BY <1>2, <1>3 DEF Elems
  <2>1. CASE k < i
    BY <1>1, <1>2, <1>3, <2>1 DEF NoRepeat
  <2>2. CASE k = i
    BY <1>1, <1>2, <2>0, <2>2
  <2>3. CASE k > i /\ j < i
    <3>1. w[j] = s[j] /\ w[k] = s[k - 1] /\ j \in 1 .. Len(s) /\ k - 1 \in 1 .. Len(s) /\ j # k - 1
      BY <1>1, <1>2, <2>3
    <3> QED BY <1>2, <1>3, <3>1 DEF NoRepeat
  <2>4. CASE k > i /\ j = i
    <3>1. w[j] = e /\ w[k] = s[k - 1] /\ k - 1 \in 1 .. Len(s)
      BY <1>1, <1>2, <2>4
    <3> QED BY <2>0, <3>1
  <2>5. CASE j > i
    <3>1. w[j] = s[j - 1] /\ w[k] = s[k - 1] /\ j - 1 \in 1 .. Len(s)
          /\ k - 1 \in 1 .. Len(s) /\ j - 1 # k - 1
      BY <1>1, <1>2, <2>5
    <3> QED BY <1>2, <1>3, <3>1 DEF NoRepeat
  <2> QED BY <1>2, <2>1, <2>2, <2>3, <2>4, <2>5
<1>4. Elems(w) = Elems(s) \union {e}
  <2>1. ASSUME NEW x \in Elems(w) PROVE x \in Elems(s) \/ x = e
    BY <1>1, <1>2 DEF Elems
  <2>2. e \in Elems(w)
    BY <1>1, <1>2 DEF Elems
  <2>3. ASSUME NEW j \in DOMAIN s PROVE s[j] \in Elems(w)
    <3>1. CASE j < i
      BY <1>1, <1>2, <3>1 DEF Elems
    <3>2. CASE j >= i
      <4>1. j + 1 \in 1 .. Len(s) + 1 /\ w[j + 1] = s[j]
        BY <1>1, <1>2, <3>2
      <4> QED BY <1>1, <4>1 DEF Elems
    <3> QED BY <1>2, <3>1, <3>2
  <2> QED BY <2>1, <2>2, <2>3 DEF Elems
<1> QED BY <1>1, <1>3, <1>4 DEF w

-----------------------------------------------------------------------------
\* WaitListInv, for one thread.
WaiterOK(t) ==
  /\ t \in Waiting <=> pc[t] # "idle" /\ flag[t] = "none"
  /\ pc[t] = "idle" => flag[t] = "none"
  /\ sem[t] = IF flag[t] # "none" /\ pc[t] # "woken" THEN 1 ELSE 0
  /\ pc[t] = "woken" => flag[t] # "none"
  /\ pc[t] = "expired" => timeout[t] # NULL

\* The parts of WaitListInv that speak of one thread.
LEMMA WaitListSplit ==
  WaitListInv <=> NoRepeat(waitList) /\ \A t \in Threads : WaiterOK(t)
BY DEF WaitListInv, NoRepeat, WaiterOK

\* WaitListInv from those parts.
LEMMA WaitListJoin ==
  ASSUME NoRepeat(waitList'), \A t \in Threads : WaiterOK(t)' PROVE WaitListInv'
BY DEF WaitListInv, NoRepeat, WaiterOK

\* Initially the list is empty and nobody waits.
LEMMA InitIInv == Init => IInv
<1> SUFFICES ASSUME Init PROVE IInv
  OBVIOUS
<1> USE SemaAssumption DEF Init
<1>0. waitList \in Seq(Threads) /\ 0 \in 0 .. TimeMod - 1
  OBVIOUS
<1>01. /\ tokens \in Nat /\ it \in Nat \ {0} /\ taken \in Int
       /\ mutex \in Threads \union {NULL}
  OBVIOUS
<1>04. allocated \in BOOLEAN /\ crashed \in BOOLEAN /\ deleting \subseteq Threads
  BY Zenon
<1>02. /\ need \in [Threads -> Nat \ {0}]
       /\ timeout \in [Threads -> Timeouts \union {NULL}]
       /\ sem \in [Threads -> Nat]
       /\ remaining \in 0 .. TimeMod - 1
  BY <1>0
<1>03. /\ flag \in [Threads -> {"none", "signaled", "canceled", "deleted"}]
       /\ pc \in [Threads -> {"idle", "sleep", "woken", "expired"}]
  OBVIOUS
<1>1. TypeOK
  BY <1>0, <1>01, <1>02, <1>03, <1>04 DEF TypeOK
<1>2. Waiting = {}
  BY DEF Waiting
<1>3. WaitListInv
  BY <1>2 DEF WaitListInv
<1>4. NoSatisfiableWaiter
  BY DEF NoSatisfiableWaiter
<1> QED BY <1>1, <1>3, <1>4 DEF IInv

\* A step that leaves the waiters' fields alone.
waiterVars == <<waitList, need, timeout, flag, sem, pc>>
\* A step that leaves the list and the threads alone keeps the list invariant.
LEMMA SameWaiters ==
  ASSUME WaitListInv, UNCHANGED waiterVars PROVE WaitListInv'
BY DEF WaitListInv, waiterVars, Waiting

\* Taking tokens makes no waiter satisfiable.
LEMMA WaitTakeIInv ==
  ASSUME IInv, NEW t \in Threads, NEW n \in Needs, WaitTake(t, n) PROVE IInv'
<1> USE SemaAssumption DEF IInv, WaitTake, Enter
<1>1. tokens' \in Nat /\ tokens' <= tokens /\ taken' \in Int
  BY DEF TypeOK
<1>2. TypeOK'
  BY <1>1 DEF TypeOK
<1>3. WaitListInv'
  BY SameWaiters DEF waiterVars
<1>4. NoSatisfiableWaiter'
  <2>1. \A i \in DOMAIN waitList : waitList[i] \in Threads /\ need[waitList[i]] \in Nat
    BY DEF TypeOK
  <2>2. \A i \in DOMAIN waitList : need[waitList[i]] > tokens
    BY DEF NoSatisfiableWaiter
  <2>3. tokens \in Nat
    BY DEF TypeOK
  <2>4. \A i \in DOMAIN waitList : need[waitList[i]] > tokens'
    BY <1>1, <2>1, <2>2, <2>3
  <2> QED BY <2>4 DEF NoSatisfiableWaiter
<1> QED BY <1>2, <1>3, <1>4

\* A thread that blocks needs more than there is and is listed once.
LEMMA WaitBlockIInv ==
  ASSUME IInv, NEW t \in Threads, NEW n \in Needs,
         NEW tmo \in Timeouts \union {NULL}, WaitBlock(t, n, tmo)
  PROVE  IInv'
<1> USE SemaAssumption DEF IInv
<1>1. PICK i \in 1 .. Len(waitList) + 1 : waitList' = Insert(waitList, i, t)
  BY DEF WaitBlock
<1>2. waitList \in Seq(Threads) /\ t \notin Elems(waitList) /\ NoRepeat(waitList)
  BY WaitListSplit DEF TypeOK, WaitBlock, Enter, WaiterOK, Waiting, Elems
<1>3. /\ waitList' \in Seq(Threads) /\ Len(waitList') = Len(waitList) + 1
      /\ \A j \in 1 .. Len(waitList) + 1 : waitList'[j] =
           IF j < i THEN waitList[j] ELSE IF j = i THEN t ELSE waitList[j - 1]
      /\ NoRepeat(waitList')
      /\ Waiting' = Waiting \union {t}
  <2>1. /\ Insert(waitList, i, t) \in Seq(Threads)
        /\ Len(Insert(waitList, i, t)) = Len(waitList) + 1
        /\ \A j \in 1 .. Len(waitList) + 1 : Insert(waitList, i, t)[j] =
             IF j < i THEN waitList[j] ELSE IF j = i THEN t ELSE waitList[j - 1]
        /\ NoRepeat(Insert(waitList, i, t))
        /\ Elems(Insert(waitList, i, t)) = Elems(waitList) \union {t}
    BY <1>2, InsertFacts
  <2>2. Waiting' = Elems(waitList') /\ Waiting = Elems(waitList)
    BY DEF Waiting, Elems
  <2> HIDE DEF IInv
  <2> QED BY <1>1, <2>1, <2>2
<1>4. TypeOK'
  <2>1. n \in Nat \ {0}
    BY DEF WaitBlock, TypeOK
  <2> QED BY <1>3, <2>1 DEF TypeOK, WaitBlock
<1>5. WaitListInv'
  <2>1. ASSUME NEW u \in Threads PROVE WaiterOK(u)'
    BY <1>3, WaitListSplit DEF WaiterOK, WaitBlock, TypeOK
  <2> QED BY <1>3, <2>1, WaitListJoin
<1>6. NoSatisfiableWaiter'
  <2>1. /\ mutex = NULL /\ tokens' = tokens /\ need'[t] = n /\ n > tokens
        /\ \A u \in Threads : u # t => need'[u] = need[u]
    BY DEF WaitBlock, Enter, TypeOK
  <2>2. \A j \in 1 .. Len(waitList) : waitList[j] # t /\ waitList[j] \in Threads
                                      /\ need[waitList[j]] > tokens
    BY <1>2, <2>1 DEF NoSatisfiableWaiter, Elems
  <2>3. ASSUME NEW j \in 1 .. Len(waitList) + 1 PROVE need'[waitList'[j]] > tokens
    <3>1. CASE j < i
      <4>1. j \in 1 .. Len(waitList) /\ waitList'[j] = waitList[j]
        BY <1>2, <1>3, <3>1
      <4> QED BY <4>1, <2>1, <2>2
    <3>2. CASE j = i
      BY <1>3, <2>1, <3>2
    <3>3. CASE j > i
      <4>1. j - 1 \in 1 .. Len(waitList) /\ waitList'[j] = waitList[j - 1]
        BY <1>2, <1>3, <3>3
      <4> QED BY <4>1, <2>1, <2>2
    <3> QED BY <3>1, <3>2, <3>3
  <2> QED BY <1>3, <2>1, <2>3 DEF NoSatisfiableWaiter
<1> QED BY <1>4, <1>5, <1>6

\* A waiter that acquires its semaphore was flagged.
LEMMA WaitAcquireIInv ==
  ASSUME IInv, NEW t \in Threads, WaitAcquire(t) PROVE IInv'
<1> USE SemaAssumption DEF IInv
<1>1. TypeOK'
  <2>1. sem' \in [Threads -> Nat]
    BY DEF TypeOK, WaitAcquire
  <2> QED BY <2>1 DEF TypeOK, WaitAcquire
<1>2. WaitListInv'
  <2>1. Waiting' = Waiting /\ waitList' = waitList
    BY DEF Waiting, WaitAcquire
  <2>2. ASSUME NEW u \in Threads PROVE WaiterOK(u)'
    BY SMTT(30), <2>1, WaitListSplit DEF WaiterOK, WaitAcquire, TypeOK
  <2> QED BY <2>1, <2>2, WaitListSplit, WaitListJoin
<1>3. NoSatisfiableWaiter'
  BY DEF NoSatisfiableWaiter, WaitAcquire
<1> QED BY <1>1, <1>2, <1>3

\* A timeout alone changes neither the list nor the flags.
LEMMA WaitExpireIInv ==
  ASSUME IInv, NEW t \in Threads, WaitExpire(t) PROVE IInv'
<1> USE SemaAssumption DEF IInv
<1>1. TypeOK'
  BY DEF TypeOK, WaitExpire
<1>2. WaitListInv'
  <2>1. Waiting' = Waiting /\ waitList' = waitList
    BY DEF Waiting, WaitExpire
  <2>2. ASSUME NEW u \in Threads PROVE WaiterOK(u)'
    BY <2>1, WaitListSplit DEF WaiterOK, WaitExpire, TypeOK
  <2> QED BY <2>1, <2>2, WaitListSplit, WaitListJoin
<1>3. NoSatisfiableWaiter'
  BY DEF NoSatisfiableWaiter, WaitExpire
<1> QED BY <1>1, <1>2, <1>3

\* A return takes a thread that timed out off the list, and no other.
LEMMA WaitReturnIInv ==
  ASSUME IInv, NEW t \in Threads, NEW e \in 0 .. MaxElapsed, WaitReturn(t, e)
  PROVE  IInv'
<1> USE SemaAssumption DEF IInv
<1>0. mutex = NULL /\ mutex' = NULL /\ tokens' = tokens /\ waitList \in Seq(Threads)
  BY DEF WaitReturn, TypeOK
<1>1. \A u \in Threads : u # t => need'[u] = need[u]
  BY DEF WaitReturn, TypeOK
<1>2. /\ waitList' \in Seq(Threads) /\ NoRepeat(waitList')
      /\ Waiting' = Waiting \ {t}
  <2>1. CASE flag[t] = "none"
    <3>1. PICK i \in DOMAIN waitList : waitList[i] = t /\ waitList' = Without(waitList, i)
      BY <2>1 DEF WaitReturn, GetResult
    <3>2. NoRepeat(waitList)
      BY WaitListSplit
    <3>3. /\ Without(waitList, i) \in Seq(Threads) /\ NoRepeat(Without(waitList, i))
          /\ Elems(Without(waitList, i)) = Elems(waitList) \ {waitList[i]}
      BY <1>0, <3>2, WithoutFacts
    <3>4. Waiting' = Elems(waitList') /\ Waiting = Elems(waitList)
      BY DEF Waiting, Elems
    <3> QED BY <3>1, <3>3, <3>4
  <2>2. CASE flag[t] # "none"
    <3>1. waitList' = waitList
      BY <2>2 DEF WaitReturn, GetResult, TypeOK
    <3>2. t \notin Waiting
      BY <2>2, WaitListSplit DEF WaiterOK
    <3> QED BY <1>0, <3>1, <3>2, WaitListSplit DEF Waiting
  <2> QED BY <2>1, <2>2
<1>3. TypeOK'
  <2>1. remaining' \in 0 .. TimeMod - 1
    <3>1. CASE timeout[t] = NULL
      BY <3>1 DEF TypeOK, WaitReturn
    <3>2. CASE timeout[t] # NULL
      <4>1. timeout[t] \in Int
        <5>1. timeout[t] \in Timeouts
          BY <3>2 DEF TypeOK
        <5>2. Timeouts \subseteq Int
          OBVIOUS
        <5> QED BY <5>1, <5>2
      <4>2. (timeout[t] - e) % TimeMod \in 0 .. TimeMod - 1 /\ 0 \in 0 .. TimeMod - 1
        BY <4>1
      <4> DEFINE left == IF flag[t] = "signaled" THEN (timeout[t] - e) % TimeMod ELSE 0
      <4>3. left \in 0 .. TimeMod - 1
        BY <4>2
      <4>4. remaining' = left
        BY <3>2 DEF WaitReturn
      <4> HIDE DEF left
      <4> QED BY <4>3, <4>4 DEF TypeOK
    <3> QED BY <3>1, <3>2
  <2>2. taken' \in Int
    BY DEF TypeOK, WaitReturn
  <2>3. /\ need' \in [Threads -> Nat \ {0}] /\ sem' \in [Threads -> Nat]
        /\ timeout' \in [Threads -> Timeouts \union {NULL}]
    BY DEF TypeOK, WaitReturn
  <2>4. /\ flag' \in [Threads -> {"none", "signaled", "canceled", "deleted"}]
        /\ pc' \in [Threads -> {"idle", "sleep", "woken", "expired"}]
    BY DEF TypeOK, WaitReturn
  <2>5. UNCHANGED <<tokens, mutex, it, allocated, deleting, crashed>>
    BY DEF WaitReturn
  <2> QED BY <1>2, <2>1, <2>2, <2>3, <2>4, <2>5 DEF TypeOK
<1>4. WaitListInv'
  <2>1. ASSUME NEW u \in Threads PROVE WaiterOK(u)'
    <3>1. CASE u = t
      BY <1>2, <3>1 DEF WaiterOK, WaitReturn, TypeOK
    <3>2. CASE u # t
      <4>1. /\ pc'[u] = pc[u] /\ flag'[u] = flag[u] /\ sem'[u] = sem[u]
            /\ timeout'[u] = timeout[u] /\ (u \in Waiting' <=> u \in Waiting)
        BY <1>2, <3>2 DEF WaitReturn, TypeOK
      <4> QED BY <4>1, WaitListSplit DEF WaiterOK
    <3> QED BY <3>1, <3>2
  <2> QED BY <1>2, <2>1, WaitListJoin
<1>5. NoSatisfiableWaiter'
  <2>1. \A u \in Waiting : need[u] > tokens
    BY <1>0 DEF NoSatisfiableWaiter, Waiting
  <2>2. ASSUME NEW j \in DOMAIN waitList' PROVE need'[waitList'[j]] > tokens'
    <3>1. waitList'[j] \in Waiting' /\ waitList'[j] \in Threads
      BY <1>2 DEF Waiting
    <3> QED BY <1>0, <1>1, <1>2, <2>1, <3>1
  <2> QED BY <2>2 DEF NoSatisfiableWaiter
<1> QED BY <1>3, <1>4, <1>5

\* The end of the process changes nothing else.
LEMMA UseAfterFreeIInv ==
  ASSUME IInv, NEW t \in Threads, UseAfterFree(t) PROVE IInv'
<1> USE DEF IInv, UseAfterFree
<1>1. TypeOK'
  BY DEF TypeOK
<1>2. WaitListInv'
  BY SameWaiters DEF waiterVars
<1>3. NoSatisfiableWaiter'
  BY DEF NoSatisfiableWaiter
<1> QED BY <1>1, <1>2, <1>3

-----------------------------------------------------------------------------
\* The scan starts at the head: nothing is claimed of any waiter yet.
LEMMA SignalBeginIInv ==
  ASSUME IInv, NEW t \in Threads, NEW n \in Needs, SignalBegin(t, n) PROVE IInv'
<1> USE SemaAssumption DEF IInv, SignalBegin
<1>1. tokens' \in Nat /\ taken' \in Int
  BY DEF TypeOK
<1>2. TypeOK'
  BY <1>1 DEF TypeOK
<1>3. WaitListInv'
  BY SameWaiters DEF waiterVars
<1>4. NoSatisfiableWaiter'
  <2>1. mutex' # NULL /\ it' = 1 /\ waitList' \in Seq(Threads)
    BY DEF TypeOK
  <2>2. \A j \in DOMAIN waitList' : ~(j < it')
    BY <2>1
  <2> QED BY <2>1, <2>2 DEF NoSatisfiableWaiter
<1> QED BY <1>2, <1>3, <1>4

\* A waiter that is passed needs more than there is.
LEMMA SignalSkipIInv ==
  ASSUME IInv, NEW t \in Threads, SignalSkip(t) PROVE IInv'
<1> USE SemaAssumption DEF IInv, SignalSkip
<1>1. it' \in Nat \ {0}
  BY DEF TypeOK
<1>2. TypeOK'
  BY <1>1 DEF TypeOK
<1>3. WaitListInv'
  BY SameWaiters DEF waiterVars
<1>4. NoSatisfiableWaiter'
  <2>1. ASSUME NEW j \in DOMAIN waitList, j < it + 1 PROVE need[waitList[j]] > tokens
    <3>1. j < it \/ j = it
      BY <2>1 DEF TypeOK
    <3> QED BY <3>1 DEF NoSatisfiableWaiter
  <2>2. mutex' # NULL
    OBVIOUS
  <2> QED BY <2>1, <2>2 DEF NoSatisfiableWaiter
<1> QED BY <1>2, <1>3, <1>4

\* Serving a waiter lowers the count, so the waiters already passed stay unsatisfiable.
LEMMA SignalWakeIInv ==
  ASSUME IInv, NEW t \in Threads, SignalWake(t) PROVE IInv'
<1> USE SemaAssumption DEF IInv
<1> DEFINE w == waitList[it]
<1>1. /\ it \in DOMAIN waitList /\ waitList \in Seq(Threads) /\ w \in Threads
      /\ need[w] <= tokens /\ waitList' = Without(waitList, it)
      /\ tokens' = tokens - need[w] /\ tokens \in Nat /\ need[w] \in Nat
      /\ flag' = [flag EXCEPT ![w] = "signaled"]
      /\ sem' = [sem EXCEPT ![w] = @ + 1]
      /\ need' = need /\ it' = it /\ mutex' = mutex /\ mutex # NULL
      /\ pc' = pc /\ timeout' = timeout
  <2>1. waitList \in Seq(Threads) /\ it \in Nat \ {0} /\ it <= Len(waitList)
    BY DEF SignalWake, TypeOK
  <2>2. it \in DOMAIN waitList /\ w \in Threads
    BY <2>1
  <2>3. tokens \in Nat /\ need[w] \in Nat
    BY <2>2 DEF TypeOK
  <2>4. mutex # NULL
    BY DEF SignalWake
  <2> QED BY <2>1, <2>2, <2>3, <2>4 DEF SignalWake
<1>2. w \in Waiting
  BY <1>1 DEF Waiting
<1> HIDE DEF w
<1>3. /\ waitList' \in Seq(Threads) /\ NoRepeat(waitList')
      /\ Len(waitList') = Len(waitList) - 1
      /\ \A j \in 1 .. Len(waitList) - 1 :
           waitList'[j] = IF j < it THEN waitList[j] ELSE waitList[j + 1]
      /\ Waiting' = Waiting \ {w}
  <2>1. NoRepeat(waitList)
    BY WaitListSplit
  <2>2. Waiting' = Elems(waitList') /\ Waiting = Elems(waitList)
    BY DEF Waiting, Elems
  <2>3. /\ Without(waitList, it) \in Seq(Threads) /\ NoRepeat(Without(waitList, it))
        /\ Len(Without(waitList, it)) = Len(waitList) - 1
        /\ \A j \in 1 .. Len(waitList) - 1 : Without(waitList, it)[j] =
             IF j < it THEN waitList[j] ELSE waitList[j + 1]
        /\ Elems(Without(waitList, it)) = Elems(waitList) \ {waitList[it]}
    <3>1. it \in DOMAIN waitList /\ waitList \in Seq(Threads)
      BY <1>1
    <3> HIDE DEF IInv
    <3> QED BY <2>1, <3>1, WithoutFacts
  <2> QED BY <1>1, <2>2, <2>3 DEF w
<1>4. TypeOK'
  <2>1. tokens' \in Nat
    BY <1>1
  <2>2. sem' \in [Threads -> Nat]
    <3>1. sem \in [Threads -> Nat] /\ sem[w] + 1 \in Nat
      <4>1. sem \in [Threads -> Nat]
        BY DEF TypeOK
      <4>2. w \in Threads
        BY <1>1
      <4> QED BY <4>1, <4>2
    <3> QED BY <1>1, <3>1
  <2> QED BY ZenonT(30), <1>1, <1>3, <2>1, <2>2 DEF TypeOK, SignalWake
<1>5. WaitListInv'
  <2>1. ASSUME NEW u \in Threads PROVE WaiterOK(u)'
    <3>0. WaiterOK(u)
      BY WaitListSplit
    <3>1. CASE u = w
      <4>1. pc[u] # "idle" /\ flag[u] = "none" /\ sem[u] = 0 /\ pc[u] # "woken"
        BY <1>2, <3>0, <3>1 DEF WaiterOK
      <4>2. flag'[u] = "signaled" /\ sem'[u] = 1
        BY <1>1, <3>1, <4>1 DEF TypeOK
      <4> QED BY <1>1, <1>3, <3>0, <3>1, <4>1, <4>2 DEF WaiterOK
    <3>2. CASE u # w
      <4>1. flag'[u] = flag[u] /\ sem'[u] = sem[u] /\ (u \in Waiting' <=> u \in Waiting)
        BY <1>1, <1>3, <3>2 DEF TypeOK
      <4> QED BY <1>1, <3>0, <4>1 DEF WaiterOK
    <3> QED BY <3>1, <3>2
  <2> QED BY <1>3, <2>1, WaitListJoin
<1>6. NoSatisfiableWaiter'
  <2>1. ASSUME NEW j \in DOMAIN waitList', j < it PROVE need[waitList'[j]] > tokens'
    <3>1. j \in DOMAIN waitList /\ waitList'[j] = waitList[j] /\ waitList[j] \in Threads
      <4>1. DOMAIN waitList' = 1 .. Len(waitList) - 1 /\ DOMAIN waitList = 1 .. Len(waitList)
        BY <1>1, <1>3
      <4>2. j \in 1 .. Len(waitList) - 1 /\ j \in DOMAIN waitList
        BY <4>1
      <4>3. waitList'[j] = waitList[j]
        BY <1>3, <2>1, <4>2
      <4>4. waitList[j] \in Threads
        BY <4>2 DEF TypeOK
      <4> QED BY <4>2, <4>3, <4>4
    <3>2. need[waitList[j]] > tokens /\ need[waitList[j]] \in Nat
      BY <2>1, <3>1 DEF NoSatisfiableWaiter, TypeOK
    <3> QED BY SMTT(30), <1>1, <3>1, <3>2
  <2> QED BY <1>1, <2>1 DEF NoSatisfiableWaiter
<1> QED BY <1>4, <1>5, <1>6

\* The scan has passed every waiter when the mutex is released.
LEMMA SignalEndIInv ==
  ASSUME IInv, NEW t \in Threads, SignalEnd(t) PROVE IInv'
<1> USE SemaAssumption DEF IInv, SignalEnd
<1>2. TypeOK'
  BY DEF TypeOK
<1>3. WaitListInv'
  BY SameWaiters DEF waiterVars
<1>4. NoSatisfiableWaiter'
  <2>1. ASSUME NEW j \in DOMAIN waitList PROVE j < it
    BY DEF TypeOK
  <2> QED BY <2>1 DEF NoSatisfiableWaiter
<1> QED BY <1>2, <1>3, <1>4

-----------------------------------------------------------------------------
\* Cancel and Delete mark and release every waiter and empty the list.
LEMMA ReleaseWaitersInv ==
  ASSUME IInv, NEW why \in {"canceled", "deleted"}, ReleaseWaiters(why),
         pc' = pc, timeout' = timeout
  PROVE  /\ waitList' = << >> /\ WaitListInv'
         /\ waitList' \in Seq(Threads)
         /\ flag' \in [Threads -> {"none", "signaled", "canceled", "deleted"}]
         /\ sem' \in [Threads -> Nat]
<1> USE DEF IInv
<1>1. waitList' = << >> /\ Waiting' = {} /\ waitList' \in Seq(Threads)
  BY DEF ReleaseWaiters, Waiting
<1>2. NoRepeat(waitList')
  BY <1>1 DEF NoRepeat
<1>3. ASSUME NEW u \in Threads PROVE WaiterOK(u)'
  <2>0. WaiterOK(u)
    BY WaitListSplit
  <2>1. CASE u \in Waiting
    <3>1. flag'[u] = why /\ sem'[u] = sem[u] + 1
      BY <2>1 DEF ReleaseWaiters
    <3>2. pc[u] # "idle" /\ flag[u] = "none" /\ sem[u] = 0 /\ pc[u] # "woken"
      BY <2>0, <2>1 DEF WaiterOK
    <3>3. sem'[u] = 1 /\ why # "none"
      BY <3>1, <3>2
    <3> QED BY <1>1, <2>0, <3>1, <3>2, <3>3 DEF WaiterOK
  <2>2. CASE u \notin Waiting
    <3>1. flag'[u] = flag[u] /\ sem'[u] = sem[u]
      BY <2>2 DEF ReleaseWaiters
    <3> QED BY <1>1, <2>0, <2>2, <3>1 DEF WaiterOK
  <2> QED BY <2>1, <2>2
<1>4. /\ flag' \in [Threads -> {"none", "signaled", "canceled", "deleted"}]
      /\ sem' \in [Threads -> Nat]
  BY DEF ReleaseWaiters, TypeOK
<1> QED BY <1>1, <1>2, <1>3, <1>4, WaitListJoin

\* Cancel empties the list.
LEMMA CancelIInv ==
  ASSUME IInv, NEW t \in Threads, NEW c \in SetCounts, Cancel(t, c) PROVE IInv'
<1> USE SemaAssumption DEF IInv
<1>1. /\ waitList' = << >> /\ WaitListInv' /\ waitList' \in Seq(Threads)
      /\ flag' \in [Threads -> {"none", "signaled", "canceled", "deleted"}]
      /\ sem' \in [Threads -> Nat]
  BY ReleaseWaitersInv DEF Cancel
<1>2. tokens' \in Nat /\ taken' \in Int
  BY DEF Cancel, TypeOK
<1>3. TypeOK'
  BY <1>1, <1>2 DEF TypeOK, Cancel
<1>4. NoSatisfiableWaiter'
  BY <1>1 DEF NoSatisfiableWaiter
<1> QED BY <1>1, <1>3, <1>4

\* Delete empties the list.
LEMMA DeleteIInv ==
  ASSUME IInv, NEW t \in Threads, Delete(t) PROVE IInv'
<1> USE SemaAssumption DEF IInv
<1>1. /\ waitList' = << >> /\ WaitListInv' /\ waitList' \in Seq(Threads)
      /\ flag' \in [Threads -> {"none", "signaled", "canceled", "deleted"}]
      /\ sem' \in [Threads -> Nat]
  BY ReleaseWaitersInv DEF Delete
<1>3. TypeOK'
  BY <1>1 DEF TypeOK, Delete
<1>4. NoSatisfiableWaiter'
  BY <1>1 DEF NoSatisfiableWaiter
<1> QED BY <1>1, <1>3, <1>4

\* The erasure of the slot leaves list, tokens and waiters alone.
LEMMA EraseIInv ==
  ASSUME IInv, NEW t \in Threads, Erase(t) PROVE IInv'
<1> USE DEF IInv
<1>1. crashed' \in BOOLEAN /\ allocated' \in BOOLEAN /\ deleting' \subseteq Threads
  BY DEF Erase, TypeOK
<1>2. TypeOK'
  BY <1>1 DEF TypeOK, Erase
<1>3. WaitListInv' /\ NoSatisfiableWaiter'
  BY SameWaiters DEF Erase, waiterVars, NoSatisfiableWaiter
<1> QED BY <1>2, <1>3

-----------------------------------------------------------------------------
\* Every step preserves the invariant.
LEMMA NextIInv == IInv /\ [Next]_vars => IInv'
<1> SUFFICES ASSUME IInv, [Next]_vars PROVE IInv'
  OBVIOUS
<1>1. CASE UNCHANGED vars
  BY <1>1 DEF vars, IInv, TypeOK, WaitListInv, NoSatisfiableWaiter, Waiting
<1>2. CASE Next
  <2>1. PICK t \in Threads :
          \/ WaitAcquire(t) \/ WaitExpire(t)
          \/ \E e \in 0 .. MaxElapsed : WaitReturn(t, e)
          \/ UseAfterFree(t)
          \/ SignalSkip(t) \/ SignalWake(t) \/ SignalEnd(t)
          \/ \E n \in Needs : WaitTake(t, n) \/ SignalBegin(t, n)
          \/ \E n \in Needs, tmo \in Timeouts \union {NULL} : WaitBlock(t, n, tmo)
          \/ \E c \in SetCounts : Cancel(t, c)
          \/ Delete(t) \/ Erase(t)
    BY <1>2 DEF Next
  <2>2. CASE WaitAcquire(t) \/ WaitExpire(t)
    BY <2>2, WaitAcquireIInv, WaitExpireIInv
  <2>3. CASE UseAfterFree(t) \/ \E e \in 0 .. MaxElapsed : WaitReturn(t, e)
    BY <2>3, UseAfterFreeIInv, WaitReturnIInv
  <2>4. CASE SignalSkip(t) \/ SignalWake(t) \/ SignalEnd(t)
    BY <2>4, SignalSkipIInv, SignalWakeIInv, SignalEndIInv
  <2>5. CASE \E n \in Needs : WaitTake(t, n) \/ SignalBegin(t, n)
    BY <2>5, WaitTakeIInv, SignalBeginIInv
  <2>6. CASE \E n \in Needs, tmo \in Timeouts \union {NULL} : WaitBlock(t, n, tmo)
    BY <2>6, WaitBlockIInv
  <2>7. CASE (\E c \in SetCounts : Cancel(t, c)) \/ Delete(t) \/ Erase(t)
    BY <2>7, CancelIInv, DeleteIInv, EraseIInv
  <2> QED BY <2>1, <2>2, <2>3, <2>4, <2>5, <2>6, <2>7
<1> QED BY <1>1, <1>2

\* The invariant of every reachable state.
LEMMA InvariantHolds == Spec => []IInv
BY InitIInv, NextIInv, PTL DEF Spec

\* However many threads wait with however many counts, no waiter is left asleep
\* on tokens it could have taken: Signal's scan misses nobody, and neither a
\* timeout, a cancellation nor a direct take leaves a satisfiable waiter behind.
THEOREM NobodyLeftBehind == Spec => []NoSatisfiableWaiter
<1>1. IInv => NoSatisfiableWaiter
  BY DEF IInv
<1> QED BY <1>1, InvariantHolds, PTL

\* The wait list, the flags and the per-waiter semaphores always agree, so a
\* waiter released by Signal, Cancel or Delete finds exactly one token, and a
\* waiter that times out finds itself in the list it erases itself from.
THEOREM WaitListCorrect == Spec => []WaitListInv
<1>1. IInv => WaitListInv
  BY DEF IInv
<1> QED BY <1>1, InvariantHolds, PTL

\* A signal serves the waiters in list order: whoever it passes over needs more
\* tokens than the waiter it releases.
THEOREM ServiceOrder == Spec => ServedInOrder
<1>1. ASSUME IInv, NEW t \in Threads, SignalWake(t)
      PROVE  \A i \in 1 .. it - 1 : need[waitList[i]] > need[waitList[it]]
  <2> SUFFICES ASSUME NEW i \in 1 .. it - 1
               PROVE  need[waitList[i]] > need[waitList[it]]
    OBVIOUS
  <2>1. /\ i \in DOMAIN waitList /\ it \in DOMAIN waitList /\ i < it
        /\ waitList[i] \in Threads /\ waitList[it] \in Threads
    BY <1>1 DEF IInv, TypeOK, SignalWake
  <2>2. /\ need[waitList[i]] > tokens /\ need[waitList[it]] <= tokens
        /\ tokens \in Nat /\ need[waitList[i]] \in Nat /\ need[waitList[it]] \in Nat
    BY <1>1, <2>1 DEF IInv, TypeOK, SignalWake, NoSatisfiableWaiter
  <2> QED BY <2>2
<1>2. IInv => [\A t \in Threads : SignalWake(t) =>
                 \A i \in 1 .. it - 1 : need[waitList[i]] > need[waitList[it]]]_vars
  BY <1>1
<1> QED BY <1>2, InvariantHolds, PTL DEF ServedInOrder

-----------------------------------------------------------------------------
\* Removing a waiter keeps the order of the others.
LEMMA WithoutSorted ==
  ASSUME TypeOK, PrioritySorted, NEW i \in DOMAIN waitList, waitList' = Without(waitList, i)
  PROVE  PrioritySorted'
<1> DEFINE P(k) == Priority[waitList[k]]
<1>1. waitList \in Seq(Threads) /\ DOMAIN waitList = 1 .. Len(waitList) /\ Len(waitList) \in Nat
  BY DEF TypeOK
<1>2. /\ DOMAIN waitList' = 1 .. Len(waitList) - 1
      /\ \A j \in 1 .. Len(waitList) - 1 :
           waitList'[j] = IF j < i THEN waitList[j] ELSE waitList[j + 1]
  BY <1>1, WithoutFacts DEF Without
<1>3. SUFFICES ASSUME ~IsFifo, NEW j \in 1 .. Len(waitList) - 1,
                      NEW k \in 1 .. Len(waitList) - 1, j < k
               PROVE  Priority[waitList'[j]] <= Priority[waitList'[k]]
  BY <1>2 DEF PrioritySorted
<1>4. PICK x \in 1 .. Len(waitList), y \in 1 .. Len(waitList) :
        x < y /\ waitList'[j] = waitList[x] /\ waitList'[k] = waitList[y]
  <2>1. CASE k < i
    BY <1>1, <1>2, <1>3, <2>1
  <2>2. CASE j < i /\ k >= i
    <3>1. waitList'[j] = waitList[j] /\ waitList'[k] = waitList[k + 1] /\ j < k + 1
          /\ k + 1 \in 1 .. Len(waitList) /\ j \in 1 .. Len(waitList)
      BY <1>1, <1>2, <1>3, <2>2
    <3> QED BY <3>1
  <2>3. CASE j >= i
    <3>1. waitList'[j] = waitList[j + 1] /\ waitList'[k] = waitList[k + 1] /\ j + 1 < k + 1
          /\ k + 1 \in 1 .. Len(waitList) /\ j + 1 \in 1 .. Len(waitList)
      BY <1>1, <1>2, <1>3, <2>3
    <3> QED BY <3>1
  <2> QED BY <1>1, <1>3, <2>1, <2>2, <2>3
<1> QED BY <1>1, <1>3, <1>4 DEF PrioritySorted

\* AddWaiter keeps the list sorted.
LEMMA InsertSorted ==
  ASSUME TypeOK, PrioritySorted, NEW t \in Threads, NEW i \in 1 .. Len(waitList) + 1,
         InsertAt(t, i), waitList' = Insert(waitList, i, t)
  PROVE  PrioritySorted'
<1>1. waitList \in Seq(Threads) /\ DOMAIN waitList = 1 .. Len(waitList) /\ Len(waitList) \in Nat
  BY DEF TypeOK
<1>2. /\ DOMAIN waitList' = 1 .. Len(waitList) + 1
      /\ \A j \in 1 .. Len(waitList) + 1 :
           waitList'[j] = IF j < i THEN waitList[j] ELSE IF j = i THEN t ELSE waitList[j - 1]
  BY <1>1, InsertFacts DEF Insert
<1>3. SUFFICES ASSUME ~IsFifo, NEW j \in 1 .. Len(waitList) + 1,
                      NEW k \in 1 .. Len(waitList) + 1, j < k
               PROVE  Priority[waitList'[j]] <= Priority[waitList'[k]]
  BY <1>2 DEF PrioritySorted
<1>4. /\ \A x \in 1 .. i - 1 : Priority[waitList[x]] <= Priority[t]
      /\ i <= Len(waitList) => Priority[waitList[i]] > Priority[t]
  BY <1>3 DEF InsertAt
<1>5. /\ \A x, y \in 1 .. Len(waitList) : x < y => Priority[waitList[x]] <= Priority[waitList[y]]
      /\ \A x \in 1 .. Len(waitList) : Priority[waitList[x]] \in Nat
      /\ Priority[t] \in Nat
  <2>1. \A x \in 1 .. Len(waitList) : waitList[x] \in Threads
    BY <1>1
  <2> QED BY <1>1, <1>3, <2>1, SemaAssumption DEF PrioritySorted
<1>6. \A x \in i .. Len(waitList) : Priority[t] <= Priority[waitList[x]]
  <2> SUFFICES ASSUME NEW x \in i .. Len(waitList) PROVE Priority[t] <= Priority[waitList[x]]
    OBVIOUS
  <2>1. i \in 1 .. Len(waitList) /\ x \in 1 .. Len(waitList)
    BY <1>1
  <2>2. Priority[waitList[i]] <= Priority[waitList[x]]
    <3>1. CASE x = i
      BY <1>5, <2>1, <3>1
    <3>2. CASE i < x
      BY <1>5, <2>1, <3>2
    <3> QED BY <2>1, <3>1, <3>2
  <2>3. Priority[waitList[i]] > Priority[t]
    BY <1>1, <1>4, <2>1
  <2> QED BY <1>5, <2>1, <2>2, <2>3
<1>7. CASE k < i
  BY <1>1, <1>2, <1>3, <1>5, <1>7
<1>8. CASE k = i
  BY <1>1, <1>2, <1>3, <1>4, <1>8
<1>9. CASE j < i /\ i < k
  <2>1. waitList'[j] = waitList[j] /\ waitList'[k] = waitList[k - 1]
    BY <1>2, <1>3, <1>9
  <2>2. j \in 1 .. Len(waitList) /\ k - 1 \in 1 .. Len(waitList) /\ (j < k - 1 \/ j = k - 1)
    BY <1>1, <1>3, <1>9
  <2> QED BY <1>5, <2>1, <2>2
<1>10. CASE j = i
  <2>1. waitList'[j] = t /\ waitList'[k] = waitList[k - 1] /\ k - 1 \in i .. Len(waitList)
    BY <1>1, <1>2, <1>3, <1>10
  <2> QED BY <1>6, <2>1
<1>11. CASE i < j
  <2>1. waitList'[j] = waitList[j - 1] /\ waitList'[k] = waitList[k - 1]
    BY <1>2, <1>3, <1>11
  <2>2. j - 1 \in 1 .. Len(waitList) /\ k - 1 \in 1 .. Len(waitList) /\ j - 1 < k - 1
    BY <1>1, <1>3, <1>11
  <2> QED BY <1>5, <2>1, <2>2
<1> QED BY <1>1, <1>3, <1>7, <1>8, <1>9, <1>10, <1>11

\* No step leaves the list out of order.
LEMMA NextSorted == IInv /\ PrioritySorted /\ [Next]_vars => PrioritySorted'
<1> SUFFICES ASSUME IInv, PrioritySorted, [Next]_vars PROVE PrioritySorted'
  OBVIOUS
<1>0. TypeOK
  BY DEF IInv
<1>1. CASE waitList' = waitList
  BY <1>1 DEF PrioritySorted
<1>2. CASE waitList' # waitList
  <2>1. PICK t \in Threads :
          \/ \E e \in 0 .. MaxElapsed : WaitReturn(t, e)
          \/ SignalWake(t)
          \/ \E n \in Needs, tmo \in Timeouts \union {NULL} : WaitBlock(t, n, tmo)
          \/ \E c \in SetCounts : Cancel(t, c)
          \/ Delete(t)
    BY <1>2 DEF Next, vars, WaitAcquire, WaitExpire, UseAfterFree, SignalSkip, SignalEnd, Erase,
                WaitTake, SignalBegin
  <2>2. CASE \E e \in 0 .. MaxElapsed : WaitReturn(t, e)
    <3>1. PICK i \in DOMAIN waitList : waitList' = Without(waitList, i)
      BY <1>2, <2>2 DEF WaitReturn
    <3> QED BY <1>0, <3>1, WithoutSorted
  <2>3. CASE SignalWake(t)
    <3>1. it \in DOMAIN waitList /\ waitList' = Without(waitList, it)
      BY <1>0, <2>3 DEF SignalWake, TypeOK
    <3> QED BY <1>0, <3>1, WithoutSorted
  <2>4. CASE \E n \in Needs, tmo \in Timeouts \union {NULL} : WaitBlock(t, n, tmo)
    <3>1. PICK i \in 1 .. Len(waitList) + 1 :
            InsertAt(t, i) /\ waitList' = Insert(waitList, i, t)
      BY <2>4 DEF WaitBlock
    <3> QED BY <1>0, <3>1, InsertSorted
  <2>5. CASE Delete(t) \/ \E c \in SetCounts : Cancel(t, c)
    <3>1. waitList' = << >>
      BY <2>5 DEF Delete, Cancel, ReleaseWaiters
    <3> QED BY <3>1 DEF PrioritySorted
  <2> QED BY <2>1, <2>2, <2>3, <2>4, <2>5
<1> QED BY <1>1, <1>2

\* Unless the semaphore is FIFO, its wait list is ordered by priority, with any
\* mixture of waits, timeouts and signals that serve waiters in the middle.
THEOREM ListSorted == Spec => []PrioritySorted
<1>1. Init => PrioritySorted
  BY DEF Init, PrioritySorted
<1> QED BY <1>1, NextSorted, InvariantHolds, PTL DEF Spec

-----------------------------------------------------------------------------
\* The tokens that were paid for waiters still inside Wait are finitely many.
PaidInv == IsFiniteSet(Paid) /\ TokensConserved

\* A waiter's tokens are as many as it needs.
LEMMA TokensOf ==
  ASSUME NEW t, NEW n \in Nat
  PROVE  IsFiniteSet({t} \X (1 .. n)) /\ Cardinality({t} \X (1 .. n)) = n
<1>1. IsFiniteSet({t}) /\ Cardinality({t}) = 1
  BY FS_Singleton
<1>2. IsFiniteSet(1 .. n) /\ Cardinality(1 .. n) = n
  BY FS_Interval
<1>3. IsFiniteSet({t} \X (1 .. n)) /\ Cardinality({t} \X (1 .. n)) = 1 * n
  <2> DEFINE S == {t}
             T == 1 .. n
  <2>1. IsFiniteSet(S) /\ IsFiniteSet(T) /\ Cardinality(S) = 1 /\ Cardinality(T) = n
    BY <1>1, <1>2
  <2> HIDE DEF S, T
  <2>2. IsFiniteSet(S \X T) /\ Cardinality(S \X T) = Cardinality(S) * Cardinality(T)
    BY <2>1, FS_Product
  <2> QED BY <2>1, <2>2 DEF S, T
<1> QED BY <1>3

\* A step in which no waiter's payment changes.
LEMMA SamePaid ==
  ASSUME InFlight' = InFlight, \A t \in InFlight : need'[t] = need[t] PROVE Paid' = Paid
BY DEF Paid

\* A step that changes neither flags nor needs of the waiters paid for, nor the
\* sum of what the semaphore holds and what was taken.
LEMMA QuietPaid ==
  ASSUME PaidInv, InFlight' = InFlight, \A t \in InFlight : need'[t] = need[t],
         tokens' + taken' = tokens + taken
  PROVE  PaidInv'
<1>1. Paid' = Paid
  BY SamePaid
<1> QED BY <1>1 DEF PaidInv, TokensConserved

\* A waiter that Signal serves is paid for, once.
LEMMA SignalWakePaid ==
  ASSUME IInv, PaidInv, NEW t \in Threads, SignalWake(t) PROVE PaidInv'
<1> DEFINE w == waitList[it]
           new == {w} \X (1 .. need[w])
<1>1. /\ w \in Threads /\ need[w] \in Nat /\ tokens \in Nat /\ taken \in Int
      /\ flag' = [flag EXCEPT ![w] = "signaled"] /\ tokens' = tokens - need[w]
      /\ taken' = taken /\ need' = need /\ flag \in [Threads -> {"none", "signaled", "canceled", "deleted"}]
  <2>1. waitList \in Seq(Threads) /\ it \in 1 .. Len(waitList)
    BY DEF IInv, TypeOK, SignalWake
  <2>2. w \in Threads
    BY <2>1
  <2> QED BY <2>2 DEF IInv, TypeOK, SignalWake
<1>2. w \in Waiting
  BY DEF IInv, TypeOK, SignalWake, Waiting
<1>3. flag[w] = "none"
  BY <1>1, <1>2, WaitListSplit DEF IInv, WaiterOK
<1> HIDE DEF w
<1>4. InFlight' = InFlight \union {w} /\ w \notin InFlight
  BY <1>1, <1>3 DEF InFlight
<1>5. Paid' = Paid \union new /\ Paid \intersect new = {}
  BY <1>1, <1>4 DEF Paid
<1>6. IsFiniteSet(new) /\ Cardinality(new) = need[w]
  BY <1>1, TokensOf
<1> HIDE DEF new
<1>7. Cardinality({}) = 0
  BY FS_EmptySet
<1>8. /\ IsFiniteSet(Paid \union new)
      /\ Cardinality(Paid \union new) = Cardinality(Paid) + Cardinality(new) - Cardinality(Paid \intersect new)
  BY <1>6, FS_Union DEF PaidInv
<1>9. Cardinality(Paid) \in Nat
  BY FS_CardinalityType DEF PaidInv
<1>10. IsFiniteSet(Paid') /\ Cardinality(Paid') = Cardinality(Paid) + need[w]
  <2>1. Cardinality(Paid \intersect new) = 0
    BY <1>5, <1>7
  <2>2. Cardinality(Paid \union new) = Cardinality(Paid) + need[w] - 0
    BY <1>6, <1>8, <2>1
  <2>3. Cardinality(Paid \union new) = Cardinality(Paid) + need[w]
    BY <1>1, <1>9, <2>2
  <2> QED BY <1>5, <1>8, <2>3
<1>11. tokens + taken + Cardinality(Paid) = InitCount
  BY DEF PaidInv, TokensConserved
<1>12. tokens' + taken' + Cardinality(Paid') = InitCount
  BY <1>1, <1>9, <1>10, <1>11
<1> QED BY <1>10, <1>12 DEF PaidInv, TokensConserved

\* A waiter that returns signalled takes what was paid for it; any other leaves
\* what was paid for others.
LEMMA WaitReturnPaid ==
  ASSUME IInv, PaidInv, NEW t \in Threads, NEW e \in 0 .. MaxElapsed, WaitReturn(t, e)
  PROVE  PaidInv'
<1>1. /\ flag \in [Threads -> {"none", "signaled", "canceled", "deleted"}]
      /\ need \in [Threads -> Nat \ {0}] /\ need[t] \in Nat /\ tokens \in Nat /\ taken \in Int
      /\ flag' = [flag EXCEPT ![t] = "none"] /\ need' = [need EXCEPT ![t] = 1]
      /\ tokens' = tokens
  BY DEF IInv, TypeOK, WaitReturn
<1>2. CASE flag[t] # "signaled"
  <2>1. taken' = taken
    BY <1>2 DEF WaitReturn, GetResult
  <2>2. InFlight' = InFlight /\ t \notin InFlight
    BY <1>1, <1>2 DEF InFlight
  <2>3. \A u \in InFlight : need'[u] = need[u]
    BY <1>1, <2>2 DEF InFlight
  <2> QED BY <1>1, <2>1, <2>2, <2>3, QuietPaid
<1>3. CASE flag[t] = "signaled"
  <2> DEFINE old == {t} \X (1 .. need[t])
  <2>1. taken' = taken + need[t]
    BY <1>3 DEF WaitReturn, GetResult
  <2>2. InFlight' = InFlight \ {t} /\ t \in InFlight
    BY <1>1, <1>3 DEF InFlight
  <2>3. \A u \in InFlight' : need'[u] = need[u] /\ u # t
    BY <1>1, <2>2 DEF InFlight
  <2>4. Paid' = Paid \ old /\ Paid \intersect old = old
    BY <2>2, <2>3 DEF Paid
  <2>5. IsFiniteSet(old) /\ Cardinality(old) = need[t]
    BY <1>1, TokensOf
  <2> HIDE DEF old
  <2>6. /\ IsFiniteSet(Paid \ old)
        /\ Cardinality(Paid \ old) = Cardinality(Paid) - Cardinality(Paid \intersect old)
    BY FS_Difference DEF PaidInv
  <2>7. Cardinality(Paid) \in Nat
    BY FS_CardinalityType DEF PaidInv
  <2> QED BY <1>1, <2>1, <2>4, <2>5, <2>6, <2>7 DEF PaidInv, TokensConserved
<1> QED BY <1>2, <1>3

\* Cancel and Delete mark only waiters that were not paid for.
LEMMA ReleasePaid ==
  ASSUME IInv, NEW why \in {"canceled", "deleted"}, ReleaseWaiters(why) PROVE InFlight' = InFlight
<1>1. \A t \in Waiting : t \in Threads => flag[t] = "none"
  BY WaitListSplit DEF IInv, WaiterOK
<1> QED BY <1>1 DEF ReleaseWaiters, InFlight

\* No step creates, loses or pays tokens twice.
LEMMA NextPaid == IInv /\ PaidInv /\ [Next]_vars => PaidInv'
<1> SUFFICES ASSUME IInv, PaidInv, [Next]_vars PROVE PaidInv'
  OBVIOUS
<1>0. /\ tokens \in Nat /\ taken \in Int
      /\ flag \in [Threads -> {"none", "signaled", "canceled", "deleted"}]
      /\ need \in [Threads -> Nat \ {0}]
  BY DEF IInv, TypeOK
<1>1. CASE UNCHANGED <<flag, need, tokens, taken>>
  BY <1>1, QuietPaid DEF InFlight
<1>2. CASE ~UNCHANGED <<flag, need, tokens, taken>>
  <2>1. PICK t \in Threads :
          \/ \E e \in 0 .. MaxElapsed : WaitReturn(t, e)
          \/ SignalWake(t)
          \/ \E n \in Needs : WaitTake(t, n) \/ SignalBegin(t, n)
          \/ \E n \in Needs, tmo \in Timeouts \union {NULL} : WaitBlock(t, n, tmo)
          \/ \E c \in SetCounts : Cancel(t, c)
          \/ Delete(t)
    BY <1>2 DEF Next, vars, WaitAcquire, WaitExpire, UseAfterFree, SignalSkip, SignalEnd, Erase
  <2>2. CASE \E e \in 0 .. MaxElapsed : WaitReturn(t, e)
    BY <2>2, WaitReturnPaid
  <2>3. CASE SignalWake(t)
    BY <2>3, SignalWakePaid
  <2>4. CASE \E n \in Needs : WaitTake(t, n) \/ SignalBegin(t, n)
    <3>1. /\ tokens' + taken' = tokens + taken
          /\ flag' = flag /\ need' = need
      <4>1. PICK n \in Needs : WaitTake(t, n) \/ SignalBegin(t, n)
        BY <2>4
      <4>2. n \in Int
        BY SemaAssumption
      <4>3. CASE WaitTake(t, n)
        <5>1. tokens' = tokens - n /\ taken' = taken + n /\ flag' = flag /\ need' = need
          BY <4>3 DEF WaitTake
        <5> QED BY <1>0, <4>2, <5>1
      <4>4. CASE SignalBegin(t, n)
        <5>1. tokens' = tokens + n /\ taken' = taken - n /\ flag' = flag /\ need' = need
          BY <4>4 DEF SignalBegin
        <5> QED BY <1>0, <4>2, <5>1
      <4> QED BY <4>1, <4>3, <4>4
    <3> QED BY <3>1, QuietPaid DEF InFlight
  <2>5. CASE \E n \in Needs, tmo \in Timeouts \union {NULL} : WaitBlock(t, n, tmo)
    <3>1. /\ pc[t] = "idle" /\ flag' = [flag EXCEPT ![t] = "none"]
          /\ \E n \in Needs : need' = [need EXCEPT ![t] = n]
          /\ tokens' = tokens /\ taken' = taken
      BY <2>5 DEF WaitBlock, Enter
    <3>2. flag[t] = "none"
      BY <3>1, WaitListSplit DEF IInv, WaiterOK
    <3>3. InFlight' = InFlight /\ t \notin InFlight
      BY <1>0, <3>1, <3>2 DEF InFlight
    <3>4. \A u \in InFlight : need'[u] = need[u]
      BY <1>0, <3>1, <3>3 DEF InFlight
    <3> QED BY <1>0, <3>1, <3>3, <3>4, QuietPaid
  <2>6. CASE \E c \in SetCounts : Cancel(t, c)
    <3>1. /\ ReleaseWaiters("canceled") /\ need' = need
          /\ taken' = taken + tokens - tokens' /\ tokens' \in Int
      BY <2>6, SemaAssumption DEF Cancel
    <3>2. InFlight' = InFlight
      BY <3>1, ReleasePaid
    <3>3. tokens' + taken' = tokens + taken
      <4>1. PICK v \in Int : tokens' = v
        BY <3>1
      <4>2. taken' = taken + tokens - v
        BY <3>1, <4>1
      <4> QED BY <1>0, <4>1, <4>2
    <3> QED BY <3>1, <3>2, <3>3, QuietPaid
  <2>7. CASE Delete(t)
    <3>1. ReleaseWaiters("deleted") /\ need' = need /\ taken' = taken /\ tokens' = tokens
      BY <2>7 DEF Delete
    <3>2. InFlight' = InFlight
      BY <3>1, ReleasePaid
    <3> QED BY <1>0, <3>1, <3>2, QuietPaid
  <2> QED BY <2>1, <2>2, <2>3, <2>4, <2>5, <2>6, <2>7
<1> QED BY <1>1, <1>2

\* Tokens are conserved for any number of threads, needs and counts: a timeout
\* that races with a signal neither loses nor duplicates them.
THEOREM TokensAreConserved == Spec => []TokensConserved
<1>1. Init => PaidInv
  <2> SUFFICES ASSUME Init PROVE PaidInv
    OBVIOUS
  <2>1. InFlight = {}
    BY DEF Init, InFlight
  <2>2. Paid = {}
    BY <2>1 DEF Paid
  <2> QED BY <2>2, FS_EmptySet, SemaAssumption DEF PaidInv, TokensConserved, Init
<1>2. PaidInv => TokensConserved
  BY DEF PaidInv
<1> QED BY <1>1, <1>2, NextPaid, InvariantHolds, PTL DEF Spec
=============================================================================
