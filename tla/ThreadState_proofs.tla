------------------------- MODULE ThreadState_proofs -------------------------
(***************************************************************************)
(* Proofs about ThreadState, for any finite heap of thread slots, any      *)
(* guest programs and any values of the limits.                            *)
(***************************************************************************)
EXTENDS ThreadState, FiniteSetTheorems, TLAPS

\* The calls in which a thread works on another one's slot, or on its own.
Uses(t, pcs, s) == run[t].pc \in pcs /\ run[t].target = s
Makes(t, s) == Uses(t, {"construct", "link", "start"}, s)

\* t has left ExitThread's TryCollect, or is about to.
Ending(t) == run[t].pc = "terminate" \/ Uses(t, {"unlock"}, t)

\* A host thread runs on a slot that says so: its tid is live until Terminate, it
\* is linked or an exiting thread in gc_list, and only an exiting thread is dead.
LiveOK(t) ==
  /\ run[t].pc # "none" =>
       /\ pt[t].tid = "live"
       /\ t \in threads \/ (t \in gcList /\ Ending(t))
       /\ pt[t].state = "Dead" => Ending(t) \/ Uses(t, {"recheck"}, t)
  /\ Ending(t) => pt[t].state = "Dead"

\* The slot that a call works on is what the call takes it for.
UseOK(t) ==
  /\ run[t].pc \in {"join", "ref", "recheck"} => run[t].target \in threads
  /\ run[t].pc \in {"unlock", "construct", "link", "start"} => run[t].target \in Slots
  /\ run[t].pc = "join" => pt[run[t].target].joiner = t /\ ~pt[run[t].target].detached
  /\ run[t].pc = "link" =>
       LET p == pt[run[t].target] IN
       p.state = "Running" /\ p.tid = "live" /\ p.refcount = 1
  /\ run[t].pc = "start" =>
       LET s == run[t].target IN
       s \in threads /\ run[s].pc = "none" /\ pt[s].tid = "live" /\ pt[s].state = "Running"
  /\ run[t].pc \notin {"collect", "freed"} => work[t] = {}

\* No two calls create a thread in the same slot.
MakersOK == \A t, u, s \in Slots : Makes(t, s) /\ Makes(u, s) => t = u

\* Every slot is in one place.
Apart ==
  /\ \A s \in threads : s \notin gcList /\ s \notin freeThreads /\ s \notin Constructing
  /\ \A s \in gcList : s \notin freeThreads /\ s \notin Constructing
  /\ \A s \in freeThreads : s \notin Constructing
  /\ \A t \in Slots : \A s \in work[t] :
       /\ s \notin threads /\ s \notin gcList /\ s \notin freeThreads /\ s \notin Constructing
       /\ \A u \in Slots : s \in work[u] => u = t

\* total_threads counts the slots outside the heap and the calls that are about to
\* take one or to count one down, and the cache is bounded.
Counted ==
  /\ totalThreads = Cardinality(Slots \ Heap) + Cardinality(Counting)
  /\ Cardinality(freeThreads) <= MaxCachedThreads

\* At most one thread runs the init routine, and only before it is done.
OnceOK ==
  /\ \A t, u \in Slots : run[t].pc = "init" /\ run[u].pc = "init" => t = u
  /\ \A t \in Slots : run[t].pc = "init" => once \in {"InProgress", "Wait"}
  /\ inits = IF once = "Done" THEN 1 ELSE 0

SlotsOK == \A t \in Slots : LiveOK(t) /\ UseOK(t)

\* The inductive invariant.
IInv ==
  TypeOK /\ SlotsOK /\ MakersOK /\ Apart /\ Counted /\ CollectComplete /\ OnceOK

-----------------------------------------------------------------------------
\* The types of the pieces of state.
LEMMA Types ==
  ASSUME TypeOK
  PROVE  /\ pt \in [Slots -> Pthread]
         /\ run \in [Slots -> [pc : Positions, target : Slots \union {NULL}]]
         /\ \A t \in Slots : /\ run[t].pc \in Positions /\ run[t].target \in Slots \union {NULL}
                             /\ pt[t] \in Pthread /\ pt[t].refcount \in Nat
BY DEF TypeOK, Pthread

\* Only a thread whose slot is linked or in gc_list runs.
LEMMA NotRunning ==
  ASSUME IInv, NEW s \in Slots, s \notin threads, s \notin gcList PROVE run[s].pc = "none"
BY DEF IInv, SlotsOK, LiveOK

\* The slots under construction are slots.
LEMMA ConstructingSlots == ASSUME IInv PROVE Constructing \subseteq Slots
BY DEF IInv, SlotsOK, UseOK, Constructing

\* When a step changes nobody's place, the accounts stay right.
LEMMA SameAccounts ==
  ASSUME Apart, Counted, UNCHANGED stateVars,
         \A u \in Slots : \/ run'[u] = run[u]
                          \/ {run[u].pc, run'[u].pc}
                               \intersect {"construct", "link", "take", "refused", "freed"} = {}
  PROVE  Apart' /\ Counted'
<1>1. Constructing' = Constructing
  BY DEF Constructing
<1>3. Counting' = Counting
  BY DEF Counting
<1>2. Heap' = Heap
  BY <1>1 DEF Heap, Collecting, stateVars
<1> QED BY <1>1, <1>2, <1>3 DEF Apart, Counted, stateVars

\* How a step of t changes the number of those calls.
LEMMA CountingStep ==
  ASSUME NEW t \in Slots, \A u \in Slots : u # t => run'[u] = run[u]
  PROVE  /\ Cardinality(Counting) \in Nat /\ Cardinality(Counting') \in Nat
         /\ (t \in Counting <=> t \in Counting') => Counting' = Counting
         /\ t \notin Counting /\ t \in Counting' =>
              Cardinality(Counting') = Cardinality(Counting) + 1
         /\ t \in Counting /\ t \notin Counting' =>
              Cardinality(Counting') = Cardinality(Counting) - 1
<1>1. IsFiniteSet(Counting) /\ IsFiniteSet(Counting')
  BY ThreadAssumption, FS_Subset DEF Counting
<1>2. \A u \in Slots : u # t => (u \in Counting' <=> u \in Counting)
  BY DEF Counting
<1>3. Counting \subseteq Slots /\ Counting' \subseteq Slots
  BY DEF Counting
<1>4. (t \in Counting <=> t \in Counting') => Counting' = Counting
  BY <1>2, <1>3
<1>5. ASSUME t \notin Counting, t \in Counting'
      PROVE  Cardinality(Counting') = Cardinality(Counting) + 1
  <2>1. Counting' = Counting \union {t}
    BY <1>2, <1>3, <1>5
  <2> QED BY <1>1, <1>5, <2>1, FS_AddElement
<1>6. ASSUME t \in Counting, t \notin Counting'
      PROVE  Cardinality(Counting') = Cardinality(Counting) - 1
  <2>1. Counting' = Counting \ {t}
    BY <1>2, <1>3, <1>6
  <2> QED BY <1>1, <1>6, <2>1, FS_RemoveElement
<1> QED BY <1>1, <1>4, <1>5, <1>6, FS_CardinalityType

\* The calls that hold a reference to s are finitely many.
LEMMA HoldersFinite ==
  ASSUME NEW s PROVE IsFiniteSet(Holders(s)) /\ Cardinality(Holders(s)) \in Nat
<1>1. IsFiniteSet(Holders(s))
  BY ThreadAssumption, FS_Subset DEF Holders
<1> QED BY <1>1, FS_CardinalityType

\* What a caller of TryCollect, or of its second half, may do to the slot s: give
\* up a reference, mark its own thread dead, detach a thread nobody else joins.
MayCollect(t, s, p) ==
  /\ s \in threads /\ t \in threads
  /\ run[t].pc \in {"idle", "exit", "join", "ref", "recheck"}
  /\ run[t].pc \in {"ref", "recheck"} => run[t].target = s
  /\ p \in Pthread /\ p.tid = pt[s].tid
  /\ s # t => p.state = pt[s].state /\ pt[t].state = "Running"
  /\ p.refcount = Cardinality(Holders(s) \ {t}) + (IF p.state = "Dead" THEN 0 ELSE 1)
  /\ \A u \in Slots \ {t} : Uses(u, {"join"}, s) => p.joiner = u /\ ~p.detached

\* The part of the state that these calls leave alone.
Frame == UNCHANGED <<calls, stateVars, tails, onceVars, aborted>>

\* A step of t that works on s, changes the Pthread of s to p and ends elsewhere
\* than in a constructor keeps every slot what its calls take it for.
LEMMA CollectSlots ==
  ASSUME IInv, NEW t \in Slots, NEW s \in Slots, NEW p, NEW q, MayCollect(t, s, p), Frame,
         q \in Pthread, q.tid = p.tid, q.state = p.state, q.joiner = p.joiner,
         q.detached = p.detached, pt' = [pt EXCEPT ![s] = q],
         \/ run' = [run EXCEPT ![t] = At("recheck", s)] /\ ShouldCollect(p)
         \/ Resume(t, s, p)
  PROVE  TypeOK' /\ SlotsOK' /\ MakersOK' /\ Apart' /\ Counted' /\ OnceOK'
<1>1. /\ pt \in [Slots -> Pthread]
      /\ run \in [Slots -> [pc : Positions, target : Slots \union {NULL}]]
      /\ \A u \in Slots : run[u].pc \in Positions /\ run[u].target \in Slots \union {NULL}
      /\ s \in threads /\ t \in threads /\ NULL \notin Slots
      /\ threads' = threads /\ gcList' = gcList /\ work' = work
  BY Types, ThreadAssumption DEF IInv, MayCollect, Frame, stateVars
<1>2. PICK pc \in {"recheck", "terminate", "idle"}, x \in {s, NULL} :
        /\ run' = [run EXCEPT ![t] = At(pc, x)]
        /\ pc = "recheck" <=> x = s
        /\ pc = "recheck" => p.state = "Dead"
        /\ pc = "terminate" => t = s /\ p.state = "Dead"
        /\ pc = "idle" => t # s \/ p.state # "Dead"
  <2>1. CASE run' = [run EXCEPT ![t] = At("recheck", s)] /\ ShouldCollect(p)
    BY <1>1, <2>1 DEF ShouldCollect
  <2>2. CASE Resume(t, s, p) /\ t = s /\ p.state = "Dead"
    BY <1>1, <2>2 DEF Resume
  <2>3. CASE Resume(t, s, p) /\ ~(t = s /\ p.state = "Dead")
    BY <1>1, <2>3 DEF Resume
  <2> QED BY <2>1, <2>2, <2>3
<1>3. /\ run'[t].pc = pc /\ run'[t].target = x
      /\ \A u \in Slots : u # t => run'[u] = run[u]
      /\ run' \in [Slots -> [pc : Positions, target : Slots \union {NULL}]]
  BY <1>1, <1>2 DEF At, Positions
<1>4. /\ pt' \in [Slots -> Pthread] /\ pt'[s] = q
      /\ \A u \in Slots : u # s => pt'[u] = pt[u]
  BY <1>1
<1>5. TypeOK'
  BY <1>3, <1>4 DEF IInv, TypeOK, Frame, stateVars, onceVars
<1>6. Apart' /\ Counted'
  BY <1>2, <1>3, SameAccounts DEF IInv, MayCollect, Frame
<1>7. MakersOK' /\ OnceOK'
  BY <1>2, <1>3 DEF IInv, MakersOK, OnceOK, Makes, Uses, Frame, onceVars
<1>8. ASSUME NEW u \in Slots PROVE LiveOK(u)'
  <2>1. CASE u = t
    BY <1>1, <1>2, <1>3, <1>4, <2>1 DEF IInv, SlotsOK, LiveOK, Ending, Uses, MayCollect, Pthread
  <2>2. CASE u # t
    BY <1>1, <1>3, <1>4, <2>2 DEF IInv, SlotsOK, LiveOK, Ending, Uses, MayCollect
  <2> QED BY <2>1, <2>2
<1>9. ASSUME NEW u \in Slots PROVE UseOK(u)'
  <2>1. CASE u = t
    BY <1>1, <1>2, <1>3, <2>1 DEF IInv, SlotsOK, UseOK, MayCollect
  <2>2. CASE u # t
    <3>1. run'[u] = run[u] /\ UseOK(u) /\ run[t].pc # "none"
      BY <1>3, <2>2 DEF IInv, SlotsOK, MayCollect
    <3>2. run[u].pc \in {"construct", "link"} => run[u].target # s
      BY <1>1 DEF IInv, Apart, Constructing
    <3>3. run[u].pc = "join" /\ run[u].target = s => q.joiner = u /\ ~q.detached
      BY <2>2 DEF MayCollect, Uses
    <3>4. run[u].pc = "start" =>
            /\ run[u].target # t /\ run[u].target \in Slots
            /\ run'[run[u].target].pc = "none"
            /\ pt'[run[u].target].tid = "live" /\ pt'[run[u].target].state = "Running"
      BY <1>1, <1>3, <1>4, <3>1 DEF UseOK, MayCollect
    <3>5. run[u].pc \in {"join", "link"} => run[u].target \in Slots
      BY <1>1, <3>1 DEF UseOK, IInv, TypeOK
    <3> QED BY <1>1, <1>4, <3>1, <3>2, <3>3, <3>4, <3>5 DEF UseOK
  <2> QED BY <2>1, <2>2
<1> QED BY <1>5, <1>6, <1>7, <1>8, <1>9 DEF SlotsOK

\* TryCollect finds nothing to collect: t gives its reference to s up, if it has
\* one, and goes on.
LEMMA ResumeStep ==
  ASSUME IInv, NEW t \in Slots, NEW s \in Slots, NEW p, MayCollect(t, s, p), Frame,
         ~ShouldCollect(p), pt' = [pt EXCEPT ![s] = p], Resume(t, s, p)
  PROVE  IInv'
<1>1. TypeOK' /\ SlotsOK' /\ MakersOK' /\ Apart' /\ Counted' /\ OnceOK'
  <2>1. p \in Pthread
    BY DEF MayCollect
  <2> QED BY <2>1, CollectSlots
<1>2. /\ run'[t].pc \in {"terminate", "idle"}
      /\ \A u \in Slots : u # t => run'[u] = run[u]
  BY Types DEF IInv, Resume, At
<1>3. Holders(s)' = Holders(s) \ {t}
  BY <1>2 DEF Holders
<1>4. \A x \in Slots : x # s => Holders(x)' = Holders(x)
  BY <1>2 DEF Holders, MayCollect
<1>5. ASSUME NEW x \in threads'
      PROVE  /\ pt'[x].refcount = Cardinality(Holders(x)') + (IF pt'[x].state = "Dead" THEN 0 ELSE 1)
             /\ ~ShouldCollect(pt'[x])
  <2>1. x \in threads /\ x \in Slots
    BY DEF Frame, stateVars, IInv, TypeOK
  <2>2. CASE x = s
    <3>1. pt'[x] = p
      BY <2>2, Types DEF IInv
    <3> QED BY <1>3, <2>2, <3>1 DEF MayCollect
  <2>3. CASE x # s
    <3>1. pt'[x] = pt[x]
      BY <2>1, <2>3, Types DEF IInv
    <3> QED BY <1>4, <2>1, <2>3, <3>1 DEF IInv, CollectComplete
  <2> QED BY <2>2, <2>3
<1> QED BY <1>1, <1>5 DEF IInv, CollectComplete

\* TryCollect references a collectable thread: nobody else holds a reference.
LEMMA HoldStep ==
  ASSUME IInv, NEW t \in Slots, NEW s \in Slots, NEW p, MayCollect(t, s, p), Frame,
         ShouldCollect(p), pt' = [pt EXCEPT ![s] = [p EXCEPT !.refcount = @ + 1]],
         run' = [run EXCEPT ![t] = At("recheck", s)]
  PROVE  IInv'
<1> DEFINE q == [p EXCEPT !.refcount = @ + 1]
<1>1. /\ p \in Pthread /\ q \in Pthread /\ q.refcount = p.refcount + 1 /\ q.tid = p.tid
      /\ q.state = p.state /\ q.joiner = p.joiner /\ q.detached = p.detached
  BY DEF MayCollect, Pthread
<1>2. pt' = [pt EXCEPT ![s] = q]
  OBVIOUS
<1> HIDE DEF q
<1>3. TypeOK' /\ SlotsOK' /\ MakersOK' /\ Apart' /\ Counted' /\ OnceOK'
  BY <1>1, <1>2, CollectSlots
<1>4. /\ run'[t] = At("recheck", s)
      /\ \A u \in Slots : u # t => run'[u] = run[u]
  BY Types DEF IInv
<1>5. Holders(s)' = Holders(s) \union {t}
  BY <1>4 DEF Holders, At
<1>6. \A x \in Slots : x # s => Holders(x)' = Holders(x)
  BY <1>4 DEF Holders, MayCollect, At
<1>7. p.state = "Dead" /\ p.refcount = 0 /\ p.refcount = Cardinality(Holders(s) \ {t}) + 0
  BY DEF ShouldCollect, MayCollect
<1>8. Cardinality(Holders(s)') = 1
  <2>1. IsFiniteSet(Holders(s) \ {t})
    BY HoldersFinite, FS_Subset
  <2>2. Cardinality(Holders(s) \ {t}) \in Nat
    BY <2>1, FS_CardinalityType
  <2>3. Holders(s) \ {t} = {}
    BY <1>7, <2>1, <2>2, FS_EmptySet
  <2>4. Holders(s)' = {t}
    BY <1>5, <2>3
  <2> QED BY <2>4, FS_Singleton
<1>9. ASSUME NEW x \in threads'
      PROVE  /\ pt'[x].refcount = Cardinality(Holders(x)') + (IF pt'[x].state = "Dead" THEN 0 ELSE 1)
             /\ ~ShouldCollect(pt'[x])
  <2>1. x \in threads /\ x \in Slots
    BY DEF Frame, stateVars, IInv, TypeOK
  <2>2. CASE x = s
    <3>1. pt'[x] = q
      BY <1>2, <2>2, Types DEF IInv
    <3> QED BY <1>1, <1>7, <1>8, <2>2, <3>1 DEF ShouldCollect
  <2>3. CASE x # s
    <3>1. pt'[x] = pt[x]
      BY <2>1, <2>3, Types DEF IInv
    <3> QED BY <1>6, <2>1, <2>3, <3>1 DEF IInv, CollectComplete
  <2> QED BY <2>2, <2>3
<1> QED BY <1>3, <1>9 DEF IInv, CollectComplete

\* TryCollect, whatever it finds.
LEMMA TryCollectStep ==
  ASSUME IInv, NEW t \in Slots, NEW s \in Slots, NEW p, MayCollect(t, s, p), Frame,
         TryCollect(t, s, p)
  PROVE  IInv'
BY ResumeStep, HoldStep DEF TryCollect

-----------------------------------------------------------------------------
\* What a linked slot's reference count says about the references but t's.
LEMMA OthersHold ==
  ASSUME IInv, NEW t \in Slots, NEW s \in threads
  PROVE  /\ t \in Holders(s) =>
              /\ pt[s].refcount \in Nat \ {0}
              /\ pt[s].refcount - 1 = Cardinality(Holders(s) \ {t})
                                        + (IF pt[s].state = "Dead" THEN 0 ELSE 1)
         /\ t \notin Holders(s) =>
              pt[s].refcount = Cardinality(Holders(s) \ {t}) + (IF pt[s].state = "Dead" THEN 0 ELSE 1)
<1> DEFINE d == IF pt[s].state = "Dead" THEN 0 ELSE 1
<1>1. pt[s].refcount = Cardinality(Holders(s)) + d /\ d \in {0, 1}
  BY DEF IInv, CollectComplete
<1> HIDE DEF d
<1>2. IsFiniteSet(Holders(s)) /\ Cardinality(Holders(s)) \in Nat
  BY HoldersFinite
<1>3. CASE t \in Holders(s)
  <2>1. Cardinality(Holders(s) \ {t}) = Cardinality(Holders(s)) - 1
    BY <1>2, <1>3, FS_RemoveElement
  <2>2. Cardinality(Holders(s)) # 0
    BY <1>2, <1>3, FS_EmptySet
  <2>3. pt[s].refcount \in Nat \ {0} /\ pt[s].refcount - 1 = Cardinality(Holders(s) \ {t}) + d
    BY <1>1, <1>2, <2>1, <2>2
  <2> QED BY <1>3, <2>3 DEF d
<1>4. CASE t \notin Holders(s)
  <2>1. Holders(s) \ {t} = Holders(s)
    BY <1>4
  <2> QED BY <1>1, <1>4, <2>1 DEF d
<1> QED BY <1>3, <1>4

\* A thread inside a call is linked, and alive unless it exits.
LEMMA InCall ==
  ASSUME IInv, NEW t \in Slots, run[t].pc \notin {"none", "terminate", "unlock", "recheck"}
  PROVE  t \in threads /\ pt[t].state = "Running" /\ pt[t].tid = "live"
BY Types DEF IInv, SlotsOK, LiveOK, Ending, Uses, Pthread

\* A thread that exits gives up the reference that it holds to itself.
LEMMA ExitThreadIInv ==
  ASSUME IInv, NEW t \in Slots, UNCHANGED calls, ExitThread(t) PROVE IInv'
<1> DEFINE p == [pt[t] EXCEPT !.state = "Dead", !.refcount = @ - 1]
<1>1. t \in threads /\ pt[t].state = "Running" /\ run[t].pc \in {"idle", "exit"}
  BY InCall DEF ExitThread
<1>2. pt[t] \in Pthread /\ t \notin Holders(t)
  BY <1>1, Types DEF IInv, Holders
<1>3. pt[t].refcount = Cardinality(Holders(t) \ {t}) + 1 /\ Cardinality(Holders(t) \ {t}) \in Nat
  <2>1. Holders(t) \ {t} = Holders(t)
    BY <1>2
  <2> QED BY <1>1, <1>2, <2>1, OthersHold, HoldersFinite
<1>4. /\ p \in Pthread /\ p.tid = pt[t].tid /\ p.state = "Dead"
      /\ p.refcount = Cardinality(Holders(t) \ {t})
      /\ p.joiner = pt[t].joiner /\ p.detached = pt[t].detached
  <2>1. PICK n \in Nat : n = Cardinality(Holders(t) \ {t}) /\ pt[t].refcount - 1 = n
    BY <1>3
  <2>2. p = [pt[t] EXCEPT !.state = "Dead", !.refcount = n]
    BY <2>1
  <2> HIDE DEF p
  <2> QED BY <1>2, <2>1, <2>2 DEF Pthread
<1>5. TryCollect(t, t, p) /\ Frame
  BY DEF ExitThread, Frame
<1> HIDE DEF p
<1>6. \A u \in Slots \ {t} : Uses(u, {"join"}, t) => p.joiner = u /\ ~p.detached
  BY <1>4 DEF IInv, SlotsOK, UseOK, Uses
<1>7. p.refcount = Cardinality(Holders(t) \ {t}) + (IF p.state = "Dead" THEN 0 ELSE 1)
  BY <1>3, <1>4
<1>8. MayCollect(t, t, p)
  BY <1>1, <1>4, <1>6, <1>7 DEF MayCollect
<1> QED BY <1>5, <1>8, TryCollectStep

\* A join that ends detaches the thread; it is the only join of that thread.
LEMMA JoinEndIInv ==
  ASSUME IInv, NEW t \in Slots, UNCHANGED calls, JoinEnd(t) PROVE IInv'
<1> DEFINE s == run[t].target
           p == [pt[s] EXCEPT !.detached = TRUE, !.joiner = NULL]
<1>1. t \in threads /\ pt[t].state = "Running" /\ run[t].pc = "join" /\ s \in threads /\ s \in Slots
  BY InCall DEF JoinEnd, IInv, TypeOK, SlotsOK, UseOK
<1>2. pt[s] \in Pthread /\ t \notin Holders(s) /\ pt[s].joiner = t
  BY <1>1, Types DEF IInv, Holders, SlotsOK, UseOK
<1>3. p \in Pthread /\ p.tid = pt[s].tid /\ p.state = pt[s].state /\ p.refcount = pt[s].refcount
  BY <1>2 DEF Pthread
<1>4. TryCollect(t, s, p) /\ Frame
  BY DEF JoinEnd, Frame
<1>5. \A u \in Slots \ {t} : ~Uses(u, {"join"}, s)
  BY <1>2 DEF IInv, SlotsOK, UseOK, Uses
<1> HIDE DEF p
<1>6. p.refcount = Cardinality(Holders(s) \ {t}) + (IF p.state = "Dead" THEN 0 ELSE 1)
  BY <1>1, <1>2, <1>3, OthersHold
<1>7. MayCollect(t, s, p)
  BY <1>1, <1>3, <1>5, <1>6 DEF MayCollect
<1> QED BY <1>1, <1>4, <1>7, TryCollectStep

\* Detach leaves a thread alone that someone joins.
LEMMA DetachIInv ==
  ASSUME IInv, NEW t \in Slots, NEW s \in Slots, UNCHANGED calls, Detach(t, s) PROVE IInv'
<1> DEFINE p == [pt[s] EXCEPT !.detached = TRUE]
<1>1. t \in threads /\ pt[t].state = "Running" /\ run[t].pc = "idle" /\ s \in threads
  BY InCall DEF Detach, Find
<1>2. pt[s] \in Pthread /\ t \notin Holders(s) /\ pt[s].joiner = NULL
  BY <1>1, Types DEF IInv, Holders, Detach
<1>3. p \in Pthread /\ p.tid = pt[s].tid /\ p.state = pt[s].state /\ p.refcount = pt[s].refcount
  BY <1>2 DEF Pthread
<1>4. TryCollect(t, s, p) /\ Frame
  BY DEF Detach, Frame
<1>5. \A u \in Slots \ {t} : ~Uses(u, {"join"}, s)
  BY <1>2, ThreadAssumption DEF IInv, SlotsOK, UseOK, Uses
<1> HIDE DEF p
<1>6. p.refcount = Cardinality(Holders(s) \ {t}) + (IF p.state = "Dead" THEN 0 ELSE 1)
  BY <1>1, <1>2, <1>3, OthersHold
<1>7. MayCollect(t, s, p)
  BY <1>1, <1>3, <1>5, <1>6 DEF MayCollect
<1> QED BY <1>1, <1>4, <1>7, TryCollectStep

\* The end of a reference, by RefDelete or by TryCollect that references for itself.
LEMMA DropReference ==
  ASSUME IInv, NEW t \in Slots, run[t].pc \in {"ref", "recheck"}, NEW s, s = run[t].target,
         NEW p, p = [pt[s] EXCEPT !.refcount = @ - 1]
  PROVE  s \in Slots /\ MayCollect(t, s, p)
<1>1. s \in threads /\ s \in Slots /\ t \in Holders(s) /\ pt[s] \in Pthread
  BY Types DEF IInv, TypeOK, SlotsOK, UseOK, Holders
<1>2. PICK n \in Nat : /\ pt[s].refcount - 1 = n
                       /\ n = Cardinality(Holders(s) \ {t}) + (IF pt[s].state = "Dead" THEN 0 ELSE 1)
  <2>1. pt[s].refcount \in Nat \ {0}
    BY <1>1, OthersHold
  <2>2. pt[s].refcount - 1 \in Nat
    BY <2>1
  <2> QED BY <1>1, <2>2, OthersHold
<1>3. p = [pt[s] EXCEPT !.refcount = n]
  BY <1>2
<1>4. /\ p \in Pthread /\ p.tid = pt[s].tid /\ p.state = pt[s].state
      /\ p.joiner = pt[s].joiner /\ p.detached = pt[s].detached /\ p.refcount = n
  BY <1>1, <1>3 DEF Pthread
<1>5. t \in threads /\ (s # t => pt[t].state = "Running")
  BY Types DEF IInv, SlotsOK, LiveOK, Ending, Uses, Pthread
<1>6. \A u \in Slots \ {t} : Uses(u, {"join"}, s) => p.joiner = u /\ ~p.detached
  BY <1>4 DEF IInv, SlotsOK, UseOK, Uses
<1>7. p.refcount = Cardinality(Holders(s) \ {t}) + (IF p.state = "Dead" THEN 0 ELSE 1)
  BY <1>2, <1>4
<1>8. MayCollect(t, s, p)
  BY <1>1, <1>4, <1>5, <1>6, <1>7 DEF MayCollect
<1> QED BY <1>1, <1>8

\* A call that has finished with another thread.
LEMMA RefDeleteIInv ==
  ASSUME IInv, NEW t \in Slots, UNCHANGED calls, RefDelete(t) PROVE IInv'
<1> DEFINE s == run[t].target
           p == [pt[s] EXCEPT !.refcount = @ - 1]
<1>1. run[t].pc = "ref" /\ TryCollect(t, s, p) /\ Frame
  BY DEF RefDelete, Frame
<1>2. s \in Slots /\ MayCollect(t, s, p)
  BY <1>1, DropReference
<1> QED BY <1>1, <1>2, TryCollectStep

\* TryCollect's second half moves a thread to gc_list that no other call uses.
LEMMA CollectIInv ==
  ASSUME IInv, NEW t \in Slots, NEW s, s = run[t].target, run[t].pc = "recheck",
         NEW p, p = [pt[s] EXCEPT !.refcount = @ - 1], MayCollect(t, s, p), ShouldCollect(p),
         pt' = [pt EXCEPT ![s] = [p EXCEPT !.lock = t]],
         threads' = threads \ {s}, gcList' = gcList \union {s},
         run' = [run EXCEPT ![t].pc = "unlock"],
         UNCHANGED <<calls, freeThreads, totalThreads, work, tails, onceVars, aborted>>
  PROVE  IInv'
<1> DEFINE q == [p EXCEPT !.lock = t]
<1>a. p.state = "Dead" /\ p.detached /\ p.refcount = 0
  BY Zenon DEF ShouldCollect
<1>b. s \in Slots /\ pt[s] \in Pthread /\ t \in Holders(s)
  BY Types DEF MayCollect, IInv, TypeOK, Holders
<1>c. p.state = pt[s].state /\ p.detached = pt[s].detached /\ p.tid = pt[s].tid
  BY <1>b DEF Pthread
<1>1. /\ s \in threads /\ s \in Slots /\ t \in threads /\ p \in Pthread
      /\ p.tid = pt[s].tid /\ p.state = pt[s].state /\ p.detached = pt[s].detached
      /\ p.state = "Dead" /\ p.detached /\ t \in Holders(s) /\ (s # t => pt[t].state = "Running")
  BY <1>a, <1>b, <1>c DEF MayCollect
<1>2. Holders(s) = {t}
  <2>1. p.refcount = 0 /\ p.refcount = Cardinality(Holders(s) \ {t}) + (IF p.state = "Dead" THEN 0 ELSE 1)
    BY <1>a DEF MayCollect
  <2>2. IsFiniteSet(Holders(s) \ {t})
    BY HoldersFinite, FS_Subset
  <2>3. Cardinality(Holders(s) \ {t}) = 0
    BY <1>1, <2>1, <2>2, FS_CardinalityType
  <2>4. Holders(s) \ {t} = {}
    BY <2>2, <2>3, FS_EmptySet
  <2> QED BY <1>1, <2>4
<1>3. q \in Pthread /\ q.tid = p.tid /\ q.state = p.state
  BY <1>1 DEF Pthread
<1>4. /\ pt' \in [Slots -> Pthread] /\ pt'[s] = q
      /\ \A u \in Slots : u # s => pt'[u] = pt[u]
  BY <1>1, <1>3, Types DEF IInv
<1> HIDE DEF q
<1>5. /\ run'[t].pc = "unlock" /\ run'[t].target = s
      /\ \A u \in Slots : u # t => run'[u] = run[u]
      /\ run' \in [Slots -> [pc : Positions, target : Slots \union {NULL}]]
  BY Types DEF IInv, Positions
<1>6. TypeOK'
  BY <1>1, <1>4, <1>5 DEF IInv, TypeOK, onceVars
<1>7. Constructing' = Constructing /\ Counting' = Counting
  BY <1>5 DEF Constructing, Counting
<1>8. Heap' = Heap
  BY <1>1, <1>7 DEF Heap, Collecting
<1>9. Apart' /\ Counted'
  BY <1>1, <1>7, <1>8 DEF IInv, Apart, Counted
<1>10. MakersOK' /\ OnceOK'
  BY <1>5 DEF IInv, MakersOK, OnceOK, Makes, Uses, onceVars
<1>11. ASSUME NEW u \in Slots PROVE LiveOK(u)'
  <2>1. CASE u = t
    <3>1. run[t].pc # "none" /\ pt[t].tid = "live"
      BY DEF IInv, SlotsOK, LiveOK
    <3> QED BY <1>1, <1>3, <1>4, <1>5, <2>1, <3>1 DEF LiveOK, Ending, Uses
  <2>2. CASE u # t
    <3>1. u = s => ~Uses(u, {"recheck"}, u)
      BY <1>2, <2>2 DEF Holders, Uses
    <3> QED BY <1>1, <1>3, <1>4, <1>5, <2>2, <3>1 DEF IInv, SlotsOK, LiveOK, Ending, Uses
  <2> QED BY <2>1, <2>2
<1>12. ASSUME NEW u \in Slots PROVE UseOK(u)'
  <2>1. CASE u = t
    BY <1>1, <1>5, <2>1 DEF IInv, SlotsOK, UseOK
  <2>2. CASE u # t
    <3>1. run'[u] = run[u] /\ UseOK(u)
      BY <1>5, <2>2 DEF IInv, SlotsOK
    <3>2. run[u].pc \in {"construct", "link"} => run[u].target # s
      BY <1>1 DEF IInv, Apart, Constructing
    <3>3. run[u].pc \in {"join", "start"} => run[u].target # s
      BY <1>1, <3>1 DEF UseOK
    <3>4. run[u].pc \in {"ref", "recheck"} => run[u].target # s
      BY <1>2, <2>2 DEF Holders
    <3>5. run[u].pc = "start" => run[u].target # t /\ run[u].target \in Slots
      BY <3>1 DEF UseOK, IInv, TypeOK
    <3>6. run[u].pc \in {"join", "link"} => run[u].target \in Slots
      BY <3>1 DEF UseOK, IInv, TypeOK
    <3> QED BY <1>1, <1>4, <1>5, <3>1, <3>2, <3>3, <3>4, <3>5, <3>6 DEF UseOK
  <2> QED BY <2>1, <2>2
<1>13. CollectComplete'
  <2> SUFFICES ASSUME NEW x \in threads'
      PROVE  /\ pt'[x].refcount = Cardinality(Holders(x)') + (IF pt'[x].state = "Dead" THEN 0 ELSE 1)
             /\ ~ShouldCollect(pt'[x])
    BY DEF CollectComplete
  <2>1. x \in threads /\ x \in Slots /\ x # s
    BY DEF IInv, TypeOK
  <2>2. Holders(x)' = Holders(x) /\ pt'[x] = pt[x]
    BY <1>4, <1>5, <2>1 DEF Holders
  <2> QED BY <2>1, <2>2 DEF IInv, CollectComplete
<1> QED BY <1>6, <1>9, <1>10, <1>11, <1>12, <1>13 DEF IInv, SlotsOK

\* TryCollect's second half, whatever it finds.
LEMMA RecheckIInv ==
  ASSUME IInv, NEW t \in Slots, UNCHANGED calls, Recheck(t) PROVE IInv'
<1> DEFINE s == run[t].target
           p == [pt[s] EXCEPT !.refcount = @ - 1]
<1>1. run[t].pc = "recheck"
  BY DEF Recheck
<1>2. s \in Slots /\ MayCollect(t, s, p)
  BY <1>1, DropReference
<1>3. CASE ShouldCollect(p)
  BY <1>1, <1>2, <1>3, CollectIInv DEF Recheck, Goto
<1>4. CASE ~ShouldCollect(p)
  <2>1. pt' = [pt EXCEPT ![s] = p] /\ Resume(t, s, p) /\ Frame
    BY <1>4 DEF Recheck, Frame, stateVars
  <2> QED BY <1>2, <1>4, <2>1, ResumeStep
<1> QED BY <1>3, <1>4

-----------------------------------------------------------------------------
\* The places in a call at which a thread works on no slot but its own.
Plain == {"idle", "alloc", "count", "once", "casNever", "casProgress", "onceWait",
          "onceSleep", "init", "notify", "notifyExit", "exit"}

\* A step in which threads only move between such places.
LEMMA PlainStep ==
  ASSUME IInv, UNCHANGED <<pt, stateVars>>, TypeOK', OnceOK',
         \A u \in Slots : run'[u] = run[u] \/ (run[u].pc \in Plain /\ run'[u].pc \in Plain)
  PROVE  IInv'
<1>1. \A u \in Slots : UseOK(u)'
  <2> SUFFICES ASSUME NEW u \in Slots PROVE UseOK(u)'
    OBVIOUS
  <2>1. CASE run'[u] = run[u]
    <3>1. run[u].pc = "start" => run'[run[u].target] = run[run[u].target]
      BY DEF IInv, SlotsOK, UseOK, Plain
    <3> QED BY <2>1, <3>1 DEF IInv, SlotsOK, UseOK, stateVars
  <2>2. CASE run[u].pc \in Plain /\ run'[u].pc \in Plain
    BY <2>2 DEF IInv, SlotsOK, UseOK, stateVars, Plain
  <2> QED BY <2>1, <2>2
<1>2. \A u \in Slots : LiveOK(u)'
  BY DEF IInv, SlotsOK, LiveOK, Ending, Uses, stateVars, Plain
<1>3. MakersOK'
  BY DEF IInv, MakersOK, Makes, Uses, Plain
<1>4. Apart' /\ Counted'
  BY SameAccounts DEF IInv, Plain
<1>5. \A x \in Slots : Holders(x)' = Holders(x)
  BY DEF Holders, Plain
<1>6. CollectComplete'
  BY <1>5 DEF IInv, TypeOK, CollectComplete, stateVars
<1> QED BY <1>1, <1>2, <1>3, <1>4, <1>6 DEF IInv, SlotsOK

\* A step of one thread's call, away from pthread_once, changes nothing about it.
LEMMA SameOnce ==
  ASSUME OnceOK, UNCHANGED onceVars,
         \A u \in Slots : run'[u].pc = "init" <=> run[u].pc = "init"
  PROVE  OnceOK'
BY DEF OnceOK, onceVars

\* The host thread of a slot ends.
LEMMA NativeExitIInv ==
  ASSUME IInv, NEW s \in Slots, UNCHANGED calls, NativeExit(s) PROVE IInv'
<1>1. tails' \in [Slots -> Nat] /\ UNCHANGED <<calls, pt, stateVars, run, onceVars>>
  BY DEF NativeExit, IInv, TypeOK
<1>2. aborted' \in BOOLEAN
  BY DEF NativeExit
<1>3. TypeOK'
  BY <1>1, <1>2 DEF IInv, TypeOK, stateVars, onceVars
<1>4. OnceOK'
  BY <1>1, SameOnce DEF IInv
<1> QED BY <1>1, <1>3, <1>4, PlainStep

\* A thread moves between plain places: the test of total_threads.
LEMMA AllocTestIInv ==
  ASSUME IInv, NEW t \in Slots, UNCHANGED calls, AllocTest(t) PROVE IInv'
<1>1. PICK pc \in {"idle", "count"} : run' = [run EXCEPT ![t].pc = pc]
  BY DEF AllocTest, Goto
<1>2. UNCHANGED <<calls, pt, stateVars, tails, onceVars, aborted>> /\ run[t].pc = "alloc"
  BY DEF AllocTest
<1>3. /\ run' \in [Slots -> [pc : Positions, target : Slots \union {NULL}]]
      /\ run'[t].pc = pc /\ \A u \in Slots : u # t => run'[u] = run[u]
  BY <1>1, Types DEF IInv, Positions
<1>4. TypeOK'
  BY <1>2, <1>3 DEF IInv, TypeOK, stateVars, onceVars
<1>5. OnceOK'
  BY <1>2, <1>3, SameOnce DEF IInv
<1> QED BY <1>2, <1>3, <1>4, <1>5, PlainStep DEF Plain

\* The steps of pthread_once that change its state: the compare and exchange lets
\* one thread in, which alone leaves it.
LEMMA OnceStateIInv ==
  ASSUME IInv, NEW t \in Slots, UNCHANGED calls, OnceCas(t) \/ OnceDone(t) \/ OnceExit(t)
  PROVE  IInv'
<1>1. /\ run \in [Slots -> [pc : Positions, target : Slots \union {NULL}]]
      /\ inits \in Nat /\ UNCHANGED <<calls, pt, stateVars, tails, aborted>>
      /\ run[t].pc \in {"casNever", "casProgress", "init"}
  BY Types DEF IInv, TypeOK, OnceCas, OnceDone, OnceExit
<1>2. PICK pc \in {"init", "onceWait", "once", "idle", "notify", "exit", "notifyExit"} :
        /\ run' = [run EXCEPT ![t].pc = pc]
        /\ once' \in {"NeverDone", "InProgress", "Wait", "Done"} /\ inits' \in Nat
        /\ \/ pc = "init" /\ once = "NeverDone" /\ once' = "InProgress" /\ inits' = inits
           \/ pc = "onceWait" /\ once = "InProgress" /\ once' = "Wait" /\ inits' = inits
                /\ run[t].pc # "init"
           \/ pc = "once" /\ once' = once /\ inits' = inits /\ run[t].pc # "init"
           \/ pc \in {"idle", "notify"} /\ run[t].pc = "init" /\ once' = "Done" /\ inits' = inits + 1
           \/ pc \in {"exit", "notifyExit"} /\ run[t].pc = "init" /\ once' = "NeverDone" /\ inits' = inits
  <2>1. CASE OnceCas(t)
    <3>1. once \in {"NeverDone", "InProgress", "Wait", "Done"} /\ inits' = inits /\ run[t].pc # "init"
      BY <2>1 DEF OnceCas, IInv, TypeOK
    <3>2. CASE once' = "InProgress" /\ once = "NeverDone" /\ Goto(t, "init")
      BY <1>1, <3>1, <3>2 DEF Goto
    <3>3. CASE once' = "Wait" /\ once = "InProgress" /\ Goto(t, "onceWait")
      BY <1>1, <3>1, <3>3 DEF Goto
    <3>4. CASE once' = once /\ Goto(t, "once")
      BY <1>1, <3>1, <3>4 DEF Goto
    <3> QED BY <2>1, <3>2, <3>3, <3>4 DEF OnceCas
  <2>2. CASE OnceDone(t)
    <3>1. run[t].pc = "init" /\ once' = "Done" /\ inits' = inits + 1 /\ inits' \in Nat
      BY <1>1, <2>2 DEF OnceDone
    <3>2. Goto(t, "idle") \/ Goto(t, "notify")
      BY <2>2 DEF OnceDone
    <3> QED BY <1>1, <3>1, <3>2 DEF Goto
  <2>3. CASE OnceExit(t)
    <3>1. run[t].pc = "init" /\ once' = "NeverDone" /\ inits' = inits
      BY <2>3 DEF OnceExit
    <3>2. Goto(t, "exit") \/ Goto(t, "notifyExit")
      BY <2>3 DEF OnceExit
    <3> QED BY <1>1, <3>1, <3>2 DEF Goto
  <2> QED BY <2>1, <2>2, <2>3
<1>3. /\ run' \in [Slots -> [pc : Positions, target : Slots \union {NULL}]]
      /\ run'[t].pc = pc /\ \A u \in Slots : u # t => run'[u] = run[u]
  BY <1>1, <1>2 DEF Positions
<1>4. TypeOK'
  BY <1>1, <1>2, <1>3 DEF IInv, TypeOK, stateVars
<1>5. OnceOK'
  BY <1>1, <1>2, <1>3 DEF IInv, OnceOK
<1> QED BY <1>1, <1>2, <1>3, <1>4, <1>5, PlainStep DEF Plain

\* The steps of pthread_once that only look at its state, and the notification.
LEMMA OnceLookIInv ==
  ASSUME IInv, NEW t \in Slots, UNCHANGED calls, OnceLoad(t) \/ OnceWait(t) \/ OnceNotify(t)
  PROVE  IInv'
<1>1. /\ run \in [Slots -> [pc : Positions, target : Slots \union {NULL}]]
      /\ UNCHANGED <<calls, pt, stateVars, tails, onceVars, aborted>>
  BY Types DEF IInv, OnceLoad, OnceWait, OnceNotify
<1>2. /\ run' \in [Slots -> [pc : Positions, target : Slots \union {NULL}]]
      /\ \A u \in Slots : \/ run'[u] = run[u]
                          \/ run[u].pc \in Plain \ {"init"} /\ run'[u].pc \in Plain \ {"init"}
  <2>1. CASE OnceLoad(t)
    <3>1. PICK pc \in {"idle", "casNever", "onceWait", "casProgress"} : run' = [run EXCEPT ![t].pc = pc]
      BY <2>1 DEF OnceLoad, Goto, IInv, TypeOK
    <3> QED BY <1>1, <2>1, <3>1 DEF OnceLoad, Plain, Positions
  <2>2. CASE OnceWait(t)
    <3>1. PICK pc \in {"onceSleep", "once"} : run' = [run EXCEPT ![t].pc = pc]
      BY <2>2 DEF OnceWait, Goto
    <3> QED BY <1>1, <2>2, <3>1 DEF OnceWait, Plain, Positions
  <2>3. CASE OnceNotify(t)
    BY <1>1, <2>3 DEF OnceNotify, At, Plain, Positions
  <2> QED BY <2>1, <2>2, <2>3
<1>3. TypeOK'
  BY <1>1, <1>2 DEF IInv, TypeOK, stateVars, onceVars
<1>4. OnceOK'
  BY <1>1, <1>2, SameOnce DEF IInv
<1> QED BY <1>1, <1>2, <1>3, <1>4, PlainStep

-----------------------------------------------------------------------------
\* SCOPE_EXIT unlocks the slot: only its lock changes, in whosever hands it is.
LEMMA UnlockIInv ==
  ASSUME IInv, NEW t \in Slots, UNCHANGED calls, Unlock(t) PROVE IInv'
<1> DEFINE s == run[t].target
<1>1. /\ run[t].pc = "unlock" /\ s \in Slots /\ pt' = [pt EXCEPT ![s].lock = NULL] /\ Frame
      /\ pt \in [Slots -> Pthread]
      /\ run \in [Slots -> [pc : Positions, target : Slots \union {NULL}]]
  BY Types DEF Unlock, IInv, SlotsOK, UseOK, Frame
<1>2. /\ pt' \in [Slots -> Pthread]
      /\ \A u \in Slots : /\ pt'[u].state = pt[u].state /\ pt'[u].tid = pt[u].tid
                          /\ pt'[u].detached = pt[u].detached /\ pt'[u].joiner = pt[u].joiner
                          /\ pt'[u].refcount = pt[u].refcount
  BY <1>1 DEF Pthread
<1>3. /\ t = s => pt[t].state = "Dead"
      /\ t # s => t \in threads /\ pt[t].state = "Running"
      /\ pt[t].tid = "live" /\ t \in threads \union gcList
  BY <1>1, Types DEF IInv, SlotsOK, LiveOK, Ending, Uses, Pthread
<1>4. PICK pc \in {"terminate", "idle"} :
        run' = [run EXCEPT ![t] = At(pc, NULL)] /\ (pc = "terminate" <=> t = s)
  <2>1. CASE t = s
    BY <1>1, <1>3, <2>1 DEF Unlock, Resume
  <2>2. CASE t # s
    BY <1>1, <2>2 DEF Unlock, Resume
  <2> QED BY <2>1, <2>2
<1>5. /\ run'[t].pc = pc
      /\ \A u \in Slots : u # t => run'[u] = run[u]
      /\ run' \in [Slots -> [pc : Positions, target : Slots \union {NULL}]]
  BY <1>1, <1>4 DEF At, Positions
<1>6. TypeOK'
  BY <1>1, <1>2, <1>5 DEF IInv, TypeOK, Frame, stateVars, onceVars
<1>7. MakersOK' /\ OnceOK'
  BY <1>1, <1>4, <1>5 DEF IInv, MakersOK, OnceOK, Makes, Uses, Frame, onceVars
<1>8. Apart' /\ Counted'
  BY <1>1, <1>4, <1>5, SameAccounts DEF IInv, Frame
<1>9. \A u \in Slots : LiveOK(u)'
  BY <1>1, <1>2, <1>3, <1>4, <1>5 DEF IInv, SlotsOK, LiveOK, Ending, Uses, Frame, stateVars
<1>10. ASSUME NEW u \in Slots PROVE UseOK(u)'
  <2>1. CASE u = t
    BY <1>1, <1>4, <1>5, <2>1 DEF IInv, SlotsOK, UseOK, Frame, stateVars
  <2>2. CASE u # t
    <3>1. UseOK(u)
      BY DEF IInv, SlotsOK
    <3>2. run[u].pc \in {"join", "link", "start"} => run[u].target \in Slots
      BY <3>1 DEF UseOK, IInv, TypeOK
    <3>3. run[u].pc = "start" => run'[run[u].target].pc = "none"
      BY <1>1, <1>4, <1>5, <3>1, <3>2 DEF UseOK
    <3>4. threads' = threads /\ work' = work
      BY <1>1 DEF Frame, stateVars
    <3> QED BY <1>2, <1>5, <2>2, <3>1, <3>2, <3>3, <3>4 DEF UseOK
  <2> QED BY <2>1, <2>2
<1>11. \A x \in Slots : Holders(x)' = Holders(x)
  BY <1>1, <1>4, <1>5 DEF Holders
<1>12. CollectComplete'
  BY <1>1, <1>2, <1>11 DEF IInv, TypeOK, CollectComplete, ShouldCollect, Frame, stateVars
<1> QED BY <1>6, <1>7, <1>8, <1>9, <1>10, <1>12 DEF IInv, SlotsOK

\* A thread that stores TidTerminated runs no more.
LEMMA TerminateIInv ==
  ASSUME IInv, NEW t \in Slots, UNCHANGED calls, Terminate(t) PROVE IInv'
<1>1. /\ run[t].pc = "terminate" /\ pt' = [pt EXCEPT ![t].tid = "Terminated"]
      /\ run' = [run EXCEPT ![t].pc = "none"] /\ tails' = [tails EXCEPT ![t] = @ + 1]
      /\ UNCHANGED <<calls, stateVars, onceVars, aborted>>
      /\ pt \in [Slots -> Pthread]
      /\ run \in [Slots -> [pc : Positions, target : Slots \union {NULL}]]
  BY Types DEF Terminate, Goto, IInv
<1>2. /\ pt' \in [Slots -> Pthread]
      /\ \A u \in Slots : /\ u # t => pt'[u] = pt[u]
                          /\ pt'[u].state = pt[u].state /\ pt'[u].refcount = pt[u].refcount
                          /\ pt'[u].detached = pt[u].detached /\ pt'[u].joiner = pt[u].joiner
  BY <1>1 DEF Pthread
<1>3. /\ run'[t].pc = "none" /\ \A u \in Slots : u # t => run'[u] = run[u]
      /\ run' \in [Slots -> [pc : Positions, target : Slots \union {NULL}]]
  BY <1>1 DEF Positions
<1>4. TypeOK'
  <2>1. tails' \in [Slots -> Nat]
    BY <1>1 DEF IInv, TypeOK
  <2> QED BY <1>1, <1>2, <1>3, <2>1 DEF IInv, TypeOK, stateVars, onceVars
<1>5. MakersOK' /\ OnceOK'
  BY <1>1, <1>3 DEF IInv, MakersOK, OnceOK, Makes, Uses, onceVars
<1>6. Apart' /\ Counted'
  BY <1>1, <1>3, SameAccounts DEF IInv
<1>7. \A u \in Slots : LiveOK(u)'
  BY <1>1, <1>2, <1>3 DEF IInv, SlotsOK, LiveOK, Ending, Uses, stateVars
<1>8. ASSUME NEW u \in Slots PROVE UseOK(u)'
  <2>1. CASE u = t
    BY <1>1, <1>3, <2>1 DEF IInv, SlotsOK, UseOK, stateVars
  <2>2. CASE u # t
    <3>1. UseOK(u)
      BY DEF IInv, SlotsOK
    <3>2. run[u].pc \in {"join", "link", "start"} => run[u].target \in Slots
      BY <3>1 DEF UseOK, IInv, TypeOK
    <3>3. run[u].pc \in {"link", "start"} => run[u].target # t
      BY <1>1, <3>1, NotRunning DEF UseOK, IInv, Apart, Constructing
    <3>4. threads' = threads /\ work' = work
      BY <1>1 DEF stateVars
    <3> QED BY <1>2, <1>3, <2>2, <3>1, <3>2, <3>3, <3>4 DEF UseOK
  <2> QED BY <2>1, <2>2
<1>9. \A x \in Slots : Holders(x)' = Holders(x)
  BY <1>1, <1>3 DEF Holders
<1>10. CollectComplete'
  BY <1>1, <1>2, <1>9 DEF IInv, TypeOK, CollectComplete, ShouldCollect, stateVars
<1> QED BY <1>4, <1>5, <1>6, <1>7, <1>8, <1>10 DEF IInv, SlotsOK

\* A join is noted in the slot: nobody else joined it.
LEMMA JoinBeginIInv ==
  ASSUME IInv, NEW t \in Slots, NEW s \in Slots, UNCHANGED calls, JoinBegin(t, s) PROVE IInv'
<1>1. /\ run[t].pc = "idle" /\ s \in threads /\ t # s /\ ~pt[s].detached /\ pt[s].joiner = NULL
      /\ pt' = [pt EXCEPT ![s].joiner = t] /\ run' = [run EXCEPT ![t] = At("join", s)] /\ Frame
      /\ pt \in [Slots -> Pthread]
      /\ run \in [Slots -> [pc : Positions, target : Slots \union {NULL}]]
  BY Types DEF JoinBegin, Find, IInv, Frame
<1>2. /\ pt' \in [Slots -> Pthread] /\ pt'[s].joiner = t
      /\ \A u \in Slots : /\ u # s => pt'[u] = pt[u]
                          /\ pt'[u].state = pt[u].state /\ pt'[u].refcount = pt[u].refcount
                          /\ pt'[u].detached = pt[u].detached /\ pt'[u].tid = pt[u].tid
  BY <1>1 DEF Pthread
<1>3. /\ run'[t].pc = "join" /\ run'[t].target = s /\ \A u \in Slots : u # t => run'[u] = run[u]
      /\ run' \in [Slots -> [pc : Positions, target : Slots \union {NULL}]]
  BY <1>1 DEF At, Positions
<1>4. TypeOK'
  BY <1>1, <1>2, <1>3 DEF IInv, TypeOK, Frame, stateVars, onceVars
<1>5. MakersOK' /\ OnceOK'
  BY <1>1, <1>3 DEF IInv, MakersOK, OnceOK, Makes, Uses, Frame, onceVars
<1>6. Apart' /\ Counted'
  BY <1>1, <1>3, SameAccounts DEF IInv, Frame
<1>7. \A u \in Slots : LiveOK(u)'
  BY <1>1, <1>2, <1>3 DEF IInv, SlotsOK, LiveOK, Ending, Uses, Frame, stateVars
<1>8. ASSUME NEW u \in Slots PROVE UseOK(u)'
  <2>1. CASE u = t
    BY <1>1, <1>2, <1>3, <2>1 DEF IInv, SlotsOK, UseOK, Frame, stateVars
  <2>2. CASE u # t
    <3>1. UseOK(u)
      BY DEF IInv, SlotsOK
    <3>2. run[u].pc \in {"join", "link", "start"} => run[u].target \in Slots
      BY <3>1 DEF UseOK, IInv, TypeOK
    <3>3. /\ run[u].pc = "start" => run[u].target # t
          /\ run[u].pc = "join" => run[u].target # s
      BY <1>1, <3>1, ThreadAssumption DEF UseOK
    <3>4. threads' = threads /\ work' = work
      BY <1>1 DEF Frame, stateVars
    <3> QED BY <1>2, <1>3, <2>2, <3>1, <3>2, <3>3, <3>4 DEF UseOK
  <2> QED BY <2>1, <2>2
<1>9. \A x \in Slots : Holders(x)' = Holders(x)
  BY <1>1, <1>3 DEF Holders
<1>10. CollectComplete'
  BY <1>1, <1>2, <1>9 DEF IInv, TypeOK, CollectComplete, ShouldCollect, Frame, stateVars
<1> QED BY <1>4, <1>5, <1>6, <1>7, <1>8, <1>10 DEF IInv, SlotsOK

\* A reference is counted.
LEMMA RefAddIInv ==
  ASSUME IInv, NEW t \in Slots, NEW s \in Slots, UNCHANGED calls, RefAdd(t, s) PROVE IInv'
<1>1. /\ run[t].pc = "idle" /\ s \in threads /\ t # s
      /\ pt' = [pt EXCEPT ![s].refcount = @ + 1] /\ run' = [run EXCEPT ![t] = At("ref", s)] /\ Frame
      /\ pt \in [Slots -> Pthread] /\ pt[s].refcount \in Nat
      /\ run \in [Slots -> [pc : Positions, target : Slots \union {NULL}]]
  BY Types DEF RefAdd, Find, IInv, Frame
<1>2. /\ pt' \in [Slots -> Pthread] /\ pt'[s].refcount = pt[s].refcount + 1
      /\ \A u \in Slots : /\ u # s => pt'[u] = pt[u]
                          /\ pt'[u].state = pt[u].state /\ pt'[u].joiner = pt[u].joiner
                          /\ pt'[u].detached = pt[u].detached /\ pt'[u].tid = pt[u].tid
  <2>1. PICK n \in Nat : n = pt[s].refcount + 1
    BY <1>1
  <2> DEFINE q == [pt[s] EXCEPT !.refcount = n]
  <2>2. pt[s] \in Pthread /\ pt' = [pt EXCEPT ![s] = q]
    BY <1>1, <2>1
  <2>3. /\ q \in Pthread /\ q.refcount = n /\ q.state = pt[s].state /\ q.joiner = pt[s].joiner
        /\ q.detached = pt[s].detached /\ q.tid = pt[s].tid
    BY <2>2 DEF Pthread
  <2> HIDE DEF q
  <2> QED BY <1>1, <2>1, <2>2, <2>3
<1>3. /\ run'[t].pc = "ref" /\ run'[t].target = s /\ \A u \in Slots : u # t => run'[u] = run[u]
      /\ run' \in [Slots -> [pc : Positions, target : Slots \union {NULL}]]
  BY <1>1 DEF At, Positions
<1>4. TypeOK'
  BY <1>1, <1>2, <1>3 DEF IInv, TypeOK, Frame, stateVars, onceVars
<1>5. MakersOK' /\ OnceOK'
  BY <1>1, <1>3 DEF IInv, MakersOK, OnceOK, Makes, Uses, Frame, onceVars
<1>6. Apart' /\ Counted'
  BY <1>1, <1>3, SameAccounts DEF IInv, Frame
<1>7. \A u \in Slots : LiveOK(u)'
  BY <1>1, <1>2, <1>3 DEF IInv, SlotsOK, LiveOK, Ending, Uses, Frame, stateVars
<1>8. ASSUME NEW u \in Slots PROVE UseOK(u)'
  <2>1. CASE u = t
    BY <1>1, <1>3, <2>1 DEF IInv, SlotsOK, UseOK, Frame, stateVars
  <2>2. CASE u # t
    <3>1. UseOK(u)
      BY DEF IInv, SlotsOK
    <3>2. run[u].pc \in {"join", "link", "start"} => run[u].target \in Slots
      BY <3>1 DEF UseOK, IInv, TypeOK
    <3>3. /\ run[u].pc = "start" => run[u].target # t
          /\ run[u].pc = "link" => run[u].target # s
      BY <1>1, <3>1 DEF UseOK, IInv, Apart, Constructing
    <3>4. threads' = threads /\ work' = work
      BY <1>1 DEF Frame, stateVars
    <3> QED BY <1>2, <1>3, <2>2, <3>1, <3>2, <3>3, <3>4 DEF UseOK
  <2> QED BY <2>1, <2>2
<1>9. Holders(s)' = Holders(s) \union {t} /\ t \notin Holders(s)
  BY <1>1, <1>3 DEF Holders
<1>10. \A x \in Slots : x # s => Holders(x)' = Holders(x)
  BY <1>1, <1>3 DEF Holders
<1>11. Cardinality(Holders(s)') = Cardinality(Holders(s)) + 1
  BY <1>9, HoldersFinite, FS_AddElement
<1>12. CollectComplete'
  <2> SUFFICES ASSUME NEW x \in threads'
      PROVE  /\ pt'[x].refcount = Cardinality(Holders(x)') + (IF pt'[x].state = "Dead" THEN 0 ELSE 1)
             /\ ~ShouldCollect(pt'[x])
    BY DEF CollectComplete
  <2>1. x \in threads /\ x \in Slots
    BY <1>1 DEF Frame, stateVars, IInv, TypeOK
  <2>2. CASE x # s
    BY <1>2, <1>10, <2>1, <2>2 DEF IInv, CollectComplete
  <2>3. CASE x = s
    <3> DEFINE d == IF pt[s].state = "Dead" THEN 0 ELSE 1
    <3>1. pt[s].refcount = Cardinality(Holders(s)) + d /\ d \in Nat /\ Cardinality(Holders(s)) \in Nat
      BY <1>1, HoldersFinite DEF IInv, CollectComplete
    <3> HIDE DEF d
    <3>2. pt'[s].refcount = Cardinality(Holders(s)') + d
      BY <1>2, <1>11, <3>1
    <3>3. pt'[s].refcount # 0
      BY <1>1, <1>2
    <3> QED BY <1>2, <2>3, <3>2, <3>3 DEF ShouldCollect, d
  <2> QED BY <2>2, <2>3
<1> QED BY <1>4, <1>5, <1>6, <1>7, <1>8, <1>12 DEF IInv, SlotsOK

-----------------------------------------------------------------------------
\* Alloc begins with a collection, or without: only terminated threads are taken
\* from gc_list, and no host thread runs on them.
LEMMA CreateBeginIInv ==
  ASSUME IInv, NEW t \in Slots, UNCHANGED calls, CreateBegin(t) PROVE IInv'
<1> DEFINE dead == {s \in gcList : pt[s].tid = "Terminated"}
<1>1. /\ run[t].pc = "idle"
      /\ UNCHANGED <<calls, pt, threads, freeThreads, totalThreads, tails, onceVars, aborted>>
      /\ run \in [Slots -> [pc : Positions, target : Slots \union {NULL}]]
      /\ work \in [Slots -> SUBSET Slots] /\ gcList \subseteq Slots
  BY Types DEF CreateBegin, IInv, TypeOK
<1>2. CASE Goto(t, "alloc") /\ work' = work /\ gcList' = gcList
  <2>1. /\ run' \in [Slots -> [pc : Positions, target : Slots \union {NULL}]]
        /\ run'[t].pc = "alloc" /\ \A u \in Slots : u # t => run'[u] = run[u]
    BY <1>1, <1>2 DEF Goto, Positions
  <2>2. TypeOK'
    BY <1>1, <1>2, <2>1 DEF IInv, TypeOK, onceVars
  <2>3. OnceOK'
    BY <1>1, <2>1, SameOnce DEF IInv
  <2>4. UNCHANGED <<pt, stateVars>>
    BY <1>1, <1>2 DEF stateVars
  <2> QED BY <1>1, <2>1, <2>2, <2>3, <2>4, PlainStep DEF Plain
<1>3. CASE Goto(t, "collect") /\ work' = [work EXCEPT ![t] = dead] /\ gcList' = gcList \ dead
  <2>1. /\ run' \in [Slots -> [pc : Positions, target : Slots \union {NULL}]]
        /\ run'[t].pc = "collect" /\ \A u \in Slots : u # t => run'[u] = run[u]
    BY <1>1, <1>3 DEF Goto, Positions
  <2>2. /\ work'[t] = dead /\ work[t] = {} /\ dead \subseteq gcList
        /\ \A u \in Slots : u # t => work'[u] = work[u]
        /\ work' \in [Slots -> SUBSET Slots]
    BY <1>1, <1>3 DEF IInv, SlotsOK, UseOK
  <2>3. TypeOK'
    BY <1>1, <1>3, <2>1, <2>2 DEF IInv, TypeOK, onceVars
  <2>4. MakersOK' /\ OnceOK'
    BY <1>1, <2>1 DEF IInv, MakersOK, OnceOK, Makes, Uses, onceVars
  <2>5. \A u \in Slots : run[u].pc # "none" => u \notin dead
    BY DEF IInv, SlotsOK, LiveOK
  <2>6. \A u \in Slots : LiveOK(u)'
    BY <1>1, <1>3, <2>1, <2>5 DEF IInv, SlotsOK, LiveOK, Ending, Uses
  <2>7. \A u \in Slots : UseOK(u)'
    BY <1>1, <2>1, <2>2 DEF IInv, SlotsOK, UseOK, TypeOK
  <2>8. \A x \in Slots : Holders(x)' = Holders(x)
    BY <1>1, <2>1 DEF Holders
  <2>9. CollectComplete'
    BY <1>1, <2>8 DEF IInv, TypeOK, CollectComplete
  <2>10. Constructing' = Constructing /\ Counting' = Counting
    BY <1>1, <2>1 DEF Constructing, Counting
  <2> HIDE DEF dead
  <2>11. Apart'
    BY <1>1, <1>3, <2>2, <2>10 DEF IInv, Apart
  <2>12. gcList' \union Collecting' = gcList \union Collecting
    BY <1>1, <1>3, <2>2 DEF Collecting
  <2>13. Heap' = Heap
    BY <1>1, <2>10, <2>12 DEF Heap
  <2>14. Counted'
    BY <1>1, <2>10, <2>13 DEF IInv, Counted
  <2> QED BY <2>3, <2>4, <2>6, <2>7, <2>9, <2>11, <2>14 DEF IInv, SlotsOK
<1> QED BY <1>2, <1>3 DEF CreateBegin

\* The slots outside the heap, and how many they are.
InUse == threads \union gcList \union freeThreads \union Constructing \union Collecting
LEMMA HeapCounted ==
  ASSUME IInv
  PROVE  /\ Heap = Slots \ InUse /\ InUse \subseteq Slots /\ Slots \ Heap = InUse
         /\ IsFiniteSet(InUse) /\ Cardinality(InUse) \in Nat
         /\ totalThreads = Cardinality(InUse) + Cardinality(Counting)
<1>1. Heap = Slots \ InUse
  BY DEF Heap, InUse
<1>2. InUse \subseteq Slots
  BY ConstructingSlots DEF InUse, IInv, TypeOK, Collecting
<1>3. Slots \ Heap = InUse
  BY <1>1, <1>2
<1>4. IsFiniteSet(InUse)
  BY <1>2, ThreadAssumption, FS_Subset
<1> QED BY <1>1, <1>2, <1>3, <1>4, FS_CardinalityType DEF IInv, Counted

\* Free puts a slot of the work list in the cache, or back into the heap.
LEMMA FreeThreadIInv ==
  ASSUME IInv, NEW t \in Slots, NEW s \in Slots, UNCHANGED calls, FreeThread(t, s) PROVE IInv'
<1>1. /\ run[t].pc = "collect" /\ s \in work[t] /\ work' = [work EXCEPT ![t] = @ \ {s}]
      /\ UNCHANGED <<calls, pt, threads, gcList, totalThreads, tails, onceVars, aborted>>
      /\ run \in [Slots -> [pc : Positions, target : Slots \union {NULL}]]
      /\ work \in [Slots -> SUBSET Slots]
  BY Types DEF FreeThread, IInv, TypeOK
<1>2. PICK pc \in {"alloc", "collect", "freed"} :
        /\ run' = [run EXCEPT ![t].pc = pc] /\ (pc = "alloc" => work[t] = {s})
        /\ \/ /\ Cardinality(freeThreads) >= MaxCachedThreads
              /\ pc = "freed" /\ UNCHANGED freeThreads
           \/ /\ Cardinality(freeThreads) < MaxCachedThreads
              /\ pc # "freed" /\ freeThreads' = freeThreads \union {s}
  BY DEF FreeThread, Goto
<1>3. /\ run' \in [Slots -> [pc : Positions, target : Slots \union {NULL}]]
      /\ run'[t].pc = pc /\ \A u \in Slots : u # t => run'[u] = run[u]
  BY <1>1, <1>2 DEF Positions
<1>4. /\ work'[t] = work[t] \ {s} /\ \A u \in Slots : u # t => work'[u] = work[u]
      /\ work' \in [Slots -> SUBSET Slots]
  BY <1>1
<1>5. Constructing' = Constructing
  BY <1>1, <1>2, <1>3 DEF Constructing
<1>6. Collecting' = Collecting \ {s}
  BY <1>1, <1>4 DEF IInv, Apart, Collecting
<1>7. /\ s \in InUse /\ s \notin threads /\ s \notin gcList /\ s \notin freeThreads
      /\ s \notin Constructing
  BY <1>1 DEF IInv, Apart, InUse, Collecting
<1>8. IsFiniteSet(freeThreads) /\ Cardinality(freeThreads) \in Nat
  <2>1. IsFiniteSet(freeThreads)
    BY ThreadAssumption, FS_Subset DEF IInv, TypeOK
  <2> QED BY <2>1, FS_CardinalityType
<1>9. InUse' \subseteq Slots /\ Slots \ Heap' = InUse'
  <2>1. InUse' \subseteq Slots
    BY <1>1, <1>5, <1>6, HeapCounted DEF InUse, FreeThread
  <2> QED BY <2>1 DEF InUse, Heap
<1>a. /\ t \notin Counting /\ (t \in Counting' <=> pc = "freed")
      /\ Cardinality(Counting) \in Nat /\ Cardinality(Counting') \in Nat
      /\ Cardinality(Counting') = Cardinality(Counting) + (IF pc = "freed" THEN 1 ELSE 0)
  <2>1. t \notin Counting /\ (t \in Counting' <=> pc = "freed")
    BY <1>1, <1>3 DEF Counting
  <2> QED BY <1>3, <2>1, CountingStep
<1>10. freeThreads' \subseteq Slots /\ Counted'
  <2>1. CASE pc = "freed"
    <3>1. freeThreads' = freeThreads /\ Cardinality(freeThreads) >= MaxCachedThreads
      BY <1>2, <2>1
    <3>2. InUse' = InUse \ {s}
      BY <1>1, <1>5, <1>6, <1>7, <3>1 DEF InUse
    <3>3. Cardinality(InUse') = Cardinality(InUse) - 1
      <4>1. IsFiniteSet(InUse)
        BY HeapCounted
      <4>2. Cardinality(InUse \ {s}) = Cardinality(InUse) - 1
        BY <1>7, <4>1, FS_RemoveElement
      <4> QED BY <3>2, <4>2
    <3>4. totalThreads' = Cardinality(InUse') + Cardinality(Counting')
      <4>1. PICK m \in Int, n \in Int : m = Cardinality(InUse') /\ n = Cardinality(Counting')
        BY <1>a, <3>3, HeapCounted
      <4>2. totalThreads = m + n
        BY <1>a, <2>1, <3>3, <4>1, HeapCounted
      <4> QED BY <1>1, <4>1, <4>2
    <3> QED BY <1>9, <3>1, <3>4 DEF IInv, TypeOK, Counted
  <2>2. CASE pc # "freed"
    <3>1. freeThreads' = freeThreads \union {s} /\ Cardinality(freeThreads) < MaxCachedThreads
      BY <1>2, <2>2
    <3>2. InUse' = InUse /\ Counting' = Counting
      <4>1. Counting' = Counting
        BY <1>3, <1>a, <2>2, CountingStep
      <4> QED BY <1>1, <1>5, <1>6, <1>7, <3>1, <4>1 DEF InUse
    <3>3. Cardinality(freeThreads') = Cardinality(freeThreads) + 1
      BY <1>7, <1>8, <3>1, FS_AddElement
    <3>4. Cardinality(freeThreads') <= MaxCachedThreads
      BY <1>8, <3>1, <3>3, ThreadAssumption
    <3> QED BY <1>1, <1>9, <3>1, <3>2, <3>4, HeapCounted DEF IInv, TypeOK, Counted
  <2> QED BY <2>1, <2>2
<1>11. TypeOK'
  BY <1>1, <1>3, <1>4, <1>10 DEF IInv, TypeOK, onceVars
<1>12. MakersOK' /\ OnceOK'
  BY <1>1, <1>3 DEF IInv, MakersOK, OnceOK, Makes, Uses, onceVars
<1>13. \A u \in Slots : LiveOK(u)'
  BY <1>1, <1>3 DEF IInv, SlotsOK, LiveOK, Ending, Uses
<1>14. \A u \in Slots : UseOK(u)'
  BY <1>1, <1>2, <1>3, <1>4 DEF IInv, SlotsOK, UseOK, TypeOK
<1>15. \A x \in Slots : Holders(x)' = Holders(x)
  BY <1>1, <1>3 DEF Holders
<1>16. CollectComplete'
  BY <1>1, <1>15 DEF IInv, TypeOK, CollectComplete
<1>17. freeThreads' \subseteq freeThreads \union {s}
  BY DEF FreeThread
<1>18. Apart'
  BY <1>1, <1>4, <1>5, <1>7, <1>17 DEF IInv, Apart
<1> QED BY <1>10, <1>11, <1>12, <1>13, <1>14, <1>16, <1>18 DEF IInv, SlotsOK

\* A slot that nobody makes, uses or runs on goes to a constructor.
LEMMA TakeSlot ==
  ASSUME IInv, NEW t \in Slots, NEW s \in Slots, run[t].pc \in {"alloc", "take"},
         s \notin threads, s \notin gcList, s \notin Constructing, s \notin Collecting,
         run' = [run EXCEPT ![t] = At("construct", s)], freeThreads' = freeThreads \ {s},
         UNCHANGED <<calls, pt, threads, gcList, work, tails, onceVars, aborted>>,
         totalThreads' \in Nat, Counted'
  PROVE  IInv'
<1>1. run \in [Slots -> [pc : Positions, target : Slots \union {NULL}]]
  BY Types DEF IInv
<1>2. /\ run'[t].pc = "construct" /\ run'[t].target = s /\ \A u \in Slots : u # t => run'[u] = run[u]
      /\ run' \in [Slots -> [pc : Positions, target : Slots \union {NULL}]]
  BY <1>1 DEF At, Positions
<1>3. TypeOK'
  BY <1>2 DEF IInv, TypeOK, onceVars
<1>4. \A u \in Slots : ~Makes(u, s)
  BY DEF Makes, Uses, Constructing, IInv, SlotsOK, UseOK
<1>5. MakersOK' /\ OnceOK'
  BY <1>2, <1>4 DEF IInv, MakersOK, OnceOK, Makes, Uses, onceVars
<1>6. \A u \in Slots : LiveOK(u)'
  BY <1>2 DEF IInv, SlotsOK, LiveOK, Ending, Uses
<1>7. \A u \in Slots : UseOK(u)'
  BY <1>2 DEF IInv, SlotsOK, UseOK, TypeOK
<1>8. \A x \in Slots : Holders(x)' = Holders(x)
  BY <1>2 DEF Holders
<1>9. CollectComplete'
  BY <1>8 DEF IInv, TypeOK, CollectComplete
<1>10. Constructing' = Constructing \union {s}
  BY <1>2 DEF Constructing
<1>11. Apart'
  BY <1>10 DEF IInv, Apart, Collecting
<1> QED BY <1>3, <1>5, <1>6, <1>7, <1>9, <1>11 DEF IInv, SlotsOK

\* Alloc takes a slot from the cache ...
LEMMA AllocCachedIInv ==
  ASSUME IInv, NEW t \in Slots, NEW s \in Slots, UNCHANGED calls, AllocCached(t, s) PROVE IInv'
<1>1. /\ run[t].pc = "alloc" /\ s \in freeThreads /\ freeThreads' = freeThreads \ {s}
      /\ run' = [run EXCEPT ![t] = At("construct", s)]
      /\ UNCHANGED <<calls, pt, threads, gcList, totalThreads, work, tails, onceVars, aborted>>
  BY DEF AllocCached
<1>2. s \notin threads /\ s \notin gcList /\ s \notin Constructing /\ s \notin Collecting
  BY <1>1 DEF IInv, Apart, Collecting
<1>3. run \in [Slots -> [pc : Positions, target : Slots \union {NULL}]]
  BY Types DEF IInv
<1>4. /\ run'[t].pc = "construct" /\ run'[t].target = s
      /\ \A u \in Slots : u # t => run'[u] = run[u]
  BY <1>1, <1>3 DEF At
<1>5. Constructing' = Constructing \union {s}
  BY <1>1, <1>4 DEF Constructing
<1>6. Heap' = Heap
  BY <1>1, <1>5 DEF Heap, Collecting
<1>7. IsFiniteSet(freeThreads)
  BY ThreadAssumption, FS_Subset DEF IInv, TypeOK
<1>8. Cardinality(freeThreads') <= MaxCachedThreads
  <2>1. Cardinality(freeThreads') = Cardinality(freeThreads) - 1 /\ Cardinality(freeThreads) \in Nat
    BY <1>1, <1>7, FS_RemoveElement, FS_CardinalityType
  <2>2. Cardinality(freeThreads) <= MaxCachedThreads
    BY DEF IInv, Counted
  <2> QED BY <2>1, <2>2, ThreadAssumption
<1>a. Counting' = Counting
  BY <1>1, <1>4 DEF Counting
<1>9. Counted' /\ totalThreads' \in Nat
  BY <1>1, <1>6, <1>8, <1>a DEF IInv, TypeOK, Counted
<1> QED BY <1>1, <1>2, <1>9, TakeSlot

\* The places in Alloc and Collect, and a step between them that at most changes
\* total_threads.
Own == {"idle", "collect", "freed", "alloc", "count", "take", "refused"}
LEMMA CountStep ==
  ASSUME IInv, NEW t \in Slots, run[t].pc \in Own, NEW pc \in Own,
         run' = [run EXCEPT ![t].pc = pc],
         pc \notin {"collect", "freed"} => work[t] = {},
         UNCHANGED <<calls, pt, threads, gcList, freeThreads, work, tails, onceVars, aborted>>,
         totalThreads' \in Nat,
         totalThreads' - totalThreads = Cardinality(Counting') - Cardinality(Counting)
  PROVE  IInv'
<1>1. run \in [Slots -> [pc : Positions, target : Slots \union {NULL}]]
  BY Types DEF IInv
<1>2. /\ run'[t].pc = pc /\ \A u \in Slots : u # t => run'[u] = run[u]
      /\ run' \in [Slots -> [pc : Positions, target : Slots \union {NULL}]]
  BY <1>1 DEF Own, Positions
<1>3. TypeOK'
  BY <1>2 DEF IInv, TypeOK, onceVars
<1>4. MakersOK' /\ OnceOK'
  BY <1>2 DEF IInv, MakersOK, OnceOK, Makes, Uses, onceVars, Own
<1>5. \A u \in Slots : LiveOK(u)'
  BY <1>2 DEF IInv, SlotsOK, LiveOK, Ending, Uses, Own
<1>6. \A u \in Slots : UseOK(u)'
  BY <1>2 DEF IInv, SlotsOK, UseOK, TypeOK, Own
<1>7. \A x \in Slots : Holders(x)' = Holders(x)
  BY <1>2 DEF Holders, Own
<1>8. CollectComplete'
  BY <1>7 DEF IInv, TypeOK, CollectComplete
<1>9. Constructing' = Constructing
  BY <1>2 DEF Constructing, Own
<1>10. Apart'
  BY <1>9 DEF IInv, Apart
<1>11. Heap' = Heap
  BY <1>9 DEF Heap, Collecting
<1>12. totalThreads' = Cardinality(Slots \ Heap') + Cardinality(Counting')
  <2>1. Cardinality(Counting) \in Nat /\ Cardinality(Counting') \in Nat
    BY <1>2, CountingStep
  <2>2. Cardinality(Slots \ Heap) \in Nat
    BY HeapCounted
  <2>3. totalThreads = Cardinality(Slots \ Heap) + Cardinality(Counting)
    BY DEF IInv, Counted
  <2>4. PICK m \in Nat, n \in Nat : m = totalThreads' /\ n = Cardinality(Counting')
    BY <2>1
  <2> QED BY <1>11, <2>1, <2>2, <2>3, <2>4
<1>13. Counted'
  BY <1>12 DEF IInv, Counted
<1> QED BY <1>3, <1>4, <1>5, <1>6, <1>8, <1>10, <1>13 DEF IInv, SlotsOK

\* ... or counts one,
LEMMA AllocCountIInv ==
  ASSUME IInv, NEW t \in Slots, UNCHANGED calls, AllocCount(t) PROVE IInv'
<1>1. /\ run[t].pc = "count" /\ run' = [run EXCEPT ![t].pc = "take"]
      /\ totalThreads' = totalThreads + 1 /\ totalThreads \in Nat /\ work[t] = {}
      /\ UNCHANGED <<calls, pt, threads, gcList, freeThreads, work, tails, onceVars, aborted>>
      /\ run \in [Slots -> [pc : Positions, target : Slots \union {NULL}]]
  BY Types DEF AllocCount, Goto, IInv, TypeOK, SlotsOK, UseOK
<1>2. run'[t].pc = "take" /\ \A u \in Slots : u # t => run'[u] = run[u]
  BY <1>1
<1>3. /\ Cardinality(Counting) \in Nat /\ Cardinality(Counting') \in Nat
      /\ Cardinality(Counting') = Cardinality(Counting) + 1
  <2>1. t \notin Counting /\ t \in Counting'
    BY <1>1, <1>2 DEF Counting
  <2> QED BY <1>2, <2>1, CountingStep
<1>4. /\ totalThreads' \in Nat
      /\ totalThreads' - totalThreads = Cardinality(Counting') - Cardinality(Counting)
  <2>1. PICK m \in Nat, n \in Nat : m = totalThreads' /\ n = Cardinality(Counting')
    BY <1>1, <1>3
  <2> QED BY <1>1, <1>3, <2>1
<1> QED BY <1>1, <1>4, CountStep DEF Own

\* takes it from the heap, or finds the heap empty,
LEMMA AllocTakeIInv ==
  ASSUME IInv, NEW t \in Slots, UNCHANGED calls, AllocTake(t) PROVE IInv'
<1>1. /\ run[t].pc = "take" /\ work[t] = {} /\ totalThreads \in Nat
      /\ UNCHANGED <<calls, pt, stateVars, tails, onceVars, aborted>>
      /\ run \in [Slots -> [pc : Positions, target : Slots \union {NULL}]]
  BY Types DEF AllocTake, IInv, TypeOK, SlotsOK, UseOK
<1>2. CASE Goto(t, "refused")
  <2>1. /\ run' = [run EXCEPT ![t].pc = "refused"] /\ run'[t].pc = "refused"
        /\ \A u \in Slots : u # t => run'[u] = run[u]
    BY <1>1, <1>2 DEF Goto
  <2>2. Cardinality(Counting) \in Nat /\ Counting' = Counting
    <3>1. t \in Counting /\ t \in Counting'
      BY <1>1, <2>1 DEF Counting
    <3> QED BY <2>1, <3>1, CountingStep
  <2>3. /\ totalThreads' \in Nat
        /\ totalThreads' - totalThreads = Cardinality(Counting') - Cardinality(Counting)
    BY <1>1, <2>2 DEF stateVars
  <2> QED BY <1>1, <2>1, <2>3, CountStep DEF Own, stateVars
<1>3. ASSUME NEW s \in Heap, run' = [run EXCEPT ![t] = At("construct", s)] PROVE IInv'
  <2>1. /\ s \in Slots /\ s \notin threads /\ s \notin gcList /\ s \notin freeThreads
        /\ s \notin Constructing /\ s \notin Collecting /\ s \notin InUse
    BY <1>3 DEF Heap, InUse
  <2>2. /\ run'[t].pc = "construct" /\ run'[t].target = s
        /\ \A u \in Slots : u # t => run'[u] = run[u]
    BY <1>1, <1>3 DEF At
  <2>3. Constructing' = Constructing \union {s}
    BY <1>1, <2>2 DEF Constructing
  <2>4. InUse' = InUse \union {s} /\ Heap' = Slots \ InUse'
    BY <1>1, <2>3 DEF InUse, Heap, Collecting, stateVars
  <2>5. Slots \ Heap' = InUse'
    BY <2>1, <2>4, HeapCounted
  <2>6. Cardinality(InUse') = Cardinality(InUse) + 1
    <3>1. IsFiniteSet(InUse)
      BY HeapCounted
    <3> QED BY <2>1, <2>4, <3>1, FS_AddElement
  <2>a. /\ Cardinality(Counting) \in Nat /\ Cardinality(Counting') \in Nat
        /\ Cardinality(Counting') = Cardinality(Counting) - 1
    <3>1. t \in Counting /\ t \notin Counting'
      BY <1>1, <2>2 DEF Counting
    <3> QED BY <2>2, <3>1, CountingStep
  <2>7. totalThreads' = Cardinality(Slots \ Heap') + Cardinality(Counting')
    <3>1. PICK m \in Int, n \in Int : m = Cardinality(InUse') /\ n = Cardinality(Counting')
      BY <2>6, <2>a, HeapCounted
    <3>2. totalThreads = m + n
      BY <2>6, <2>a, <3>1, HeapCounted
    <3> QED BY <1>1, <2>5, <3>1, <3>2 DEF stateVars
  <2>8. Counted' /\ totalThreads' \in Nat
    BY <1>1, <2>7 DEF IInv, Counted, stateVars
  <2>9. freeThreads' = freeThreads \ {s}
    BY <1>1, <2>1 DEF stateVars
  <2> QED BY <1>1, <1>3, <2>1, <2>8, <2>9, TakeSlot DEF stateVars
<1> QED BY <1>2, <1>3 DEF AllocTake

\* and counts down what it did not get or gave back.
LEMMA UncountIInv ==
  ASSUME IInv, NEW t \in Slots, UNCHANGED calls, Uncount(t) PROVE IInv'
<1>1. /\ run[t].pc \in {"freed", "refused"}
      /\ totalThreads' = totalThreads - 1 /\ totalThreads \in Nat
      /\ UNCHANGED <<calls, pt, threads, gcList, freeThreads, work, tails, onceVars, aborted>>
      /\ run \in [Slots -> [pc : Positions, target : Slots \union {NULL}]]
      /\ run[t].pc = "refused" => work[t] = {}
  BY Types DEF Uncount, IInv, TypeOK, SlotsOK, UseOK
<1>2. PICK pc \in {"idle", "alloc", "collect"} :
        run' = [run EXCEPT ![t].pc = pc] /\ (pc # "collect" => work[t] = {})
  BY <1>1 DEF Uncount, Goto
<1>3. run'[t].pc = pc /\ \A u \in Slots : u # t => run'[u] = run[u]
  BY <1>1, <1>2
<1>4. /\ Cardinality(Counting) \in Nat /\ Cardinality(Counting') \in Nat
      /\ Cardinality(Counting') = Cardinality(Counting) - 1
  <2>1. t \in Counting /\ t \notin Counting'
    BY <1>1, <1>3 DEF Counting
  <2> QED BY <1>3, <2>1, CountingStep
<1>5. /\ totalThreads' \in Nat
      /\ totalThreads' - totalThreads = Cardinality(Counting') - Cardinality(Counting)
  <2>1. PICK m \in Int, n \in Int : m = totalThreads' /\ n = Cardinality(Counting')
    BY <1>1, <1>4
  <2>2. totalThreads = Cardinality(InUse) + Cardinality(Counting) /\ Cardinality(InUse) \in Nat
    BY HeapCounted
  <2> QED BY <1>1, <1>4, <2>1, <2>2
<1> QED BY <1>1, <1>2, <1>5, CountStep DEF Own

\* The slot under construction becomes a Pthread; no host thread runs on it.
LEMMA ConstructIInv ==
  ASSUME IInv, NEW t \in Slots, NEW d \in Detached, UNCHANGED calls, Construct(t, d) PROVE IInv'
<1> DEFINE s == run[t].target
<1>1. /\ run[t].pc = "construct" /\ s \in Slots /\ run' = [run EXCEPT ![t].pc = "link"]
      /\ pt' = [pt EXCEPT ![s] = NewPthread(d)] /\ Frame
      /\ pt \in [Slots -> Pthread]
      /\ run \in [Slots -> [pc : Positions, target : Slots \union {NULL}]]
  BY Types DEF Construct, Goto, IInv, SlotsOK, UseOK, Frame
<1>2. s \in Constructing
  BY <1>1 DEF Constructing
<1>3. s \notin threads /\ s \notin gcList /\ run[s].pc = "none"
  BY <1>1, <1>2, NotRunning DEF IInv, Apart
<1>4. /\ NewPthread(d) \in Pthread /\ NewPthread(d).state = "Running"
      /\ NewPthread(d).tid = "live" /\ NewPthread(d).refcount = 1
  BY ThreadAssumption DEF NewPthread, Pthread
<1>5. /\ pt' \in [Slots -> Pthread] /\ pt'[s] = NewPthread(d)
      /\ \A u \in Slots : u # s => pt'[u] = pt[u]
  BY <1>1, <1>4
<1>6. /\ run'[t].pc = "link" /\ run'[t].target = s /\ \A u \in Slots : u # t => run'[u] = run[u]
      /\ run' \in [Slots -> [pc : Positions, target : Slots \union {NULL}]]
  BY <1>1 DEF Positions
<1>7. TypeOK'
  BY <1>1, <1>5, <1>6 DEF IInv, TypeOK, Frame, stateVars, onceVars
<1>8. MakersOK' /\ OnceOK'
  BY <1>1, <1>6 DEF IInv, MakersOK, OnceOK, Makes, Uses, Frame, onceVars
<1>9. Constructing' = Constructing /\ Counting' = Counting
  BY <1>1, <1>6 DEF Constructing, Counting
<1>10. Apart' /\ Counted'
  BY <1>1, <1>9 DEF IInv, Apart, Counted, Heap, Collecting, Frame, stateVars
<1>11. \A u \in Slots : LiveOK(u)'
  BY <1>1, <1>3, <1>5, <1>6 DEF IInv, SlotsOK, LiveOK, Ending, Uses, Frame, stateVars
<1>12. ASSUME NEW u \in Slots PROVE UseOK(u)'
  <2>1. CASE u = t
    BY <1>1, <1>4, <1>5, <1>6, <2>1 DEF IInv, SlotsOK, UseOK, Frame, stateVars
  <2>2. CASE u # t
    <3>1. UseOK(u)
      BY DEF IInv, SlotsOK
    <3>2. run[u].pc \in {"join", "link", "start"} => run[u].target \in Slots
      BY <3>1 DEF UseOK, IInv, TypeOK
    <3>3. run[u].pc \in {"join", "start"} => run[u].target # s
      BY <1>3, <3>1 DEF UseOK
    <3>4. run[u].pc = "link" => run[u].target # s
      BY <1>1, <2>2 DEF IInv, MakersOK, Makes, Uses
    <3>5. run[u].pc = "start" => run[u].target # t
      BY <1>1, <3>1 DEF UseOK
    <3>6. threads' = threads /\ work' = work
      BY <1>1 DEF Frame, stateVars
    <3> QED BY <1>5, <1>6, <2>2, <3>1, <3>2, <3>3, <3>4, <3>5, <3>6 DEF UseOK
  <2> QED BY <2>1, <2>2
<1>13. \A x \in Slots : Holders(x)' = Holders(x)
  BY <1>1, <1>6 DEF Holders
<1>14. CollectComplete'
  BY <1>1, <1>3, <1>5, <1>13 DEF IInv, TypeOK, CollectComplete, Frame, stateVars
<1> QED BY <1>7, <1>8, <1>10, <1>11, <1>12, <1>14 DEF IInv, SlotsOK

\* The new thread is linked: nobody holds a reference to it yet.
LEMMA LinkIInv == ASSUME IInv, NEW t \in Slots, UNCHANGED calls, Link(t) PROVE IInv'
<1> DEFINE s == run[t].target
<1>1. /\ run[t].pc = "link" /\ s \in Slots /\ run' = [run EXCEPT ![t].pc = "start"]
      /\ threads' = threads \union {s}
      /\ UNCHANGED <<calls, pt, gcList, freeThreads, totalThreads, work, tails, onceVars, aborted>>
      /\ run \in [Slots -> [pc : Positions, target : Slots \union {NULL}]]
  BY Types DEF Link, Goto, IInv, SlotsOK, UseOK
<1>2. s \in Constructing
  BY <1>1 DEF Constructing
<1>3. s \notin threads /\ s \notin gcList /\ s \notin freeThreads /\ s \notin Collecting /\ run[s].pc = "none"
  BY <1>1, <1>2, NotRunning DEF IInv, Apart, Collecting
<1>4. pt[s].state = "Running" /\ pt[s].tid = "live" /\ pt[s].refcount = 1
  BY <1>1 DEF IInv, SlotsOK, UseOK
<1>5. /\ run'[t].pc = "start" /\ run'[t].target = s /\ \A u \in Slots : u # t => run'[u] = run[u]
      /\ run' \in [Slots -> [pc : Positions, target : Slots \union {NULL}]]
  BY <1>1 DEF Positions
<1>6. TypeOK'
  BY <1>1, <1>5 DEF IInv, TypeOK, onceVars
<1>7. MakersOK' /\ OnceOK'
  BY <1>1, <1>5 DEF IInv, MakersOK, OnceOK, Makes, Uses, onceVars
<1>8. Constructing' = Constructing \ {s}
  BY <1>1, <1>5 DEF Constructing, IInv, MakersOK, Makes, Uses
<1>9. Heap' = Heap
  BY <1>1, <1>2, <1>8 DEF Heap, Collecting
<1>10. Counted'
  <2>1. Counting' = Counting
    BY <1>1, <1>5 DEF Counting
  <2> QED BY <1>1, <1>9, <2>1 DEF IInv, Counted
<1>11. Apart'
  BY <1>1, <1>3, <1>8 DEF IInv, Apart, Collecting
<1>12. \A u \in Slots : LiveOK(u)'
  BY <1>1, <1>5 DEF IInv, SlotsOK, LiveOK, Ending, Uses
<1>13. ASSUME NEW u \in Slots PROVE UseOK(u)'
  <2>1. CASE u = t
    <3>1. s # t /\ run'[s] = run[s]
      BY <1>1, <1>3, <1>5
    <3> QED BY <1>1, <1>3, <1>4, <1>5, <2>1, <3>1 DEF IInv, SlotsOK, UseOK
  <2>2. CASE u # t
    <3>1. UseOK(u)
      BY DEF IInv, SlotsOK
    <3>2. run[u].pc = "start" => run[u].target # t /\ run[u].target \in Slots
      BY <1>1, <3>1 DEF UseOK
    <3> QED BY <1>1, <1>5, <2>2, <3>1, <3>2 DEF UseOK
  <2> QED BY <2>1, <2>2
<1>14. \A x \in Slots : Holders(x)' = Holders(x)
  BY <1>1, <1>5 DEF Holders
<1>15. Holders(s) = {}
  BY <1>3 DEF Holders, IInv, SlotsOK, UseOK
<1>16. CollectComplete'
  <2> SUFFICES ASSUME NEW x \in threads'
      PROVE  /\ pt'[x].refcount = Cardinality(Holders(x)') + (IF pt'[x].state = "Dead" THEN 0 ELSE 1)
             /\ ~ShouldCollect(pt'[x])
    BY DEF CollectComplete
  <2>1. pt' = pt
    BY <1>1
  <2>2. CASE x \in threads
    BY <1>14, <2>1, <2>2 DEF IInv, TypeOK, CollectComplete
  <2>3. CASE x = s
    <3>1. Holders(x)' = {}
      BY <1>1, <1>14, <1>15, <2>3
    <3>2. Cardinality(Holders(x)') = 0
      BY <3>1, FS_EmptySet
    <3>3. pt'[x].state = "Running" /\ pt'[x].refcount = 1
      BY <1>4, <2>1, <2>3
    <3> QED BY <3>2, <3>3 DEF ShouldCollect
  <2> QED BY <1>1, <2>2, <2>3
<1> QED BY <1>6, <1>7, <1>10, <1>11, <1>12, <1>13, <1>16 DEF IInv, SlotsOK

\* The new thread starts to run.
LEMMA StartIInv == ASSUME IInv, NEW t \in Slots, UNCHANGED calls, Start(t) PROVE IInv'
<1> DEFINE s == run[t].target
<1>1. /\ run[t].pc = "start" /\ s \in Slots /\ s \in threads /\ run[s].pc = "none" /\ s # t
      /\ pt[s].tid = "live" /\ pt[s].state = "Running"
      /\ run' = [run EXCEPT ![t] = At("idle", NULL), ![s] = At("idle", NULL)]
      /\ pt' = [pt EXCEPT ![s].handle = TRUE] /\ Frame
      /\ pt \in [Slots -> Pthread]
      /\ run \in [Slots -> [pc : Positions, target : Slots \union {NULL}]]
  BY Types DEF Start, IInv, SlotsOK, UseOK, Frame
<1>2. /\ pt' \in [Slots -> Pthread]
      /\ \A u \in Slots : /\ pt'[u].state = pt[u].state /\ pt'[u].tid = pt[u].tid
                          /\ pt'[u].detached = pt[u].detached /\ pt'[u].joiner = pt[u].joiner
                          /\ pt'[u].refcount = pt[u].refcount
  <2> DEFINE q == [pt[s] EXCEPT !.handle = TRUE]
  <2>1. pt[s] \in Pthread /\ pt' = [pt EXCEPT ![s] = q]
    BY <1>1
  <2>2. /\ q \in Pthread /\ q.refcount = pt[s].refcount /\ q.state = pt[s].state
        /\ q.joiner = pt[s].joiner /\ q.detached = pt[s].detached /\ q.tid = pt[s].tid
    BY <2>1 DEF Pthread
  <2> HIDE DEF q
  <2> QED BY <1>1, <2>1, <2>2
<1>3. /\ run'[t].pc = "idle" /\ run'[s].pc = "idle"
      /\ \A u \in Slots : u # t /\ u # s => run'[u] = run[u]
      /\ run' \in [Slots -> [pc : Positions, target : Slots \union {NULL}]]
  BY <1>1 DEF At, Positions
<1>4. TypeOK'
  BY <1>1, <1>2, <1>3 DEF IInv, TypeOK, Frame, stateVars, onceVars
<1>5. MakersOK' /\ OnceOK'
  BY <1>1, <1>3 DEF IInv, MakersOK, OnceOK, Makes, Uses, Frame, onceVars
<1>6. Apart' /\ Counted'
  BY <1>1, <1>3, SameAccounts DEF IInv, Frame
<1>7. \A u \in Slots : LiveOK(u)'
  BY <1>1, <1>2, <1>3 DEF IInv, SlotsOK, LiveOK, Ending, Uses, Frame, stateVars
<1>8. ASSUME NEW u \in Slots PROVE UseOK(u)'
  <2>1. CASE u = t \/ u = s
    BY <1>1, <1>3, <2>1 DEF IInv, SlotsOK, UseOK, Frame, stateVars
  <2>2. CASE u # t /\ u # s
    <3>1. UseOK(u)
      BY DEF IInv, SlotsOK
    <3>2. run[u].pc \in {"join", "link", "start"} => run[u].target \in Slots
      BY <3>1 DEF UseOK, IInv, TypeOK
    <3>3. run[u].pc = "start" => run[u].target # t /\ run[u].target # s
      BY <1>1, <2>2, <3>1 DEF UseOK, IInv, MakersOK, Makes, Uses
    <3>4. threads' = threads /\ work' = work
      BY <1>1 DEF Frame, stateVars
    <3> QED BY <1>2, <1>3, <2>2, <3>1, <3>2, <3>3, <3>4 DEF UseOK
  <2> QED BY <2>1, <2>2
<1>9. \A x \in Slots : Holders(x)' = Holders(x)
  BY <1>1, <1>3 DEF Holders
<1>10. CollectComplete'
  BY <1>1, <1>2, <1>9 DEF IInv, TypeOK, CollectComplete, ShouldCollect, Frame, stateVars
<1> QED BY <1>4, <1>5, <1>6, <1>7, <1>8, <1>10 DEF IInv, SlotsOK

-----------------------------------------------------------------------------
\* Initially only the main thread is linked and runs.
LEMMA InitIInv == Init => IInv
<1> SUFFICES ASSUME Init PROVE IInv
  OBVIOUS
<1>1. \A s \in Slots : /\ run[s].pc = IF s = Main THEN "idle" ELSE "none"
                       /\ run[s].target = NULL
  BY DEF Init, At
<1>2. /\ pt[Main].state = "Running" /\ pt[Main].tid = "live" /\ pt[Main].refcount = 1
      /\ Main \in Slots /\ threads = {Main}
  BY ThreadAssumption DEF Init, NewPthread
<1>3. TypeOK
  <2>1. \A s \in Slots : pt[s] \in Pthread
    BY DEF Init, NewPthread, Pthread
  <2>2. pt \in [Slots -> Pthread]
    BY <2>1 DEF Init
  <2>3. run \in [Slots -> [pc : Positions, target : Slots \union {NULL}]]
    BY DEF Init, At, Positions
  <2> QED BY <2>2, <2>3, ThreadAssumption DEF Init, TypeOK
<1>4. SlotsOK /\ MakersOK /\ OnceOK
  BY <1>1, <1>2 DEF Init, SlotsOK, LiveOK, UseOK, Ending, Uses, MakersOK, Makes, OnceOK
<1>5. Constructing = {} /\ Collecting = {}
  BY <1>1 DEF Init, Constructing, Collecting
<1>6. Apart
  BY <1>5 DEF Init, Apart
<1>7. Counted
  <2>1. Slots \ Heap = {Main}
    BY <1>2, <1>5 DEF Init, Heap
  <2>2. Cardinality({Main}) = 1 /\ Cardinality({}) = 0
    BY FS_Singleton, FS_EmptySet
  <2>3. totalThreads = 1 /\ freeThreads = {} /\ MaxCachedThreads \in Nat
    BY ThreadAssumption DEF Init
  <2>a. Counting = {}
    BY <1>1 DEF Counting
  <2>4. totalThreads = Cardinality(Slots \ Heap) + Cardinality(Counting)
    BY <2>1, <2>2, <2>3, <2>a
  <2>5. Cardinality(freeThreads) <= MaxCachedThreads
    BY <2>2, <2>3
  <2> QED BY <2>4, <2>5 DEF Counted
<1>8. CollectComplete
  <2>1. Holders(Main) = {}
    BY <1>1 DEF Holders
  <2> QED BY <1>2, <2>1, FS_EmptySet DEF CollectComplete, ShouldCollect
<1> QED BY <1>3, <1>4, <1>6, <1>7, <1>8 DEF IInv

\* Every step preserves the invariant.
LEMMA NextIInv == IInv /\ [Next]_vars => IInv'
<1> SUFFICES ASSUME IInv, [Next]_vars PROVE IInv'
  OBVIOUS
<1>1. CASE UNCHANGED vars
  <2>1. TypeOK' /\ OnceOK'
    BY <1>1 DEF IInv, TypeOK, OnceOK, vars, stateVars, onceVars
  <2> QED BY <1>1, <2>1, PlainStep DEF vars
<1>2. CASE Next
  <2>0. UNCHANGED calls
    BY <1>2 DEF Next
  <2>1. PICK t \in Slots :
          \/ Recheck(t) \/ Unlock(t)
          \/ CreateBegin(t) \/ AllocTest(t) \/ AllocCount(t) \/ AllocTake(t) \/ Uncount(t)
          \/ \E d \in Detached : Construct(t, d)
          \/ Link(t) \/ Start(t)
          \/ ExitThread(t) \/ Terminate(t) \/ NativeExit(t)
          \/ JoinEnd(t) \/ RefDelete(t)
          \/ \E s \in Slots : \/ FreeThread(t, s) \/ AllocCached(t, s)
                              \/ JoinBegin(t, s) \/ Detach(t, s) \/ RefAdd(t, s)
          \/ OnceLoad(t) \/ OnceCas(t) \/ OnceWait(t)
          \/ OnceDone(t) \/ OnceExit(t) \/ OnceNotify(t)
    BY <1>2 DEF Next
  <2>2. CASE Recheck(t) \/ Unlock(t) \/ ExitThread(t) \/ Terminate(t) \/ NativeExit(t)
    BY <2>0, <2>2, RecheckIInv, UnlockIInv, ExitThreadIInv, TerminateIInv, NativeExitIInv
  <2>3. CASE CreateBegin(t) \/ AllocTest(t) \/ AllocCount(t) \/ AllocTake(t) \/ Uncount(t)
    BY <2>0, <2>3, CreateBeginIInv, AllocTestIInv, AllocCountIInv, AllocTakeIInv, UncountIInv
  <2>a. CASE Link(t) \/ Start(t)
    BY <2>0, <2>a, LinkIInv, StartIInv
  <2>4. CASE \E d \in Detached : Construct(t, d)
    BY <2>0, <2>4, ConstructIInv
  <2>5. CASE JoinEnd(t) \/ RefDelete(t)
    BY <2>0, <2>5, JoinEndIInv, RefDeleteIInv
  <2>6. ASSUME NEW s \in Slots, FreeThread(t, s) \/ AllocCached(t, s) PROVE IInv'
    BY <2>0, <2>6, FreeThreadIInv, AllocCachedIInv
  <2>7. ASSUME NEW s \in Slots, JoinBegin(t, s) \/ Detach(t, s) \/ RefAdd(t, s) PROVE IInv'
    BY <2>0, <2>7, JoinBeginIInv, DetachIInv, RefAddIInv
  <2>8. CASE OnceCas(t) \/ OnceDone(t) \/ OnceExit(t)
    BY <2>0, <2>8, OnceStateIInv
  <2>9. CASE OnceLoad(t) \/ OnceWait(t) \/ OnceNotify(t)
    BY <2>0, <2>9, OnceLookIInv
  <2> QED BY <2>1, <2>2, <2>3, <2>a, <2>4, <2>5, <2>6, <2>7, <2>8, <2>9
<1> QED BY <1>1, <1>2

\* The invariant holds in every reachable state.
LEMMA InvariantHolds == Spec => []IInv
BY InitIInv, NextIInv, PTL DEF Spec

-----------------------------------------------------------------------------
\* The state stays well typed: no reference count or thread count goes below zero.
THEOREM TypeCorrect == Spec => []TypeOK
<1>1. IInv => TypeOK
  BY DEF IInv
<1> QED BY <1>1, InvariantHolds, PTL

\* No call finds its thread collected, and no running thread's slot is freed.
THEOREM CollectIsSafe == Spec => []CollectSafe
<1>1. IInv => CollectSafe
  BY DEF IInv, CollectSafe, SlotsOK, LiveOK, UseOK, Ending, Uses
<1> QED BY <1>1, InvariantHolds, PTL

\* Every dead, detached thread is collected by the last call that refers to it.
THEOREM CollectIsComplete == Spec => []CollectComplete
<1>1. IInv => CollectComplete
  BY DEF IInv
<1> QED BY <1>1, InvariantHolds, PTL

\* Every slot is in one place, and total_threads counts those outside the heap.
THEOREM SlotsAccounted == Spec => []SlotAccounting
<1>1. IInv => SlotAccounting
  <2> SUFFICES ASSUME IInv PROVE SlotAccounting
    OBVIOUS
  <2>1. Apart /\ Counted
    BY DEF IInv
  <2>2. \A i \in 1 .. 4 : i = 1 \/ i = 2 \/ i = 3 \/ i = 4
    OBVIOUS
  <2>3. /\ Places[1] = threads /\ Places[2] = gcList
        /\ Places[3] = freeThreads /\ Places[4] = Constructing
    BY DEF Places
  <2>4. \A i, j \in 1 .. 4 : i # j => Places[i] \intersect Places[j] = {}
    BY <2>1, <2>2, <2>3 DEF Apart
  <2>5. \A t \in Slots : \A i \in 1 .. 4 : work[t] \intersect Places[i] = {}
    BY <2>1, <2>2, <2>3 DEF Apart
  <2>6. \A t \in Slots : \A u \in Slots \ {t} : work[t] \intersect work[u] = {}
    BY <2>1 DEF Apart
  <2> QED BY <2>1, <2>4, <2>5, <2>6 DEF SlotAccounting, Counted
<1> QED BY <1>1, InvariantHolds, PTL

\* pthread_once runs its init routine to the end exactly once, in one thread at a
\* time, for any number of threads.
THEOREM OnceIsExact == Spec => []OnceExact
<1>1. IInv => OnceExact
  <2> SUFFICES ASSUME IInv PROVE OnceExact
    OBVIOUS
  <2> DEFINE R == {t \in Slots : run[t].pc = "init"}
  <2>1. inits = (IF once = "Done" THEN 1 ELSE 0) /\ (inits # 0 => R = {})
    BY DEF IInv, OnceOK
  <2>2. R = {} \/ \E t \in Slots : R = {t}
    BY DEF IInv, OnceOK
  <2> HIDE DEF R
  <2>3. Cardinality({}) = 0 /\ \A t \in Slots : Cardinality({t}) = 1
    BY FS_EmptySet, FS_Singleton
  <2>4. Cardinality(R) <= IF inits = 0 THEN 1 ELSE 0
    BY <2>1, <2>2, <2>3
  <2> QED BY <2>1, <2>4 DEF OnceExact, R
<1> QED BY <1>1, InvariantHolds, PTL
=============================================================================
