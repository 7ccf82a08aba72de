------------------------- MODULE GuestMemory_proofs -------------------------
(***************************************************************************)
(* The validation cache is sound and the accounts of the memory manager are *)
(* exact for any number of threads, pages, cache entries and guest calls.   *)
(*                                                                         *)
(* The cache: the generation is odd exactly while a thread holds the writer *)
(* lock past Begin, and entries only ever get the even generation that      *)
(* Query reads without a writer.  So no entry matches while the map changes, *)
(* and Finish moves to a generation above every entry's.                    *)
(*                                                                         *)
(* The accounts: the virtual pages of a type and the physical pages of its  *)
(* state correspond one to one.  Every change of the manager drops pages    *)
(* with what is behind them, adds pages on physical pages that were not in   *)
(* use, or touches neither; and unmap_mutex keeps what a call's checks found *)
(* true until its change is made.                                           *)
(***************************************************************************)
EXTENDS GuestMemory, FiniteSetTheorems, WellFoundedInduction, TLAPS

Labels == {"idle", "lock", "begin", "apply", "finish", "query", "abort"}

\* Inside the writer lock, and past the first half of the generation change.
Changer(t) == pc[t] \in {"apply", "finish", "abort"}

\* Who holds the writer lock, and what that says of the generation.
WriterInv ==
    /\ pc \in [Threads -> Labels]
    /\ generation \in Nat
    /\ \A t \in Threads : Changer(t) <=> writer = t
    /\ generation % 2 = IF writer \in Threads THEN 1 ELSE 0

\* The entries are as old as the map or older, and even.
EntriesInv ==
    /\ DOMAIN entries = Threads
    /\ \A t \in Threads : DOMAIN entries[t] = 0..CacheSize - 1
    /\ \A t \in Threads : \A i \in 0..CacheSize - 1 :
         /\ entries[t][i].generation \in Nat
         /\ entries[t][i].generation % 2 = 0
         /\ entries[t][i].generation <= generation

\* What an entry of generation g promises of the map m.
Promises(e, m, g) ==
    e.generation = g =>
        \A p \in e.pages : m.vma[p].type # "Free" /\ e.prot \subseteq m.vma[p].prot

EntriesTrue == \A t \in Threads : \A i \in 0..CacheSize - 1 : Promises(entries[t][i], mm, generation)

IInv == WriterInv /\ EntriesInv /\ EntriesTrue

\* Initially every entry is empty and nobody writes.
LEMMA InitIInv == Init => IInv
BY MemoryAssumption
   DEF Init, IInv, WriterInv, EntriesInv, EntriesTrue, Promises, NoEntry, Changer, Labels

\* A step that leaves the map, the generation and the cache alone and moves
\* no thread into or out of the writer lock.
LEMMA QuietStep ==
  ASSUME IInv, NEW t \in Threads, NEW l \in Labels,
         pc' = [pc EXCEPT ![t] = l], ~Changer(t), l \notin {"apply", "finish", "abort"},
         mm' = mm, generation' = generation, writer' = writer, entries' = entries
  PROVE  IInv'
<1>1. WriterInv'
  BY DEF IInv, WriterInv, Changer, Labels
<1>2. EntriesInv' /\ EntriesTrue'
  BY DEF IInv, EntriesInv, EntriesTrue, Promises
<1> QED BY <1>1, <1>2 DEF IInv

\* Begin takes the writer lock; every entry is older than the odd generation.
LEMMA BeginIInv == ASSUME IInv, NEW t \in Threads, Begin(t) PROVE IInv'
<1> USE MemoryAssumption
<1>0. writer \notin Threads /\ generation % 2 = 0 /\ generation' = generation + 1 /\ generation \in Nat
  BY DEF IInv, WriterInv, Begin
<1>1. generation' % 2 = 1 /\ generation' \in Nat
  BY <1>0
<1>2. WriterInv'
  BY <1>0, <1>1 DEF IInv, WriterInv, Begin, Goto, Changer, Labels
<1>5. entries' = entries
  BY DEF Begin, cacheVars
<1>3. EntriesInv'
  BY <1>0, <1>5 DEF IInv, EntriesInv
<1>4. EntriesTrue'
  BY <1>0, <1>5 DEF IInv, EntriesInv, EntriesTrue, Promises
<1> QED BY <1>2, <1>3, <1>4 DEF IInv

\* While the map changes the generation is odd, so no entry is current.
LEMMA OddGeneration ==
  ASSUME IInv, NEW t \in Threads, writer = t
  PROVE  \A u \in Threads : \A i \in 0..CacheSize - 1 : entries[u][i].generation < generation
BY DEF IInv, WriterInv, EntriesInv

LEMMA ApplyIInv == ASSUME IInv, NEW t \in Threads, Apply(t) PROVE IInv'
<1>1. writer = t /\ writer' = writer /\ generation' = generation /\ entries' = entries
  BY DEF IInv, WriterInv, Changer, Apply, cacheVars
<1>2. WriterInv'
  BY <1>1 DEF IInv, WriterInv, Apply, Goto, Changer, Labels
<1>3. EntriesInv'
  BY <1>1 DEF IInv, EntriesInv
<1>4. EntriesTrue'
  BY <1>1, OddGeneration DEF EntriesTrue, Promises, IInv, EntriesInv, WriterInv
<1> QED BY <1>2, <1>3, <1>4 DEF IInv

LEMMA FinishIInv == ASSUME IInv, NEW t \in Threads, Finish(t) PROVE IInv'
<1> USE MemoryAssumption
<1>1. /\ writer = t /\ writer' = NoThread /\ generation' = generation + 1
      /\ generation \in Nat /\ generation % 2 = 1 /\ entries' = entries
  BY DEF IInv, WriterInv, Changer, Finish, cacheVars
<1>0. generation' % 2 = 0 /\ generation' \in Nat
  BY <1>1
<1>2. WriterInv'
  BY <1>0, <1>1 DEF IInv, WriterInv, Finish, Goto, Changer, Labels
<1>3. EntriesInv'
  BY <1>1 DEF IInv, EntriesInv
<1>4. EntriesTrue'
  BY <1>1, OddGeneration DEF EntriesTrue, Promises, IInv, EntriesInv
<1> QED BY <1>2, <1>3, <1>4 DEF IInv

\* Allocate and PoolExpand change which physical pages are taken, no mapping.
LEMMA PhysicalIInv ==
  ASSUME IInv, mm'.vma = mm.vma, UNCHANGED <<generation, writer, pc, entries>>
  PROVE  IInv'
<1>1. WriterInv' /\ EntriesInv'
  BY DEF IInv, WriterInv, EntriesInv, Changer
<1>2. EntriesTrue'
  BY DEF IInv, EntriesTrue, Promises
<1> QED BY <1>1, <1>2 DEF IInv

\* Query stores what the map says, with the generation of the same moment.
LEMMA QueryIInv == ASSUME IInv, NEW t \in Threads, Query(t) PROVE IInv'
<1> USE MemoryAssumption
<1> DEFINE at == call[t].at
           e == [generation |-> generation, pages |-> FindVMA(at), prot |-> mm.vma[at].prot]
<1>1. /\ writer = NoThread /\ writer' = writer /\ generation' = generation /\ mm' = mm
      /\ generation \in Nat /\ generation % 2 = 0
  BY DEF Query, IInv, WriterInv
<1>2. \/ entries' = entries
      \/ mm.vma[at].type # "Free" /\ entries' = [entries EXCEPT ![t][next_entry[t]] = e]
  BY DEF Query, Store, cacheVars
<1>3. WriterInv'
  <2>1. pc' = pc \/ pc' = [pc EXCEPT ![t] = "idle"]
    BY DEF Query, Goto
  <2>2. ~Changer(t)
    BY DEF Query, Changer
  <2> QED BY <1>1, <2>1, <2>2 DEF IInv, WriterInv, Changer, Labels
<1>4. mm.vma[at].type # "Free" => Promises(e, mm, generation)
  BY DEF Promises, FindVMA, Merges
<1>5. /\ e.generation \in Nat /\ e.generation % 2 = 0 /\ e.generation <= generation
  BY <1>1
<1> HIDE DEF e
<1>6. \A u \in Threads : /\ DOMAIN entries'[u] = 0..CacheSize - 1
                         /\ \A i \in 0..CacheSize - 1 :
                              \/ entries'[u][i] = entries[u][i]
                              \/ mm.vma[at].type # "Free" /\ entries'[u][i] = e
  BY <1>2 DEF IInv, EntriesInv
<1>7. DOMAIN entries' = Threads
  BY <1>2 DEF IInv, EntriesInv
<1>8. EntriesInv'
  BY <1>1, <1>5, <1>6, <1>7 DEF IInv, EntriesInv
<1>9. EntriesTrue'
  BY <1>1, <1>4, <1>6 DEF IInv, EntriesTrue
<1> QED BY <1>3, <1>8, <1>9 DEF IInv

\* Every step keeps the invariant.
LEMMA NextIInv == IInv /\ [Next]_vars => IInv'
<1> SUFFICES ASSUME IInv, [Next]_vars PROVE IInv'
  OBVIOUS
<1>1. CASE UNCHANGED vars
  BY <1>1, PhysicalIInv DEF vars, cacheVars
<1>2. ASSUME NEW t \in Threads, Changing(t) PROVE IInv'
  <2>1. CASE Lock(t)
    <3>1. PICK l \in {"begin", "idle"} : pc' = [pc EXCEPT ![t] = l]
      BY <2>1 DEF Lock, Goto
    <3> QED BY <2>1, <3>1, QuietStep DEF Lock, Changer, Labels, cacheVars
  <2> QED BY <1>2, <2>1, BeginIInv, ApplyIInv, FinishIInv DEF Changing
<1>3. ASSUME NEW t \in Threads, Guest(t) PROVE IInv'
  <2>1. ASSUME NEW c \in program, Allocate(t, c) PROVE IInv'
    BY <2>1, PhysicalIInv DEF Allocate, cacheVars
  <2>2. ASSUME NEW c \in program, PoolExpand(t, c) PROVE IInv'
    BY <2>2, PhysicalIInv DEF PoolExpand, cacheVars
  <2>3. ASSUME NEW c \in program, Call(t, c) \/ Validate(t, c) PROVE IInv'
    <3>1. PICK l \in {"lock", "query"} : pc' = [pc EXCEPT ![t] = l]
      BY <2>3 DEF Call, Validate, Goto
    <3> QED BY <2>3, <3>1, QuietStep DEF Call, Validate, Changer, Labels, cacheVars
  <2> QED BY <1>3, <2>1, <2>2, <2>3 DEF Guest, Probes
<1> QED BY <1>1, <1>2, <1>3, QueryIInv DEF Next

\* A validation answered from the cache is true of the map at that moment.
THEOREM CacheSoundness == Spec => []CacheSound
<1>1. IInv => CacheSound
  BY DEF IInv, EntriesTrue, Promises, CacheSound, CacheContains
<1> QED BY <1>1, InitIInv, NextIInv, PTL DEF Spec

----------------------------------------------------------------------------
(***************************************************************************)
(* The accounts.  The pages of a type and the physical pages of its state   *)
(* correspond one to one, and the counters count them.                      *)
(***************************************************************************)

\* The virtual pages of type T are backed one to one by the physical pages U.
Exact(vma, T, U) ==
    /\ \A p \in VPages : vma[p].type = T => vma[p].phys \in U
    /\ \A p, q \in VPages : vma[p].type = T /\ vma[q].type = T /\ vma[p].phys = vma[q].phys => p = q
    /\ \A u \in U : \E p \in VPages : vma[p].type = T /\ vma[p].phys = u

\* The physical pages behind the pages of R that have type T.
Behind(vma, R, T) == {vma[p].phys : p \in {q \in R : vma[q].type = T}}

\* Page by page, the two maps agree about type T outside R.
SameOutside(v, w, R, T) ==
    \A p \in VPages \ R : /\ w[p].type = T <=> v[p].type = T
                          /\ v[p].type = T => w[p].phys = v[p].phys

\* The pages of R get type T, each on a page of N of its own, none of them in use.
NewPages(v, w, R, T, U, N) ==
    /\ \A p \in R : v[p].type # T /\ w[p].type = T /\ w[p].phys \in N /\ w[p].phys \notin U
    /\ \A p, q \in R : w[p].phys = w[q].phys => p = q
    /\ \A d \in N : \E p \in R : w[p].phys = d

\* Pages of type T that go give back exactly what was behind them.
LEMMA ExactDrop ==
  ASSUME NEW v, NEW w, NEW T, NEW U, NEW R \in SUBSET VPages,
         Exact(v, T, U), SameOutside(v, w, R, T), \A p \in R : w[p].type # T
  PROVE  Exact(w, T, U \ Behind(v, R, T))
<1>1. ASSUME NEW p \in VPages, w[p].type = T
      PROVE  p \notin R /\ v[p].type = T /\ w[p].phys = v[p].phys
  BY <1>1 DEF SameOutside
<1>2. ASSUME NEW p \in VPages, w[p].type = T PROVE w[p].phys \in U \ Behind(v, R, T)
  BY <1>1, <1>2 DEF Exact, Behind
<1>3. ASSUME NEW p \in VPages, NEW q \in VPages,
             w[p].type = T, w[q].type = T, w[p].phys = w[q].phys
      PROVE  p = q
  BY <1>1, <1>3 DEF Exact
<1>4. ASSUME NEW u \in U \ Behind(v, R, T)
      PROVE  \E p \in VPages : w[p].type = T /\ w[p].phys = u
  <2>1. PICK p \in VPages : v[p].type = T /\ v[p].phys = u
    BY DEF Exact
  <2>2. p \notin R
    BY <2>1 DEF Behind
  <2> QED BY <2>1, <2>2 DEF SameOutside
<1> QED BY <1>2, <1>3, <1>4 DEF Exact

\* New pages of type T, each on a physical page of its own that was not in use.
LEMMA ExactAdd ==
  ASSUME NEW v, NEW w, NEW T, NEW U, NEW R \in SUBSET VPages, NEW N,
         Exact(v, T, U), SameOutside(v, w, R, T), NewPages(v, w, R, T, U, N)
  PROVE  Exact(w, T, U \cup N)
<1>0. /\ \A p \in R : v[p].type # T /\ w[p].type = T /\ w[p].phys \in N /\ w[p].phys \notin U
      /\ \A p, q \in R : w[p].phys = w[q].phys => p = q
      /\ \A d \in N : \E p \in R : w[p].phys = d
  BY DEF NewPages
<1>1. ASSUME NEW p \in VPages, w[p].type = T, p \notin R
      PROVE  v[p].type = T /\ w[p].phys = v[p].phys /\ w[p].phys \in U
  BY <1>1 DEF SameOutside, Exact
<1>2. ASSUME NEW p \in VPages, w[p].type = T PROVE w[p].phys \in U \cup N
  BY <1>0, <1>1, <1>2
<1>3. ASSUME NEW p \in VPages, NEW q \in VPages,
             w[p].type = T, w[q].type = T, w[p].phys = w[q].phys
      PROVE  p = q
  <2>1. CASE p \in R /\ q \in R
    BY <1>0, <2>1, <1>3
  <2>2. CASE p \notin R /\ q \notin R
    BY <2>2, <1>1, <1>3 DEF Exact
  <2> QED BY <1>0, <2>1, <2>2, <1>1, <1>3
<1>4. ASSUME NEW u \in U \cup N PROVE \E p \in VPages : w[p].type = T /\ w[p].phys = u
  <2>1. CASE u \in N
    BY <1>0, <2>1
  <2>2. CASE u \in U
    <3>1. PICK p \in VPages : v[p].type = T /\ v[p].phys = u
      BY <2>2 DEF Exact
    <3> QED BY <1>0, <3>1 DEF SameOutside
  <2> QED BY <2>1, <2>2
<1> QED BY <1>2, <1>3, <1>4 DEF Exact

\* A step that changes no page of type T.
LEMMA ExactKeep ==
  ASSUME NEW v, NEW w, NEW T, NEW U, Exact(v, T, U), SameOutside(v, w, {}, T)
  PROVE  Exact(w, T, U)
BY DEF Exact, SameOutside

\* As many pages of type T in a range as physical pages behind them.
LEMMA BehindCount ==
  ASSUME NEW v, NEW T, NEW U, NEW R \in SUBSET VPages, Exact(v, T, U)
  PROVE  /\ Behind(v, R, T) \subseteq U
         /\ Cardinality(Behind(v, R, T)) = Cardinality({p \in R : v[p].type = T})
<1> DEFINE B == {p \in R : v[p].type = T}
           N == Behind(v, R, T)
           f == [p \in B |-> v[p].phys]
<1>1. N \subseteq U
  BY DEF Behind, Exact
<1>2. f \in [B -> N] /\ \A p \in B : f[p] = v[p].phys
  BY DEF Behind
<1>3. \A d \in N : \E p \in B : f[p] = d
  BY <1>2 DEF Behind
<1>4. \A p, q \in B : f[p] = f[q] => p = q
  BY <1>2 DEF Exact
<1> HIDE DEF f, N
<1>5. f \in Bijection(B, N)
  BY <1>2, <1>3, <1>4 DEF Bijection, Injection, Surjection, IsInjective
<1>6. IsFiniteSet(B)
  BY PagesAssumption, FS_Subset
<1>7. ExistsBijection(B, N)
  BY <1>5 DEF ExistsBijection
<1>8. Cardinality(N) = Cardinality(B)
  BY <1>6, <1>7, FS_Bijection
<1> QED BY <1>1, <1>8 DEF N

\* Cardinality of disjoint unions and of differences of finite sets.
LEMMA CountUnion ==
  ASSUME NEW S, NEW N, IsFiniteSet(S), IsFiniteSet(N), S \cap N = {}
  PROVE  Cardinality(S \cup N) = Cardinality(S) + Cardinality(N)
<1>1. Cardinality(S \cup N) = Cardinality(S) + Cardinality(N) - Cardinality(S \cap N)
  BY FS_Union
<1>2. Cardinality(S) \in Nat /\ Cardinality(N) \in Nat /\ Cardinality(S \cap N) = 0
  BY FS_CardinalityType, FS_EmptySet
<1> QED BY <1>1, <1>2

LEMMA CountMinus ==
  ASSUME NEW S, NEW N \in SUBSET S, IsFiniteSet(S)
  PROVE  Cardinality(S \ N) = Cardinality(S) - Cardinality(N)
<1>1. Cardinality(S \ N) = Cardinality(S) - Cardinality(S \cap N)
  BY FS_Difference
<1>2. S \cap N = N
  OBVIOUS
<1> QED BY <1>1, <1>2

\* The page the search takes is one of those that fit.
LEMMA MinIn ==
  ASSUME NEW S \in SUBSET Nat, S # {}
  PROVE  Min(S) \in S
<1>1. PICK x \in S : \A y \in S : ~(<<y, x>> \in OpToRel(<, Nat))
  BY WFMin, NatLessThanWellFounded, Zenon
<1>2. ASSUME NEW y \in S PROVE x <= y
  <2>1. ~(<<y, x>> \in OpToRel(<, Nat))
    BY <1>1, Zenon
  <2>2. ~(y < x)
    BY <2>1 DEF OpToRel
  <2> QED BY <2>2
<1>3. \E z \in S : \A y \in S : z <= y
  BY <1>2
<1> QED BY <1>3 DEF Min

\* Carving takes pages of S, each once.
LEMMA CarveFacts ==
  ASSUME NEW S \in SUBSET Nat, IsFiniteSet(S), NEW at \in Nat, NEW n \in Nat, n <= Cardinality(S)
  PROVE  /\ \A p \in Pages(at, n) : Carve(S, at, n)[p] \in S
         /\ \A p, q \in Pages(at, n) : Carve(S, at, n)[p] = Carve(S, at, n)[q] => p = q
<1> DEFINE Below(d) == {e \in S : e < d}
           K == Cardinality(S)
           I == 0 .. K - 1
           r == [d \in S |-> Cardinality(Below(d))]
<1>1. K \in Nat
  BY FS_CardinalityType
<1>2. \A d \in S : IsFiniteSet(Below(d)) /\ Cardinality(Below(d)) \in Nat
  <2> TAKE d \in S
  <2>1. Below(d) \in SUBSET S
    OBVIOUS
  <2>2. IsFiniteSet(Below(d))
    BY <2>1, FS_Subset
  <2> QED BY <2>2, FS_CardinalityType
<1>3. ASSUME NEW d \in S, NEW e \in S, d < e PROVE r[d] < r[e]
  <2>0. d \in Nat /\ e \in Nat /\ ~(d < d) /\ \A x \in S : x \in Nat /\ (x < d => x < e)
    BY <1>3
  <2>1. Below(d) \in SUBSET Below(e) /\ d \in Below(e) /\ d \notin Below(d)
    BY <1>3, <2>0
  <2>2. Cardinality(Below(d)) <= Cardinality(Below(e))
    BY <2>1, <1>2, FS_Subset
  <2>3. Cardinality(Below(e)) # Cardinality(Below(d))
    <3>1. Cardinality(Below(e)) = Cardinality(Below(d)) => Below(e) = Below(d)
      BY <2>1, <1>2, FS_Subset
    <3> QED BY <3>1, <2>1
  <2>4. r[d] = Cardinality(Below(d)) /\ r[e] = Cardinality(Below(e))
    OBVIOUS
  <2> HIDE DEF Below, r
  <2> QED BY <1>2, <2>2, <2>3, <2>4
<1>4. ASSUME NEW d \in S PROVE r[d] \in I
  <2>1. Below(d) \in SUBSET S /\ d \notin Below(d)
    OBVIOUS
  <2>2. Cardinality(Below(d)) <= K
    BY <2>1, FS_Subset
  <2>3. Cardinality(Below(d)) # K
    <3>1. K = Cardinality(Below(d)) => S = Below(d)
      BY <2>1, FS_Subset
    <3> QED BY <3>1, <2>1
  <2>4. r[d] = Cardinality(Below(d))
    OBVIOUS
  <2> HIDE DEF Below, r, K
  <2> QED BY <1>1, <1>2, <2>2, <2>3, <2>4
<1>5. r \in [S -> I]
  BY <1>4
<1>6. \A d, e \in S : r[d] = r[e] => d = e
  <2> SUFFICES ASSUME NEW d \in S, NEW e \in S, r[d] = r[e], d # e PROVE FALSE
    OBVIOUS
  <2>1. r[d] \in Nat /\ r[e] \in Nat
    BY <1>4, <1>1
  <2>2. d < e \/ e < d
    OBVIOUS
  <2>3. r[d] < r[e] \/ r[e] < r[d]
    BY <2>2, <1>3
  <2> HIDE DEF r
  <2> QED BY <2>1, <2>3
<1>7. r \in Injection(S, I)
  <2> HIDE DEF r, I
  <2> QED BY <1>5, <1>6 DEF Injection, IsInjective
<1>8. IsFiniteSet(I) /\ Cardinality(I) = K
  <2>1. K - 1 \in Int
    BY <1>1
  <2>2. IsFiniteSet(I) /\ Cardinality(I) = IF 0 > K - 1 THEN 0 ELSE K - 1 - 0 + 1
    BY <2>1, FS_Interval
  <2> HIDE DEF K
  <2> QED BY <1>1, <2>2
<1>9. r \in Surjection(S, I)
  <2> HIDE DEF r, I
  <2> QED BY <1>7, <1>8, FS_Injection
<1>10. \A k \in I : \E d \in S : r[d] = k
  <2> HIDE DEF r, I
  <2> QED BY <1>9 DEF Surjection
<1>11. ASSUME NEW p \in Pages(at, n)
       PROVE  Carve(S, at, n)[p] \in S /\ r[Carve(S, at, n)[p]] = p - at
  <2>1. p - at \in I
    <3>1. n <= K
      OBVIOUS
    <3> HIDE DEF K
    <3> QED BY <3>1, <1>1, <1>11 DEF Pages
  <2>2. \E d \in S : Cardinality(Below(d)) = p - at
    BY <2>1, <1>10
  <2>3. Carve(S, at, n)[p] = CHOOSE d \in S : Cardinality(Below(d)) = p - at
    BY <1>11 DEF Carve
  <2>4. Carve(S, at, n)[p] \in S /\ Cardinality(Below(Carve(S, at, n)[p])) = p - at
    <3> HIDE DEF Below
    <3> QED BY <2>2, <2>3, Zenon
  <2> QED BY <2>4
<1>12. ASSUME NEW p \in Pages(at, n), NEW q \in Pages(at, n),
              Carve(S, at, n)[p] = Carve(S, at, n)[q]
       PROVE  p = q
  <2>1. p - at = q - at
    BY <1>11, <1>12
  <2> QED BY <2>1 DEF Pages
<1> QED BY <1>11, <1>12

\* A range of n pages holds n pages.
LEMMA PagesCount ==
  ASSUME NEW at \in Int, NEW n \in Nat
  PROVE  IsFiniteSet(Pages(at, n)) /\ Cardinality(Pages(at, n)) = n
<1>1. at + n - 1 \in Int
  OBVIOUS
<1>2. /\ IsFiniteSet(at .. at + n - 1)
      /\ Cardinality(at .. at + n - 1) = IF at > at + n - 1 THEN 0 ELSE at + n - 1 - at + 1
  BY <1>1, FS_Interval
<1> QED BY <1>2 DEF Pages

PageStates == [type : VTypes, prot : Prots, phys : Int]

DStates == {"Free", "Allocated", "Mapped", "Pooled", "Committed"}

Managers == [vma : [VPages -> PageStates], dmem : [DPages -> DStates],
             fmem : [FPages -> {"Free", "Flexible"}], flexible_usage : Int, pool_budget : Int]

Used(m) == {f \in FPages : m.fmem[f] = "Flexible"}

Committed(m) == {d \in DPages : m.dmem[d] = "Committed"}

\* A direct mapping stands on pages that are allocated.
DirectHeld(m) ==
    \A p \in VPages : m.vma[p].type = "Direct" =>
        m.vma[p].phys \in DPages /\ m.dmem[m.vma[p].phys] \in {"Allocated", "Mapped"}

\* The flexible pages in use but those in L back the flexible mappings.
FlexibleAccount(m, L) ==
    /\ Exact(m.vma, "Flexible", Used(m) \ L) /\ L \subseteq Used(m)
    /\ m.flexible_usage = Cardinality(Used(m))

\* The committed pages back the pooled mappings, and the budget is above the
\* pooled pages by over.
PoolAccount(m, over) ==
    /\ Exact(m.vma, "Pooled", Committed(m)) /\ over \in Int
    /\ m.pool_budget = Cardinality(PooledOf(m)) + over

\* The state of the manager between two changes; ok says that no release has
\* taken a committed page.
AccountInv(m, L, over, ok) ==
    /\ m \in Managers /\ FlexibleAccount(m, L)
    /\ ok => PoolAccount(m, over) /\ DirectHeld(m)

\* The fields after an unmap, page by page.
Unmapped(m, w, R) ==
    /\ w \in Managers
    /\ \A p \in VPages : w.vma[p] = IF p \in R /\ m.vma[p].type # "Pooled" THEN FreePage
                                    ELSE m.vma[p]
    /\ \A d \in DPages : w.dmem[d] = IF d \in Behind(m.vma, R, "Direct") THEN "Allocated"
                                     ELSE m.dmem[d]
    /\ \A f \in FPages : w.fmem[f] = IF f \in Behind(m.vma, R, "Flexible") THEN "Free"
                                     ELSE m.fmem[f]
    /\ w.flexible_usage = m.flexible_usage - Cardinality({p \in R : m.vma[p].type = "Flexible"})
    /\ w.pool_budget = m.pool_budget

LEMMA UnmapFields ==
  ASSUME NEW m \in Managers, NEW R \in SUBSET VPages, NEW w, w = UnmapBytes(m, R)
  PROVE  Unmapped(m, w, R)
<1> DEFINE D == Behind(m.vma, R, "Direct")
           F == Behind(m.vma, R, "Flexible")
           k == Cardinality({p \in R : m.vma[p].type = "Flexible"})
           a == [p \in VPages |-> IF p \in R /\ m.vma[p].type # "Pooled" THEN FreePage ELSE m.vma[p]]
           b == [d \in DPages |-> IF d \in D THEN "Allocated" ELSE m.dmem[d]]
           g == [f \in FPages |-> IF f \in F THEN "Free" ELSE m.fmem[f]]
<1>1. w = [m EXCEPT !.vma = a, !.dmem = b, !.fmem = g, !.flexible_usage = @ - k]
  BY DEF UnmapBytes, PhysOf, Backed, Behind
<1>2. a \in [VPages -> PageStates]
  BY DEF Managers, PageStates, FreePage, VTypes, Prots
<1>3. b \in [DPages -> DStates]
  BY DEF Managers, DStates
<1>4. g \in [FPages -> {"Free", "Flexible"}]
  BY DEF Managers
<1>5. k \in Int
  <2>1. {p \in R : m.vma[p].type = "Flexible"} \in SUBSET VPages
    OBVIOUS
  <2>2. IsFiniteSet({p \in R : m.vma[p].type = "Flexible"})
    BY <2>1, PagesAssumption, FS_Subset
  <2> QED BY <2>2, FS_CardinalityType
<1>6. /\ \A p \in VPages : a[p] = IF p \in R /\ m.vma[p].type # "Pooled" THEN FreePage ELSE m.vma[p]
      /\ \A d \in DPages : b[d] = IF d \in D THEN "Allocated" ELSE m.dmem[d]
      /\ \A f \in FPages : g[f] = IF f \in F THEN "Free" ELSE m.fmem[f]
  OBVIOUS
<1> HIDE DEF a, b, g, k, D, F
<1>7. /\ w.vma = a /\ w.dmem = b /\ w.fmem = g /\ w.flexible_usage = m.flexible_usage - k
      /\ w.pool_budget = m.pool_budget
  BY <1>1 DEF Managers
<1>8. w \in Managers
  <2>1. w = [vma |-> a, dmem |-> b, fmem |-> g, flexible_usage |-> m.flexible_usage - k,
             pool_budget |-> m.pool_budget]
    BY <1>1 DEF Managers
  <2>2. m.flexible_usage - k \in Int /\ m.pool_budget \in Int
    BY <1>5 DEF Managers
  <2> QED BY <2>1, <2>2, <1>2, <1>3, <1>4 DEF Managers
<1> QED BY <1>6, <1>7, <1>8 DEF Unmapped, k, D, F

\* An unmap leaves physical pages as they are, or allocated.
LEMMA UnmapKeepsAllocated ==
  ASSUME NEW m \in Managers, NEW R \in SUBSET VPages, NEW w, w = UnmapBytes(m, R)
  PROVE  \A d \in DPages : w.dmem[d] = "Allocated" \/ w.dmem[d] = m.dmem[d]
<1>1. Unmapped(m, w, R)
  BY UnmapFields
<1>2. ASSUME NEW d \in DPages PROVE w.dmem[d] = "Allocated" \/ w.dmem[d] = m.dmem[d]
  BY <1>1 DEF Unmapped
<1> QED BY <1>2

\* A change of the map that touches no flexible page, or only drops some.
LEMMA FlexibleDropped ==
  ASSUME NEW m, NEW w, NEW L, FlexibleAccount(m, L), NEW R \in SUBSET VPages,
         SameOutside(m.vma, w.vma, R, "Flexible"), \A p \in R : w.vma[p].type # "Flexible",
         \A f \in FPages : w.fmem[f] = IF f \in Behind(m.vma, R, "Flexible") THEN "Free"
                                       ELSE m.fmem[f],
         w.flexible_usage = m.flexible_usage - Cardinality({p \in R : m.vma[p].type = "Flexible"})
  PROVE  FlexibleAccount(w, L)
<1> DEFINE N == Behind(m.vma, R, "Flexible")
<1>1. /\ Exact(m.vma, "Flexible", Used(m) \ L) /\ L \subseteq Used(m)
      /\ m.flexible_usage = Cardinality(Used(m))
  BY DEF FlexibleAccount
<1>2. N \subseteq Used(m) \ L /\ Cardinality(N) = Cardinality({p \in R : m.vma[p].type = "Flexible"})
  BY <1>1, BehindCount
<1>3. Exact(w.vma, "Flexible", (Used(m) \ L) \ N)
  BY <1>1, ExactDrop
<1> HIDE DEF N
<1>4. Used(w) = Used(m) \ N
  BY DEF Used, N
<1>5. IsFiniteSet(Used(m))
  BY PagesAssumption, FS_Subset DEF Used
<1>6. Cardinality(Used(m) \ N) = Cardinality(Used(m)) - Cardinality(N)
  BY <1>2, <1>5, CountMinus
<1>7. (Used(m) \ L) \ N = Used(w) \ L /\ L \subseteq Used(w)
  BY <1>1, <1>2, <1>4
<1> QED BY <1>1, <1>2, <1>3, <1>4, <1>6, <1>7 DEF FlexibleAccount

\* A change that leaves the flexible pages alone.
LEMMA FlexibleKept ==
  ASSUME NEW m, NEW w, NEW L, FlexibleAccount(m, L), SameOutside(m.vma, w.vma, {}, "Flexible"),
         \A f \in FPages : w.fmem[f] = m.fmem[f], w.flexible_usage = m.flexible_usage
  PROVE  FlexibleAccount(w, L)
<1>1. Used(w) = Used(m)
  BY DEF Used
<1>2. Exact(w.vma, "Flexible", Used(m) \ L)
  BY ExactKeep DEF FlexibleAccount
<1> QED BY <1>1, <1>2 DEF FlexibleAccount

\* A change that leaves the pages of the pool alone.
LEMMA PoolKept ==
  ASSUME NEW m, NEW w, NEW over, PoolAccount(m, over), SameOutside(m.vma, w.vma, {}, "Pooled"),
         \A d \in DPages : \/ w.dmem[d] = m.dmem[d]
                           \/ {w.dmem[d], m.dmem[d]} \subseteq {"Free", "Allocated", "Mapped"},
         w.pool_budget = m.pool_budget
  PROVE  PoolAccount(w, over)
<1>1. Committed(w) = Committed(m) /\ PooledOf(w) = PooledOf(m)
  BY DEF Committed, PooledOf
<1>2. Exact(w.vma, "Pooled", Committed(m))
  BY ExactKeep DEF PoolAccount
<1> QED BY <1>1, <1>2 DEF PoolAccount

\* What is behind direct mappings is allocated.
LEMMA BehindDirect ==
  ASSUME NEW m, DirectHeld(m), NEW R \in SUBSET VPages, NEW d \in Behind(m.vma, R, "Direct")
  PROVE  d \in DPages /\ m.dmem[d] \in {"Allocated", "Mapped"}
BY DEF Behind, DirectHeld

\* An unmap of any range keeps the accounts.
LEMMA UnmapAccount ==
  ASSUME NEW m, NEW L, NEW over, NEW ok, AccountInv(m, L, over, ok), NEW R \in SUBSET VPages, NEW w, w = UnmapBytes(m, R)
  PROVE  AccountInv(w, L, over, ok)
<1>0. /\ m \in Managers /\ FlexibleAccount(m, L)
      /\ ok => PoolAccount(m, over) /\ DirectHeld(m)
  BY DEF AccountInv
<1>1. /\ w \in Managers
      /\ \A p \in VPages : w.vma[p] = IF p \in R /\ m.vma[p].type # "Pooled" THEN FreePage
                                      ELSE m.vma[p]
      /\ \A d \in DPages : w.dmem[d] = IF d \in Behind(m.vma, R, "Direct") THEN "Allocated"
                                       ELSE m.dmem[d]
      /\ \A f \in FPages : w.fmem[f] = IF f \in Behind(m.vma, R, "Flexible") THEN "Free"
                                       ELSE m.fmem[f]
      /\ w.flexible_usage = m.flexible_usage - Cardinality({p \in R : m.vma[p].type = "Flexible"})
      /\ w.pool_budget = m.pool_budget
  BY <1>0, UnmapFields DEF Unmapped
<1>2. FlexibleAccount(w, L)
  <2>1. SameOutside(m.vma, w.vma, R, "Flexible") /\ \A p \in R : w.vma[p].type # "Flexible"
    BY <1>1 DEF SameOutside, FreePage
  <2>2. FlexibleAccount(m, L)
    BY <1>0
  <2> QED BY <1>1, <2>1, <2>2, FlexibleDropped
<1>3. ASSUME ok PROVE PoolAccount(w, over)
  <2>1. SameOutside(m.vma, w.vma, {}, "Pooled")
    BY <1>1 DEF SameOutside, FreePage
  <2>2. \A d \in DPages : \/ w.dmem[d] = m.dmem[d]
                          \/ {w.dmem[d], m.dmem[d]} \subseteq {"Free", "Allocated", "Mapped"}
    <3> TAKE d \in DPages
    <3>1. d \in Behind(m.vma, R, "Direct") => m.dmem[d] \in {"Allocated", "Mapped"}
      BY <1>0, <1>3, BehindDirect
    <3> QED BY <1>1, <3>1
  <2> QED BY <1>0, <1>1, <1>3, <2>1, <2>2, PoolKept
<1>4. ASSUME ok PROVE DirectHeld(w)
  BY <1>0, <1>1, <1>4 DEF DirectHeld, FreePage
<1> QED BY <1>1, <1>2, <1>3, <1>4 DEF AccountInv

\* What a mapping puts at its place, once the place is clear.
Placed(m, w, c, f) ==
    /\ w \in Managers
    /\ f \in [Pages(c.at, c.n) -> Int]
    /\ c.type = "Flexible" => f = Carve(FreeOf(m.fmem), c.at, c.n)
    /\ c.type = "Direct" => \A p \in Pages(c.at, c.n) : f[p] = c.phys + (p - c.at)
    /\ \A p \in VPages :
         w.vma[p] = IF p \in Pages(c.at, c.n)
                    THEN [type |-> c.type, prot |-> AppendRead(c.prot), phys |-> f[p]]
                    ELSE m.vma[p]
    /\ \A d \in DPages :
         w.dmem[d] = IF c.type = "Direct" /\ d \in Pages(c.phys, c.n) THEN "Mapped" ELSE m.dmem[d]
    /\ \A g \in FPages :
         w.fmem[g] = IF c.type = "Flexible" /\ g \in {f[p] : p \in Pages(c.at, c.n)} THEN "Flexible"
                     ELSE m.fmem[g]
    /\ w.flexible_usage = m.flexible_usage + (IF c.type = "Flexible" THEN c.n ELSE 0)
    /\ w.pool_budget = m.pool_budget

LEMMA FreeFlexible ==
  ASSUME NEW m \in Managers
  PROVE  /\ FreeOf(m.fmem) = FPages \ Used(m) /\ FreeOf(m.fmem) \in SUBSET Nat
         /\ IsFiniteSet(FreeOf(m.fmem))
<1>1. FreeOf(m.fmem) = FPages \ Used(m)
  BY DEF FreeOf, Used, Managers
<1>2. FreeOf(m.fmem) \in SUBSET FPages
  BY <1>1
<1> QED BY <1>1, <1>2, PagesAssumption, FS_Subset

LEMMA MapPlaced ==
  ASSUME NEW m, NEW c \in MapCalls, NEW m1 \in Managers, m1 = Cleared(m, c),
         Pages(c.at, c.n) \subseteq VPages,
         c.type = "Flexible" => c.n <= Cardinality(FreeOf(m1.fmem)),
         NEW w, w = MapMemory(m, c)
  PROVE  \E f : Placed(m1, w, c, f)
<1> DEFINE R == Pages(c.at, c.n)
           f == CASE c.type = "Flexible" -> Carve(FreeOf(m1.fmem), c.at, c.n)
                  [] c.type = "Direct" -> [p \in R |-> c.phys + (p - c.at)]
                  [] OTHER -> [p \in R |-> -1]
           a == [p \in VPages |->
                   IF p \in R THEN [type |-> c.type, prot |-> AppendRead(c.prot), phys |-> f[p]]
                   ELSE m1.vma[p]]
           b == [d \in DPages |->
                   IF c.type = "Direct" /\ d \in Pages(c.phys, c.n) THEN "Mapped" ELSE m1.dmem[d]]
           g == [h \in FPages |->
                   IF c.type = "Flexible" /\ h \in {f[p] : p \in R} THEN "Flexible" ELSE m1.fmem[h]]
           k == m1.flexible_usage + (IF c.type = "Flexible" THEN c.n ELSE 0)
<1>0. /\ c.at \in Nat /\ c.n \in Nat /\ c.phys \in Int /\ c.prot \in Prots
      /\ c.type \in VTypes \ {"Free", "Pooled"}
  BY DEF MapCalls
<1>1. w = [m1 EXCEPT !.vma = a, !.dmem = b, !.fmem = g, !.flexible_usage = k]
  BY DEF MapMemory
<1>2. f \in [R -> Int]
  <2>1. CASE c.type = "Flexible"
    <3>1. f = Carve(FreeOf(m1.fmem), c.at, c.n)
      BY <2>1
    <3>2. \A p \in R : Carve(FreeOf(m1.fmem), c.at, c.n)[p] \in Nat
      BY <1>0, <2>1, FreeFlexible, CarveFacts
    <3>3. Carve(FreeOf(m1.fmem), c.at, c.n) \in [R -> Int]
      <4>1. Carve(FreeOf(m1.fmem), c.at, c.n) = [p \in R |-> Carve(FreeOf(m1.fmem), c.at, c.n)[p]]
        BY DEF Carve
      <4> QED BY <3>2, <4>1
    <3> QED BY <3>1, <3>3
  <2>2. CASE c.type = "Direct"
    <3>1. f = [p \in R |-> c.phys + (p - c.at)]
      BY <2>2
    <3>2. \A p \in R : p \in Int
      BY <1>0 DEF Pages
    <3> QED BY <3>1, <3>2, <1>0
  <2>3. CASE c.type \notin {"Flexible", "Direct"}
    <3>1. f = [p \in R |-> -1]
      BY <2>3
    <3> QED BY <3>1
  <2> QED BY <2>1, <2>2, <2>3
<1>3. c.type = "Flexible" => f = Carve(FreeOf(m1.fmem), c.at, c.n)
  OBVIOUS
<1>4. c.type = "Direct" => \A p \in R : f[p] = c.phys + (p - c.at)
  OBVIOUS
<1> HIDE DEF f
<1>5. a \in [VPages -> PageStates]
  <2>1. AppendRead(c.prot) \in Prots
    BY <1>0 DEF AppendRead, Prots
  <2> QED BY <1>0, <1>2, <2>1 DEF Managers, PageStates, VTypes
<1>6. b \in [DPages -> DStates] /\ g \in [FPages -> {"Free", "Flexible"}]
  BY DEF Managers, DStates
<1>7. k \in Int /\ m1.pool_budget \in Int
  BY <1>0 DEF Managers
<1>8. /\ \A p \in VPages :
           a[p] = IF p \in R THEN [type |-> c.type, prot |-> AppendRead(c.prot), phys |-> f[p]]
                  ELSE m1.vma[p]
      /\ \A d \in DPages :
           b[d] = IF c.type = "Direct" /\ d \in Pages(c.phys, c.n) THEN "Mapped" ELSE m1.dmem[d]
      /\ \A h \in FPages :
           g[h] = IF c.type = "Flexible" /\ h \in {f[p] : p \in R} THEN "Flexible" ELSE m1.fmem[h]
  OBVIOUS
<1> HIDE DEF a, b, g, k
<1>9. w = [vma |-> a, dmem |-> b, fmem |-> g, flexible_usage |-> k, pool_budget |-> m1.pool_budget]
  BY <1>1 DEF Managers
<1>10. /\ w \in Managers
       /\ w.vma = a /\ w.dmem = b /\ w.fmem = g /\ w.flexible_usage = k
       /\ w.pool_budget = m1.pool_budget
  BY <1>5, <1>6, <1>7, <1>9 DEF Managers
<1>11. Placed(m1, w, c, f)
  BY <1>2, <1>3, <1>4, <1>8, <1>10 DEF Placed, k
<1> QED BY <1>11

\* The physical range of a direct mapping is allocated.
DirectFits(m, c) ==
    \A d \in Pages(c.phys, c.n) : d \in DPages /\ m.dmem[d] \in {"Allocated", "Mapped"}

\* A mapping on a free place keeps the accounts.
LEMMA PlacedAccount ==
  ASSUME NEW m, NEW w, NEW c \in MapCalls, NEW f, NEW L, NEW over, NEW ok, AccountInv(m, L, over, ok), Placed(m, w, c, f),
         Pages(c.at, c.n) \subseteq VPages,
         \A p \in Pages(c.at, c.n) : m.vma[p].type = "Free",
         c.type = "Flexible" => c.n <= Cardinality(FreeOf(m.fmem)),
         c.type = "Direct" => DirectFits(m, c)
  PROVE  AccountInv(w, L, over, ok)
<1> DEFINE R == Pages(c.at, c.n)
<1>0. /\ m \in Managers /\ FlexibleAccount(m, L)
      /\ ok => PoolAccount(m, over) /\ DirectHeld(m)
      /\ c.at \in Nat /\ c.n \in Nat /\ c.phys \in Int
      /\ c.type \in VTypes \ {"Free", "Pooled"} /\ R \in SUBSET VPages
  BY DEF AccountInv, MapCalls
<1>1. /\ w \in Managers
      /\ w.pool_budget = m.pool_budget
      /\ \A p \in R : w.vma[p].type = c.type /\ w.vma[p].phys = f[p] /\ m.vma[p].type = "Free"
      /\ \A p \in VPages \ R : w.vma[p] = m.vma[p]
  <2>1. /\ w \in Managers /\ w.pool_budget = m.pool_budget
        /\ \A p \in VPages :
             w.vma[p] = IF p \in R THEN [type |-> c.type, prot |-> AppendRead(c.prot), phys |-> f[p]]
                        ELSE m.vma[p]
    BY DEF Placed
  <2>2. ASSUME NEW p \in R PROVE w.vma[p].type = c.type /\ w.vma[p].phys = f[p]
    <3>1. w.vma[p] = [type |-> c.type, prot |-> AppendRead(c.prot), phys |-> f[p]]
      BY <1>0, <2>1
    <3> QED BY <3>1
  <2> QED BY <2>1, <2>2
<1>2. /\ \A d \in DPages : w.dmem[d] = IF c.type = "Direct" /\ d \in Pages(c.phys, c.n) THEN "Mapped"
                                       ELSE m.dmem[d]
      /\ \A g \in FPages : w.fmem[g] = IF c.type = "Flexible" /\ g \in {f[p] : p \in R} THEN "Flexible"
                                       ELSE m.fmem[g]
  BY DEF Placed
<1>3. FlexibleAccount(w, L)
  <2>1. CASE c.type # "Flexible"
    <3>1. SameOutside(m.vma, w.vma, {}, "Flexible")
      BY <1>1, <2>1 DEF SameOutside
    <3>2. w.flexible_usage = m.flexible_usage + 0
      BY <2>1 DEF Placed
    <3>3. w.flexible_usage = m.flexible_usage
      BY <3>2, <1>0 DEF Managers
    <3> QED BY <1>0, <1>2, <2>1, <3>1, <3>3, FlexibleKept
  <2>2. CASE c.type = "Flexible"
    <3> DEFINE N == {f[p] : p \in R}
    <3>1. FreeOf(m.fmem) = FPages \ Used(m) /\ FreeOf(m.fmem) \in SUBSET Nat /\ IsFiniteSet(FreeOf(m.fmem))
      BY <1>0, FreeFlexible
    <3>2. f = Carve(FreeOf(m.fmem), c.at, c.n)
      BY <2>2 DEF Placed
    <3>3. /\ \A p \in R : f[p] \in FPages \ Used(m)
          /\ \A p, q \in R : f[p] = f[q] => p = q
      <4>1. c.at \in Nat /\ c.n \in Nat /\ c.n <= Cardinality(FreeOf(m.fmem))
        BY <1>0, <2>2
      <4> QED BY <3>1, <3>2, <4>1, CarveFacts
    <3>4. SameOutside(m.vma, w.vma, R, "Flexible")
      BY <1>1 DEF SameOutside
    <3>5. /\ Exact(m.vma, "Flexible", Used(m) \ L) /\ L \subseteq Used(m)
          /\ m.flexible_usage = Cardinality(Used(m))
      BY <1>0 DEF FlexibleAccount
    <3>6. /\ \A p \in R : /\ m.vma[p].type # "Flexible" /\ w.vma[p].type = "Flexible"
                          /\ w.vma[p].phys \in N /\ w.vma[p].phys \notin Used(m)
          /\ \A p, q \in R : w.vma[p].phys = w.vma[q].phys => p = q
          /\ \A d \in N : \E p \in R : w.vma[p].phys = d
      BY <1>1, <2>2, <3>3
    <3>7. N \subseteq FPages \ Used(m)
      BY <3>3
    <3>8. Used(w) = Used(m) \cup N
      BY <1>2, <2>2, <3>7 DEF Used
    <3>9. IsFiniteSet(N) /\ Cardinality(N) = c.n
      <4>1. IsFiniteSet(R) /\ Cardinality(R) = c.n
        BY <1>0, PagesCount
      <4> DEFINE h == [p \in R |-> f[p]]
      <4>2. h \in [R -> N] /\ (\A d \in N : \E p \in R : h[p] = d)
            /\ \A p, q \in R : h[p] = h[q] => p = q
        BY <3>3
      <4> HIDE DEF h, N, R
      <4>3. h \in Bijection(R, N)
        BY <4>2 DEF Bijection, Injection, Surjection, IsInjective
      <4>4. ExistsBijection(R, N)
        BY <4>3 DEF ExistsBijection
      <4> QED BY <4>1, <4>4, FS_Bijection
    <3> HIDE DEF N
    <3>10. Exact(w.vma, "Flexible", (Used(m) \ L) \cup N)
      <4>1. NewPages(m.vma, w.vma, R, "Flexible", Used(m) \ L, N)
        BY <3>6 DEF NewPages
      <4> HIDE DEF R
      <4> QED BY <1>0, <3>4, <3>5, <4>1, ExactAdd
    <3>11. IsFiniteSet(Used(m))
      BY PagesAssumption, FS_Subset DEF Used
    <3>12. Cardinality(Used(m) \cup N) = Cardinality(Used(m)) + Cardinality(N)
      BY <3>7, <3>9, <3>11, CountUnion
    <3>13. w.flexible_usage = m.flexible_usage + c.n
      BY <2>2 DEF Placed
    <3>14. (Used(m) \ L) \cup N = Used(w) \ L /\ L \subseteq Used(w)
      BY <3>5, <3>7, <3>8
    <3> QED BY <3>5, <3>8, <3>9, <3>10, <3>12, <3>13, <3>14 DEF FlexibleAccount
  <2> QED BY <2>1, <2>2
<1>4. ASSUME ok PROVE PoolAccount(w, over)
  <2>1. SameOutside(m.vma, w.vma, {}, "Pooled")
    BY <1>0, <1>1 DEF SameOutside
  <2>2. \A d \in DPages : \/ w.dmem[d] = m.dmem[d]
                          \/ {w.dmem[d], m.dmem[d]} \subseteq {"Free", "Allocated", "Mapped"}
    BY <1>2 DEF DirectFits
  <2> QED BY <1>0, <1>1, <1>4, <2>1, <2>2, PoolKept
<1>5. ASSUME ok PROVE DirectHeld(w)
  <2>1. ASSUME NEW p \in VPages, w.vma[p].type = "Direct"
        PROVE  w.vma[p].phys \in DPages /\ w.dmem[w.vma[p].phys] \in {"Allocated", "Mapped"}
    <3>1. CASE p \in R
      <4>1. c.type = "Direct" /\ w.vma[p].phys = c.phys + (p - c.at)
        BY <1>1, <2>1, <3>1 DEF Placed
      <4>2. c.phys + (p - c.at) \in Pages(c.phys, c.n)
        BY <1>0, <3>1 DEF Pages
      <4> QED BY <1>2, <4>1, <4>2 DEF DirectFits
    <3>2. CASE p \notin R
      <4>1. w.vma[p] = m.vma[p]
        BY <1>1, <3>2
      <4>2. m.vma[p].phys \in DPages /\ m.dmem[m.vma[p].phys] \in {"Allocated", "Mapped"}
        BY <1>0, <1>5, <2>1, <4>1 DEF DirectHeld
      <4> QED BY <1>2, <4>1, <4>2
    <3> QED BY <3>1, <3>2
  <2> QED BY <2>1 DEF DirectHeld
<1> QED BY <1>1, <1>3, <1>4, <1>5 DEF AccountInv

\* MapMemory, with the unmap of what a fixed mapping finds in its place.
LEMMA MapAccount ==
  ASSUME NEW m, NEW L, NEW over, NEW ok, AccountInv(m, L, over, ok), NEW c \in MapCalls, Pages(c.at, c.n) \subseteq VPages,
         ~MapFails(m, c), c.type = "Direct" => DirectFits(m, c), NEW w, w = MapMemory(m, c)
  PROVE  AccountInv(w, L, over, ok)
<1>1. PICK m1 : m1 = Cleared(m, c)
  OBVIOUS
<1>2. AccountInv(m1, L, over, ok) /\ (c.type = "Direct" => DirectFits(m1, c))
  <2>1. CASE c.fixed
    <3>1. m1 = UnmapBytes(m, Pages(c.at, c.n))
      BY <1>1, <2>1 DEF Cleared
    <3>2. AccountInv(m1, L, over, ok)
      BY <3>1, UnmapAccount
    <3>3. \A d \in DPages : m1.dmem[d] = "Allocated" \/ m1.dmem[d] = m.dmem[d]
      <4>1. m \in Managers
        BY DEF AccountInv
      <4> QED BY <3>1, <4>1, UnmapKeepsAllocated
    <3> QED BY <3>2, <3>3 DEF DirectFits
  <2>2. CASE ~c.fixed
    BY <1>1, <2>2 DEF Cleared
  <2> QED BY <2>1, <2>2
<1>3. /\ \A p \in Pages(c.at, c.n) : m1.vma[p].type = "Free"
      /\ c.type = "Flexible" => c.n <= Cardinality(FreeOf(m1.fmem))
  <2>1. m1 \in Managers /\ c.n \in Nat
    BY <1>2 DEF AccountInv, MapCalls
  <2>2. Cardinality(FreeOf(m1.fmem)) \in Nat
    BY <2>1, FreeFlexible, FS_CardinalityType
  <2> QED BY <1>1, <2>1, <2>2 DEF MapFails
<1>4. PICK f : Placed(m1, w, c, f)
  BY <1>1, <1>2, <1>3, MapPlaced DEF AccountInv
<1> QED BY <1>2, <1>3, <1>4, PlacedAccount

\* A protection changes neither the type nor the backing of a page.
LEMMA ProtectAccount ==
  ASSUME NEW m, NEW L, NEW over, NEW ok, AccountInv(m, L, over, ok), NEW R, NEW prot \in Prots, NEW w, w = ProtectBytes(m, R, prot)
  PROVE  AccountInv(w, L, over, ok)
<1> DEFINE a == [p \in VPages |->
                   IF p \in R /\ m.vma[p].type \notin {"Free", "PoolReserved"}
                   THEN [m.vma[p] EXCEPT !.prot = AppendRead(prot)] ELSE m.vma[p]]
<1>0. /\ m \in Managers /\ FlexibleAccount(m, L)
      /\ ok => PoolAccount(m, over) /\ DirectHeld(m)
  BY DEF AccountInv
<1>1. w = [m EXCEPT !.vma = a]
  BY DEF ProtectBytes
<1>2. ASSUME NEW p \in VPages
      PROVE  a[p] \in PageStates /\ a[p].type = m.vma[p].type /\ a[p].phys = m.vma[p].phys
  <2>1. m.vma[p] \in PageStates
    BY <1>0 DEF Managers
  <2>2. AppendRead(prot) \in Prots
    BY DEF AppendRead, Prots
  <2>3. a[p] = m.vma[p] \/ a[p] = [m.vma[p] EXCEPT !.prot = AppendRead(prot)]
    OBVIOUS
  <2> HIDE DEF a
  <2> QED BY <2>1, <2>2, <2>3 DEF PageStates
<1>3. a \in [VPages -> PageStates]
  BY <1>2
<1> HIDE DEF a
<1>4. /\ w.vma = a /\ w.dmem = m.dmem /\ w.fmem = m.fmem
      /\ w.flexible_usage = m.flexible_usage /\ w.pool_budget = m.pool_budget
  BY <1>0, <1>1 DEF Managers
<1>5. w \in Managers
  BY <1>0, <1>1, <1>3 DEF Managers
<1>6. SameOutside(m.vma, w.vma, {}, "Flexible") /\ SameOutside(m.vma, w.vma, {}, "Pooled")
  BY <1>2, <1>4 DEF SameOutside
<1>7. FlexibleAccount(w, L)
  BY <1>0, <1>4, <1>6, FlexibleKept
<1>8. ASSUME ok PROVE PoolAccount(w, over)
  BY <1>0, <1>8, <1>4, <1>6, PoolKept
<1>9. ASSUME ok PROVE DirectHeld(w)
  BY <1>0, <1>9, <1>2, <1>4 DEF DirectHeld
<1> QED BY <1>5, <1>7, <1>8, <1>9 DEF AccountInv

\* A release takes down every direct mapping of its pages.  What it takes of
\* the pool the budget keeps.
LEMMA FreeAccount ==
  ASSUME NEW m, NEW L, NEW over, NEW ok, AccountInv(m, L, over, ok),
         NEW D \in SUBSET DPages, NEW r \in SUBSET VPages, MappingsOf(m, D) \subseteq r,
         NEW P, P = {d \in D : m.dmem[d] = "Pooled"},
         NEW C, C = {d \in D : m.dmem[d] = "Committed"}, NEW w, w = Free(m, D, r)
  PROVE  AccountInv(w, L, over + Cardinality(P), ok /\ C = {})
<1>1. PICK m1 : m1 = UnmapBytes(m, r)
  OBVIOUS
<1>2. /\ AccountInv(m1, L, over, ok) /\ m \in Managers /\ m1 \in Managers
      /\ FlexibleAccount(m1, L) /\ (ok => PoolAccount(m1, over) /\ DirectHeld(m1) /\ DirectHeld(m))
  BY <1>1, UnmapAccount DEF AccountInv
<1>3. Unmapped(m, m1, r)
  BY <1>1, <1>2, UnmapFields
<1> DEFINE b == [d \in DPages |-> IF d \in D THEN "Free" ELSE m1.dmem[d]]
<1>4. w = [m1 EXCEPT !.dmem = b]
  BY <1>1 DEF Free
<1>5. b \in [DPages -> DStates]
  BY <1>2 DEF Managers, DStates
<1>6. \A d \in DPages : b[d] = IF d \in D THEN "Free" ELSE m1.dmem[d]
  OBVIOUS
<1> HIDE DEF b
<1>7. /\ w \in Managers /\ w.vma = m1.vma /\ w.dmem = b /\ w.fmem = m1.fmem
      /\ w.flexible_usage = m1.flexible_usage /\ w.pool_budget = m1.pool_budget
  BY <1>2, <1>4, <1>5 DEF Managers
<1>8. SameOutside(m1.vma, w.vma, {}, "Flexible") /\ SameOutside(m1.vma, w.vma, {}, "Pooled")
  BY <1>7 DEF SameOutside
<1>9. FlexibleAccount(w, L)
  BY <1>2, <1>7, <1>8, FlexibleKept
<1>10. ASSUME ok, C = {} PROVE PoolAccount(w, over + Cardinality(P))
  <2>1. \A d \in DPages : \/ m1.dmem[d] = m.dmem[d]
                          \/ {m1.dmem[d], m.dmem[d]} \subseteq {"Allocated", "Mapped"}
    <3> TAKE d \in DPages
    <3>1. d \in Behind(m.vma, r, "Direct") => m.dmem[d] \in {"Allocated", "Mapped"}
      BY <1>2, <1>10, BehindDirect
    <3> QED BY <1>3, <3>1 DEF Unmapped
  <2>2. Committed(w) = Committed(m1)
    BY <1>6, <1>7, <1>10, <2>1 DEF Committed
  <2>3. PooledOf(w) = PooledOf(m1) \ P /\ P \subseteq PooledOf(m1)
    BY <1>6, <1>7, <2>1 DEF PooledOf
  <2>4. IsFiniteSet(PooledOf(m1)) /\ IsFiniteSet(P)
    <3>1. PooledOf(m1) \in SUBSET DPages /\ P \in SUBSET DPages
      BY DEF PooledOf
    <3> QED BY <3>1, PagesAssumption, FS_Subset
  <2>5. Cardinality(PooledOf(w)) = Cardinality(PooledOf(m1)) - Cardinality(P)
    BY <2>3, <2>4, CountMinus
  <2>6. Cardinality(PooledOf(m1)) \in Nat /\ Cardinality(P) \in Nat
    BY <2>4, FS_CardinalityType
  <2>7. /\ Exact(m1.vma, "Pooled", Committed(m1)) /\ over \in Int
        /\ m1.pool_budget = Cardinality(PooledOf(m1)) + over
    BY <1>2, <1>10 DEF PoolAccount
  <2>8. Exact(w.vma, "Pooled", Committed(w))
    BY <1>8, <2>2, <2>7, ExactKeep
  <2>9. /\ w.pool_budget = Cardinality(PooledOf(w)) + (over + Cardinality(P))
        /\ over + Cardinality(P) \in Int
    BY <1>7, <2>5, <2>6, <2>7
  <2> QED BY <2>8, <2>9 DEF PoolAccount
<1>11. ASSUME ok PROVE DirectHeld(w)
  <2>1. ASSUME NEW p \in VPages, m1.vma[p].type = "Direct"
        PROVE  m1.vma[p].phys \in DPages /\ b[m1.vma[p].phys] \in {"Allocated", "Mapped"}
    <3>1. m1.vma[p] = m.vma[p] /\ p \notin r
      BY <1>3, <2>1 DEF Unmapped, FreePage
    <3>2. m1.vma[p].phys \notin D
      BY <2>1, <3>1 DEF MappingsOf
    <3>3. m1.vma[p].phys \in DPages /\ m1.dmem[m1.vma[p].phys] \in {"Allocated", "Mapped"}
      BY <1>2, <1>11, <2>1 DEF DirectHeld
    <3> QED BY <1>6, <3>2, <3>3
  <2> QED BY <1>7, <2>1 DEF DirectHeld
<1> QED BY <1>7, <1>9, <1>10, <1>11 DEF AccountInv

\* Allocate takes free pages.
LEMMA AllocateAccount ==
  ASSUME NEW m, NEW L, NEW over, NEW ok, AccountInv(m, L, over, ok),
         NEW D \in SUBSET DPages, \A d \in D : m.dmem[d] = "Free",
         NEW w, w = [m EXCEPT !.dmem = [e \in DPages |-> IF e \in D THEN "Allocated" ELSE @[e]]]
  PROVE  AccountInv(w, L, over, ok)
<1> DEFINE b == [e \in DPages |-> IF e \in D THEN "Allocated" ELSE m.dmem[e]]
<1>0. /\ m \in Managers /\ FlexibleAccount(m, L)
      /\ ok => PoolAccount(m, over) /\ DirectHeld(m)
  BY DEF AccountInv
<1>1. w = [m EXCEPT !.dmem = b]
  OBVIOUS
<1>2. b \in [DPages -> DStates]
  BY <1>0 DEF Managers, DStates
<1>3. \A d \in DPages : b[d] = IF d \in D THEN "Allocated" ELSE m.dmem[d]
  OBVIOUS
<1> HIDE DEF b
<1>4. /\ w \in Managers /\ w.vma = m.vma /\ w.dmem = b /\ w.fmem = m.fmem
      /\ w.flexible_usage = m.flexible_usage /\ w.pool_budget = m.pool_budget
  BY <1>0, <1>1, <1>2 DEF Managers
<1>5. SameOutside(m.vma, w.vma, {}, "Flexible") /\ SameOutside(m.vma, w.vma, {}, "Pooled")
  BY <1>4 DEF SameOutside
<1>6. FlexibleAccount(w, L)
  <2>1. FlexibleAccount(m, L) /\ \A f \in FPages : w.fmem[f] = m.fmem[f]
    BY <1>0, <1>4
  <2> QED BY <1>4, <1>5, <2>1, FlexibleKept
<1>7. ASSUME ok PROVE PoolAccount(w, over)
  <2>2. PoolAccount(m, over) /\ w.pool_budget = m.pool_budget
    BY <1>0, <1>4, <1>7
  <2>1. Committed(w) = Committed(m) /\ PooledOf(w) = PooledOf(m)
    BY <1>3, <1>4 DEF Committed, PooledOf
  <2>3. Exact(w.vma, "Pooled", Committed(m))
    BY <1>5, <2>2, ExactKeep DEF PoolAccount
  <2> QED BY <2>1, <2>2, <2>3 DEF PoolAccount
<1>8. ASSUME ok PROVE DirectHeld(w)
  BY <1>0, <1>3, <1>4, <1>8 DEF DirectHeld
<1> QED BY <1>4, <1>6, <1>7, <1>8 DEF AccountInv

\* PoolExpand turns free pages into pooled ones and counts them.
LEMMA ExpandAccount ==
  ASSUME NEW m, NEW L, NEW over, NEW ok, AccountInv(m, L, over, ok), NEW D \in SUBSET DPages, \A d \in D : m.dmem[d] = "Free",
         NEW n \in Nat, Cardinality(D) = n,
         NEW w, w = [m EXCEPT !.dmem = [e \in DPages |-> IF e \in D THEN "Pooled" ELSE @[e]],
                              !.pool_budget = @ + n]
  PROVE  AccountInv(w, L, over, ok)
<1> DEFINE b == [e \in DPages |-> IF e \in D THEN "Pooled" ELSE m.dmem[e]]
<1>0. /\ m \in Managers /\ FlexibleAccount(m, L)
      /\ ok => PoolAccount(m, over) /\ DirectHeld(m)
  BY DEF AccountInv
<1>1. w = [m EXCEPT !.dmem = b, !.pool_budget = @ + n]
  OBVIOUS
<1>2. b \in [DPages -> DStates]
  BY <1>0 DEF Managers, DStates
<1>3. \A d \in DPages : b[d] = IF d \in D THEN "Pooled" ELSE m.dmem[d]
  OBVIOUS
<1> HIDE DEF b
<1>4. /\ w.vma = m.vma /\ w.dmem = b /\ w.fmem = m.fmem
      /\ w.flexible_usage = m.flexible_usage /\ w.pool_budget = m.pool_budget + n
  BY <1>0, <1>1 DEF Managers
<1>5. w \in Managers
  <2>1. PICK k \in Int : k = m.pool_budget + n
    BY <1>0 DEF Managers
  <2>2. w = [m EXCEPT !.dmem = b, !.pool_budget = k]
    BY <1>1, <2>1
  <2> QED BY <1>0, <1>2, <2>2 DEF Managers
<1>6. SameOutside(m.vma, w.vma, {}, "Flexible") /\ SameOutside(m.vma, w.vma, {}, "Pooled")
  BY <1>4 DEF SameOutside
<1>7. FlexibleAccount(w, L)
  BY <1>0, <1>4, <1>6, FlexibleKept
<1>8. ASSUME ok PROVE PoolAccount(w, over)
  <2>1. Committed(w) = Committed(m)
    BY <1>3, <1>4 DEF Committed
  <2>2. PooledOf(w) = PooledOf(m) \cup D /\ PooledOf(m) \cap D = {}
    BY <1>3, <1>4 DEF PooledOf
  <2>3. IsFiniteSet(PooledOf(m)) /\ IsFiniteSet(D)
    BY PagesAssumption, FS_Subset DEF PooledOf
  <2>4. Cardinality(PooledOf(w)) = Cardinality(PooledOf(m)) + n
    BY <2>2, <2>3, CountUnion
  <2>5. Exact(w.vma, "Pooled", Committed(m))
    BY <1>0, <1>6, <1>8, ExactKeep DEF PoolAccount
  <2>6. Cardinality(PooledOf(m)) \in Nat
    BY <2>3, FS_CardinalityType
  <2> QED BY <1>0, <1>4, <1>8, <2>1, <2>4, <2>5, <2>6 DEF PoolAccount
<1>9. ASSUME ok PROVE DirectHeld(w)
  BY <1>0, <1>9, <1>3, <1>4 DEF DirectHeld
<1> QED BY <1>5, <1>7, <1>8, <1>9 DEF AccountInv

\* A commit takes as many pooled pages as the range has, each for one page.
LEMMA CommitAccount ==
  ASSUME NEW m, NEW L, NEW over, NEW ok, AccountInv(m, L, over, ok), NEW c, c.at \in Nat, c.n \in Nat, c.prot \in Prots,
         Pages(c.at, c.n) \subseteq VPages, CanCommit(m, c), ~CommitFails(m, c),
         NEW w, w = PoolCommit(m, c)
  PROVE  AccountInv(w, L, over, ok)
<1> DEFINE R == Pages(c.at, c.n)
           f == Carve(PooledOf(m), c.at, c.n)
           N == {f[p] : p \in R}
           a == [p \in VPages |->
                   IF p \in R THEN [type |-> "Pooled", prot |-> AppendRead(c.prot), phys |-> f[p]]
                   ELSE m.vma[p]]
           b == [d \in DPages |-> IF d \in N THEN "Committed" ELSE m.dmem[d]]
<1>0. /\ m \in Managers /\ FlexibleAccount(m, L)
      /\ ok => PoolAccount(m, over) /\ DirectHeld(m)
      /\ R \in SUBSET VPages
  BY DEF AccountInv
<1>1. w = [m EXCEPT !.vma = a, !.dmem = b, !.pool_budget = @ - c.n]
  BY DEF PoolCommit
<1>2. PooledOf(m) \in SUBSET DPages /\ PooledOf(m) \in SUBSET Nat /\ IsFiniteSet(PooledOf(m))
  <2>1. PooledOf(m) \in SUBSET DPages
    BY DEF PooledOf
  <2> QED BY <2>1, PagesAssumption, FS_Subset
<1>3. c.n <= Cardinality(PooledOf(m))
  <2>1. Cardinality(PooledOf(m)) \in Nat
    BY <1>2, FS_CardinalityType
  <2> QED BY <2>1 DEF CommitFails
<1>4. (\A p \in R : f[p] \in PooledOf(m)) /\ (\A p, q \in R : f[p] = f[q] => p = q)
  BY <1>2, <1>3, CarveFacts
<1> HIDE DEF f
<1>5. a \in [VPages -> PageStates] /\ b \in [DPages -> DStates]
  <2>1. AppendRead(c.prot) \in Prots
    BY DEF AppendRead, Prots
  <2>2. \A p \in R : f[p] \in Int
    BY <1>2, <1>4
  <2> QED BY <1>0, <2>1, <2>2 DEF Managers, PageStates, VTypes, DStates
<1>6. /\ \A p \in R : a[p].type = "Pooled" /\ a[p].phys = f[p]
      /\ \A p \in VPages \ R : a[p] = m.vma[p]
      /\ \A d \in DPages : b[d] = IF d \in N THEN "Committed" ELSE m.dmem[d]
      /\ \A p \in R : m.vma[p].type = "PoolReserved"
  <2>1. \A p \in R : a[p] = [type |-> "Pooled", prot |-> AppendRead(c.prot), phys |-> f[p]]
    BY <1>0
  <2>2. \A p \in R : m.vma[p].type = "PoolReserved"
    BY DEF CanCommit
  <2> QED BY <2>1, <2>2
<1>7. N \subseteq PooledOf(m) /\ \A d \in N : \E p \in R : f[p] = d
  BY <1>4
<1>8. IsFiniteSet(N) /\ Cardinality(N) = c.n
  <2>1. IsFiniteSet(R) /\ Cardinality(R) = c.n
    BY PagesCount
  <2> DEFINE h == [p \in R |-> f[p]]
  <2>2. h \in [R -> N] /\ (\A d \in N : \E p \in R : h[p] = d)
        /\ \A p, q \in R : h[p] = h[q] => p = q
    BY <1>4
  <2> HIDE DEF h, N, R
  <2>3. h \in Bijection(R, N)
    BY <2>2 DEF Bijection, Injection, Surjection, IsInjective
  <2>4. ExistsBijection(R, N)
    BY <2>3 DEF ExistsBijection
  <2> QED BY <2>1, <2>4, FS_Bijection
<1>9. \A p \in R : f[p] \in N
  OBVIOUS
<1> HIDE DEF a, b, N, R
<1>10. /\ w.vma = a /\ w.dmem = b /\ w.fmem = m.fmem
       /\ w.flexible_usage = m.flexible_usage /\ w.pool_budget = m.pool_budget - c.n
  BY <1>0, <1>1 DEF Managers
<1>11. w \in Managers
  <2>1. w = [vma |-> a, dmem |-> b, fmem |-> m.fmem, flexible_usage |-> m.flexible_usage,
             pool_budget |-> m.pool_budget - c.n]
    BY <1>0, <1>1 DEF Managers
  <2> QED BY <1>0, <1>5, <2>1 DEF Managers
<1>12. FlexibleAccount(w, L)
  <2>1. SameOutside(m.vma, w.vma, {}, "Flexible")
    BY <1>6, <1>10 DEF SameOutside
  <2> QED BY <1>0, <1>10, <2>1, FlexibleKept
<1>13. ASSUME ok PROVE PoolAccount(w, over)
  <2>1. SameOutside(m.vma, w.vma, R, "Pooled")
    BY <1>6, <1>10 DEF SameOutside
  <2>2. /\ Exact(m.vma, "Pooled", Committed(m)) /\ over \in Int
        /\ m.pool_budget = Cardinality(PooledOf(m)) + over
    BY <1>0, <1>13 DEF PoolAccount
  <2>3. NewPages(m.vma, w.vma, R, "Pooled", Committed(m), N)
    BY <1>4, <1>6, <1>7, <1>9, <1>10 DEF NewPages, Committed, PooledOf
  <2>4. Exact(w.vma, "Pooled", Committed(m) \cup N)
    BY <1>0, <2>1, <2>2, <2>3, ExactAdd
  <2>5. Committed(w) = Committed(m) \cup N /\ PooledOf(w) = PooledOf(m) \ N
    BY <1>6, <1>7, <1>10 DEF Committed, PooledOf
  <2>6. Cardinality(PooledOf(m) \ N) = Cardinality(PooledOf(m)) - Cardinality(N)
    BY <1>2, <1>7, CountMinus
  <2>7. Cardinality(PooledOf(m)) \in Nat
    BY <1>2, FS_CardinalityType
  <2> QED BY <1>8, <1>10, <2>2, <2>4, <2>5, <2>6, <2>7 DEF PoolAccount
<1>14. ASSUME ok PROVE DirectHeld(w)
  <2>1. ASSUME NEW p \in VPages, w.vma[p].type = "Direct"
        PROVE  w.vma[p].phys \in DPages /\ w.dmem[w.vma[p].phys] \in {"Allocated", "Mapped"}
    <3>1. w.vma[p] = m.vma[p]
      BY <1>6, <1>10, <2>1
    <3>2. m.vma[p].phys \in DPages /\ m.dmem[m.vma[p].phys] \in {"Allocated", "Mapped"}
      BY <1>0, <1>14, <2>1, <3>1 DEF DirectHeld
    <3>3. m.vma[p].phys \notin N
      BY <1>7, <3>2 DEF PooledOf
    <3> QED BY <1>6, <1>10, <3>1, <3>2, <3>3
  <2> QED BY <2>1 DEF DirectHeld
<1> QED BY <1>11, <1>12, <1>13, <1>14 DEF AccountInv

\* A decommit of pages of a pool gives back what was committed there.
LEMMA DecommitAccount ==
  ASSUME NEW m, NEW L, NEW over, NEW ok, AccountInv(m, L, over, ok), NEW R \in SUBSET VPages,
         NEW w, w = PoolDecommit(m, R)
  PROVE  AccountInv(w, L \cup Behind(m.vma, R, "Flexible"), over, ok)
<1> DEFINE N == Behind(m.vma, R, "Pooled")
           k == Cardinality({p \in R : m.vma[p].type = "Pooled"})
           a == [p \in VPages |-> IF p \in R THEN PoolReservedPage ELSE m.vma[p]]
           b == [d \in DPages |-> IF d \in N THEN "Pooled" ELSE m.dmem[d]]
<1>0. /\ m \in Managers /\ FlexibleAccount(m, L)
      /\ ok => PoolAccount(m, over) /\ DirectHeld(m)
  BY DEF AccountInv
<1>1. w = [m EXCEPT !.vma = a, !.dmem = b, !.pool_budget = @ + k]
  BY DEF PoolDecommit, PhysOf, Backed, Behind
<1>2. a \in [VPages -> PageStates] /\ b \in [DPages -> DStates]
  BY <1>0 DEF Managers, PageStates, PoolReservedPage, VTypes, Prots, DStates
<1>3. k \in Int
  <2>1. {p \in R : m.vma[p].type = "Pooled"} \in SUBSET VPages
    OBVIOUS
  <2>2. IsFiniteSet({p \in R : m.vma[p].type = "Pooled"})
    BY <2>1, PagesAssumption, FS_Subset
  <2> QED BY <2>2, FS_CardinalityType
<1>4. /\ \A p \in VPages : a[p] = IF p \in R THEN PoolReservedPage ELSE m.vma[p]
      /\ \A d \in DPages : b[d] = IF d \in N THEN "Pooled" ELSE m.dmem[d]
  OBVIOUS
<1>5. ok => /\ Exact(m.vma, "Pooled", Committed(m)) /\ over \in Int
            /\ m.pool_budget = Cardinality(PooledOf(m)) + over
  BY <1>0 DEF PoolAccount
<1>6. ok => N \subseteq Committed(m) /\ Cardinality(N) = k
  <2> SUFFICES ASSUME ok PROVE N \subseteq Committed(m) /\ Cardinality(N) = k
    OBVIOUS
  <2>1. Exact(m.vma, "Pooled", Committed(m))
    BY <1>5
  <2> QED BY <2>1, BehindCount
<1> HIDE DEF a, b, k
<1>7. /\ w.vma = a /\ w.dmem = b /\ w.fmem = m.fmem
      /\ w.flexible_usage = m.flexible_usage /\ w.pool_budget = m.pool_budget + k
  BY <1>0, <1>1 DEF Managers
<1>8. w \in Managers
  <2>1. w = [vma |-> a, dmem |-> b, fmem |-> m.fmem, flexible_usage |-> m.flexible_usage,
             pool_budget |-> m.pool_budget + k]
    BY <1>0, <1>1 DEF Managers
  <2>2. m.pool_budget + k \in Int
    BY <1>0, <1>3 DEF Managers
  <2> QED BY <1>0, <1>2, <2>1, <2>2 DEF Managers
<1>9. FlexibleAccount(w, L \cup Behind(m.vma, R, "Flexible"))
  <2> DEFINE F == Behind(m.vma, R, "Flexible")
  <2>1. SameOutside(m.vma, w.vma, R, "Flexible") /\ \A p \in R : w.vma[p].type # "Flexible"
    BY <1>4, <1>7 DEF SameOutside, PoolReservedPage
  <2>2. /\ Exact(m.vma, "Flexible", Used(m) \ L) /\ L \subseteq Used(m)
        /\ m.flexible_usage = Cardinality(Used(m))
    BY <1>0 DEF FlexibleAccount
  <2>3. F \subseteq Used(m) \ L
    BY <2>2, BehindCount
  <2>4. Exact(w.vma, "Flexible", (Used(m) \ L) \ F)
    BY <2>1, <2>2, ExactDrop
  <2> HIDE DEF F
  <2>5. Used(w) = Used(m)
    BY <1>7 DEF Used
  <2>6. (Used(m) \ L) \ F = Used(w) \ (L \cup F) /\ L \cup F \subseteq Used(w)
    BY <2>2, <2>3, <2>5
  <2>7. FlexibleAccount(w, L \cup F)
    BY <1>7, <2>2, <2>4, <2>5, <2>6 DEF FlexibleAccount
  <2> QED BY <2>7 DEF F
<1>10. ASSUME ok PROVE PoolAccount(w, over)
  <2>1. SameOutside(m.vma, w.vma, R, "Pooled") /\ \A p \in R : w.vma[p].type # "Pooled"
    BY <1>4, <1>7 DEF SameOutside, PoolReservedPage
  <2>2. Exact(w.vma, "Pooled", Committed(m) \ N)
    BY <1>5, <1>10, <2>1, ExactDrop
  <2> HIDE DEF N
  <2>3. /\ Committed(w) = Committed(m) \ N
        /\ PooledOf(w) = PooledOf(m) \cup N /\ PooledOf(m) \cap N = {}
    BY <1>4, <1>6, <1>7, <1>10 DEF Committed, PooledOf
  <2>4. IsFiniteSet(PooledOf(m)) /\ IsFiniteSet(N)
    <3>1. PooledOf(m) \in SUBSET DPages /\ N \in SUBSET DPages
      BY <1>6, <1>10 DEF PooledOf, Committed
    <3> QED BY <3>1, PagesAssumption, FS_Subset
  <2>5. Cardinality(PooledOf(w)) = Cardinality(PooledOf(m)) + Cardinality(N)
    BY <2>3, <2>4, CountUnion
  <2>6. Cardinality(PooledOf(m)) \in Nat /\ Cardinality(N) \in Nat
    BY <2>4, FS_CardinalityType
  <2> QED BY <1>5, <1>6, <1>7, <1>10, <2>2, <2>3, <2>5, <2>6 DEF PoolAccount
<1>11. ASSUME ok PROVE DirectHeld(w)
  <2>1. ASSUME NEW p \in VPages, w.vma[p].type = "Direct"
        PROVE  w.vma[p].phys \in DPages /\ w.dmem[w.vma[p].phys] \in {"Allocated", "Mapped"}
    <3>1. w.vma[p] = m.vma[p]
      BY <1>4, <1>7, <2>1 DEF PoolReservedPage
    <3>2. m.vma[p].phys \in DPages /\ m.dmem[m.vma[p].phys] \in {"Allocated", "Mapped"}
      BY <1>0, <1>11, <2>1, <3>1 DEF DirectHeld
    <3>3. m.vma[p].phys \notin N
      BY <1>6, <1>11, <3>2 DEF Committed
    <3> QED BY <1>4, <1>7, <3>1, <3>2, <3>3
  <2> QED BY <2>1 DEF DirectHeld
<1> QED BY <1>8, <1>9, <1>10, <1>11 DEF AccountInv

----------------------------------------------------------------------------
(***************************************************************************)
(* The calls.  unmap_mutex serialises them, so what the checks under it     *)
(* found still holds when the change is made.                               *)
(***************************************************************************)
CallKinds == {"map", "unmap", "protect", "commit", "decommit", "release"}

\* From the checks to the unlock.
Holding == {"begin", "apply", "finish", "abort"}

\* An admitted call: its range lies in the address space, or in direct memory.
FitsCall(c) ==
    /\ c.kind \in CallKinds /\ c.at \in Nat /\ c.n \in Nat
    /\ c.kind = "map" => c \in MapCalls
    /\ c.kind # "release" => Pages(c.at, c.n) \subseteq VPages
    /\ c.kind = "release" => Pages(c.at, c.n) \subseteq DPages
    /\ c.kind \in {"protect", "commit"} => c.prot \in Prots

\* The checks of a direct mapping hold of the manager's state m.
DirectStill(m, c) == c.kind = "map" /\ c.type = "Direct" => DirectFits(m, c)

\* Thread t at label l in call c, with unmap_mutex held by o.
Standing(t, l, c, o, m, calls) ==
    /\ l \in Holding => o = t
    /\ l = "lock" => c \in calls /\ c.kind \notin {"allocate", "expand", "validate"}
    /\ l \in {"begin", "apply"} => FitsCall(c) /\ DirectStill(m, c)

CallsInv ==
    /\ pc \in [Threads -> Labels] /\ program \in Programs
    /\ call = [t \in Threads |-> call[t]]
    /\ \A t \in Threads : Standing(t, pc[t], call[t], unmap_mutex, mm, program)

\* A step of thread t while nobody else holds unmap_mutex, or one that leaves
\* the manager and the mutex alone.
LEMMA CallsStep ==
  ASSUME CallsInv, NEW t \in Threads, NEW l \in Labels, NEW c,
         pc' = [pc EXCEPT ![t] = l], call' = [call EXCEPT ![t] = c], program' = program,
         \/ unmap_mutex \in {t, NoThread}
         \/ unmap_mutex' = unmap_mutex /\ mm' = mm,
         Standing(t, l, c, unmap_mutex', mm', program)
  PROVE  CallsInv'
<1>1. pc' \in [Threads -> Labels] /\ program' \in Programs
  BY DEF CallsInv
<1>0. call' = [u \in Threads |-> call'[u]]
  BY DEF CallsInv
<1>2. ASSUME NEW u \in Threads
      PROVE  Standing(u, pc'[u], call'[u], unmap_mutex', mm', program')
  <2>1. CASE u = t
    BY <2>1 DEF CallsInv
  <2>2. CASE u # t
    <3>1. pc'[u] = pc[u] /\ call'[u] = call[u]
      BY <2>2 DEF CallsInv
    <3>2. Standing(u, pc[u], call[u], unmap_mutex, mm, program)
      BY DEF CallsInv
    <3>3. CASE unmap_mutex \in {t, NoThread}
      <4>1. pc[u] \notin Holding
        BY <2>2, <3>2, <3>3, MemoryAssumption DEF Standing
      <4> QED BY <3>1, <3>2, <4>1 DEF Standing, Holding
    <3>4. CASE unmap_mutex' = unmap_mutex /\ mm' = mm
      BY <3>1, <3>2, <3>4
    <3> QED BY <3>3, <3>4
  <2> QED BY <2>1, <2>2
<1> QED BY <1>0, <1>1, <1>2 DEF CallsInv

\* The calls of a program are well formed.
LEMMA ProgramCall ==
  ASSUME CallsInv, NEW c \in program
  PROVE  /\ c.kind \in CallKinds \cup {"allocate", "expand", "validate"}
         /\ c.kind = "map" => c \in MapCalls
         /\ c.kind \notin {"allocate", "expand", "validate"} => c.at \in Nat
         /\ c.kind # "validate" => c.n \in Nat \ {0}
         /\ c.kind \in {"unmap", "protect", "commit", "decommit"} => Pages(c.at, c.n) \subseteq VPages
         /\ c.kind = "map" /\ c.fixed => Pages(c.at, c.n) \subseteq VPages
         /\ c.kind \in {"protect", "commit"} => c.prot \in Prots
BY ProgramsAssumption DEF CallsInv, CallKinds

\* The place of a mapping lies in the address space.
LEMMA PlacesFit ==
  ASSUME NEW c \in MapCalls, c.fixed => Pages(c.at, c.n) \subseteq VPages, NEW a \in Places(c)
  PROVE  a \in Nat /\ Pages(a, c.n) \subseteq VPages
<1>0. c.at \in Nat
  BY DEF MapCalls
<1>1. CASE c.fixed
  BY <1>0, <1>1 DEF Places
<1>2. CASE ~c.fixed
  <2>1. a \in SearchFree(c.at, c.n)
    BY <1>2 DEF Places
  <2>0. PICK from \in VPages : from = IF c.at \in VPages THEN c.at ELSE Min(VPages)
    <3>1. Min(VPages) \in VPages
      BY MemoryAssumption, PagesAssumption, MinIn
    <3> QED BY <3>1
  <2>2. CASE IsFreeRange(from, c.n)
    <3>1. a = from
      BY <2>0, <2>1, <2>2 DEF SearchFree
    <3> QED BY <2>2, <3>1, MemoryAssumption DEF IsFreeRange
  <2>3. CASE ~IsFreeRange(from, c.n)
    <3> DEFINE fits == {q \in VPages : /\ q > from /\ IsFreeRange(q, c.n)
                                       /\ mm.vma[q - 1].type # "Free"}
    <3>1. fits # {} /\ a = Min(fits)
      BY <2>0, <2>1, <2>3 DEF SearchFree
    <3>2. fits \in SUBSET Nat
      BY MemoryAssumption
    <3>3. a \in fits
      <4> HIDE DEF fits
      <4> QED BY <3>1, <3>2, MinIn
    <3>4. a \in VPages /\ IsFreeRange(a, c.n)
      BY <3>3
    <3> QED BY <3>4, MemoryAssumption DEF IsFreeRange
  <2> QED BY <2>2, <2>3
<1> QED BY <1>1, <1>2

\* What the checks under unmap_mutex let through.
LEMMA AdmittedFits ==
  ASSUME CallsInv, NEW c \in program, c.kind \notin {"allocate", "expand", "validate"},
         NEW d \in Admitted(c)
  PROVE  FitsCall(d) /\ DirectStill(mm, d)
<1>0. /\ c.kind \in CallKinds /\ c.at \in Nat /\ c.n \in Nat
      /\ c.kind = "map" => c \in MapCalls
      /\ c.kind \in {"unmap", "protect", "commit", "decommit"} => Pages(c.at, c.n) \subseteq VPages
      /\ c.kind = "map" /\ c.fixed => Pages(c.at, c.n) \subseteq VPages
      /\ c.kind \in {"protect", "commit"} => c.prot \in Prots
  BY ProgramCall
<1>1. CASE c.kind = "map"
  <2>1. c.type = "Direct" => DirectOK(c)
    BY <1>1 DEF Admitted
  <2>2. PICK a \in Places(c) : d = [c EXCEPT !.at = a]
    BY <1>1 DEF Admitted
  <2>3. a \in Nat /\ Pages(a, c.n) \subseteq VPages
    BY <1>0, <1>1, PlacesFit
  <2>4. d \in MapCalls /\ d.at = a /\ d.n = c.n /\ d.kind = "map" /\ d.type = c.type /\ d.phys = c.phys
    BY <1>0, <1>1, <2>2, <2>3 DEF MapCalls
  <2>5. FitsCall(d)
    BY <1>0, <2>3, <2>4 DEF FitsCall, CallKinds
  <2>6. DirectStill(mm, d)
    BY <2>1, <2>4 DEF DirectStill, DirectFits, DirectOK
  <2> QED BY <2>5, <2>6
<1>2. CASE c.kind = "release"
  <2>1. ReleaseOK(c) /\ d = c
    BY <1>2 DEF Admitted
  <2>2. Pages(c.at, c.n) \subseteq DPages
    BY <2>1 DEF ReleaseOK
  <2> QED BY <1>0, <1>2, <2>1, <2>2 DEF FitsCall, DirectStill
<1>3. CASE c.kind \in {"unmap", "protect", "commit", "decommit"}
  <2>1. d = c
    BY <1>3 DEF Admitted
  <2> QED BY <1>0, <1>3, <2>1 DEF FitsCall, DirectStill
<1> QED BY <1>0, <1>1, <1>2, <1>3 DEF CallKinds

MemoryInv ==
    /\ CallsInv /\ overpromised \in Nat
    /\ AccountInv(mm, leaked, overpromised, ~committedFreed)

\* What a release takes of the pool is counted.
LEMMA RecordCount ==
  ASSUME overpromised \in Nat, NEW c, Record(c)
  PROVE  overpromised' \in Nat
<1>1. PICK P : P = Taken(c, "Pooled")
  OBVIOUS
<1>2. P \in SUBSET DPages
  BY <1>1 DEF Taken
<1>3. Cardinality(P) \in Nat
  BY <1>2, PagesAssumption, FS_Subset, FS_CardinalityType
<1> QED BY <1>1, <1>3 DEF Record

\* Every change that a call makes keeps the accounts, with what it records.
LEMMA ChangedAccount ==
  ASSUME MemoryInv, NEW t \in Threads, pc[t] = "apply", NEW w \in Changed(call[t]), Record(call[t])
  PROVE  AccountInv(w, leaked', overpromised', ~committedFreed')
<1>1. PICK c : c = call[t]
  OBVIOUS
<1>2. FitsCall(c) /\ DirectStill(mm, c)
  BY <1>1 DEF MemoryInv, CallsInv, Standing
<1>0. /\ AccountInv(mm, leaked, overpromised, ~committedFreed)
      /\ overpromised \in Nat /\ Record(c)
  BY <1>1 DEF MemoryInv
<1>9. ASSUME c.kind \notin {"decommit", "release"},
             AccountInv(w, leaked, overpromised, ~committedFreed)
      PROVE  AccountInv(w, leaked', overpromised', ~committedFreed')
  <2>1. leaked' = leaked /\ overpromised' = overpromised
    BY <1>0, <1>9 DEF Record
  <2>2. ~committedFreed' => ~committedFreed
    BY <1>0 DEF Record
  <2> QED BY <1>9, <2>1, <2>2 DEF AccountInv
<1>3. CASE c.kind = "map"
  <2>1. ~MapFails(mm, c) /\ w = MapMemory(mm, c)
    BY <1>1, <1>3 DEF Changed
  <2>2. c \in MapCalls /\ Pages(c.at, c.n) \subseteq VPages
    BY <1>2, <1>3 DEF FitsCall
  <2>3. c.type = "Direct" => DirectFits(mm, c)
    BY <1>2, <1>3 DEF DirectStill
  <2>4. AccountInv(w, leaked, overpromised, ~committedFreed)
    BY <1>0, <2>1, <2>2, <2>3, MapAccount
  <2> QED BY <1>3, <1>9, <2>4
<1>4. CASE c.kind = "unmap"
  <2>1. w = UnmapBytes(mm, Pages(c.at, c.n))
    BY <1>1, <1>4 DEF Changed
  <2>2. Pages(c.at, c.n) \in SUBSET VPages
    BY <1>2, <1>4 DEF FitsCall
  <2>3. AccountInv(w, leaked, overpromised, ~committedFreed)
    BY <1>0, <2>1, <2>2, UnmapAccount
  <2> QED BY <1>4, <1>9, <2>3
<1>5. CASE c.kind = "protect"
  <2>1. w = ProtectBytes(mm, Pages(c.at, c.n), c.prot)
    BY <1>1, <1>5 DEF Changed
  <2>2. c.prot \in Prots
    BY <1>2, <1>5 DEF FitsCall
  <2>3. AccountInv(w, leaked, overpromised, ~committedFreed)
    BY <1>0, <2>1, <2>2, ProtectAccount
  <2> QED BY <1>5, <1>9, <2>3
<1>6. CASE c.kind = "commit"
  <2>1. w = mm \/ (CanCommit(mm, c) /\ ~CommitFails(mm, c) /\ w = PoolCommit(mm, c))
    BY <1>1, <1>6 DEF Changed
  <2>2. c.at \in Nat /\ c.n \in Nat /\ c.prot \in Prots /\ Pages(c.at, c.n) \subseteq VPages
    BY <1>2, <1>6 DEF FitsCall
  <2>3. AccountInv(w, leaked, overpromised, ~committedFreed)
    BY <1>0, <2>1, <2>2, CommitAccount
  <2> QED BY <1>6, <1>9, <2>3
<1>7. CASE c.kind = "decommit"
  <2>1. w = PoolDecommit(mm, Pages(c.at, c.n))
    BY <1>1, <1>7 DEF Changed
  <2>2. Pages(c.at, c.n) \in SUBSET VPages
    BY <1>2, <1>7 DEF FitsCall
  <2>3. /\ leaked' = leaked \cup Behind(mm.vma, Pages(c.at, c.n), "Flexible")
        /\ overpromised' = overpromised
    BY <1>0, <1>7 DEF Record, PhysOf, Backed, Behind
  <2>5. ~committedFreed' => ~committedFreed
    BY <1>0 DEF Record
  <2>4. AccountInv(w, leaked \cup Behind(mm.vma, Pages(c.at, c.n), "Flexible"), overpromised,
                   ~committedFreed)
    BY <1>0, <2>1, <2>2, DecommitAccount
  <2> QED BY <2>3, <2>4, <2>5 DEF AccountInv
<1>8. CASE c.kind = "release"
  <2>1. PICK r \in RemoveLists(mm, c.at, c.n) : w = Free(mm, Pages(c.at, c.n), r)
    BY <1>1, <1>8 DEF Changed
  <2>2. r \in SUBSET VPages /\ MappingsOf(mm, Pages(c.at, c.n)) \subseteq r
    BY DEF RemoveLists, MappingsOf, Overrun
  <2>3. Pages(c.at, c.n) \in SUBSET DPages
    BY <1>2, <1>8 DEF FitsCall
  <2>4. PICK P : P = {d \in Pages(c.at, c.n) : mm.dmem[d] = "Pooled"}
    OBVIOUS
  <2>5. PICK C : C = {d \in Pages(c.at, c.n) : mm.dmem[d] = "Committed"}
    OBVIOUS
  <2>6. Taken(c, "Pooled") = P /\ Taken(c, "Committed") = C
    BY <2>3, <2>4, <2>5 DEF Taken
  <2>7. /\ leaked' = leaked /\ overpromised' = overpromised + Cardinality(P)
        /\ ~committedFreed' => ~committedFreed /\ C = {}
    BY <1>0, <1>8, <2>6 DEF Record
  <2>8. AccountInv(w, leaked, overpromised + Cardinality(P), ~committedFreed /\ C = {})
    BY <1>0, <2>1, <2>2, <2>3, <2>4, <2>5, FreeAccount
  <2> QED BY <2>7, <2>8 DEF AccountInv
<1> QED BY <1>2, <1>3, <1>4, <1>5, <1>6, <1>7, <1>8 DEF FitsCall, CallKinds

\* The physical pages that a search finds are free and lie in direct memory.
LEMMA FirstFreeFits ==
  ASSUME mm \in Managers, NEW start, NEW n \in Nat \ {0}, NEW end, NEW d \in FirstFree(start, n, end)
  PROVE  /\ d \in Int /\ Pages(d, n) \in SUBSET DPages
         /\ \A e \in Pages(d, n) : mm.dmem[e] = "Free"
<1> DEFINE fits == {e \in DPages : e >= start /\ \A f \in Pages(e, n) : f \in FreeOf(mm.dmem)}
<1>1. fits # {} /\ d = Min(fits)
  BY DEF FirstFree
<1>2. fits \in SUBSET Nat
  BY PagesAssumption
<1>3. d \in fits
  <2> HIDE DEF fits
  <2> QED BY <1>1, <1>2, MinIn
<1>4. d \in Int /\ \A e \in Pages(d, n) : e \in FreeOf(mm.dmem)
  BY <1>2, <1>3
<1>5. \A e \in FreeOf(mm.dmem) : e \in DPages /\ mm.dmem[e] = "Free"
  BY DEF FreeOf, Managers
<1> QED BY <1>4, <1>5

\* Initially nothing is mapped and nothing is counted.
LEMMA InitMemoryInv == Init => MemoryInv
<1> SUFFICES ASSUME Init PROVE MemoryInv
  OBVIOUS
<1>1. CallsInv
  BY DEF Init, CallsInv, Standing, Holding, Labels
<1>2. /\ mm.flexible_usage = 0 /\ mm.pool_budget = 0
      /\ \A p \in VPages : mm.vma[p] \in {FreePage, PoolReservedPage}
      /\ \A d \in DPages : mm.dmem[d] = "Free"
      /\ \A f \in FPages : mm.fmem[f] = "Free"
  BY DEF Init
<1>3. mm \in Managers
  BY DEF Init, Managers, PageStates, FreePage, PoolReservedPage, VTypes, Prots, DStates
<1>4. \A p \in VPages : mm.vma[p].type \in {"Free", "PoolReserved"}
  BY <1>2 DEF FreePage, PoolReservedPage
<1>5. Used(mm) = {} /\ Committed(mm) = {} /\ PooledOf(mm) = {}
  BY <1>2 DEF Used, Committed, PooledOf
<1>6. Exact(mm.vma, "Flexible", {}) /\ Exact(mm.vma, "Pooled", {})
  BY <1>4 DEF Exact
<1>7. FlexibleAccount(mm, {}) /\ PoolAccount(mm, 0)
  BY <1>2, <1>5, <1>6, FS_EmptySet DEF FlexibleAccount, PoolAccount
<1>8. DirectHeld(mm)
  BY <1>4 DEF DirectHeld
<1>9. leaked = {} /\ overpromised = 0
  BY DEF Init
<1> QED BY <1>1, <1>3, <1>7, <1>8, <1>9 DEF MemoryInv, AccountInv

\* Allocate and PoolExpand run while no call holds unmap_mutex.
LEMMA PhysicalCalls ==
  ASSUME CallsInv, unmap_mutex = NoThread, UNCHANGED <<unmap_mutex, program, pc, call>>
  PROVE  CallsInv'
<1>1. ASSUME NEW t \in Threads PROVE Standing(t, pc[t], call[t], unmap_mutex, mm', program)
  <2>1. Standing(t, pc[t], call[t], unmap_mutex, mm, program)
    BY DEF CallsInv
  <2>2. pc[t] \notin Holding
    BY <2>1, MemoryAssumption DEF Standing
  <2> QED BY <2>1, <2>2 DEF Standing, Holding
<1> QED BY <1>1 DEF CallsInv

\* A step that leaves the maps and the history alone.
LEMMA AccountStays ==
  ASSUME MemoryInv, CallsInv', mm' = mm, UNCHANGED historyVars
  PROVE  MemoryInv'
BY DEF MemoryInv, historyVars

\* A step of a call, one action at a time.
LEMMA ChangingMemoryInv ==
  ASSUME MemoryInv, NEW t \in Threads, Changing(t)
  PROVE  MemoryInv'
<1>0. /\ CallsInv /\ pc \in [Threads -> Labels]
      /\ call = [u \in Threads |-> call[u]]
      /\ Standing(t, pc[t], call[t], unmap_mutex, mm, program)
  BY DEF MemoryInv, CallsInv
<1>1. CASE Lock(t)
  <2>0. /\ pc[t] = "lock" /\ unmap_mutex = NoThread /\ mm' = mm /\ program' = program
        /\ call[t] \in program /\ call[t].kind \notin {"allocate", "expand", "validate"}
    BY <1>0, <1>1 DEF Lock, Standing
  <2>1. ASSUME NEW c \in Admitted(call[t]), call' = [call EXCEPT ![t] = c],
               unmap_mutex' = t, pc' = [pc EXCEPT ![t] = "begin"]
        PROVE  CallsInv'
    <3>1. FitsCall(c) /\ DirectStill(mm, c)
      BY <1>0, <2>0, AdmittedFits
    <3>2. Standing(t, "begin", c, unmap_mutex', mm', program)
      BY <2>0, <2>1, <3>1 DEF Standing
    <3> QED BY <1>0, <2>0, <2>1, <3>2, CallsStep DEF Labels
  <2>2. ASSUME call' = [call EXCEPT ![t] = NoCall], pc' = [pc EXCEPT ![t] = "idle"],
               unmap_mutex' = unmap_mutex
        PROVE  CallsInv'
    <3>1. Standing(t, "idle", NoCall, unmap_mutex', mm', program)
      BY DEF Standing, Holding
    <3> QED BY <1>0, <2>0, <2>2, <3>1, CallsStep DEF Labels
  <2>3. CallsInv'
    BY <1>1, <2>1, <2>2 DEF Lock, Goto
  <2> QED BY <1>1, <2>0, <2>3, AccountStays DEF Lock
<1>2. CASE Begin(t)
  <2>1. /\ pc[t] = "begin" /\ pc' = [pc EXCEPT ![t] = "apply"] /\ mm' = mm
        /\ UNCHANGED <<unmap_mutex, program, call>>
    BY <1>2 DEF Begin, Goto
  <2>2. Standing(t, "apply", call[t], unmap_mutex', mm', program)
    BY <1>0, <2>1 DEF Standing, Holding
  <2>3. call' = [call EXCEPT ![t] = call[t]]
    BY <1>0, <2>1
  <2>4. CallsInv'
    BY <1>0, <2>1, <2>2, <2>3, CallsStep DEF Labels
  <2> QED BY <1>2, <2>1, <2>4, AccountStays DEF Begin
<1>3. CASE Apply(t)
  <2>1. pc[t] = "apply" /\ unmap_mutex' = unmap_mutex /\ program' = program /\ call' = call
    BY <1>3 DEF Apply
  <2>2. PICK l \in {"finish", "abort"} : pc' = [pc EXCEPT ![t] = l]
    BY <1>3 DEF Apply, Goto
  <2>3. overpromised' \in Nat /\ AccountInv(mm', leaked', overpromised', ~committedFreed')
    <3>1. CASE mm' \in Changed(call[t]) /\ Record(call[t])
      <4>1. overpromised' \in Nat
        BY <3>1, RecordCount DEF MemoryInv
      <4> QED BY <2>1, <3>1, <4>1, ChangedAccount
    <3>2. CASE UNCHANGED <<mm, historyVars>>
      BY <3>2 DEF MemoryInv, historyVars
    <3> QED BY <1>3, <3>1, <3>2 DEF Apply
  <2>4. unmap_mutex = t
    BY <1>0, <2>1 DEF Standing, Holding
  <2>5. Standing(t, l, call[t], unmap_mutex', mm', program)
    BY <2>1, <2>2, <2>4 DEF Standing
  <2>6. call' = [call EXCEPT ![t] = call[t]]
    BY <1>0, <2>1
  <2>7. CallsInv'
    <3>1. l \in Labels /\ unmap_mutex \in {t, NoThread}
      BY <2>2, <2>4 DEF Labels
    <3>2. PICK c : c = call[t]
      OBVIOUS
    <3>3. call' = [call EXCEPT ![t] = c] /\ Standing(t, l, c, unmap_mutex', mm', program)
      BY <2>5, <2>6, <3>2
    <3> QED BY <1>0, <2>1, <2>2, <3>1, <3>3, CallsStep
  <2> QED BY <2>3, <2>7 DEF MemoryInv
<1>4. CASE Finish(t)
  <2>1. /\ pc[t] = "finish" /\ pc' = [pc EXCEPT ![t] = "idle"]
        /\ call' = [call EXCEPT ![t] = NoCall] /\ unmap_mutex' = NoThread
        /\ mm' = mm /\ program' = program
    BY <1>4 DEF Finish, Goto
  <2>2. unmap_mutex = t
    BY <1>0, <2>1 DEF Standing, Holding
  <2>3. Standing(t, "idle", NoCall, unmap_mutex', mm', program)
    BY DEF Standing, Holding
  <2>4. CallsInv'
    BY <1>0, <2>1, <2>2, <2>3, CallsStep DEF Labels
  <2> QED BY <1>4, <2>1, <2>4, AccountStays DEF Finish
<1> QED BY <1>1, <1>2, <1>3, <1>4 DEF Changing

\* What a guest thread starts.
LEMMA GuestMemoryInv ==
  ASSUME MemoryInv, NEW t \in Threads, Guest(t)
  PROVE  MemoryInv'
<1>0. /\ CallsInv /\ overpromised \in Nat /\ mm \in Managers
      /\ AccountInv(mm, leaked, overpromised, ~committedFreed)
  BY DEF MemoryInv, AccountInv
<1>1. ASSUME NEW c \in program, c.kind = "allocate", Allocate(t, c) PROVE MemoryInv'
  <2>1. c.n \in Nat \ {0}
    BY <1>0, <1>1, ProgramCall
  <2>2. PICK d \in FirstFree(c.start, c.n, c.end) :
          mm' = [mm EXCEPT !.dmem = [e \in DPages |-> IF e \in Pages(d, c.n) THEN "Allocated"
                                                       ELSE @[e]]]
    BY <1>1 DEF Allocate
  <2>3. Pages(d, c.n) \in SUBSET DPages /\ \A e \in Pages(d, c.n) : mm.dmem[e] = "Free"
    BY <1>0, <2>1, FirstFreeFits
  <2>4. AccountInv(mm', leaked, overpromised, ~committedFreed)
    BY <1>0, <2>2, <2>3, AllocateAccount
  <2>5. CallsInv'
    BY <1>0, <1>1, PhysicalCalls DEF Allocate
  <2>6. UNCHANGED historyVars
    BY <1>1 DEF Allocate
  <2> QED BY <1>0, <2>4, <2>5, <2>6 DEF MemoryInv, historyVars
<1>2. ASSUME NEW c \in program, c.kind = "expand", PoolExpand(t, c) PROVE MemoryInv'
  <2>1. c.n \in Nat \ {0}
    BY <1>0, <1>2, ProgramCall
  <2>2. PICK d \in FirstFree(c.start, c.n, Max(DPages) + 1) :
          mm' = [mm EXCEPT !.dmem = [e \in DPages |-> IF e \in Pages(d, c.n) THEN "Pooled" ELSE @[e]],
                           !.pool_budget = @ + c.n]
    BY <1>2 DEF PoolExpand
  <2>3. /\ d \in Int /\ Pages(d, c.n) \in SUBSET DPages
        /\ \A e \in Pages(d, c.n) : mm.dmem[e] = "Free"
    BY <1>0, <2>1, FirstFreeFits
  <2>4. Cardinality(Pages(d, c.n)) = c.n /\ c.n \in Nat
    BY <2>1, <2>3, PagesCount
  <2>5. AccountInv(mm', leaked, overpromised, ~committedFreed)
    BY <1>0, <2>2, <2>3, <2>4, ExpandAccount
  <2>6. CallsInv'
    BY <1>0, <1>2, PhysicalCalls DEF PoolExpand
  <2>7. UNCHANGED historyVars
    BY <1>2 DEF PoolExpand
  <2> QED BY <1>0, <2>5, <2>6, <2>7 DEF MemoryInv, historyVars
<1>3. ASSUME NEW c, UNCHANGED <<mm, unmap_mutex, program, historyVars>>, NEW l \in {"lock", "query"},
             pc' = [pc EXCEPT ![t] = l], call' = [call EXCEPT ![t] = c],
             l = "lock" => c \in program /\ c.kind \notin {"allocate", "expand", "validate"}
      PROVE  MemoryInv'
  <2>1. Standing(t, l, c, unmap_mutex', mm', program)
    BY <1>3 DEF Standing, Holding
  <2>2. CallsInv'
    BY <1>0, <1>3, <2>1, CallsStep DEF Labels
  <2> QED BY <1>3, <2>2, AccountStays
<1>4. ASSUME NEW a, Validate(t, a) PROVE MemoryInv'
  <2>1. PICK c : call' = [call EXCEPT ![t] = c]
    BY <1>4 DEF Validate
  <2> QED BY <1>3, <1>4, <2>1 DEF Validate, Goto
<1>5. ASSUME NEW c \in program, c.kind \notin {"allocate", "expand", "validate"}, Call(t, c)
      PROVE  MemoryInv'
  BY <1>3, <1>5 DEF Call, Goto
<1> QED BY <1>1, <1>2, <1>4, <1>5 DEF Guest

LEMMA QueryMemoryInv ==
  ASSUME MemoryInv, NEW t \in Threads, Query(t)
  PROVE  MemoryInv'
<1>0. CallsInv /\ pc \in [Threads -> Labels]
  BY DEF MemoryInv, CallsInv
<1>1. pc[t] = "query" /\ UNCHANGED <<mm, unmap_mutex, program, historyVars>>
  BY DEF Query
<1>2. PICK l \in {"query", "idle"} : pc' = [pc EXCEPT ![t] = l]
  BY <1>0, <1>1 DEF Query, Goto
<1>3. PICK c : call' = [call EXCEPT ![t] = c]
  BY DEF Query
<1>4. Standing(t, l, c, unmap_mutex', mm', program)
  BY <1>2 DEF Standing, Holding
<1>5. CallsInv'
  BY <1>0, <1>1, <1>2, <1>3, <1>4, CallsStep DEF Labels
<1> QED BY <1>1, <1>5, AccountStays

LEMMA NextMemoryInv == MemoryInv /\ [Next]_vars => MemoryInv'
<1> SUFFICES ASSUME MemoryInv, [Next]_vars PROVE MemoryInv'
  OBVIOUS
<1>1. CASE UNCHANGED vars
  <2>1. CallsInv'
    BY <1>1 DEF vars, MemoryInv, CallsInv
  <2> QED BY <1>1, <2>1, AccountStays DEF vars
<1>2. CASE Next
  BY <1>2, ChangingMemoryInv, GuestMemoryInv, QueryMemoryInv DEF Next
<1> QED BY <1>1, <1>2

\* Exactly one page of type T on each page of U, and none on any other.
LEMMA ExactOne ==
  ASSUME NEW v, NEW T, NEW U, Exact(v, T, U), NEW u
  PROVE  Cardinality({p \in {q \in VPages : v[q].type = T} : v[p].phys = u})
           = (IF u \in U THEN 1 ELSE 0)
<1> DEFINE B == {p \in {q \in VPages : v[q].type = T} : v[p].phys = u}
<1>1. CASE u \in U
  <2>1. PICK p \in VPages : v[p].type = T /\ v[p].phys = u
    BY <1>1 DEF Exact
  <2>2. B = {p}
    BY <2>1 DEF Exact
  <2> QED BY <1>1, <2>2, FS_Singleton
<1>2. CASE u \notin U
  <2>1. B = {}
    BY <1>2 DEF Exact
  <2> QED BY <1>2, <2>1, FS_EmptySet
<1> QED BY <1>1, <1>2

\* flexible_usage and pool_budget agree with the maps but for what decommits leaked
\* and releases took from the pool, and every flexible and every committed page
\* backs exactly one virtual page, through every interleaving of the calls of any
\* number of threads.
THEOREM AccountsHold == Spec => []AccountsExact
<1>1. ASSUME MemoryInv PROVE AccountsExact
  <2>1. FlexibleExact
    <3>1. /\ Exact(mm.vma, "Flexible", Used(mm) \ leaked)
          /\ mm.flexible_usage = Cardinality(Used(mm))
      BY <1>1 DEF MemoryInv, AccountInv, FlexibleAccount
    <3>2. ASSUME NEW f \in FPages
          PROVE  Cardinality({p \in Backed(mm, VPages, "Flexible") : mm.vma[p].phys = f})
                   = (IF mm.fmem[f] = "Flexible" /\ f \notin leaked THEN 1 ELSE 0)
      <4>1. f \in Used(mm) \ leaked <=> mm.fmem[f] = "Flexible" /\ f \notin leaked
        BY DEF Used
      <4> QED BY <3>1, <4>1, ExactOne DEF Backed
    <3> QED BY <3>1, <3>2 DEF FlexibleExact, Used
  <2>2. ASSUME ~committedFreed
        PROVE  /\ mm.pool_budget = Cardinality(PooledOf(mm)) + overpromised
               /\ \A d \in DPages :
                    Cardinality({p \in Backed(mm, VPages, "Pooled") : mm.vma[p].phys = d})
                      = (IF mm.dmem[d] = "Committed" THEN 1 ELSE 0)
    <3>1. /\ Exact(mm.vma, "Pooled", Committed(mm))
          /\ mm.pool_budget = Cardinality(PooledOf(mm)) + overpromised
      BY <1>1, <2>2 DEF MemoryInv, AccountInv, PoolAccount
    <3>2. ASSUME NEW d \in DPages
          PROVE  Cardinality({p \in Backed(mm, VPages, "Pooled") : mm.vma[p].phys = d})
                   = (IF mm.dmem[d] = "Committed" THEN 1 ELSE 0)
      <4>1. d \in Committed(mm) <=> mm.dmem[d] = "Committed"
        BY DEF Committed
      <4> QED BY <3>1, <4>1, ExactOne DEF Backed
    <3> QED BY <3>1, <3>2
  <2> QED BY <2>1, <2>2 DEF AccountsExact, PoolExact
<1>2. MemoryInv => AccountsExact
  BY <1>1
<1> QED BY <1>2, InitMemoryInv, NextMemoryInv, PTL DEF Spec

\* A direct mapping never outlives its physical pages: every release takes down
\* every alias before the pages can be handed out again, for any number of threads,
\* until one takes a page that a commit has mapped.
THEOREM DirectStaysBacked == Spec => []DirectBacked
<1>1. MemoryInv => DirectBacked
  BY DEF MemoryInv, AccountInv, DirectHeld, DirectBacked, Backed
<1> QED BY <1>1, InitMemoryInv, NextMemoryInv, PTL DEF Spec
=============================================================================
