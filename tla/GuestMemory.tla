---------------------------- MODULE GuestMemory ----------------------------
(***************************************************************************)
(* The guest memory manager (core/memory.cpp) and the per-thread cache of   *)
(* validated ranges that the guest CPU keeps in front of it                 *)
(* (guest_cpu/guest_memory_validation_cache.h, ValidateGuestMemory of       *)
(* core/linker.cpp).                                                        *)
(*                                                                         *)
(* Memory is counted in pages.  vma_map, dmem_map and fmem_map, which the   *)
(* code keeps as maps of areas that it carves and merges, are functions on  *)
(* pages; a VMA is a maximal run of pages that merge.  A call that changes  *)
(* the map runs in five steps, the points where another thread can be       *)
(* between: the call (with its unlocked check), the checks under            *)
(* unmap_mutex, the writer lock with the first half of the generation       *)
(* change, the change itself, and the second half with the unlocks.         *)
(***************************************************************************)
EXTENDS Integers, FiniteSets, FiniteSetsExt

CONSTANTS
    Threads,        \* guest threads
    VPages,         \* virtual pages, an interval of naturals
    DPages,         \* direct memory pages, an interval from 0
    FPages,         \* the pages of fmem_map, an interval from 0
    TotalFlexible,  \* total_flexible_size, which the guest's kernel configures
    PoolPages,      \* the virtual pages of a pool reserved before the run
    Programs,       \* the guest programs: sets of calls, records with a field kind
    CacheSize,      \* entries of a validation cache
    MaxGeneration,  \* bound: changes of the map, two per change
    NoThread

ASSUME MemoryAssumption ==
    /\ VPages \subseteq Nat /\ NoThread \notin Threads
    /\ CacheSize \in Nat \ {0} /\ MaxGeneration \in Nat
    /\ TotalFlexible \in Nat

ASSUME PagesAssumption ==
    /\ VPages # {} /\ DPages \subseteq Nat /\ FPages \subseteq Nat
    /\ IsFiniteSet(VPages) /\ IsFiniteSet(DPages) /\ IsFiniteSet(FPages)

VARIABLES
    mm,           \* the maps and counters of the MemoryManager
    generation,   \* mapping_generation
    unmap_mutex,  \* its owner, or NoThread
    writer,       \* who holds mutex exclusively, or NoThread
    program,      \* the guest program of this behaviour, a member of Programs
    pc, call,     \* per thread: where it is, and in which call
    entries,      \* per thread: the validation cache
    next_entry,   \* per thread: the entry the next Store replaces
    leaked,          \* history: flexible pages whose mapping a decommit made a reservation
    overpromised,    \* history: pooled pages that releases took and the budget still counts
    committedFreed   \* history: a release took a page that a commit had mapped

cacheVars == <<entries, next_entry>>

historyVars == <<leaked, overpromised, committedFreed>>

vars == <<mm, generation, unmap_mutex, writer, program, pc, call, cacheVars, historyVars>>

VTypes ==
    {"Free", "Reserved", "PoolReserved", "Direct", "Flexible", "Pooled", "Stack", "Code", "File"}

Prots == SUBSET {"Read", "Write"}

Pages(at, n) == at .. at + n - 1

FreePage == [type |-> "Free", prot |-> {}, phys |-> -1]

PoolReservedPage == [type |-> "PoolReserved", prot |-> {}, phys |-> -1]

\* The calls of a program: the callers refuse a size of 0, and the manager asserts
\* that an address range is valid.
MapCalls ==
    [kind : {"map"}, type : VTypes \ {"Free", "Pooled"},
     fixed : BOOLEAN, overwrite : BOOLEAN, at : Nat, n : Nat \ {0}, prot : Prots, phys : Int,
     validate : BOOLEAN]

ASSUME ProgramsAssumption ==
    \A calls \in Programs : \A c \in calls :
      /\ c.kind \in {"map", "unmap", "protect", "commit", "decommit", "release", "allocate",
                     "expand", "validate"}
      /\ c.kind = "map" => c \in MapCalls
      /\ c.kind \notin {"allocate", "expand", "validate"} => c.at \in Nat
      /\ c.kind # "validate" => c.n \in Nat \ {0}
      /\ c.kind \in {"unmap", "protect", "commit", "decommit"} => Pages(c.at, c.n) \subseteq VPages
      /\ c.kind = "map" /\ c.fixed => Pages(c.at, c.n) \subseteq VPages
      /\ c.kind \in {"protect", "commit"} => c.prot \in Prots

NoCall == [kind |-> "none"]

NoEntry == [generation |-> 0, pages |-> {}, prot |-> {}]

TypeOK ==
    /\ mm.vma \in [VPages -> [type : VTypes, prot : Prots, phys : {-1} \cup DPages \cup FPages]]
    /\ mm.dmem \in [DPages -> {"Free", "Allocated", "Mapped", "Pooled", "Committed"}]
    /\ mm.fmem \in [FPages -> {"Free", "Flexible"}]
    /\ mm.flexible_usage \in Nat /\ mm.pool_budget \in Nat
    /\ next_entry \in [Threads -> 0..CacheSize - 1]
    /\ generation \in 0..MaxGeneration
    /\ {unmap_mutex, writer} \subseteq Threads \cup {NoThread}
    /\ leaked \subseteq FPages /\ overpromised \in Nat /\ committedFreed \in BOOLEAN
    /\ pc \in [Threads -> {"idle", "lock", "begin", "apply", "finish", "query", "abort"}]

Init ==
    /\ mm = [vma |-> [p \in VPages |-> IF p \in PoolPages THEN PoolReservedPage ELSE FreePage],
             dmem |-> [d \in DPages |-> "Free"],
             fmem |-> [f \in FPages |-> "Free"],
             flexible_usage |-> 0, pool_budget |-> 0]
    /\ generation = 0
    /\ unmap_mutex = NoThread /\ writer = NoThread
    /\ program \in Programs
    /\ pc = [t \in Threads |-> "idle"]
    /\ call = [t \in Threads |-> NoCall]
    /\ entries = [t \in Threads |-> [i \in 0..CacheSize - 1 |-> NoEntry]]
    /\ next_entry = [t \in Threads |-> 0]
    /\ leaked = {} /\ overpromised = 0 /\ committedFreed = FALSE

(***************************************************************************)
(* What the calls do to the maps.  Each operator takes the manager's state  *)
(* m and returns the state after the change.                                *)
(***************************************************************************)
AppendRead(prot) == IF "Write" \in prot THEN prot \cup {"Read"} ELSE prot

Backed(m, R, type) == {p \in R : m.vma[p].type = type}

PhysOf(m, R, type) == {m.vma[p].phys : p \in Backed(m, R, type)}

\* UnmapBytesFromEntry over a range: free and pooled pages are passed over.
UnmapBytes(m, R) ==
    LET direct == PhysOf(m, R, "Direct")
        flexible == PhysOf(m, R, "Flexible")
    IN [m EXCEPT
          !.vma = [p \in VPages |-> IF p \in R /\ m.vma[p].type # "Pooled" THEN FreePage
                                    ELSE m.vma[p]],
          !.dmem = [d \in DPages |-> IF d \in direct THEN "Allocated" ELSE m.dmem[d]],
          !.fmem = [f \in FPages |-> IF f \in flexible THEN "Free" ELSE m.fmem[f]],
          !.flexible_usage = @ - Cardinality(Backed(m, R, "Flexible"))]

FreeOf(map) == {d \in DOMAIN map : map[d] = "Free"}

\* The n first pages of S, lowest first, as a function on the pages from at on.
Carve(S, at, n) ==
    [p \in Pages(at, n) |-> CHOOSE d \in S : Cardinality({e \in S : e < d}) = p - at]

\* CreateArea: what a fixed mapping finds in its place is unmapped first.
Cleared(m, c) == IF c.fixed THEN UnmapBytes(m, Pages(c.at, c.n)) ELSE m

\* CreateArea and MapMemory assert that the place is free and that flexible
\* memory is left.
MapFails(m, c) ==
    LET m1 == Cleared(m, c)
    IN \/ \E p \in Pages(c.at, c.n) : m1.vma[p].type # "Free"
       \/ c.type = "Flexible" /\ Cardinality(FreeOf(m1.fmem)) < c.n

MapMemory(m, c) ==
    LET R == Pages(c.at, c.n)
        m1 == Cleared(m, c)
        phys == CASE c.type = "Flexible" -> Carve(FreeOf(m1.fmem), c.at, c.n)
                  [] c.type = "Direct" -> [p \in R |-> c.phys + (p - c.at)]
                  [] OTHER -> [p \in R |-> -1]
    IN [m1 EXCEPT
          !.vma = [p \in VPages |->
                     IF p \in R
                     THEN [type |-> c.type, prot |-> AppendRead(c.prot), phys |-> phys[p]]
                     ELSE m1.vma[p]],
          !.dmem = [d \in DPages |->
                      IF c.type = "Direct" /\ d \in Pages(c.phys, c.n) THEN "Mapped"
                      ELSE m1.dmem[d]],
          !.fmem = [f \in FPages |->
                      IF c.type = "Flexible" /\ f \in {phys[p] : p \in R} THEN "Flexible"
                      ELSE m1.fmem[f]],
          !.flexible_usage = @ + IF c.type = "Flexible" THEN c.n ELSE 0]

\* A protection of free or pool-reserved pages does nothing.
ProtectBytes(m, R, prot) ==
    [m EXCEPT !.vma = [p \in VPages |->
        IF p \in R /\ m.vma[p].type \notin {"Free", "PoolReserved"}
        THEN [m.vma[p] EXCEPT !.prot = AppendRead(prot)]
        ELSE m.vma[p]]]

PooledOf(m) == {d \in DPages : m.dmem[d] = "Pooled"}

\* A pool reservation that holds the range, and more budget than it takes:
\* a commit of exactly the budget is refused.
CanCommit(m, c) ==
    /\ \A p \in Pages(c.at, c.n) : m.vma[p].type = "PoolReserved"
    /\ m.pool_budget > c.n

\* PoolCommit asserts that pooled pages are left, which the budget promises.
CommitFails(m, c) == Cardinality(PooledOf(m)) < c.n

PoolCommit(m, c) ==
    LET R == Pages(c.at, c.n)
        phys == Carve(PooledOf(m), c.at, c.n)
    IN [m EXCEPT
          !.vma = [p \in VPages |->
                     IF p \in R
                     THEN [type |-> "Pooled", prot |-> AppendRead(c.prot), phys |-> phys[p]]
                     ELSE m.vma[p]],
          !.dmem = [d \in DPages |-> IF d \in {phys[p] : p \in R} THEN "Committed" ELSE m.dmem[d]],
          !.pool_budget = @ - c.n]

\* Mutant of PoolDecommit: the budget grows by the range instead of by what was committed.
PoolDecommitWhole(m, R) ==
    [m EXCEPT
       !.vma = [p \in VPages |-> IF p \in R THEN PoolReservedPage ELSE m.vma[p]],
       !.dmem = [d \in DPages |-> IF d \in PhysOf(m, R, "Pooled") THEN "Pooled" ELSE m.dmem[d]],
       !.pool_budget = @ + Cardinality(R)]

PoolDecommit(m, R) ==
    [m EXCEPT
       !.vma = [p \in VPages |-> IF p \in R THEN PoolReservedPage ELSE m.vma[p]],
       !.dmem = [d \in DPages |-> IF d \in PhysOf(m, R, "Pooled") THEN "Pooled" ELSE m.dmem[d]],
       !.pool_budget = @ + Cardinality(Backed(m, R, "Pooled"))]

\* Mutant of MappingsOf: pages that an alias's unmap left as Allocated are not looked for.
MappingsOfMapped(m, D) ==
    {p \in VPages : m.vma[p].type = "Direct" /\ m.vma[p].phys \in D
                    /\ m.dmem[m.vma[p].phys] = "Mapped"}

\* The direct mappings of a physical range: every alias.
MappingsOf(m, D) == {p \in VPages : m.vma[p].type = "Direct" /\ m.vma[p].phys \in D}

\* Pages q and q + 1 lie in one physical area of one mapping.
SameArea(m, q) ==
    /\ {q, q + 1} \subseteq VPages
    /\ \A r \in {q, q + 1} : m.vma[r].type = "Direct" /\ m.vma[r].prot = m.vma[q].prot
    /\ m.vma[q + 1].phys = m.vma[q].phys + 1

\* Free takes min(area size - offset, size) pages from the start of the
\* overlap: a release that begins below an area unmaps past its own end.
Overrun(m, at, n) ==
    {q \in VPages : \E p \in MappingsOf(m, Pages(at, n)) :
        /\ m.vma[p].phys > at /\ ~SameArea(m, p - 1)
        /\ p < q /\ q < p + n
        /\ \A r \in p .. q - 1 : SameArea(m, r)}

\* Where earlier calls have split an area is not kept, so the overrun is what
\* an unsplit area gives, or nothing.
RemoveLists(m, at, n) ==
    {MappingsOf(m, Pages(at, n)), MappingsOf(m, Pages(at, n)) \cup Overrun(m, at, n)}

Free(m, D, remove) ==
    LET m1 == UnmapBytes(m, remove)
    IN [m1 EXCEPT !.dmem = [d \in DPages |-> IF d \in D THEN "Free" ELSE m1.dmem[d]]]

(***************************************************************************)
(* VMAs, and the checks under unmap_mutex, before the writer lock.          *)
(***************************************************************************)
Merges(p, q) ==
    /\ mm.vma[p].type = mm.vma[q].type /\ mm.vma[p].prot = mm.vma[q].prot
    /\ mm.vma[p].type = "Direct" => mm.vma[q].phys = mm.vma[p].phys + (q - p)

\* The VMA of a page: the pages around it that have merged with it.
FindVMA(p) ==
    {q \in VPages : Merges(p, q) /\ \A r \in (p + 1 .. q - 1) \cup (q + 1 .. p - 1) : Merges(p, r)}

DirectOK(c) == \A d \in Pages(c.phys, c.n) :
    d \in DPages /\ mm.dmem[d] \in (IF c.validate THEN {"Allocated"} ELSE {"Allocated", "Mapped"})

IsFreeRange(at, n) == \A p \in Pages(at, n) : p \in VPages /\ mm.vma[p].type = "Free"

\* SearchFree: the hint, or the lowest address for a hint outside the address
\* space, if the mapping fits there, or the first later free VMA that fits.
SearchFree(hint, n) ==
    LET from == IF hint \in VPages THEN hint ELSE Min(VPages)
        fits == {q \in VPages : /\ q > from /\ IsFreeRange(q, n)
                                /\ mm.vma[q - 1].type # "Free"}
    IN IF IsFreeRange(from, n) THEN {from}
       ELSE IF fits = {} THEN {} ELSE {Min(fits)}

\* The addresses a mapping may get; none is an error return.
Places(c) ==
    IF ~c.fixed THEN SearchFree(c.at, c.n)
    ELSE IF c.overwrite \/ IsFreeRange(c.at, c.n) THEN {c.at} ELSE {}

\* PoolDecommit tests the VMAs that end within the range.
DecommitOK(c) == \A p \in Pages(c.at, c.n) :
    \/ mm.vma[p].type \in {"PoolReserved", "Pooled"}
    \/ c.at + c.n \in FindVMA(p)

\* Free(checked): every page of the range is taken.
ReleaseOK(c) == \A d \in Pages(c.at, c.n) : d \in DPages /\ mm.dmem[d] # "Free"

\* The calls as they go on once admitted, with the address chosen.
Admitted(c) ==
    CASE c.kind = "map" ->
           IF c.type = "Direct" /\ ~DirectOK(c) THEN {}
           ELSE {[c EXCEPT !.at = a] : a \in Places(c)}
      [] c.kind = "decommit" -> IF DecommitOK(c) THEN {c} ELSE {}
      [] c.kind = "release" -> IF ReleaseOK(c) THEN {c} ELSE {}
      [] OTHER -> {c}

(***************************************************************************)
(* The steps of a call.                                                    *)
(***************************************************************************)
Goto(t, label) == pc' = [pc EXCEPT ![t] = label]

\* A failed assertion ends the process.  No new call starts; the calls under
\* way stand before the locks of the thread that failed.
Running == \A t \in Threads : pc[t] # "abort"

\* MapMemory compares flexible_usage with the total before it takes a lock.
Call(t, c) ==
    /\ pc[t] = "idle" /\ Running
    /\ c.kind = "map" /\ c.type = "Flexible" =>
         mm.flexible_usage + c.n <= TotalFlexible
    /\ call' = [call EXCEPT ![t] = c]
    /\ Goto(t, "lock")
    /\ UNCHANGED <<mm, generation, unmap_mutex, writer, program, cacheVars, historyVars>>

\* unmap_mutex, and the checks it protects; a refused call returns.
Lock(t) ==
    /\ pc[t] = "lock"
    /\ unmap_mutex = NoThread
    /\ \/ \E c \in Admitted(call[t]) :
            /\ call' = [call EXCEPT ![t] = c]
            /\ unmap_mutex' = t
            /\ Goto(t, "begin")
       \/ /\ Admitted(call[t]) = {}
          /\ call' = [call EXCEPT ![t] = NoCall]
          /\ Goto(t, "idle")
          /\ UNCHANGED unmap_mutex
    /\ UNCHANGED <<mm, generation, writer, program, cacheVars, historyVars>>

\* Mutant of Begin: the generation is left even until the change is done.
BeginLate(t) ==
    /\ pc[t] = "begin"
    /\ writer = NoThread
    /\ generation + 2 <= MaxGeneration
    /\ writer' = t
    /\ Goto(t, "apply")
    /\ UNCHANGED <<mm, generation, unmap_mutex, program, call, cacheVars, historyVars>>

\* The writer lock, and the Mutation's constructor: the generation turns odd.
Begin(t) ==
    /\ pc[t] = "begin"
    /\ writer = NoThread
    /\ generation + 2 <= MaxGeneration
    /\ writer' = t
    /\ generation' = generation + 1
    /\ Goto(t, "apply")
    /\ UNCHANGED <<mm, unmap_mutex, program, call, cacheVars, historyVars>>

\* The states a call may leave; none is a failed assertion.
Changed(c) ==
    CASE c.kind = "map" -> IF MapFails(mm, c) THEN {} ELSE {MapMemory(mm, c)}
      [] c.kind = "unmap" -> {UnmapBytes(mm, Pages(c.at, c.n))}
      [] c.kind = "protect" -> {ProtectBytes(mm, Pages(c.at, c.n), c.prot)}
      [] c.kind = "commit" -> IF ~CanCommit(mm, c) THEN {mm}
                              ELSE IF CommitFails(mm, c) THEN {} ELSE {PoolCommit(mm, c)}
      [] c.kind = "decommit" -> {PoolDecommit(mm, Pages(c.at, c.n))}
      [] c.kind = "release" -> {Free(mm, Pages(c.at, c.n), r) : r \in RemoveLists(mm, c.at, c.n)}

\* The pages of a release that have the dmem type.
Taken(c, type) == {d \in Pages(c.at, c.n) : d \in DPages /\ mm.dmem[d] = type}

\* What the call c does that the accounts of the code do not follow: a decommit
\* turns any mapping into a reservation and gives only pooled pages back, and a
\* release takes pages of the pool as any other and leaves the budget.
Record(c) ==
    /\ leaked' = leaked \cup IF c.kind = "decommit" THEN PhysOf(mm, Pages(c.at, c.n), "Flexible")
                              ELSE {}
    /\ overpromised' = overpromised
                         + IF c.kind = "release" THEN Cardinality(Taken(c, "Pooled")) ELSE 0
    /\ committedFreed' = (committedFreed \/ (c.kind = "release" /\ Taken(c, "Committed") # {}))

Apply(t) ==
    /\ pc[t] = "apply"
    /\ \/ /\ mm' \in Changed(call[t])
          /\ Record(call[t])
          /\ Goto(t, "finish")
       \/ /\ Changed(call[t]) = {}
          /\ Goto(t, "abort")
          /\ UNCHANGED <<mm, historyVars>>
    /\ UNCHANGED <<generation, unmap_mutex, writer, program, call, cacheVars>>

\* Mutation::Finish, then the locks.
Finish(t) ==
    /\ pc[t] = "finish"
    /\ generation' = generation + 1
    /\ writer' = NoThread
    /\ unmap_mutex' = NoThread
    /\ call' = [call EXCEPT ![t] = NoCall]
    /\ Goto(t, "idle")
    /\ UNCHANGED <<mm, program, cacheVars, historyVars>>

\* The first free run of n pages from start on, wholly below end.
FirstFree(start, n, end) ==
    LET fits == {d \in DPages : /\ d >= start
                                /\ \A e \in Pages(d, n) : e \in FreeOf(mm.dmem)}
    IN IF fits = {} \/ Min(fits) + n > end THEN {} ELSE {Min(fits)}

\* Allocate and PoolExpand hold both locks and change no mapping, so the
\* generation stays.  PoolExpand ignores the end of its search range.
Allocate(t, c) ==
    /\ pc[t] = "idle"
    /\ unmap_mutex = NoThread /\ writer = NoThread
    /\ \E d \in FirstFree(c.start, c.n, c.end) :
         mm' = [mm EXCEPT !.dmem = [e \in DPages |-> IF e \in Pages(d, c.n) THEN "Allocated" ELSE @[e]]]
    /\ UNCHANGED <<generation, unmap_mutex, writer, program, pc, call, cacheVars, historyVars>>

PoolExpand(t, c) ==
    /\ pc[t] = "idle"
    /\ unmap_mutex = NoThread /\ writer = NoThread
    /\ \E d \in FirstFree(c.start, c.n, Max(DPages) + 1) :
         mm' = [mm EXCEPT !.dmem = [e \in DPages |-> IF e \in Pages(d, c.n) THEN "Pooled" ELSE @[e]],
                          !.pool_budget = @ + c.n]
    /\ UNCHANGED <<generation, unmap_mutex, writer, program, pc, call, cacheVars, historyVars>>

(***************************************************************************)
(* ValidateGuestMemory.                                                    *)
(***************************************************************************)
CacheContains(t, at, n, need) ==
    /\ generation % 2 = 0
    /\ \E i \in 0..CacheSize - 1 :
         /\ entries[t][i].generation = generation
         /\ Pages(at, n) \subseteq entries[t][i].pages
         /\ need \subseteq entries[t][i].prot

\* The accesses the program has validated.
Probes == {c \in program : c.kind = "validate"}

\* The generation is loaded without a lock; a hit returns and changes nothing.
Validate(t, a) ==
    /\ pc[t] = "idle" /\ Running
    /\ ~CacheContains(t, a.at, a.n, a.need)
    /\ call' = [call EXCEPT ![t] = [kind |-> "validate", at |-> a.at, end |-> a.at + a.n,
                                    need |-> a.need]]
    /\ Goto(t, "query")
    /\ UNCHANGED <<mm, generation, unmap_mutex, writer, program, cacheVars, historyVars>>

\* QueryProtection under the shared lock, which also reads the generation,
\* and Store into the calling thread's cache.
Store(t, e) ==
    /\ entries' = [entries EXCEPT ![t][next_entry[t]] = e]
    /\ next_entry' = [next_entry EXCEPT ![t] = (@ + 1) % CacheSize]

Query(t) ==
    /\ pc[t] = "query"
    /\ writer = NoThread
    /\ LET c == call[t]
           vma == mm.vma[c.at]
           next == Max(FindVMA(c.at)) + 1
           ok == vma.type # "Free" /\ c.need \subseteq vma.prot
       IN /\ IF ok THEN Store(t, [generation |-> generation, pages |-> FindVMA(c.at), prot |-> vma.prot])
             ELSE UNCHANGED cacheVars
          /\ IF ok /\ next < c.end
             THEN call' = [call EXCEPT ![t].at = next] /\ UNCHANGED pc
             ELSE call' = [call EXCEPT ![t] = NoCall] /\ Goto(t, "idle")
    /\ UNCHANGED <<mm, generation, unmap_mutex, writer, program, historyVars>>

Changing(t) == Lock(t) \/ Begin(t) \/ Apply(t) \/ Finish(t)

Guest(t) ==
    \/ \E c \in {d \in program : d.kind = "allocate"} : Allocate(t, c)
    \/ \E c \in {d \in program : d.kind = "expand"} : PoolExpand(t, c)
    \/ \E c \in Probes : Validate(t, c)
    \/ \E c \in {d \in program : d.kind \notin {"allocate", "expand", "validate"}} : Call(t, c)

Next == \E t \in Threads : Changing(t) \/ Guest(t) \/ Query(t)

Spec == Init /\ [][Next]_vars
----------------------------------------------------------------------------
(***************************************************************************)
(* Properties.                                                             *)
(***************************************************************************)

\* A validation that the cache answers is true of the map at that moment:
\* no map, unmap, protect, commit, decommit or release of any thread, at any
\* of its steps, leaves an entry with the current even generation that
\* promises an access to a page that is free or protected against it.
CacheSound ==
    \A t \in Threads, a \in Probes :
        CacheContains(t, a.at, a.n, a.need) =>
            \A p \in Pages(a.at, a.n) : /\ mm.vma[p].type # "Free"
                                        /\ a.need \subseteq mm.vma[p].prot

\* flexible_usage counts the flexible pages in use, and each of them backs
\* exactly one virtual page: none is carved twice, as the comment in MapMemory
\* fears (memory.cpp:623), and none is lost but those whose mapping a decommit
\* turned into a pool reservation (memory.cpp:811, 868), which stay counted.
FlexibleExact ==
    /\ mm.flexible_usage = Cardinality({f \in FPages : mm.fmem[f] = "Flexible"})
    /\ \A f \in FPages :
         Cardinality({p \in Backed(mm, VPages, "Flexible") : mm.vma[p].phys = f})
           = (IF mm.fmem[f] = "Flexible" /\ f \notin leaked THEN 1 ELSE 0)

\* pool_budget counts the pooled pages no commit has taken, and those that a
\* release took from the pool (memory.cpp:298), and a committed page backs
\* exactly one virtual page; until a release takes a committed page, whose
\* mapping Free leaves in place.
PoolExact ==
    ~committedFreed =>
      /\ mm.pool_budget = Cardinality(PooledOf(mm)) + overpromised
      /\ \A d \in DPages :
           Cardinality({p \in Backed(mm, VPages, "Pooled") : mm.vma[p].phys = d})
             = (IF mm.dmem[d] = "Committed" THEN 1 ELSE 0)

\* The counters that decide whether memory is left differ from the maps by
\* what decommits leaked and by what releases took from the pool, and by no
\* more, through every sequence of overlapping maps, unmaps, commits,
\* decommits and releases of two threads.
AccountsExact == FlexibleExact /\ PoolExact

\* A direct mapping never outlives its physical pages: a release takes down
\* every alias, so the page can be handed out again; until a release takes a
\* committed page, which a later decommit would put back into the pool
\* whoever has it then.
DirectBacked ==
    ~committedFreed =>
      \A p \in Backed(mm, VPages, "Direct") : mm.dmem[mm.vma[p].phys] \in {"Allocated", "Mapped"}

\* PoolCommit's assertion "Failed to commit pooled memory" (memory.cpp:453): a
\* commit that the budget admits finds the pages it needs.
CommitBacked ==
    \A t \in Threads :
        pc[t] = "apply" /\ call[t].kind = "commit" /\ CanCommit(mm, call[t]) => ~CommitFails(mm, call[t])
============================================================================
