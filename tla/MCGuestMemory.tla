--------------------------- MODULE MCGuestMemory ---------------------------
(* Virtual pages 0-2 for mappings and 3-4 for a reserved pool; direct pages *)
(* 0-2 are allocated and released, 3-4 expand the pool.  The hint 7 lies    *)
(* outside the address space.                                              *)
EXTENDS GuestMemory

R == {"Read"}
W == {"Write"}

Map(type, fixed, overwrite, at, n, prot, phys, validate) ==
    [kind |-> "map", type |-> type, fixed |-> fixed, overwrite |-> overwrite, at |-> at,
     n |-> n, prot |-> prot, phys |-> phys, validate |-> validate]

FlexibleMaps ==
    {Map("Flexible", FALSE, FALSE, 7, 2, W, -1, FALSE),
     Map("Flexible", TRUE, TRUE, 1, 1, R, -1, FALSE),
     Map("Stack", TRUE, FALSE, 1, 1, W, -1, FALSE)}

DirectMaps ==
    {Map("Direct", TRUE, TRUE, 0, 2, R, 1, FALSE), Map("Direct", FALSE, FALSE, 0, 1, W, 1, FALSE),
     Map("Direct", FALSE, FALSE, 0, 1, W, 0, TRUE)}

Unmaps(places) == {[kind |-> "unmap", at |-> at, n |-> 1] : at \in places}

Protects == {[kind |-> "protect", at |-> 0, n |-> 2, prot |-> R],
             [kind |-> "protect", at |-> 1, n |-> 1, prot |-> {}]}

Releases == {[kind |-> "allocate", start |-> 0, n |-> 3, end |-> 3]}
            \cup {[kind |-> "release", at |-> at, n |-> 2] : at \in {0, 1}}

Pools == {[kind |-> "expand", start |-> 3, n |-> 1, end |-> 5]}
         \cup {[kind |-> "commit", at |-> at, n |-> 1, prot |-> W] : at \in {3, 4}}
         \cup {[kind |-> "decommit", at |-> 3, n |-> 2]}

DecommitWithin == [kind |-> "decommit", at |-> 2, n |-> 1]

ReleasePooled == [kind |-> "release", at |-> 3, n |-> 1]

Probe(at, n, need) == [kind |-> "validate", at |-> at, n |-> n, need |-> need]

\* Flexible memory at its limit; direct memory with aliases; a pool next to a
\* fixed mapping that overwrites it, with a decommit inside that mapping; a
\* release of pool pages, which are allocated and mapped again.
MemoryPrograms ==
    {FlexibleMaps \cup Unmaps({1}) \cup Protects \cup {Probe(0, 2, R), Probe(1, 1, R \cup W)},
     DirectMaps \cup Unmaps({0, 1}) \cup Releases,
     Pools \cup {Map("Flexible", TRUE, TRUE, 2, 2, W, -1, FALSE), DecommitWithin,
                [kind |-> "protect", at |-> 3, n |-> 2, prot |-> R], Probe(3, 1, R \cup W)},
     Pools \cup {ReleasePooled, [kind |-> "allocate", start |-> 3, n |-> 1, end |-> 5],
                Map("Direct", TRUE, TRUE, 0, 1, W, 3, TRUE)}}

\* A pool of one page that is expanded twice and released.
ReleasePrograms ==
    {{[kind |-> "expand", start |-> 3, n |-> 1, end |-> 5], ReleasePooled,
      [kind |-> "commit", at |-> 3, n |-> 1, prot |-> W]}}
============================================================================
