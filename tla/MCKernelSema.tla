---------------------------- MODULE MCKernelSema ----------------------------
(* Small instances of KernelSema for TLC. *)
EXTENDS KernelSema

CONSTANTS t1, t2, t3

\* t1 is the most urgent thread, t2 and t3 tie.
Priorities == [t \in Threads |-> IF t = t1 THEN 1 ELSE 2]
SetCountArgs == {-1, 0, 2}
=============================================================================
