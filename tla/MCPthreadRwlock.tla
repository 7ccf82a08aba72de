-------------------------- MODULE MCPthreadRwlock --------------------------
(* Small instances of PthreadRwlock for TLC. *)
EXTENDS PthreadRwlock

CONSTANTS t1, t2, t3, l1, l2
=============================================================================
