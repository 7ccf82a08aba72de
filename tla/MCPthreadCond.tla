--------------------------- MODULE MCPthreadCond ---------------------------
(* Small instances of PthreadCond for TLC. *)
EXTENDS PthreadCond, TLC

CONSTANTS t1, t2, t3, m1, m2, c1

MixedTypes == [m \in Mutexes |-> IF m = m1 THEN "Recursive" ELSE "Normal"]
OneErrorCheck == [m \in Mutexes |-> "ErrorCheck"]
ThreadSymmetry == Permutations(Threads)

\* Every optional call with cancellation left enabled, and the calls that
\* decide whether a thread can be cancelled.
AnyCalls == {OptionalOps \ {"setcancelstate", "exit"},
             {"cancel", "setcancelstate", "exit"}}
SignalCalls == {{"trylock", "broadcast"}}
TimedCalls == {{"timedwait"}}
=============================================================================
