---------------------------- MODULE MCEventFlag ----------------------------
(* Small instances of EventFlag for TLC. *)
EXTENDS EventFlag, TLC

CONSTANTS t1, t2, t3, b1, b2

Req(bits, mode, clear, timed) ==
  [bits |-> bits, mode |-> mode, clear |-> clear, timed |-> timed]

\* A consumer of one bit, and a timed wait for either bit that clears both.
TwoWaits == {Req({b1}, "And", "Bits", FALSE), Req({b1, b2}, "Or", "All", TRUE)}
=============================================================================
