--------------------------- MODULE MCThreadState ---------------------------
(* Small instances of ThreadState for TLC. *)
EXTENDS ThreadState

CONSTANTS s1, s2, s3

\* One guest manages threads, another initialises something once.
TwoPrograms == {{"join", "detach", "ref"}, {"once"}}
=============================================================================
