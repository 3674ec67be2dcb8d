------------------------------- MODULE MCQueue -------------------------------
(* Small instances of Queue for TLC. *)
EXTENDS Queue

CONSTANTS s1, s2, r1, r2, x, y

==============================================================================
