---------------------------- MODULE MCTransaction ----------------------------
(* Small instances of Transaction for TLC. *)
EXTENDS Transaction

CONSTANTS t1, t2

==============================================================================
