--------------------------- MODULE MCBlockTransfer ---------------------------
(* A small instance of BlockTransfer for TLC. *)
EXTENDS BlockTransfer, TLC

CONSTANTS t1, t2, t3, package, other

\* Two packages, the second with one unit more than fits, and a body for
\* another resource that is one block shorter than the first.
MCUri == (t1 :> package) @@ (t2 :> package) @@ (t3 :> other)
MCLength == (t1 :> 3) @@ (t2 :> 4) @@ (t3 :> 2)

==============================================================================
