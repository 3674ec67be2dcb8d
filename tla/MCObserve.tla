------------------------------ MODULE MCObserve ------------------------------
(* Small instances of Observe for TLC. *)
EXTENDS Observe

CONSTANTS s1, s2

\* Attribute queries: the three numbers, without a minimal period; and the periods
\* with a lower threshold, which breaks the rule when it comes after the numbers.
MCQueries ==
  {[set |-> [lt |-> 1, gt |-> 6, st |-> 2], clear |-> {"pmin"}],
   [set |-> [pmin |-> 1, pmax |-> 1, lt |-> 2], clear |-> {}]}

Symmetry == Permutations(Servers)

==============================================================================
