---------------------------- MODULE MCSearchSync ----------------------------
(* SearchSync on small instances.                                          *)
EXTENDS SearchSync, TLC

Symmetry == Permutations(Entities) \cup Permutations(Workers)

(* Bound: two entities are written three times in all.                     *)
FewWrites == \A e, f \in Entities : e # f => next[e] + next[f] <= 3
=============================================================================
