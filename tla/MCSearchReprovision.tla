------------------------- MODULE MCSearchReprovision -------------------------
(* SearchReprovision on small instances.                                   *)
EXTENDS SearchReprovision, TLC

Symmetry == Permutations(Entities) \cup Permutations(Workers)
               \cup Permutations(Runs)
=============================================================================
