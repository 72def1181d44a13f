---------------------------- MODULE MCProjectAuthz ---------------------------
(* ProjectAuthz on small instances.                                        *)
EXTENDS ProjectAuthz, TLC

Symmetry == Permutations(Requests) \cup Permutations(Users)
               \cup Permutations(UserNamespaces)
               \cup Permutations(GroupNamespaces)
=============================================================================
