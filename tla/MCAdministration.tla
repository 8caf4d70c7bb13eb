-------------------------- MODULE MCAdministration --------------------------
(* Finite instances of Administration. *)
EXTENDS Administration, TLC

CONSTANTS a, b, root, guest, standard, own, v1, ungrouped, team

Symmetry == Permutations(Instance)
=============================================================================
