--------------------------- MODULE MCRunTracking ---------------------------
(* Finite instances of RunTracking. *)
EXTENDS RunTracking, TLC

CONSTANTS u1, u2, u3, e1, e2, e3, f1, f2, b1, b2, windows, linux

\* Two entries of one fingerprint, and one of another.
MCFpOf == [e \in Entry |-> IF e = e3 THEN f2 ELSE f1]

Symmetry == Permutations(Upload) \union Permutations({e1, e2})
              \union Permutations(Build) \union Permutations(Platform)
=============================================================================
