------------------------------- MODULE MCJiraSync -------------------------------
(* Finite instances of JiraSync. *)
EXTENDS JiraSync, TLC

CONSTANTS f1, f2, e1, e2, e3

\* Two entries of a report share a fingerprint.
Fingerprints == (e1 :> f1) @@ (e2 :> f1) @@ (e3 :> f2)
Symmetry == Permutations({e1, e2})
=================================================================================
