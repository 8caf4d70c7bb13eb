------------------------------ MODULE MCDashboards ------------------------------
(* Three warnings; two of them are one defect at two lines, of one severity. *)
EXTENDS Dashboards, TLC

CONSTANTS w1, w2, w3, d1, d2

TwoLinesOfOne == [w \in Warning |-> IF w = w3 THEN d2 ELSE d1]
HighOrLow == [w \in Warning |-> IF w = w3 THEN "Low" ELSE "High"]
Symmetry == Permutations({w1, w2})
=================================================================================
