---------------------------- MODULE MCChangesets ----------------------------
(* Finite instances of Changesets: three commits on the main branch, and a *)
(* release branch that leaves it after the first.                          *)
EXTENDS Changesets

CONSTANTS main, release, f1, f2, app, rel

MCBranchOf == [c \in Commit |-> IF c = 3 THEN release ELSE main]
MCAnc      == [c \in Commit |-> CASE c = 3 -> {1, 3}
                                  [] c = 4 -> {1, 2, 4}
                                  [] OTHER -> 1..c]
MCTouched  == [c \in Commit |-> IF c = 2 THEN {f1} ELSE {f2}]
MCSuffixOf == [b \in Branch |-> IF b = release THEN rel ELSE main]
=============================================================================
