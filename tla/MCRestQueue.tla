---------------------------- MODULE MCRestQueue ----------------------------
(* Finite instances of RestQueue. Three tasks stand for the kinds of handler *)
(* there are: one that raises when its call fails (jenkins, tfs), one that   *)
(* swallows the failure (webhook, smtp, jira) and one HANDLERS lacks.        *)
EXTENDS RestQueue, TLC

CONSTANTS w1, w2, w3, w4, jenkins, webhook, trigger, upload, alien

OneService == [w \in Worker |-> jenkins]
TwoServices == [w \in Worker |-> IF w \in {w3, w4} THEN webhook ELSE jenkins]
TasksOfOne == [t \in Task |-> jenkins]
TasksOfTwo == [t \in Task |-> IF t = upload THEN webhook ELSE jenkins]

Symmetry == Permutations(Worker)
=============================================================================
