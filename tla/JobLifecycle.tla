----------------------------- MODULE JobLifecycle -----------------------------
(***************************************************************************)
(* What the outgoing-call queue promises the code that enqueues a job,     *)
(* without rows, threads or a database: a job waits, runs, may be made to  *)
(* wait again, and settles once and for all. It runs at most MaxAttempts   *)
(* times and the external system sees at most one call per run.            *)
(***************************************************************************)
EXTENDS Integers

CONSTANTS Job, MaxAttempts

VARIABLES phase, tries, effects

lifecycle == <<phase, tries, effects>>

Init ==
  /\ phase = [j \in Job |-> "new"]
  /\ tries = [j \in Job |-> 0]
  /\ effects = [j \in Job |-> 0]

Move(j, from, to) == phase[j] = from /\ phase' = [phase EXCEPT ![j] = to]

Submit(j) ==
  /\ Move(j, "new", "waiting")
  /\ UNCHANGED <<tries, effects>>

Begin(j) ==
  /\ Move(j, "waiting", "running")
  /\ tries[j] < MaxAttempts
  /\ tries' = [tries EXCEPT ![j] = @ + 1]
  /\ UNCHANGED effects

Call(j) ==
  /\ phase[j] = "running"
  /\ effects[j] < tries[j]
  /\ effects' = [effects EXCEPT ![j] = @ + 1]
  /\ UNCHANGED <<phase, tries>>

Retry(j) ==
  /\ Move(j, "running", "waiting")
  /\ tries[j] < MaxAttempts
  /\ UNCHANGED <<tries, effects>>

Settle(j) ==
  /\ Move(j, "running", "settled")
  /\ UNCHANGED <<tries, effects>>

Next ==
  \E j \in Job : Submit(j) \/ Begin(j) \/ Call(j) \/ Retry(j) \/ Settle(j)

Spec == Init /\ [][Next]_lifecycle
=============================================================================
