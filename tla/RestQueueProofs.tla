--------------------------- MODULE RestQueueProofs ---------------------------
(***************************************************************************)
(* The safety of the outgoing-call queue for every number of workers,      *)
(* jobs, attempts and faults.                                              *)
(***************************************************************************)
EXTENDS RestQueue, TLAPS

Holds(w) == pc[w] \in {"selected", "running", "finish", "raised"}

-----------------------------------------------------------------------------
(* The inductive invariant, part by part.                                  *)

\* A thread has a row exactly while it is past the SELECT of that row.
BindingInv == \A w \in Worker : Holds(w) <=> cur[w] # None

\* Threads have different rows: the lock of the SELECT, or the single thread.
DistinctInv == \A v, w \in Worker : Holds(v) /\ Holds(w) /\ cur[v] = cur[w] => v = w

\* The deployment keeps one live thread per service where the docs require it.
SingleInv ==
  OneWorkerPerService =>
    \A v, w \in Worker : Live(v) /\ Live(w) /\ Serves[v] = Serves[w] => v = w

\* What a selected row looks like: nobody has claimed it since it was read.
SelectedInv ==
  \A w \in Worker : pc[w] = "selected" =>
    /\ status[cur[w]] = "pending"
    /\ seen[w] = attempts[cur[w]]
    /\ ServiceOf[kind[cur[w]]] = Serves[w]

\* What a row that is being executed looks like.
BusyInv ==
  \A w \in Worker : Busy(w) =>
    /\ owner[cur[w]] = w
    /\ kind[cur[w]] # None
    /\ \/ status[cur[w]] = "processing"
       \/ status[cur[w]] = "done" /\ pc[w] = "raised" /\ dbErrors > 0
    /\ pc[w] = "running" => effects[cur[w]] < attempts[cur[w]]
    /\ pc[w] = "finish" => kind[cur[w]] \in BestEffort \/ effects[cur[w]] > 0

\* What any row looks like.
RowInv ==
  \A j \in Job :
    /\ status[j] = "absent" => attempts[j] = 0 /\ kind[j] = None
    /\ status[j] # "absent" => kind[j] \in Task
    /\ status[j] = "pending" => attempts[j] < MaxAttempts
    /\ effects[j] <= attempts[j]
    /\ status[j] = "processing" =>
         \E w \in Worker : owner[j] = w /\ (Executes(w, j) \/ pc[w] = "lost")

\* A thread dies with one row at most.
OneRowInv ==
  \A j, k \in Job :
    status[j] = "processing" /\ status[k] = "processing" /\ owner[j] = owner[k] => j = k

\* No row points at a thread that has not got that far.
OwnerInv ==
  \A j \in Job, w \in Worker :
    status[j] = "processing" /\ owner[j] = w => Executes(w, j) \/ pc[w] = "lost"

IInv ==
  /\ TypeOK
  /\ BindingInv
  /\ DistinctInv
  /\ SingleInv
  /\ SelectedInv
  /\ BusyInv
  /\ RowInv
  /\ OneRowInv
  /\ OwnerInv
  /\ GivenUpWhenExhausted
  /\ DoneMeansDelivered

-----------------------------------------------------------------------------
\* The empty queue satisfies the invariant.
LEMMA InitInv == Init => IInv
BY QueueAssumption
   DEF Init, IInv, TypeOK, Status, Pc, BindingInv, DistinctInv, SingleInv,
       SelectedInv, BusyInv, RowInv, OneRowInv, OwnerInv, GivenUpWhenExhausted,
       DoneMeansDelivered, Holds, Busy, Live, Executes

\* A claim counts one more attempt and stays within max_attempts, also when it
\* writes back the number it read earlier.
LEMMA ClaimCounts ==
  ASSUME IInv, NEW w \in Worker, pc[w] = "selected"
  PROVE  /\ cur[w] \in Job
         /\ attempts[cur[w]] < MaxAttempts
         /\ ClaimedAttempts(w) = attempts[cur[w]] + 1
BY DEF IInv, TypeOK, BindingInv, Holds, SelectedInv, RowInv, ClaimedAttempts

-----------------------------------------------------------------------------
(* Every step preserves the invariant: one lemma per kind of step, one step  *)
(* of its proof per conjunct the action disturbs. Three lemmas serve several *)
(* actions: LossInv for every death of a thread that leaves its row as it    *)
(* is, FailureInv for fail_job and RejectInv for its call without a retry,   *)
(* each with and without an exception after the commit.                      *)

\* A thread may die anywhere: it takes its row with it.
LEMMA LossInv ==
  ASSUME IInv, NEW w \in Worker,
         Live(w),
         UNCHANGED rows,
         Release(w, "lost"),
         stopping' = stopping,
         kills' \in 0..MaxKills,
         dbErrors' \in 0..MaxDbErrors,
         dbErrors' >= dbErrors
  PROVE  IInv'
<1> USE DEF IInv, TypeOK, Live, Release, Goto, rows
<1>1. TypeOK'
    BY QueueAssumption DEF Status, Pc
<1>2. /\ BindingInv'
      /\ DistinctInv'
      /\ SingleInv'
      /\ SelectedInv'
      /\ BusyInv'
      /\ RowInv'
      /\ OneRowInv'
      /\ OwnerInv'
      /\ GivenUpWhenExhausted'
      /\ DoneMeansDelivered'
    BY DEF BindingInv, Holds, DistinctInv, SingleInv, Live, SelectedInv,
       BusyInv, Busy, RowInv, Executes, OneRowInv, OwnerInv,
       GivenUpWhenExhausted, DoneMeansDelivered
<1>3. QED
  BY <1>1, <1>2

\* fail_job sends the row back to the queue or gives it up.
LEMMA FailureInv ==
  ASSUME IInv, NEW w \in Worker,
         NEW p \in {"poll", "lost"},
         pc[w] = "raised",
         WriteFailure(w),
         Release(w, p),
         stopping' = stopping,
         kills' = kills,
         dbErrors' \in 0..MaxDbErrors,
         dbErrors' >= dbErrors
  PROVE  IInv'
<1> USE DEF IInv, TypeOK, Release, Goto
<1>1. TypeOK'
    BY QueueAssumption DEF WriteFailure, MayRetry, RetryStatus, Status, Pc, BindingInv,
       Holds, DistinctInv, Busy, SelectedInv, BusyInv, RowInv, OwnerInv,
       Executes, SingleInv, Live, GivenUpWhenExhausted
<1>2. BindingInv'
    BY DEF WriteFailure, MayRetry, RetryStatus, BindingInv, Holds
<1>3. DistinctInv'
    BY DEF WriteFailure, MayRetry, RetryStatus, DistinctInv, Holds
<1>4. SingleInv'
    BY DEF WriteFailure, MayRetry, RetryStatus, SingleInv, Live
<1>5. SelectedInv'
    BY DEF WriteFailure, MayRetry, RetryStatus, SelectedInv, BindingInv, Holds,
       DistinctInv, Busy
<1>6. BusyInv'
    BY DEF WriteFailure, MayRetry, RetryStatus, BusyInv, Busy, BindingInv, Holds,
       DistinctInv
<1>7. RowInv'
    BY DEF WriteFailure, MayRetry, RetryStatus, RowInv, Executes, Busy, BindingInv, Holds,
       DistinctInv, SelectedInv, BusyInv, OwnerInv, SingleInv, Live, Status,
       Pc, GivenUpWhenExhausted
<1>8. OneRowInv'
    BY DEF WriteFailure, MayRetry, RetryStatus, OneRowInv
<1>9. OwnerInv'
    BY DEF WriteFailure, MayRetry, RetryStatus, OwnerInv, Executes, Busy
<1>10. GivenUpWhenExhausted'
    BY QueueAssumption DEF WriteFailure, MayRetry, RetryStatus, GivenUpWhenExhausted
<1>11. DoneMeansDelivered'
    BY DEF WriteFailure, MayRetry, RetryStatus, DoneMeansDelivered
<1>12. QED
  BY <1>1, <1>2, <1>3, <1>4, <1>5, <1>6, <1>7, <1>8, <1>9, <1>10, <1>11

\* A new row belongs to nobody.
LEMMA EnqueueInv ==
  ASSUME IInv, NEW j \in Job,
         NEW t \in Task,
         Enqueue(j, t)
  PROVE  IInv'
<1> USE DEF IInv, TypeOK, Enqueue, threads, faults
<1>1. TypeOK'
    BY DEF Status, Pc
<1>2. RowInv'
    BY QueueAssumption DEF RowInv, Executes, Busy
<1>3. /\ BindingInv'
      /\ DistinctInv'
      /\ SingleInv'
      /\ SelectedInv'
      /\ BusyInv'
      /\ OneRowInv'
      /\ OwnerInv'
      /\ GivenUpWhenExhausted'
      /\ DoneMeansDelivered'
    BY DEF BindingInv, Holds, DistinctInv, SingleInv, Live, SelectedInv,
       BusyInv, Busy, OneRowInv, OwnerInv, Executes, GivenUpWhenExhausted,
       DoneMeansDelivered
<1>4. QED
  BY <1>1, <1>2, <1>3

\* The end of a delay only makes a row selectable.
LEMMA BackoffElapsesInv ==
  ASSUME IInv, NEW j \in Job,
         BackoffElapses(j)
  PROVE  IInv'
<1> USE DEF IInv, TypeOK, BackoffElapses, threads, faults
<1>1. TypeOK'
    BY DEF Status, Pc
<1>2. /\ BindingInv'
      /\ DistinctInv'
      /\ SingleInv'
      /\ SelectedInv'
      /\ BusyInv'
      /\ RowInv'
      /\ OneRowInv'
      /\ OwnerInv'
      /\ GivenUpWhenExhausted'
      /\ DoneMeansDelivered'
    BY DEF BindingInv, Holds, DistinctInv, SingleInv, Live, SelectedInv,
       BusyInv, Busy, RowInv, Executes, OneRowInv, OwnerInv,
       GivenUpWhenExhausted, DoneMeansDelivered
<1>3. QED
  BY <1>1, <1>2

\* A thread selects a pending row nobody else has selected.
LEMMA SelectInv ==
  ASSUME IInv, NEW w \in Worker,
         Select(w)
  PROVE  IInv'
<1> USE DEF IInv, TypeOK, Select, rows, faults
<1>1. TypeOK'
    BY DEF Selectable, Claimable, Wanted, Locked, Status, Pc
<1>2. BindingInv'
    BY QueueAssumption DEF Selectable, Claimable, Wanted, BindingInv, Holds
<1>3. DistinctInv'
    BY BackendAssumption DEF Selectable, Claimable, Wanted, Locked, DistinctInv,
       Holds, BindingInv, Busy, SelectedInv, BusyInv, RowInv, OwnerInv,
       Executes, SingleInv, Live, Status, Pc, GivenUpWhenExhausted
<1>4. /\ SingleInv'
      /\ SelectedInv'
      /\ BusyInv'
      /\ RowInv'
      /\ OneRowInv'
      /\ OwnerInv'
      /\ GivenUpWhenExhausted'
      /\ DoneMeansDelivered'
    BY DEF SingleInv, Live, Selectable, Claimable, Wanted, Locked, SelectedInv,
       BusyInv, Busy, RowInv, Executes, OneRowInv, OwnerInv,
       GivenUpWhenExhausted, DoneMeansDelivered
<1>5. QED
  BY <1>1, <1>2, <1>3, <1>4

\* A claim makes the selected row the thread's own and counts an attempt.
LEMMA ClaimInv ==
  ASSUME IInv, NEW w \in Worker,
         Claim(w)
  PROVE  IInv'
<1> USE DEF IInv, TypeOK, Claim, WriteClaim, Goto, faults
<1>1. TypeOK'
    BY ClaimCounts, QueueAssumption DEF Status, Pc, BindingInv, Holds,
       DistinctInv, Busy, SelectedInv, BusyInv, RowInv, OwnerInv, Executes
<1>2. SelectedInv'
    BY ClaimCounts DEF SelectedInv, BindingInv, Holds, DistinctInv, Busy
<1>3. BusyInv'
    BY ClaimCounts, QueueAssumption DEF BusyInv, Busy, BindingInv, Holds,
       DistinctInv, SelectedInv, RowInv, OwnerInv, Executes
<1>4. RowInv'
    BY ClaimCounts DEF RowInv, Executes, Busy, BindingInv, Holds, DistinctInv,
       SelectedInv, BusyInv, OwnerInv, SingleInv, Live, Status, Pc,
       GivenUpWhenExhausted
<1>5. OneRowInv'
    BY ClaimCounts DEF OneRowInv, BindingInv, Holds, DistinctInv, Busy,
       SelectedInv, BusyInv, RowInv, OwnerInv, Executes
<1>6. /\ BindingInv'
      /\ DistinctInv'
      /\ SingleInv'
      /\ OwnerInv'
      /\ GivenUpWhenExhausted'
      /\ DoneMeansDelivered'
    BY DEF BindingInv, Holds, DistinctInv, SingleInv, Live, OwnerInv,
       Executes, Busy, GivenUpWhenExhausted, DoneMeansDelivered
<1>7. QED
  BY <1>1, <1>2, <1>3, <1>4, <1>5, <1>6

\* A claim whose commit took effect and whose thread died.
LEMMA ClaimLostInv ==
  ASSUME IInv, NEW w \in Worker,
         pc[w] = "selected",
         WriteClaim(w),
         Release(w, "lost"),
         DbError
  PROVE  IInv'
<1> USE DEF IInv, TypeOK, WriteClaim, Release, Goto, DbError
<1>1. TypeOK'
    BY ClaimCounts, QueueAssumption DEF Status, Pc
<1>2. SelectedInv'
    BY ClaimCounts DEF SelectedInv, BindingInv, Holds, DistinctInv, Busy
<1>3. BusyInv'
    BY ClaimCounts DEF BusyInv, Busy, BindingInv, Holds, DistinctInv
<1>4. RowInv'
    BY ClaimCounts DEF RowInv, Executes, Busy, BindingInv, Holds, DistinctInv,
       SelectedInv, BusyInv, OwnerInv, SingleInv, Live, Status, Pc,
       GivenUpWhenExhausted
<1>5. OneRowInv'
    BY ClaimCounts DEF OneRowInv, BindingInv, Holds, DistinctInv, Busy,
       SelectedInv, BusyInv, RowInv, OwnerInv, Executes
<1>6. /\ BindingInv'
      /\ DistinctInv'
      /\ SingleInv'
      /\ OwnerInv'
      /\ GivenUpWhenExhausted'
      /\ DoneMeansDelivered'
    BY DEF BindingInv, Holds, DistinctInv, SingleInv, Live, OwnerInv,
       Executes, Busy, GivenUpWhenExhausted, DoneMeansDelivered
<1>7. QED
  BY <1>1, <1>2, <1>3, <1>4, <1>5, <1>6

\* A row of an unknown task is given up by its thread only.
LEMMA RejectInv ==
  ASSUME IInv, NEW w \in Worker,
         NEW p \in {"poll", "lost"},
         pc[w] = "running",
         kind[cur[w]] \notin Handled,
         status' = [status EXCEPT ![cur[w]] = "failed"],
         Release(w, p),
         UNCHANGED <<kind, attempts, backoff, owner, effects>>,
         stopping' = stopping,
         kills' = kills,
         dbErrors' \in 0..MaxDbErrors,
         dbErrors' >= dbErrors
  PROVE  IInv'
<1> USE DEF IInv, TypeOK, Release, Goto
<1>1. TypeOK'
    BY QueueAssumption DEF Status, Pc, BindingInv, Holds
<1>2. SelectedInv'
    BY DEF SelectedInv, BindingInv, Holds, DistinctInv, Busy
<1>3. RowInv'
    BY DEF RowInv, Executes, Busy, BindingInv, Holds, DistinctInv,
       SelectedInv, BusyInv
<1>4. /\ BindingInv'
      /\ DistinctInv'
      /\ SingleInv'
      /\ BusyInv'
      /\ OneRowInv'
      /\ OwnerInv'
      /\ GivenUpWhenExhausted'
      /\ DoneMeansDelivered'
    BY DEF BindingInv, Holds, DistinctInv, SingleInv, Live, BusyInv, Busy,
       OneRowInv, OwnerInv, Executes, GivenUpWhenExhausted, DoneMeansDelivered
<1>5. QED
  BY <1>1, <1>2, <1>3, <1>4

\* A handler that returns has made its call, or swallowed its failure.
LEMMA HandlerReturnsInv ==
  ASSUME IInv, NEW w \in Worker,
         HandlerReturns(w)
  PROVE  IInv'
<1> USE DEF IInv, TypeOK, HandlerReturns, RunHandler, Swallows, Goto, faults
<1>1. TypeOK'
    BY QueueAssumption DEF Status, Pc, BindingInv, Holds, DistinctInv, Busy,
       SelectedInv, BusyInv
<1>2. BusyInv'
    BY DEF BusyInv, Busy, BindingInv, Holds
<1>3. RowInv'
    BY DEF RowInv, Executes, Busy, BindingInv, Holds, DistinctInv,
       SelectedInv, BusyInv
<1>4. /\ BindingInv'
      /\ DistinctInv'
      /\ SingleInv'
      /\ SelectedInv'
      /\ OneRowInv'
      /\ OwnerInv'
      /\ GivenUpWhenExhausted'
      /\ DoneMeansDelivered'
    BY DEF BindingInv, Holds, DistinctInv, SingleInv, Live, SelectedInv,
       OneRowInv, OwnerInv, Executes, Busy, GivenUpWhenExhausted,
       DoneMeansDelivered
<1>5. QED
  BY <1>1, <1>2, <1>3, <1>4

\* A handler that raises has made one call at most.
LEMMA HandlerRaisesInv ==
  ASSUME IInv, NEW w \in Worker,
         HandlerRaises(w)
  PROVE  IInv'
<1> USE DEF IInv, TypeOK, HandlerRaises, RunHandler, Goto, faults
<1>1. TypeOK'
    BY QueueAssumption DEF Status, Pc, BindingInv, Holds, DistinctInv, Busy,
       SelectedInv, BusyInv
<1>2. RowInv'
    BY DEF RowInv, Executes, Busy, BindingInv, Holds, DistinctInv,
       SelectedInv, BusyInv
<1>3. /\ BindingInv'
      /\ DistinctInv'
      /\ SingleInv'
      /\ SelectedInv'
      /\ BusyInv'
      /\ OneRowInv'
      /\ OwnerInv'
      /\ GivenUpWhenExhausted'
      /\ DoneMeansDelivered'
    BY DEF BindingInv, Holds, DistinctInv, SingleInv, Live, SelectedInv,
       BusyInv, Busy, OneRowInv, OwnerInv, Executes, GivenUpWhenExhausted,
       DoneMeansDelivered
<1>4. QED
  BY <1>1, <1>2, <1>3

\* A row that is marked done was the thread's own.
LEMMA CompleteInv ==
  ASSUME IInv, NEW w \in Worker,
         Complete(w)
  PROVE  IInv'
<1> USE DEF IInv, TypeOK, Complete, MarkDone, Release, Goto, faults
<1>1. TypeOK'
    BY QueueAssumption DEF Status, Pc, BindingInv, Holds
<1>2. SelectedInv'
    BY DEF SelectedInv, BindingInv, Holds, DistinctInv, Busy
<1>3. RowInv'
    BY DEF RowInv, Executes, Busy, BindingInv, Holds, DistinctInv,
       SelectedInv, BusyInv, OwnerInv
<1>4. DoneMeansDelivered'
    BY DEF DoneMeansDelivered, BindingInv, Holds, DistinctInv, Busy,
       SelectedInv, BusyInv
<1>5. /\ BindingInv'
      /\ DistinctInv'
      /\ SingleInv'
      /\ BusyInv'
      /\ OneRowInv'
      /\ OwnerInv'
      /\ GivenUpWhenExhausted'
    BY DEF BindingInv, Holds, DistinctInv, SingleInv, Live, BusyInv, Busy,
       OneRowInv, OwnerInv, Executes, GivenUpWhenExhausted
<1>6. QED
  BY <1>1, <1>2, <1>3, <1>4, <1>5

\* An unacknowledged "done" stays in the hands of its thread.
LEMMA CompleteRaisesInv ==
  ASSUME IInv, NEW w \in Worker,
         CompleteRaises(w)
  PROVE  IInv'
<1> USE DEF IInv, TypeOK, CompleteRaises, DbError, MarkDone, Goto
<1>1. TypeOK'
    BY QueueAssumption DEF Status, Pc
<1>2. SelectedInv'
    BY DEF SelectedInv, BindingInv, Holds, DistinctInv, Busy
<1>3. BusyInv'
    BY DEF BusyInv, Busy, BindingInv, Holds
<1>4. RowInv'
    BY DEF RowInv, Executes, Busy, BindingInv, Holds, DistinctInv,
       SelectedInv, BusyInv
<1>5. DoneMeansDelivered'
    BY DEF DoneMeansDelivered, BindingInv, Holds, DistinctInv, Busy,
       SelectedInv, BusyInv, RowInv, OwnerInv, Executes, SingleInv, Live,
       Status, Pc, GivenUpWhenExhausted
<1>6. /\ BindingInv'
      /\ DistinctInv'
      /\ SingleInv'
      /\ OneRowInv'
      /\ OwnerInv'
      /\ GivenUpWhenExhausted'
    BY DEF BindingInv, Holds, DistinctInv, SingleInv, Live, OneRowInv,
       OwnerInv, Executes, Busy, GivenUpWhenExhausted
<1>7. QED
  BY <1>1, <1>2, <1>3, <1>4, <1>5, <1>6

\* A thread ends between two jobs and holds no row.
LEMMA RetireInv ==
  ASSUME IInv, NEW w \in Worker,
         Retire(w)
  PROVE  IInv'
<1> USE DEF IInv, TypeOK, Retire, StopPoints, Release, Goto, rows,
           faults
<1>1. TypeOK'
    BY QueueAssumption DEF Status, Pc
<1>2. /\ BindingInv'
      /\ DistinctInv'
      /\ SingleInv'
      /\ SelectedInv'
      /\ BusyInv'
      /\ RowInv'
      /\ OneRowInv'
      /\ OwnerInv'
      /\ GivenUpWhenExhausted'
      /\ DoneMeansDelivered'
    BY DEF BindingInv, Holds, DistinctInv, SingleInv, Live, SelectedInv,
       BusyInv, Busy, RowInv, Executes, OneRowInv, OwnerInv,
       GivenUpWhenExhausted, DoneMeansDelivered
<1>3. QED
  BY <1>1, <1>2

\* A started thread holds no row.
LEMMA StartInv ==
  ASSUME IInv, NEW w \in Worker,
         Start(w)
  PROVE  IInv'
<1> USE DEF IInv, TypeOK, Start, MayStart, Goto, rows, faults
<1>1. TypeOK'
    BY DEF Status, Pc
<1>2. /\ BindingInv'
      /\ DistinctInv'
      /\ SingleInv'
      /\ SelectedInv'
      /\ BusyInv'
      /\ RowInv'
      /\ OneRowInv'
      /\ OwnerInv'
      /\ GivenUpWhenExhausted'
      /\ DoneMeansDelivered'
    BY DEF BindingInv, Holds, DistinctInv, SingleInv, Live, SelectedInv,
       BusyInv, Busy, RowInv, Executes, OneRowInv, OwnerInv,
       GivenUpWhenExhausted, DoneMeansDelivered
<1>3. QED
  BY <1>1, <1>2

\* Asking a thread to stop takes no row from it.
LEMMA StopInv ==
  ASSUME IInv, NEW w \in Worker,
         Stop(w)
  PROVE  IInv'
<1> USE DEF IInv, TypeOK, Stop, rows, threads
<1>1. TypeOK'
    BY DEF Status, Pc
<1>2. /\ BindingInv'
      /\ DistinctInv'
      /\ SingleInv'
      /\ SelectedInv'
      /\ BusyInv'
      /\ RowInv'
      /\ OneRowInv'
      /\ OwnerInv'
      /\ GivenUpWhenExhausted'
      /\ DoneMeansDelivered'
    BY DEF BindingInv, Holds, DistinctInv, SingleInv, Live, SelectedInv,
       BusyInv, Busy, RowInv, Executes, OneRowInv, OwnerInv,
       GivenUpWhenExhausted, DoneMeansDelivered
<1>3. QED
  BY <1>1, <1>2

\* Every step keeps the invariant.
LEMMA NextInv == IInv /\ [Next]_vars => IInv'
<1> SUFFICES ASSUME IInv, [Next]_vars PROVE IInv'
  OBVIOUS
<1>1. ASSUME NEW j \in Job, NEW t \in Task, Enqueue(j, t) PROVE IInv'
  BY <1>1, EnqueueInv
<1>2. ASSUME NEW j \in Job, BackoffElapses(j) PROVE IInv'
  BY <1>2, BackoffElapsesInv
<1>3. ASSUME NEW w \in Worker, WorkerStep(w) PROVE IInv'
  <2>1. CASE Select(w) BY <2>1, SelectInv
  <2>2. CASE Claim(w) BY <2>2, ClaimInv
  <2>3. CASE RejectUnknown(w)
    <3>1. /\ pc[w] = "running" /\ kind[cur[w]] \notin Handled
          /\ status' = [status EXCEPT ![cur[w]] = "failed"]
          /\ Release(w, "poll")
          /\ UNCHANGED <<kind, attempts, backoff, owner, effects>>
          /\ UNCHANGED <<stopping, kills, dbErrors>>
      BY <2>3 DEF RejectUnknown, faults
    <3>2. dbErrors' \in 0..MaxDbErrors /\ dbErrors' >= dbErrors
      BY <3>1, QueueAssumption DEF IInv, TypeOK
    <3>3. QED BY <3>1, <3>2, RejectInv
  <2>4. CASE HandlerReturns(w) BY <2>4, HandlerReturnsInv
  <2>5. CASE HandlerRaises(w) BY <2>5, HandlerRaisesInv
  <2>6. CASE Complete(w) BY <2>6, CompleteInv
  <2>7. CASE Fail(w)
    BY <2>7, FailureInv DEF Fail, faults, IInv, TypeOK
  <2>8. CASE Retire(w) BY <2>8, RetireInv
  <2>9. QED
    BY <1>3, <2>1, <2>2, <2>3, <2>4, <2>5, <2>6, <2>7, <2>8 DEF WorkerStep
<1>4. ASSUME NEW w \in Worker, Start(w) PROVE IInv'
  BY <1>4, StartInv
<1>5. ASSUME NEW w \in Worker, Stop(w) PROVE IInv'
  BY <1>5, StopInv
<1>6. ASSUME NEW w \in Worker, Fault(w) PROVE IInv'
  <2> USE QueueAssumption
  <2>1. CASE ClaimRaises(w)
    <3>1. CASE UNCHANGED rows
      BY <2>1, <3>1, LossInv DEF ClaimRaises, DbError, Live, IInv, TypeOK
    <3>2. CASE pc[w] = "selected" /\ WriteClaim(w)
      BY <2>1, <3>2, ClaimLostInv DEF ClaimRaises
    <3>3. QED BY <2>1, <3>1, <3>2 DEF ClaimRaises
  <2>2. CASE RejectRaises(w)
    <3>1. CASE UNCHANGED status
      BY <2>2, <3>1, LossInv DEF RejectRaises, DbError, Live, rows, IInv, TypeOK
    <3>2. CASE status' = [status EXCEPT ![cur[w]] = "failed"]
      <4>1. /\ pc[w] = "running" /\ kind[cur[w]] \notin Handled
            /\ Release(w, "lost")
            /\ UNCHANGED <<kind, attempts, backoff, owner, effects>>
            /\ UNCHANGED <<stopping, kills>>
            /\ dbErrors' = dbErrors + 1
        BY <2>2 DEF RejectRaises, DbError
      <4>2. dbErrors' \in 0..MaxDbErrors /\ dbErrors' >= dbErrors
        BY <2>2, QueueAssumption DEF RejectRaises, DbError, IInv, TypeOK
      <4>3. QED BY <3>2, <4>1, <4>2, RejectInv
    <3>3. QED BY <2>2, <3>1, <3>2 DEF RejectRaises
  <2>3. CASE CompleteRaises(w) BY <2>3, CompleteRaisesInv
  <2>4. CASE FailRaises(w)
    <3>1. CASE UNCHANGED rows
      BY <2>4, <3>1, LossInv DEF FailRaises, DbError, Live, IInv, TypeOK
    <3>2. CASE WriteFailure(w)
      BY <2>4, <3>2, FailureInv DEF FailRaises, DbError, IInv, TypeOK
    <3>3. QED BY <2>4, <3>1, <3>2 DEF FailRaises
  <2>5. CASE Kill(w)
    BY <2>5, LossInv DEF Kill, IInv, TypeOK
  <2>6. QED BY <1>6, <2>1, <2>2, <2>3, <2>4, <2>5 DEF Fault
<1>7. CASE UNCHANGED vars
  BY <1>7 DEF vars, rows, threads, faults, IInv, TypeOK, BindingInv, DistinctInv,
     SingleInv, SelectedInv, BusyInv, RowInv, OneRowInv, OwnerInv,
     GivenUpWhenExhausted, DoneMeansDelivered, Holds, Busy, Live, Executes
<1>8. QED
  BY <1>1, <1>2, <1>3, <1>4, <1>5, <1>6, <1>7 DEF Next

\* IInv holds for any number of threads, rows and faults.
THEOREM Invariance == Spec => []IInv
BY InitInv, NextInv, PTL DEF Spec

-----------------------------------------------------------------------------
(* The properties of the queue.                                            *)

\* Every variable keeps its type, so attempts stays within max_attempts.
THEOREM TypeCorrect == Spec => []TypeOK
<1>1. IInv => TypeOK BY DEF IInv
<1>2. QED BY <1>1, Invariance, PTL

\* No row is executed by two threads at the same time, with any number of
\* threads on PostgreSQL and with one per service on SQLite.
THEOREM Exclusive == Spec => []ExclusiveExecution
<1>1. IInv => ExclusiveExecution
  BY DEF IInv, DistinctInv, ExclusiveExecution, Holds, Busy
<1>2. QED BY <1>1, Invariance, PTL

\* The row a thread executes stays its own, so the unguarded writes of
\* complete_job and fail_job never overwrite the work of another thread.
THEOREM ClaimSafe == Spec => []ClaimIsHeld
<1>1. IInv => ClaimIsHeld
  BY DEF IInv, BusyInv, ClaimIsHeld
<1>2. QED BY <1>1, Invariance, PTL

\* A row is stuck in "processing" only if its thread died, one row per thread.
THEOREM FaultContained == Spec => []FaultStrandsOne
<1>1. IInv => FaultStrandsOne
  BY DEF IInv, RowInv, OneRowInv, FaultStrandsOne
<1>2. QED BY <1>1, Invariance, PTL

\* The external system is called at most once per claim of a row.
THEOREM BoundedEffects == Spec => []EffectsWithinAttempts
<1>1. IInv => EffectsWithinAttempts
  BY QueueAssumption DEF IInv, TypeOK, RowInv, EffectsWithinAttempts
<1>2. QED BY <1>1, Invariance, PTL

\* A known task fails only after max_attempts claims.
THEOREM RetriedToTheEnd == Spec => []GivenUpWhenExhausted
<1>1. IInv => GivenUpWhenExhausted
  BY DEF IInv
<1>2. QED BY <1>1, Invariance, PTL

\* What is "done" was seen by the external system unless its handler swallows
\* failures.
THEOREM DoneIsTrue == Spec => []DoneMeansDelivered
<1>1. IInv => DoneMeansDelivered
  BY DEF IInv
<1>2. QED BY <1>1, Invariance, PTL

-----------------------------------------------------------------------------
(* The refinement: the rows and threads implement JobLifecycle, so what    *)
(* the code that enqueues a job may rely on holds for every instance.      *)

\* Phase without the CASE: absent, pending, in a thread's hands, or settled.
LEMMA PhaseCases ==
  ASSUME NEW j \in Job
  PROVE  /\ status[j] = "absent" => Phase(j) = "new"
         /\ status[j] = "pending" => Phase(j) = "waiting"
         /\ status[j] = "processing" => Phase(j) = "running"
         /\ status[j] = "done" /\ Raised(j) => Phase(j) = "running"
         /\ status[j] = "done" /\ ~Raised(j) => Phase(j) = "settled"
         /\ status[j] = "failed" => Phase(j) = "settled"
BY DEF Phase

\* The phase of a row after a step, by its status.
LEMMA NextPhaseCases ==
  ASSUME NEW j \in Job
  PROVE  /\ status'[j] = "pending" => Phase(j)' = "waiting"
         /\ status'[j] = "processing" => Phase(j)' = "running"
         /\ status'[j] = "done" /\ Raised(j)' => Phase(j)' = "running"
         /\ status'[j] = "done" /\ ~Raised(j)' => Phase(j)' = "settled"
         /\ status'[j] = "failed" => Phase(j)' = "settled"
BY DEF Phase

\* A thread that goes to p and keeps or drops its row moves no other job.
LEMMA OthersKeep ==
  ASSUME IInv, NEW w \in Worker, NEW p, pc' = [pc EXCEPT ![w] = p],
         cur' = cur \/ cur' = [cur EXCEPT ![w] = None],
         NEW k \in Job, k # cur[w], status'[k] = status[k]
  PROVE  Phase(k)' = Phase(k)
<1>1. Raised(k)' <=> Raised(k)
  BY QueueAssumption DEF Raised, IInv, TypeOK
<1>2. QED BY <1>1 DEF Phase

\* Once the thread of a row has let go of it, nobody is about to fail it.
LEMMA NobodyRaised ==
  ASSUME IInv, NEW w \in Worker, Holds(w), NEW p \in {"poll", "lost", "running", "finish"},
         pc' = [pc EXCEPT ![w] = p],
         cur' = cur \/ cur' = [cur EXCEPT ![w] = None],
         NEW j \in Job, j = cur[w]
  PROVE  ~Raised(j)'
BY DEF Raised, IInv, TypeOK, DistinctInv, Holds

\* The row of a thread, and what it looks like to the caller of the queue.
LEMMA HeldRow ==
  ASSUME IInv, NEW w \in Worker, Holds(w)
  PROVE  /\ cur[w] \in Job
         /\ Phase(cur[w]) = IF pc[w] = "selected" THEN "waiting" ELSE "running"
<1>1. cur[w] \in Job BY DEF IInv, TypeOK, BindingInv
<1>2. CASE pc[w] = "selected"
  BY <1>1, <1>2, PhaseCases DEF IInv, SelectedInv
<1>3. CASE Busy(w)
  <2>1. \/ status[cur[w]] = "processing"
        \/ status[cur[w]] = "done" /\ Raised(cur[w])
    BY <1>3 DEF IInv, BusyInv, Raised
  <2>2. QED BY <1>1, <1>3, <2>1, PhaseCases DEF Busy, IInv
<1>4. QED BY <1>1, <1>2, <1>3 DEF Holds, Busy

\* One job moves and the others keep their phase.
LEMMA MoveOf ==
  ASSUME NEW j \in Job, NEW from, NEW to, Phase(j) = from, Phase(j)' = to,
         \A k \in Job : k # j => Phase(k)' = Phase(k)
  PROVE  Promise!Move(j, from, to)
BY DEF Promise!Move

\* No job moves, no call is made.
LEMMA StutterOf ==
  ASSUME \A k \in Job : Phase(k)' = Phase(k), attempts' = attempts, effects' = effects
  PROVE  [Promise!Next]_Promise!lifecycle
BY DEF Promise!lifecycle

-----------------------------------------------------------------------------
(* One lemma per way a row changes hands.                                  *)

\* A thread lets go of its row, with the row as it is.
LEMMA LossStep ==
  ASSUME IInv, NEW w \in Worker, Release(w, "lost"), UNCHANGED rows
  PROVE  [Promise!Next]_Promise!lifecycle
<1>1. \A k \in Job : k # cur[w] => Phase(k)' = Phase(k)
  BY OthersKeep DEF Release, Goto, rows
<1>2. CASE ~Holds(w)
  <2>1. cur[w] \notin Job
    BY <1>2, QueueAssumption DEF IInv, BindingInv
  <2>2. QED BY <1>1, <2>1, StutterOf DEF rows
<1>3. CASE Holds(w)
  <2>1. PICK j \in Job : j = cur[w]
    BY <1>3, HeldRow
  <2>2. ~Raised(j)'
    BY <1>3, <2>1, NobodyRaised DEF Release, Goto
  <2>3. CASE status[j] = "done"
    <3>1. Phase(j) = "running" /\ Phase(j)' = "settled"
      BY <1>3, <2>1, <2>2, <2>3, HeldRow, NextPhaseCases DEF IInv, SelectedInv, rows
    <3>2. Promise!Move(j, "running", "settled")
      BY <1>1, <2>1, <3>1, MoveOf
    <3>3. QED BY <3>2 DEF Promise!Next, Promise!Settle, rows
  <2>4. CASE status[j] # "done"
    <3>1. status[j] \in {"pending", "processing"}
      BY <1>3, <2>1, <2>4 DEF IInv, SelectedInv, BusyInv, Holds, Busy
    <3>2. Phase(j)' = Phase(j)
      BY <3>1, PhaseCases, NextPhaseCases DEF rows
    <3>3. QED BY <1>1, <2>1, <3>2, StutterOf DEF rows
  <2>5. QED BY <2>3, <2>4
<1>4. QED BY <1>2, <1>3

\* fail_job: the job waits again, or settles.
LEMMA FailureStep ==
  ASSUME IInv, NEW w \in Worker, NEW p \in {"poll", "lost"}, pc[w] = "raised",
         WriteFailure(w), Release(w, p)
  PROVE  [Promise!Next]_Promise!lifecycle
<1>1. PICK j \in Job : j = cur[w]
  BY HeldRow DEF Holds
<1>2. /\ attempts' = attempts /\ effects' = effects
      /\ \A k \in Job : k # j => status'[k] = status[k]
      /\ MayRetry(j) => status'[j] = "pending"
      /\ ~MayRetry(j) => status'[j] = "failed"
  BY <1>1 DEF WriteFailure, RetryStatus, IInv, TypeOK
<1>3. \A k \in Job : k # j => Phase(k)' = Phase(k)
  BY <1>1, <1>2, OthersKeep DEF Release, Goto
<1>4. Phase(j) = "running"
  BY <1>1, HeldRow DEF Holds
<1>5. CASE MayRetry(j)
  <2>1. Promise!Move(j, "running", "waiting")
    BY <1>2, <1>3, <1>4, <1>5, NextPhaseCases, MoveOf
  <2>2. QED BY <1>2, <1>5, <2>1 DEF MayRetry, Promise!Next, Promise!Retry
<1>6. CASE ~MayRetry(j)
  <2>1. Promise!Move(j, "running", "settled")
    BY <1>2, <1>3, <1>4, <1>6, NextPhaseCases, MoveOf
  <2>2. QED BY <1>2, <2>1 DEF Promise!Next, Promise!Settle
<1>7. QED BY <1>5, <1>6

\* The claim of a row, by a thread that goes on or dies: one more run begins.
LEMMA ClaimStep ==
  ASSUME IInv, NEW w \in Worker, NEW p \in {"running", "lost"}, pc[w] = "selected",
         WriteClaim(w), Goto(w, p), cur' = cur \/ cur' = [cur EXCEPT ![w] = None]
  PROVE  [Promise!Next]_Promise!lifecycle
<1>1. PICK j \in Job : j = cur[w]
  BY HeldRow DEF Holds
<1>2. /\ attempts[j] < MaxAttempts
      /\ attempts' = [attempts EXCEPT ![j] = @ + 1]
      /\ effects' = effects
      /\ status'[j] = "processing"
      /\ \A k \in Job : k # j => status'[k] = status[k]
  BY <1>1, ClaimCounts DEF WriteClaim, IInv, TypeOK
<1>3. \A k \in Job : k # j => Phase(k)' = Phase(k)
  BY <1>1, <1>2, OthersKeep DEF Goto
<1>4. Phase(j) = "waiting" /\ Phase(j)' = "running"
  BY <1>1, <1>2, HeldRow, NextPhaseCases DEF Holds
<1>5. Promise!Move(j, "waiting", "running")
  BY <1>3, <1>4, MoveOf
<1>6. QED BY <1>2, <1>5 DEF Promise!Next, Promise!Begin

\* The row gets a final status and its thread lets go of it.
LEMMA SettleStep ==
  ASSUME IInv, NEW w \in Worker, NEW p \in {"poll", "lost"}, Busy(w),
         NEW final \in {"done", "failed"},
         status' = [status EXCEPT ![cur[w]] = final], Release(w, p),
         attempts' = attempts, effects' = effects
  PROVE  [Promise!Next]_Promise!lifecycle
<1>1. PICK j \in Job : j = cur[w]
  BY HeldRow DEF Holds, Busy
<1>2. status'[j] = final /\ \A k \in Job : k # j => status'[k] = status[k]
  BY <1>1 DEF IInv, TypeOK
<1>3. \A k \in Job : k # j => Phase(k)' = Phase(k)
  BY <1>1, <1>2, OthersKeep DEF Release, Goto
<1>4. ~Raised(j)'
  BY <1>1, NobodyRaised DEF Release, Goto, Holds, Busy
<1>5. Phase(j) = "running" /\ Phase(j)' = "settled"
  BY <1>1, <1>2, <1>4, HeldRow, NextPhaseCases DEF Holds, Busy
<1>6. Promise!Move(j, "running", "settled")
  BY <1>3, <1>5, MoveOf
<1>7. QED BY <1>6 DEF Promise!Next, Promise!Settle

\* The handler makes its call, or none, and returns or raises.
LEMMA HandlerStep ==
  ASSUME IInv, NEW w \in Worker, NEW calls \in {0, 1}, RunHandler(w, calls),
         NEW p \in {"finish", "raised"}, Goto(w, p)
  PROVE  [Promise!Next]_Promise!lifecycle
<1>1. PICK j \in Job : j = cur[w]
  BY HeldRow DEF RunHandler, Holds
<1>2. /\ attempts' = attempts /\ status' = status /\ cur' = cur
      /\ effects' = [effects EXCEPT ![j] = @ + calls]
      /\ status[j] = "processing" /\ effects[j] < attempts[j]
  BY <1>1 DEF RunHandler, IInv, BusyInv, Busy
<1>3. \A k \in Job : Phase(k)' = Phase(k)
  <2>1. \A k \in Job : k # j => Phase(k)' = Phase(k)
    BY <1>1, <1>2, OthersKeep DEF Goto
  <2>2. Phase(j)' = Phase(j)
    BY <1>2, PhaseCases, NextPhaseCases
  <2>3. QED BY <2>1, <2>2
<1>4. CASE calls = 0
  <2>1. effects' = effects
    BY <1>2, <1>4 DEF IInv, TypeOK
  <2>2. QED BY <1>2, <1>3, <2>1, StutterOf
<1>5. CASE calls = 1
  <2>1. Promise!Call(j)
    BY <1>2, <1>3, <1>5, PhaseCases DEF Promise!Call
  <2>2. QED BY <2>1 DEF Promise!Next
<1>6. QED BY <1>4, <1>5

\* The commit of "done" may have taken effect: the thread still has the row.
LEMMA CompleteRaisesStep ==
  ASSUME IInv, NEW w \in Worker, CompleteRaises(w)
  PROVE  [Promise!Next]_Promise!lifecycle
<1>1. PICK j \in Job : j = cur[w]
  BY HeldRow DEF CompleteRaises, Holds
<1>2. /\ attempts' = attempts /\ effects' = effects /\ cur' = cur
      /\ pc' = [pc EXCEPT ![w] = "raised"]
      /\ status'[j] \in {"processing", "done"}
      /\ \A k \in Job : k # j => status'[k] = status[k]
  BY <1>1 DEF CompleteRaises, MarkDone, Goto, IInv, TypeOK, BusyInv, Busy
<1>3. \A k \in Job : k # j => Phase(k)' = Phase(k)
  BY <1>1, <1>2, OthersKeep
<1>4. Raised(j)'
  BY <1>1, <1>2 DEF Raised, IInv, TypeOK
<1>5. Phase(j) = "running" /\ Phase(j)' = "running"
  BY <1>1, <1>2, <1>4, HeldRow, NextPhaseCases DEF CompleteRaises, Holds
<1>6. QED BY <1>2, <1>3, <1>5, StutterOf

\* Steps that write no status and touch no thread that is about to fail a row.
LEMMA IdleStep ==
  ASSUME status' = status, attempts' = attempts, effects' = effects,
         \A j \in Job : Raised(j)' <=> Raised(j)
  PROVE  [Promise!Next]_Promise!lifecycle
<1>1. \A k \in Job : Phase(k)' = Phase(k)
  BY DEF Phase
<1>2. QED BY <1>1, StutterOf

\* A new row is a submitted job.
LEMMA EnqueueStep ==
  ASSUME IInv, NEW j \in Job, NEW t \in Task, Enqueue(j, t)
  PROVE  [Promise!Next]_Promise!lifecycle
<1>1. /\ status[j] = "absent" /\ status'[j] = "pending"
      /\ attempts' = attempts /\ effects' = effects /\ pc' = pc /\ cur' = cur
      /\ \A k \in Job : k # j => status'[k] = status[k]
  BY DEF Enqueue, threads, IInv, TypeOK
<1>2. \A k \in Job : k # j => Phase(k)' = Phase(k)
  BY <1>1 DEF Phase, Raised
<1>3. Promise!Move(j, "new", "waiting")
  BY <1>1, <1>2, PhaseCases, NextPhaseCases, MoveOf
<1>4. QED BY <1>1, <1>3 DEF Promise!Next, Promise!Submit

\* What threads do before they claim is not seen by the callers.
LEMMA ThreadStep ==
  ASSUME IInv, NEW w \in Worker, Select(w) \/ Start(w) \/ Stop(w) \/ Retire(w)
  PROVE  [Promise!Next]_Promise!lifecycle
<1>1. status' = status /\ attempts' = attempts /\ effects' = effects
  BY DEF Select, Start, Stop, Retire, StopPoints, Release, rows
<1>2. \A j \in Job : Raised(j)' <=> Raised(j)
  BY DEF Select, Start, Stop, Retire, StopPoints, Release, Goto, threads, Raised, IInv, TypeOK
<1>3. QED BY <1>1, <1>2, IdleStep

-----------------------------------------------------------------------------
\* Every step is one of the life cycle, or none.
LEMMA NextStep == IInv /\ [Next]_vars => [Promise!Next]_Promise!lifecycle
<1> SUFFICES ASSUME IInv, [Next]_vars PROVE [Promise!Next]_Promise!lifecycle
  OBVIOUS
<1>1. ASSUME NEW j \in Job, NEW t \in Task, Enqueue(j, t)
      PROVE  [Promise!Next]_Promise!lifecycle
  BY <1>1, EnqueueStep
<1>2. ASSUME NEW j \in Job, BackoffElapses(j)
      PROVE  [Promise!Next]_Promise!lifecycle
  BY <1>2, IdleStep DEF BackoffElapses, threads, Raised
<1>3. ASSUME NEW w \in Worker, WorkerStep(w)
      PROVE  [Promise!Next]_Promise!lifecycle
  <2>1. CASE Select(w) \/ Retire(w) BY <2>1, ThreadStep
  <2>2. CASE Claim(w)
    BY <2>2, ClaimStep DEF Claim
  <2>3. CASE RejectUnknown(w)
    BY <2>3, SettleStep DEF RejectUnknown, Busy
  <2>4. CASE HandlerReturns(w) BY <2>4, HandlerStep DEF HandlerReturns
  <2>5. CASE HandlerRaises(w) BY <2>5, HandlerStep DEF HandlerRaises
  <2>6. CASE Complete(w)
    BY <2>6, SettleStep DEF Complete, MarkDone, Busy
  <2>7. CASE Fail(w) BY <2>7, FailureStep DEF Fail
  <2>8. QED
    BY <1>3, <2>1, <2>2, <2>3, <2>4, <2>5, <2>6, <2>7 DEF WorkerStep
<1>4. ASSUME NEW w \in Worker, Start(w) \/ Stop(w)
      PROVE  [Promise!Next]_Promise!lifecycle
  BY <1>4, ThreadStep
<1>5. ASSUME NEW w \in Worker, Fault(w)
      PROVE  [Promise!Next]_Promise!lifecycle
  <2>1. CASE ClaimRaises(w)
    <3>1. CASE UNCHANGED rows BY <2>1, <3>1, LossStep DEF ClaimRaises
    <3>2. CASE pc[w] = "selected" /\ WriteClaim(w)
      BY <2>1, <3>2, ClaimStep DEF ClaimRaises, Release
    <3>3. QED BY <2>1, <3>1, <3>2 DEF ClaimRaises
  <2>2. CASE RejectRaises(w)
    <3>1. CASE UNCHANGED status
      BY <2>2, <3>1, LossStep DEF RejectRaises, rows
    <3>2. CASE status' = [status EXCEPT ![cur[w]] = "failed"]
      BY <2>2, <3>2, SettleStep DEF RejectRaises, Busy
    <3>3. QED BY <2>2, <3>1, <3>2 DEF RejectRaises
  <2>3. CASE CompleteRaises(w) BY <2>3, CompleteRaisesStep
  <2>4. CASE FailRaises(w)
    <3>1. CASE UNCHANGED rows BY <2>4, <3>1, LossStep DEF FailRaises
    <3>2. CASE WriteFailure(w) BY <2>4, <3>2, FailureStep DEF FailRaises
    <3>3. QED BY <2>4, <3>1, <3>2 DEF FailRaises
  <2>5. CASE Kill(w) BY <2>5, LossStep DEF Kill
  <2>6. QED BY <1>5, <2>1, <2>2, <2>3, <2>4, <2>5 DEF Fault
<1>6. CASE UNCHANGED vars
  BY <1>6, IdleStep DEF vars, rows, threads, Raised
<1>7. QED BY <1>1, <1>2, <1>3, <1>4, <1>5, <1>6 DEF Next

\* Every behaviour of the rows and threads is a behaviour of the life cycle the
\* callers of the queue rely on: a job settles once, after at most max_attempts
\* runs, each with at most one call.
THEOREM Implements == Spec => ImplementsLifecycle
<1>1. Init => Promise!Init
  BY PhaseCases DEF Init, Promise!Init
<1>2. QED BY <1>1, NextStep, Invariance, PTL DEF Spec, ImplementsLifecycle, Promise!Spec
=============================================================================
