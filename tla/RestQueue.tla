------------------------------ MODULE RestQueue ------------------------------
(***************************************************************************)
(* The outgoing-call queue of pvs_tracker/rest_queue: rows of the table    *)
(* restqueuejob, the threads (ServiceWorker) that claim and execute them,  *)
(* and what can happen to such a thread: a graceful stop, being killed     *)
(* with its process, and an exception raised by the database.              *)
(*                                                                         *)
(* A worker is one ServiceWorker object, hence one-shot: a restart is the  *)
(* start of another element of Worker, with a worker_id of its own.        *)
(* Ids come from a sequence before the insert is committed, so rows may    *)
(* become visible in any order of their ids.                               *)
(***************************************************************************)
EXTENDS Integers, FiniteSets

CONSTANTS
  Worker,              \* ServiceWorker threads, over the life of the system
  Service,             \* jenkins, jira, tfs, webhook, smtp
  Task,                \* the task column
  Serves,              \* [Worker -> Service]: ServiceWorker.service
  ServiceOf,           \* [Task -> Service]: the service a task is queued for
  Handled,             \* the tasks HANDLERS knows
  BestEffort,          \* the tasks whose handler swallows a failed call
  Backend,             \* "postgres" or "sqlite"
  OneWorkerPerService, \* no two threads serve one service at the same time
  MaxJobs,             \* bound: rows ever inserted
  MaxAttempts,         \* the max_attempts column, the same for every row
  MaxStops,            \* bound: workers asked to stop
  MaxKills,            \* bound: workers killed with their process
  HardCrash,           \* a worker nobody asked to stop can be killed
  MaxDbErrors,         \* bound: exceptions raised by the database
  None                 \* no worker, no job, no task

Job == 1..MaxJobs

ASSUME QueueAssumption ==
  /\ Serves \in [Worker -> Service]
  /\ ServiceOf \in [Task -> Service]
  /\ Handled \subseteq Task
  /\ BestEffort \subseteq Handled
  /\ MaxJobs \in Nat
  /\ MaxAttempts \in Nat \ {0}
  /\ MaxStops \in Nat /\ MaxKills \in Nat /\ MaxDbErrors \in Nat
  /\ OneWorkerPerService \in BOOLEAN /\ HardCrash \in BOOLEAN
  /\ None \notin Worker /\ None \notin Task /\ None \notin Job

\* docs/rest-queue.md requires PostgreSQL as soon as several processes run.
ASSUME BackendAssumption ==
  /\ Backend \in {"postgres", "sqlite"}
  /\ Backend = "sqlite" => OneWorkerPerService

VARIABLES
  kind,      \* kind[j]: the task of row j
  status,    \* status[j], "absent" before the insert
  attempts,  \* attempts[j]
  backoff,   \* the rows whose available_at lies in the future
  owner,     \* owner[j]: the worker_id column
  effects,   \* history: how often the external system saw the call of row j
  pc,        \* where each thread is in run() and execute_job()
  cur,       \* the row a thread has selected or is executing
  seen,      \* the attempts a thread read with the row it selected
  stopping,  \* the threads whose _stop event is set
  kills,     \* counter for MaxKills
  dbErrors   \* counter for MaxDbErrors

rows    == <<kind, status, attempts, backoff, owner, effects>>
threads == <<pc, cur, seen>>
faults  == <<stopping, kills, dbErrors>>
vars    == <<rows, threads, faults>>

Status == {"absent", "pending", "processing", "done", "failed"}
\* "ended": run() returned; "lost": the thread died of an exception or a kill.
Pc == {"new", "poll", "selected", "running", "finish", "raised", "ended", "lost"}

Live(w)        == pc[w] \notin {"new", "ended", "lost"}
Busy(w)        == pc[w] \in {"running", "finish", "raised"}
Executes(w, j) == Busy(w) /\ cur[w] = j

Init ==
  /\ kind = [j \in Job |-> None]
  /\ status = [j \in Job |-> "absent"]
  /\ attempts = [j \in Job |-> 0]
  /\ backoff = {}
  /\ owner = [j \in Job |-> None]
  /\ effects = [j \in Job |-> 0]
  /\ pc = [w \in Worker |-> "new"]
  /\ cur = [w \in Worker |-> None]
  /\ seen = [w \in Worker |-> 0]
  /\ stopping = {}
  /\ kills = 0
  /\ dbErrors = 0

-----------------------------------------------------------------------------
(* enqueue_job, and the passing of the delay fail_job writes to available_at *)

Enqueue(j, t) ==
  /\ status[j] = "absent"
  /\ kind' = [kind EXCEPT ![j] = t]
  /\ status' = [status EXCEPT ![j] = "pending"]
  /\ UNCHANGED <<attempts, backoff, owner, effects, threads, faults>>

BackoffElapses(j) ==
  /\ j \in backoff
  /\ backoff' = backoff \ {j}
  /\ UNCHANGED <<kind, status, attempts, owner, effects, threads, faults>>

-----------------------------------------------------------------------------
(* claim_next_job. PostgreSQL locks the row it selects (FOR UPDATE SKIP    *)
(* LOCKED) until the commit; SQLite reads it and writes it back later.     *)

\* The status the SELECT asks for; its fault seeds take rows in progress, or
\* rows that were given up.
WantedWithStarted == {"pending", "processing"}
WantedWithFailed == {"pending", "failed"}
Wanted == {"pending"}

Claimable(s) ==
  {j \in Job : status[j] \in Wanted /\ ServiceOf[kind[j]] = s /\ j \notin backoff}

\* The rows another SELECT skips; seed: the SELECT locks nothing.
LockedByNobody == {}
Locked == IF Backend = "postgres"
          THEN {cur[w] : w \in {v \in Worker : pc[v] = "selected"}}
          ELSE {}

Selectable(s) == Claimable(s) \ Locked

Select(w) ==
  /\ pc[w] = "poll"
  /\ w \notin stopping
  /\ \E j \in Selectable(Serves[w]) :
       /\ \A k \in Selectable(Serves[w]) : j <= k
       /\ cur' = [cur EXCEPT ![w] = j]
       /\ seen' = [seen EXCEPT ![w] = attempts[j]]
  /\ pc' = [pc EXCEPT ![w] = "selected"]
  /\ UNCHANGED <<rows, faults>>

\* The attempts the claim writes: the row's own plus one in SQL, the value
\* read earlier plus one through the ORM; seed: a claim does not count.
ClaimedUncounted(w) == attempts[cur[w]]
ClaimedAttempts(w) ==
  (IF Backend = "postgres" THEN attempts[cur[w]] ELSE seen[w]) + 1

WriteClaim(w) ==
  /\ status' = [status EXCEPT ![cur[w]] = "processing"]
  /\ owner' = [owner EXCEPT ![cur[w]] = w]
  /\ attempts' = [attempts EXCEPT ![cur[w]] = ClaimedAttempts(w)]
  /\ UNCHANGED <<kind, backoff, effects>>

Goto(w, p) == pc' = [pc EXCEPT ![w] = p]

\* The thread lets go of its row: back to the loop, or dead.
Release(w, p) ==
  /\ Goto(w, p)
  /\ cur' = [cur EXCEPT ![w] = None]
  /\ seen' = [seen EXCEPT ![w] = 0]

Claim(w) ==
  /\ pc[w] = "selected"
  /\ WriteClaim(w)
  /\ Goto(w, "running")
  /\ seen' = [seen EXCEPT ![w] = 0]
  /\ UNCHANGED <<cur, faults>>

DbError ==
  /\ dbErrors < MaxDbErrors
  /\ dbErrors' = dbErrors + 1
  /\ UNCHANGED <<stopping, kills>>

\* run() catches nothing: an exception of claim_next_job ends the thread, with
\* its transaction rolled back or committed (the acknowledgement, or the read
\* after the commit, failed).
ClaimRaises(w) ==
  /\ DbError
  /\ \/ pc[w] \in {"poll", "selected"} /\ UNCHANGED rows
     \/ pc[w] = "selected" /\ WriteClaim(w)
  /\ Release(w, "lost")

-----------------------------------------------------------------------------
(* execute_job *)

RejectUnknown(w) ==
  /\ pc[w] = "running"
  /\ kind[cur[w]] \notin Handled
  /\ status' = [status EXCEPT ![cur[w]] = "failed"]
  /\ Release(w, "poll")
  /\ UNCHANGED <<kind, attempts, backoff, owner, effects, faults>>

RejectRaises(w) ==
  /\ pc[w] = "running"
  /\ kind[cur[w]] \notin Handled
  /\ DbError
  /\ \/ UNCHANGED status
     \/ status' = [status EXCEPT ![cur[w]] = "failed"]
  /\ Release(w, "lost")
  /\ UNCHANGED <<kind, attempts, backoff, owner, effects>>

RunHandler(w, calls) ==
  /\ pc[w] = "running"
  /\ kind[cur[w]] \in Handled
  /\ effects' = [effects EXCEPT ![cur[w]] = @ + calls]
  /\ UNCHANGED <<kind, status, attempts, backoff, owner, cur, seen, faults>>

\* Whether the handler of a task swallows a failed call; seed: all of them do.
SwallowsAlways(t) == TRUE
Swallows(t) == t \in BestEffort

\* A handler returns after its call, or, when it swallows errors, without one.
HandlerReturns(w) ==
  \E calls \in {0, 1} :
    /\ RunHandler(w, calls)
    /\ calls = 0 => Swallows(kind[cur[w]])
    /\ Goto(w, "finish")

\* It raises before the call, or after it (the local update that follows fails).
HandlerRaises(w) ==
  /\ \E calls \in {0, 1} : RunHandler(w, calls)
  /\ Goto(w, "raised")

MarkDone(w) == status' = [status EXCEPT ![cur[w]] = "done"]

\* complete_job looks at neither the status nor the worker_id of the row.
Complete(w) ==
  /\ pc[w] = "finish"
  /\ MarkDone(w)
  /\ Release(w, "poll")
  /\ UNCHANGED <<kind, attempts, backoff, owner, effects, faults>>

\* complete_job runs inside the try block: its exception is handled like one of
\* the handler, whether or not its commit took effect.
CompleteRaises(w) ==
  /\ pc[w] = "finish"
  /\ DbError
  /\ MarkDone(w) \/ UNCHANGED status
  /\ Goto(w, "raised")
  /\ UNCHANGED <<kind, attempts, backoff, owner, effects, cur, seen>>

\* Whether fail_job retries; seeds: one attempt too many, one too few.
MayRetryOnceMore(j) == attempts[j] <= MaxAttempts
MayRetryOnceLess(j) == attempts[j] + 1 < MaxAttempts
MayRetry(j) == attempts[j] < MaxAttempts

\* The status of a row that waits for its retry; seed: it is not reset.
RetryStatusKept == "processing"
RetryStatus == "pending"

WriteFailure(w) ==
  LET j == cur[w] IN
  /\ IF MayRetry(j)
     THEN /\ status' = [status EXCEPT ![j] = RetryStatus]
          /\ backoff' = backoff \union {j}
          /\ owner' = [owner EXCEPT ![j] = None]
     ELSE /\ status' = [status EXCEPT ![j] = "failed"]
          /\ UNCHANGED <<backoff, owner>>
  /\ UNCHANGED <<kind, attempts, effects>>

Fail(w) ==
  /\ pc[w] = "raised"
  /\ WriteFailure(w)
  /\ Release(w, "poll")
  /\ UNCHANGED faults

\* fail_job runs inside the except block: its own exception ends the thread.
FailRaises(w) ==
  /\ pc[w] = "raised"
  /\ DbError
  /\ WriteFailure(w) \/ UNCHANGED rows
  /\ Release(w, "lost")

-----------------------------------------------------------------------------
(* runtime.py: threads are started, asked to stop, and die with the process *)

\* start_embedded_workers starts nothing while workers run.
MayStart(w) ==
  OneWorkerPerService => \A v \in Worker : Serves[v] = Serves[w] => ~Live(v)

Start(w) ==
  /\ pc[w] = "new"
  /\ MayStart(w)
  /\ Goto(w, "poll")
  /\ UNCHANGED <<rows, cur, seen, faults>>

Stop(w) ==
  /\ Live(w)
  /\ w \notin stopping
  /\ Cardinality(stopping) < MaxStops
  /\ stopping' = stopping \union {w}
  /\ UNCHANGED <<rows, threads, kills, dbErrors>>

\* Where run() looks at _stop; seed: also before it executes a job.
StopPointsMidJob == {"poll", "running"}
StopPoints == {"poll"}

Retire(w) ==
  /\ pc[w] \in StopPoints
  /\ w \in stopping
  /\ Release(w, "ended")
  /\ UNCHANGED <<rows, faults>>

\* Daemon threads die with the process: when the join after a stop times out
\* (5 s embedded, 10 s external), or at any time if the process is killed.
Kill(w) ==
  /\ Live(w)
  /\ w \in stopping \/ HardCrash
  /\ kills < MaxKills
  /\ kills' = kills + 1
  /\ Release(w, "lost")
  /\ UNCHANGED <<rows, stopping, dbErrors>>

-----------------------------------------------------------------------------
\* What a thread does by itself while neither the process nor the database fails.
WorkerStep(w) ==
  \/ Select(w)
  \/ Claim(w)
  \/ RejectUnknown(w)
  \/ HandlerReturns(w)
  \/ HandlerRaises(w)
  \/ Complete(w)
  \/ Fail(w)
  \/ Retire(w)

Fault(w) ==
  \/ ClaimRaises(w)
  \/ RejectRaises(w)
  \/ CompleteRaises(w)
  \/ FailRaises(w)
  \/ Kill(w)

Next ==
  \/ \E j \in Job, t \in Task : Enqueue(j, t)
  \/ \E j \in Job : BackoffElapses(j)
  \/ \E w \in Worker : WorkerStep(w) \/ Start(w) \/ Stop(w) \/ Fault(w)

Spec == Init /\ [][Next]_vars

\* The clock runs, threads are scheduled, every external call returns (they all
\* carry timeouts), and a worker that was deployed is started.
Fairness ==
  /\ \A j \in Job : WF_vars(BackoffElapses(j))
  /\ \A w \in Worker : WF_vars(WorkerStep(w)) /\ WF_vars(Start(w))

FairSpec == Spec /\ Fairness

-----------------------------------------------------------------------------
TypeOK ==
  /\ kind \in [Job -> Task \union {None}]
  /\ status \in [Job -> Status]
  /\ attempts \in [Job -> 0..MaxAttempts]
  /\ backoff \subseteq Job
  /\ owner \in [Job -> Worker \union {None}]
  /\ effects \in [Job -> 0..MaxAttempts]
  /\ pc \in [Worker -> Pc]
  /\ cur \in [Worker -> Job \union {None}]
  /\ seen \in [Worker -> 0..MaxAttempts]
  /\ stopping \subseteq Worker
  /\ kills \in 0..MaxKills
  /\ dbErrors \in 0..MaxDbErrors

\* No row is executed by two threads at the same time (SKIP LOCKED and the
\* commit of the claim; on SQLite, the single thread of the service).
ExclusiveExecution ==
  \A v, w \in Worker : Busy(v) /\ Busy(w) /\ cur[v] = cur[w] => v = w

\* While a thread executes a row nobody takes the row away: complete_job and
\* fail_job, which check neither status nor worker_id, write a row that is
\* still theirs. Only an unacknowledged commit of "done" makes a difference.
ClaimIsHeld ==
  \A w \in Worker : Busy(w) =>
    /\ owner[cur[w]] = w
    /\ \/ status[cur[w]] = "processing"
       \/ status[cur[w]] = "done" /\ pc[w] = "raised" /\ dbErrors > 0

\* A row stays in "processing" only under a thread that executes it or died
\* with it, and a thread takes at most one row with it when it dies.
FaultStrandsOne ==
  /\ \A j \in Job : status[j] = "processing" =>
       \E w \in Worker : owner[j] = w /\ (Executes(w, j) \/ pc[w] = "lost")
  /\ \A j, k \in Job :
       /\ status[j] = "processing" /\ status[k] = "processing"
       /\ owner[j] = owner[k]
       => j = k

\* The external system sees the call of a row at most once per claim, and at
\* most max_attempts times in all, whatever threads and the database do.
EffectsWithinAttempts ==
  \A j \in Job : effects[j] <= attempts[j] /\ attempts[j] <= MaxAttempts

\* A row of a known task is given up only when all its attempts were used.
GivenUpWhenExhausted ==
  \A j \in Job : status[j] = "failed" /\ kind[j] \in Handled
                   => attempts[j] = MaxAttempts

\* "done" means the external system saw the call, except for the tasks whose
\* handler swallows a failed call.
DoneMeansDelivered ==
  \A j \in Job : status[j] = "done" => kind[j] \in BestEffort \/ effects[j] > 0

\* Every job that is queued comes to an end: pending, processing, done or failed.
JobSettles ==
  \A j \in Job : status[j] = "pending" ~> status[j] \in {"done", "failed"}

-----------------------------------------------------------------------------
(* What the queue promises its callers: see JobLifecycle. A row whose "done" *)
(* was committed but not acknowledged is still in the hands of its thread.   *)
Raised(j) == \E w \in Worker : pc[w] = "raised" /\ cur[w] = j

Phase(j) ==
  CASE status[j] = "absent" -> "new"
    [] status[j] = "pending" -> "waiting"
    [] \/ status[j] = "processing"
       \/ status[j] = "done" /\ Raised(j) -> "running"
    [] OTHER -> "settled"

Promise == INSTANCE JobLifecycle
             WITH phase <- [j \in Job |-> Phase(j)], tries <- attempts

\* The rows and threads implement the life cycle of JobLifecycle.
ImplementsLifecycle == Promise!Spec
=============================================================================
