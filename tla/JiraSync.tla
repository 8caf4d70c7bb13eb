-------------------------------- MODULE JiraSync --------------------------------
(***************************************************************************)
(* The synchronisation of one run with Jira (jira_sync.py,                 *)
(* jira_service.py): a job of the REST queue, queued by each upload of the *)
(* run, looks up or opens a bug for every new warning and stores the keys  *)
(* of the bugs in one commit at its end.                                   *)
(*                                                                         *)
(* The thread of the service jira works beside the uploads. A full upload  *)
(* of the same build replaces the rows the job has loaded; calls to Jira   *)
(* fail, or work and are not answered; the commit fails and the queue      *)
(* tries again; the process dies. One process is modelled: two would run   *)
(* two jobs of one run at once. Comments on fixed warnings are left out,   *)
(* but not the time they take. A search in Jira finds every bug that was   *)
(* opened before it.                                                       *)
(***************************************************************************)
EXTENDS Integers, Sequences, FiniteSets

CONSTANTS Fp,          \* fingerprints of warnings
          Entry, FpOf, \* what a report may list, and its fingerprint: two may share one
          MaxAttempts, \* RestQueueJob.max_attempts
          Sqlite,      \* the database is SQLite
          MaxUploads, MaxDbErrors, MaxTrouble \* bounds

ASSUME JiraAssumption ==
    /\ FpOf \in [Entry -> Fp]
    /\ MaxAttempts \in Nat \ {0}
    /\ Sqlite \in BOOLEAN
    /\ MaxUploads \in Nat /\ MaxDbErrors \in Nat /\ MaxTrouble \in Nat

VARIABLES rows,     \* the warnings of the run
          jobs,     \* the jobs jira_sync_run of the run, in the order of their ids
          pc,       \* where the thread of the service is
          todo,     \* the new rows it has loaded and not looked at
          answer,   \* the row whose lookup found nothing
          dirty,    \* the rows it has a key for, not yet committed
          bugs,     \* Jira: the bugs opened for each fingerprint
          blind,    \* history: lookups that failed, after which a bug was opened
          repeated, \* history: requests for a bug sent a second time by the library
          misplaced,\* history: entries whose row was given the key of another one
          dbErrors, \* counter for MaxDbErrors
          trouble   \* counter for MaxTrouble: calls that failed, jobs and keys lost

thread == <<pc, todo, answer, dirty>>
history == <<blind, repeated, misplaced>>
vars == <<rows, jobs, thread, bugs, history, dbErrors, trouble>>

\* upload: the upload that inserted the row; a row is never updated by another one.
Row == [entry : Entry, status : {"new", "existing", "fixed"}, upload : 1..MaxUploads, keyed : BOOLEAN]
Job == [status : {"pending", "processing", "done", "failed"}, attempts : 0..MaxAttempts]
None == {}

Fingerprint(i) == FpOf[i.entry]
Uploads == Len(jobs)
Mine == {j \in 1..Len(jobs) : jobs[j].status = "processing"}

-----------------------------------------------------------------------------
(* Uploads. A report becomes rows that are new, existing or fixed. *)

Rows(n, report, status) ==
    {[entry |-> e, status |-> status[e], upload |-> n, keyed |-> FALSE] : e \in report}

\* add_issues_to_existing_run: a full report replaces the rows, an incremental one adds
\* an entry unless its fingerprint was there before.
Stored(full, new) ==
    IF full THEN new
    ELSE rows \cup {i \in new : /\ i.status # "fixed"
                                /\ \A j \in rows : Fingerprint(j) # Fingerprint(i)}

\* The thread holds the locks of the rows it has updated until it commits; SQLite has one
\* lock for all writers.
Locked == pc = "commenting" /\ dirty # {}

Upload(full, new) ==
    /\ full \/ Sqlite => ~Locked
    /\ rows' = Stored(full, new)
    /\ jobs' = Append(jobs, [status |-> "pending", attempts |-> 0])
    /\ UNCHANGED <<thread, bugs, history, dbErrors, trouble>>

-----------------------------------------------------------------------------
(* The thread of the service jira. *)

Trouble == trouble < MaxTrouble /\ trouble' = trouble + 1
Ends(j, status) == jobs' = [jobs EXCEPT ![j].status = status]
Idle == pc' = "idle" /\ todo' = {} /\ answer' = None /\ dirty' = {}

\* claim_next: the first row that is pending and whose delay, if it was tried, is over.
Claim(j) ==
    /\ pc = "idle"
    /\ jobs[j].status = "pending"
    /\ \A k \in 1..(j - 1) : jobs[k].status = "pending" => jobs[k].attempts > 0
    /\ jobs' = [jobs EXCEPT ![j].status = "processing", ![j].attempts = @ + 1]

\* sync_run_issues_to_jira loads the rows that are new.
Begin(j) ==
    /\ Claim(j)
    /\ pc' = "syncing"
    /\ todo' = {i \in rows : i.status = "new" /\ ~i.keyed}
    /\ UNCHANGED <<rows, answer, dirty, bugs, history, dbErrors, trouble>>

\* Jira cannot be reached, or does not list the project: the job is done at once.
Skip(j) ==
    /\ Claim(j)
    /\ Trouble
    /\ pc' = "returned"
    /\ UNCHANGED <<rows, todo, answer, dirty, bugs, history, dbErrors>>

\* Seed: a bug is opened without a lookup.
LookupNothing(i) ==
    /\ pc = "syncing" /\ answer = None
    /\ answer' = {i}
    /\ UNCHANGED <<dirty, bugs, blind, trouble>>

\* find_issue_by_fingerprint. It answers None too when both its searches fail.
Lookup(i) ==
    /\ pc = "syncing" /\ answer = None
    /\ \/ /\ bugs[Fingerprint(i)] > 0
          /\ dirty' = dirty \cup {i}
          /\ UNCHANGED <<answer, blind, trouble>>
       \/ /\ bugs[Fingerprint(i)] = 0
          /\ answer' = {i}
          /\ UNCHANGED <<dirty, blind, trouble>>
       \/ /\ Trouble
          /\ answer' = {i}
          /\ blind' = [blind EXCEPT ![Fingerprint(i)] = @ + 1]
          /\ UNCHANGED dirty
    /\ UNCHANGED bugs

LookUpNext(i) ==
    /\ i \in todo
    /\ Lookup(i)
    /\ todo' = todo \ {i}
    /\ UNCHANGED <<rows, jobs, pc, repeated, misplaced, dbErrors>>

\* create_bug. The library sends the request once more when the connection breaks
\* (max_retries) and reads the new bug afterwards. Each request may have been carried out,
\* and create_bug answers None when one of the calls fails in the end.
Create(i) ==
    /\ answer = {i}
    /\ answer' = None
    /\ \E requests \in 1..2, taken \in 0..2 :
         /\ taken <= requests
         /\ bugs' = [bugs EXCEPT ![Fingerprint(i)] = @ + taken]
         /\ repeated' = [repeated EXCEPT ![Fingerprint(i)] = @ + (requests - 1)]
         /\ \/ /\ taken > 0
               /\ dirty' = dirty \cup {i}
               /\ IF requests = 1 THEN UNCHANGED trouble ELSE Trouble
            \/ Trouble /\ UNCHANGED dirty
    /\ UNCHANGED <<rows, jobs, pc, todo, blind, misplaced, dbErrors>>

\* Seed: an exception ends the job.
FailForGood(j) == Ends(j, "failed")
\* fail_job
Fail(j) == Ends(j, IF jobs[j].attempts < MaxAttempts THEN "pending" ELSE "failed")

\* The rows with a key are written before the fixed ones are read. A row that is no longer
\* there raises, unless SQLite has given its id to another one.
Flush ==
    /\ pc = "syncing" /\ todo = {} /\ answer = None
    /\ \/ /\ dirty \subseteq rows \/ Sqlite
          /\ pc' = "commenting"
          /\ UNCHANGED <<jobs, todo, answer, dirty>>
       \/ /\ ~(dirty \subseteq rows)
          /\ Idle /\ \E j \in Mine : Fail(j)
    /\ UNCHANGED <<rows, bugs, history, dbErrors, trouble>>

\* Where the keys are written: to the rows they were found for, and for those that are gone
\* to rows that have their ids now, of this run or of another. on: the row each comes from.
Landing(on) ==
    /\ \A i, k \in DOMAIN on : on[i] = on[k] => i = k
    /\ \A i \in dirty \cap rows : i \in DOMAIN on /\ on[i] = i

\* session.commit() after the comments on the fixed rows.
Commit ==
    /\ pc = "commenting"
    /\ pc' = "returned"
    /\ \E hit \in SUBSET rows : \E on \in [hit -> dirty] :
         /\ Landing(on)
         /\ rows' = (rows \ hit) \cup {[i EXCEPT !.keyed = TRUE] : i \in hit}
         /\ misplaced' = misplaced \cup
              {<<i.entry, i.upload>> : i \in {k \in hit : Fingerprint(k) # Fingerprint(on[k])}}
    /\ dirty' = {}
    /\ UNCHANGED <<jobs, todo, answer, bugs, blind, repeated, dbErrors, trouble>>

\* complete_job
Complete ==
    /\ pc = "returned"
    /\ Idle
    /\ \E j \in Mine : Ends(j, "done")
    /\ UNCHANGED <<rows, bugs, history, dbErrors, trouble>>

\* The database raises while the rows are loaded, written or committed, or in complete_job:
\* what is not committed is lost, and execute_job gives the job back to the queue.
Raise ==
    /\ dbErrors < MaxDbErrors
    /\ dbErrors' = dbErrors + 1
    /\ pc # "idle" /\ answer = None
    /\ Idle
    /\ \E j \in Mine : Fail(j)
    /\ UNCHANGED <<rows, bugs, history, trouble>>

\* The process dies. Nothing takes a row in processing up again, and the next process
\* starts a thread of its own.
Die ==
    /\ pc # "idle"
    /\ Trouble
    /\ Idle
    /\ \E j \in Mine : Ends(j, "failed")
    /\ UNCHANGED <<rows, bugs, history, dbErrors>>

-----------------------------------------------------------------------------
Init ==
    /\ rows = {}
    /\ jobs = <<>>
    /\ pc = "idle" /\ todo = {} /\ answer = None /\ dirty = {}
    /\ bugs = [f \in Fp |-> 0]
    /\ blind = [f \in Fp |-> 0] /\ repeated = [f \in Fp |-> 0] /\ misplaced = {}
    /\ dbErrors = 0
    /\ trouble = 0

Next ==
    \/ /\ Uploads < MaxUploads
       /\ \E full \in BOOLEAN, report \in SUBSET Entry : \E status \in [report -> {"new", "existing", "fixed"}] :
            Upload(full, Rows(Uploads + 1, report, status))
    \/ \E j \in DOMAIN jobs : Begin(j) \/ Skip(j)
    \/ \E i \in todo : LookUpNext(i)
    \/ \E i \in answer : Create(i)
    \/ Flush \/ Commit \/ Complete \/ Raise \/ Die

Spec == Init /\ [][Next]_vars

-----------------------------------------------------------------------------
(* Properties *)

TypeOK ==
    /\ rows \subseteq Row
    /\ jobs \in Seq(Job)
    /\ pc \in {"idle", "syncing", "commenting", "returned"}
    /\ todo \subseteq Row /\ answer \subseteq Row /\ dirty \subseteq Row
    /\ Cardinality(answer) <= 1
    /\ bugs \in [Fp -> Nat] /\ blind \in [Fp -> Nat] /\ repeated \in [Fp -> Nat]
    /\ misplaced \subseteq Entry \X (1..MaxUploads)
    /\ Cardinality(Mine) = IF pc = "idle" THEN 0 ELSE 1

\* However often a job is repeated, its rows replaced or its process killed, and however
\* often a report lists a warning, it gets a second bug only when a lookup had failed and the
\* job opened one all the same, or when the library sent a request twice.
NoTwinBugs == \A f \in Fp : bugs[f] <= 1 + blind[f] + repeated[f]

\* When the queue is empty and nothing but database errors that the retries cover went
\* wrong, every new warning of the run has its bug: also the ones of an upload that replaced
\* the rows under a running job. Only on SQLite, and only a row that took the id of one
\* replaced under the job, may have been given the key of another warning instead.
QuietMeansKeyed ==
    (pc = "idle" /\ trouble = 0 /\ dbErrors < MaxAttempts
       /\ \A j \in DOMAIN jobs : jobs[j].status \in {"done", "failed"})
      => \A i \in rows : i.status = "new" =>
           /\ i.keyed
           /\ bugs[Fingerprint(i)] = 1 \/ (Sqlite /\ <<i.entry, i.upload>> \in misplaced)
=================================================================================
