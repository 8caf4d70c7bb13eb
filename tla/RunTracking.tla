----------------------------- MODULE RunTracking -----------------------------
(***************************************************************************)
(* Uploads of analysis reports and what they leave in the database of one  *)
(* project: runs, classified warnings (issues) and the counters of a run.  *)
(*                                                                         *)
(* An upload registers a run, or takes the finished run of the same build  *)
(* (commit and branch) and platform, compares its report with the latest   *)
(* finished run of the platform, stores the rows, counts them, and queues  *)
(* the outgoing jobs. Each commit is an action of its own, and so is each  *)
(* read whose result is used in a later commit. The handlers are           *)
(* coroutines: inside one process they are interrupted only where they     *)
(* await, which is before Diff; two processes interleave everywhere.       *)
(*                                                                         *)
(* Run ids are taken in the order of Run.timestamp. A report is a set of   *)
(* entries, and several of them may have one fingerprint: the parser keeps *)
(* the list as it is. What else a row holds is left out.                   *)
(***************************************************************************)
EXTENDS Integers, FiniteSets

CONSTANTS
  Upload,       \* the upload requests
  Entry,        \* the lines of reports
  Fp,           \* fingerprints of warnings
  FpOf,         \* the fingerprint of an entry
  Build,        \* a commit on a branch
  Platform,     \* windows, linux, macos
  MaxRuns,      \* bound: runs ever registered
  OneProcess,   \* a single application process; otherwise one per upload
  MaxComments,  \* bound: comments on issues
  MaxFaults,    \* bound: crashes of a process and database exceptions
  None          \* no build, no platform, no request

Run == 1..MaxRuns
NoRun == 0

ASSUME TrackingAssumption ==
  /\ MaxRuns \in Nat
  /\ OneProcess \in BOOLEAN
  /\ MaxComments \in Nat /\ MaxFaults \in Nat
  /\ IsFiniteSet(Upload) /\ IsFiniteSet(Entry) /\ IsFiniteSet(Fp)
  /\ FpOf \in [Entry -> Fp]
  /\ None \notin Build /\ None \notin Platform

VARIABLES
  status,     \* status[r]: Run.status, "absent" before the insert
  build,      \* build[r]: Run.commit and Run.branch
  platform,   \* platform[r]: Run.target_platform
  counters,   \* counters[r]: total_issues, new_issues, fixed_issues
  issues,     \* the Issue rows: who inserted them, run, entry, fingerprint, status
  comments,   \* the rows somebody commented on
  pc,         \* where each upload handler is
  req,        \* the request: build, platform, report_type and report
  target,     \* the run an upload works on
  fresh,      \* is_new_run
  base,       \* the run an upload was compared with
  prev,       \* prev_fps: the active fingerprints of that run
  old,        \* the rows of its own run an upload has read
  measured,   \* what calculate_run_metrics returned
  faults      \* counter for MaxFaults

runs    == <<status, build, platform, counters>>
rows    == <<issues, comments>>
control == <<pc, req, target, fresh, base, prev, old, measured>>
vars    == <<runs, rows, control, faults>>

RunStatus   == {"absent", "processing", "done", "failed"}
IssueStatus == {"new", "existing", "fixed", "ignored"}
Issue == [by : Upload, run : Run, entry : Entry, fp : Fp, status : IssueStatus]
\* "torn": ended between the commit of the rows and the one of the counters;
\* "refused": the rows of a full re-upload could not be replaced.
Pc == {"idle", "accepted", "diffed", "stored", "measured", "finished", "done",
       "aborted", "refused", "torn"}

Request == [build : Build, platform : Platform, full : BOOLEAN,
            report : SUBSET Entry]
Fps(report) == {FpOf[e] : e \in report}
NoCount == [total |-> 0, new |-> 0, fixed |-> 0]

Init ==
  /\ status = [r \in Run |-> "absent"]
  /\ build = [r \in Run |-> None]
  /\ platform = [r \in Run |-> None]
  /\ counters = [r \in Run |-> NoCount]
  /\ issues = {}
  /\ comments = {}
  /\ pc = [u \in Upload |-> "idle"]
  /\ req = [u \in Upload |-> None]
  /\ target = [u \in Upload |-> NoRun]
  /\ fresh = [u \in Upload |-> FALSE]
  /\ base = [u \in Upload |-> NoRun]
  /\ prev = [u \in Upload |-> {}]
  /\ old = [u \in Upload |-> {}]
  /\ measured = [u \in Upload |-> NoCount]
  /\ faults = 0

-----------------------------------------------------------------------------
Sync == {"diffed", "stored", "measured", "finished"}
\* No handler is on its way between two awaits.
LoopFree == OneProcess => \A u \in Upload : pc[u] \notin Sync

Goto(u, p) == pc' = [pc EXCEPT ![u] = p]
Rows(r) == {i \in issues : i.run = r}
Of(S, s) == {i \in S : i.status = s}
Id(i) == <<i.by, i.entry>>
Latest(S) == IF S = {} THEN NoRun ELSE CHOOSE r \in S : \A q \in S : q <= r

\* The finished runs an upload may reuse.
FinishedOf(b, p) ==
  {r \in Run : status[r] = "done" /\ build[r] = b /\ platform[r] = p}

-----------------------------------------------------------------------------
(* upload_report_api and upload_report_ui up to the try block *)

Receive(u, b, p, full, report) ==
  /\ pc[u] = "idle"
  /\ LoopFree
  /\ req' = [req EXCEPT ![u] = [build |-> b, platform |-> p, full |-> full,
                                 report |-> report]]
  /\ Goto(u, "accepted")
  /\ UNCHANGED <<counters, rows, base, prev, old, measured, faults>>

Register(u, b, p, full, report) ==
  /\ Receive(u, b, p, full, report)
  /\ FinishedOf(b, p) = {}
  /\ \E r \in Run :
       /\ status[r] = "absent"
       /\ \A q \in Run : q < r => status[q] # "absent"
       /\ status' = [status EXCEPT ![r] = "processing"]
       /\ build' = [build EXCEPT ![r] = b]
       /\ platform' = [platform EXCEPT ![r] = p]
       /\ target' = [target EXCEPT ![u] = r]
  /\ fresh' = [fresh EXCEPT ![u] = TRUE]

Reuse(u, b, p, full, report) ==
  /\ Receive(u, b, p, full, report)
  /\ FinishedOf(b, p) # {}
  /\ target' = [target EXCEPT ![u] = Latest(FinishedOf(b, p))]
  /\ UNCHANGED <<status, build, platform, fresh>>

\* The handler ends with an error before it has read or stored anything.
Dismiss(u) ==
  /\ pc[u] = "accepted"
  /\ LoopFree
  /\ Goto(u, "aborted")
  /\ req' = [req EXCEPT ![u] = None]
  /\ target' = [target EXCEPT ![u] = NoRun]
  /\ fresh' = [fresh EXCEPT ![u] = FALSE]
  /\ UNCHANGED <<build, platform, counters, rows, base, prev, old, measured,
                 faults>>

\* A code snapshot that cannot be decoded raises outside the try block.
SnapshotRejected(u) ==
  /\ Dismiss(u)
  /\ UNCHANGED status

-----------------------------------------------------------------------------
(* The try block: classify_and_store, add_issues_to_existing_run *)

\* A failed upload fails the run it registered; seed: any run it works on.
FailAlways(u) == status' = [status EXCEPT ![target[u]] = "failed"]
Fail(u) ==
  status' = IF fresh[u] THEN [status EXCEPT ![target[u]] = "failed"] ELSE status

\* The report is no JSON, or the run of an incremental re-upload is not done.
ReportRejected(u) ==
  /\ Dismiss(u)
  /\ Fail(u)

\* The runs _get_prev_run chooses from; seed: of any platform.
BaselinesOfAnyPlatform(u) == {r \in Run : status[r] = "done" /\ r # target[u]}
Baselines(u) ==
  {r \in Run : /\ status[r] = "done" /\ r # target[u]
               /\ platform[r] = platform[target[u]]}

\* The active fingerprints of a run; seed: its active rows.
ActiveRows(r) == Of(Rows(r), "new") \union Of(Rows(r), "existing")
Active(r) == {i.fp : i \in Of(Rows(r), "new") \union Of(Rows(r), "existing")}

Diff(u) ==
  /\ pc[u] = "accepted"
  /\ LoopFree
  /\ fresh[u] \/ req[u].full \/ status[target[u]] = "done"
  /\ LET b == Latest(Baselines(u)) IN
       /\ base' = [base EXCEPT ![u] = b]
       /\ prev' = [prev EXCEPT ![u] = Active(b)]
  /\ old' = [old EXCEPT ![u] = Rows(target[u])]
  /\ Goto(u, "diffed")
  /\ UNCHANGED <<runs, rows, req, target, fresh, measured, faults>>

Row(u, e, s) == [by |-> u, run |-> target[u], entry |-> e, fp |-> FpOf[e], status |-> s]
Class(u, f) == IF base[u] = NoRun \/ f \in prev[u] THEN "existing" ELSE "new"

\* A full report replaces the rows the upload has read; seed: so does any.
ReplacesAlways(u) == TRUE
Replaces(u) == req[u].full

\* The fingerprints an incremental re-upload leaves out; seed: none.
KnownToNobody(u) == {}
Known(u) == IF Replaces(u) THEN {} ELSE {i.fp : i \in old[u]}

\* One row per entry, also of an entry whose fingerprint another one has.
Added(u) == {e \in req[u].report : FpOf[e] \notin Known(u)}

\* What a full report no longer shows.
Gone(u) == IF req[u].full THEN prev[u] \ Fps(req[u].report) ELSE {}

\* The rows of the baseline that are copied as fixed: of each such warning the first one the
\* query finds, if that is active. Another process may have changed them since the diff, and
\* the session knows those it has read as they were.
IsActive(i) == i.status \in {"new", "existing"}
Copies(u) ==
  {C \in SUBSET {i \in Rows(base[u]) : i.fp \in Gone(u)} :
     /\ \A i, j \in C : i.fp = j.fp => i = j
     /\ OneProcess => \A i \in C : IsActive(i)
     /\ \A i \in Rows(base[u]) : i.fp \in Gone(u) =>
          \E j \in Rows(base[u]) : j.fp = i.fp /\ (j \in C \/ ~IsActive(j))}

Replaced(u) ==
  IF Replaces(u) THEN {i \in issues : \E j \in old[u] : j.run = i.run /\ Id(j) = Id(i)}
                 ELSE {}

\* Deleting a row sets issue_id of its comments to NULL, which the table forbids.
Refused(u) == \E i \in Replaced(u) : Id(i) \in comments

Store(u) ==
  /\ pc[u] = "diffed"
  /\ ~Refused(u)
  /\ \E C \in Copies(u) :
       issues' = (issues \ Replaced(u))
                 \union {Row(u, e, Class(u, FpOf[e])) : e \in Added(u)}
                 \union {Row(u, i.entry, "fixed") : i \in C}
  /\ old' = [old EXCEPT ![u] = {}]
  /\ Goto(u, "stored")
  /\ UNCHANGED <<runs, comments, req, target, fresh, base, prev, measured,
                 faults>>

StoreRefused(u) ==
  /\ pc[u] = "diffed"
  /\ Refused(u)
  /\ Goto(u, "refused")
  /\ UNCHANGED <<runs, rows, req, target, fresh, base, prev, old, measured,
                 faults>>

\* The rows calculate_run_metrics counts; seed: those of this upload only.
CountedOwn(u) == {i \in Rows(target[u]) : i.by = u}
Counted(u) == Rows(target[u])

\* The rows are read before the commit that writes their number.
Measure(u) ==
  /\ pc[u] = "stored"
  /\ LET R == Counted(u) IN
       measured' = [measured EXCEPT ![u] =
                      [total |-> Cardinality(R),
                       new   |-> Cardinality(Of(R, "new")),
                       fixed |-> Cardinality(Of(R, "fixed"))]]
  /\ Goto(u, "measured")
  /\ UNCHANGED <<runs, rows, req, target, fresh, base, prev, old, faults>>

Finish(u) ==
  /\ pc[u] = "measured"
  /\ counters' = [counters EXCEPT ![target[u]] = measured[u]]
  /\ status' = IF fresh[u] THEN [status EXCEPT ![target[u]] = "done"] ELSE status
  /\ measured' = [measured EXCEPT ![u] = NoCount]
  /\ Goto(u, "finished")
  /\ UNCHANGED <<build, platform, rows, req, target, fresh, base, prev, old,
                 faults>>

\* The quality gate, the audit log, the subscription and the queued jobs.
Announce(u) ==
  /\ pc[u] = "finished"
  /\ Goto(u, "done")
  /\ UNCHANGED <<runs, rows, req, target, fresh, base, prev, old, measured,
                 faults>>

-----------------------------------------------------------------------------
(* Faults *)

Fault == faults < MaxFaults /\ faults' = faults + 1

\* Where an upload ends when it is cut short.
Cut(u) == IF pc[u] \in {"stored", "measured"} THEN "torn" ELSE "aborted"

\* The database raises in the try block: the except block marks a new run as
\* failed, unless the session refuses to commit after a failed flush.
DbRaises(u) ==
  /\ Fault
  /\ pc[u] \in Sync
  /\ Fail(u) \/ UNCHANGED status
  /\ Goto(u, Cut(u))
  /\ UNCHANGED <<build, platform, counters, rows, req, target, fresh, base,
                 prev, old, measured>>

Under == {u \in Upload : pc[u] \in {"accepted"} \union Sync}

\* A process dies with every handler it runs. Nothing repairs their runs.
Crash(U) ==
  /\ Fault
  /\ pc' = [u \in Upload |-> IF u \in U THEN Cut(u) ELSE pc[u]]
  /\ UNCHANGED <<runs, rows, req, target, fresh, base, prev, old, measured>>

-----------------------------------------------------------------------------
(* What users do to the rows: ignore_issue, ui_issue_add_comment *)

Ignore(f) ==
  /\ LoopFree
  /\ \E i \in issues : i.fp = f /\ i.status # "ignored"
  /\ issues' = {IF i.fp = f THEN [i EXCEPT !.status = "ignored"] ELSE i :
                  i \in issues}
  /\ UNCHANGED <<runs, comments, control, faults>>

Comment(i) ==
  /\ LoopFree
  /\ Cardinality(comments) < MaxComments
  /\ comments' = comments \union {Id(i)}
  /\ UNCHANGED <<runs, issues, control, faults>>

-----------------------------------------------------------------------------
Handle(u) ==
  \/ SnapshotRejected(u)
  \/ ReportRejected(u)
  \/ Diff(u)
  \/ Store(u)
  \/ StoreRefused(u)
  \/ Measure(u)
  \/ Finish(u)
  \/ Announce(u)
  \/ DbRaises(u)

Next ==
  \/ \E u \in Upload, b \in Build, p \in Platform, full \in BOOLEAN,
        report \in SUBSET Entry :
       Register(u, b, p, full, report) \/ Reuse(u, b, p, full, report)
  \/ \E u \in Upload : Handle(u)
  \/ IF OneProcess THEN Under # {} /\ Crash(Under)
                   ELSE \E u \in Under : Crash({u})
  \/ \E f \in Fp : Ignore(f)
  \/ \E i \in issues : Comment(i)

Spec == Init /\ [][Next]_vars

-----------------------------------------------------------------------------
TypeOK ==
  /\ status \in [Run -> RunStatus]
  /\ build \in [Run -> Build \union {None}]
  /\ platform \in [Run -> Platform \union {None}]
  /\ counters \in [Run -> [total : Nat, new : Nat, fixed : Nat]]
  /\ issues \subseteq Issue
  /\ comments \subseteq Upload \X Entry
  /\ pc \in [Upload -> Pc]
  /\ req \in [Upload -> Request \union {None}]
  /\ target \in [Upload -> Run \union {NoRun}]
  /\ fresh \in [Upload -> BOOLEAN]
  /\ base \in [Upload -> Run \union {NoRun}]
  /\ prev \in [Upload -> SUBSET Fp]
  /\ old \in [Upload -> SUBSET Issue]
  /\ measured \in [Upload -> [total : Nat, new : Nat, fixed : Nat]]
  /\ faults \in 0..MaxFaults

\* However often a build is uploaded again, the rows of a warning in its run come from one of
\* its reports, one for each of the entries there, and agree in their status ("adds only new
\* fingerprints", "replaces the issues of the run").
OneReportPerFingerprint ==
  \A i, j \in issues : i.run = j.run /\ i.fp = j.fp => i.by = j.by /\ i.status = j.status

\* The counters of a finished run are those of its rows, unless an upload is
\* between its two commits or died there. Ignoring a warning lowers the number
\* of new or fixed rows and is never counted again: by no more than the
\* ignored rows there are.
CountersMatch ==
  \A r \in Run :
    LET Updating == \E u \in Upload : /\ target[u] = r
                                      /\ pc[u] \in {"stored", "measured", "torn"}
        new   == Cardinality(Of(Rows(r), "new"))
        fixed == Cardinality(Of(Rows(r), "fixed"))
    IN status[r] = "done" /\ ~Updating =>
         /\ counters[r].total = Cardinality(Rows(r))
         /\ counters[r].new >= new /\ counters[r].fixed >= fixed
         /\ counters[r].new - new + counters[r].fixed - fixed
              <= Cardinality(Of(Rows(r), "ignored"))

\* A run another one was compared with stays "done": no upload is classified
\* against a run that is then declared failed, or was never finished.
BaselineStaysDone ==
  \A u \in Upload : base[u] # NoRun => status[base[u]] = "done"

\* The diff stays on its platform: a warning is "fixed" only if an upload for
\* this platform had shown it in another finished run, and "new" only if the
\* platform has another finished run.
DiffIsPerPlatform ==
  \A i \in issues :
    LET Other(r) == /\ r # i.run /\ status[r] = "done"
                    /\ platform[r] = platform[i.run]
    IN /\ i.status = "fixed" => \E u \in Upload :
            target[u] # NoRun /\ Other(target[u]) /\ i.fp \in Fps(req[u].report)
       /\ i.status = "new" => \E r \in Run : Other(r)

\* What a successful upload has shown, and for a full report everything the
\* baseline had, stays listed in its run, until another full report of the
\* build replaces the rows: no later or overlapping upload drops it. With
\* several processes that is said of the report alone: the rows of a baseline
\* may be replaced while they are copied.
NothingVanishes ==
  \A u \in Upload :
    LET Shown == Fps(req[u].report)
                 \union (IF req[u].full /\ OneProcess THEN prev[u] ELSE {})
    IN \/ pc[u] # "done"
       \/ \E v \in Upload \ {u} : /\ target[v] = target[u] /\ req[v].full
                                  /\ pc[v] \notin {"accepted", "refused"}
       \/ \A f \in Shown : \E i \in Rows(target[u]) : i.fp = f
=============================================================================
