# PVS-Studio Tracker: TLA+ models, checks and proofs

PVS-Studio Tracker (`src/pvs_tracker`) collects the reports of the PVS-Studio
static analyser, classifies each warning against an earlier run of the same
project, and talks to Jenkins, Jira, TFS, web hooks and mail through a queue in
its database. `src/PVS_Sonar_WebHook_FastAPI` is the service it grew out of. This
directory holds TLA+ models of their protocols, the TLC configurations that check
them on small instances, and proofs that hold for every value of their constants.

```
tlc -workers 2 -config queue_postgres.cfg MCRestQueue     # one run
tlapm RestQueueProofs.tla                                 # one proof module
```

`PROJECT.json` lists the components, the runs, the seeded faults that show that
each property can fail, the source lines every definition stands for, the
findings, the hazards and the theorems. Definitions marked "seed" in the modules
are those faults; no other definition uses them.

## The system

| Component | State | Operations | Models |
|---|---|---|---|
| REST job queue (`rest_queue/`) | table `restqueuejob`; one `ServiceWorker` thread per service | enqueue, claim, execute, complete, fail and retry, start and stop of threads | `RestQueue`, `JobLifecycle` |
| Upload and tracking (`main.py`, `incremental.py`) | `run`, `issue`, `issuecomment` | upload by API and UI, re-upload (full or incremental), ignore, comment | `RunTracking` |
| Jira (`jira_sync.py`) | `Issue.jira_issue_key`, the issues of Jira | a bug per new warning, a comment on each fixed one | `JiraSync` |
| CI integration (`inbound_webhooks.py`, `repository_service.py`, `project_ci.py`, `jenkins_service.py`) | `Project.last_processed_changeset`, branch, pause; queued builds | inbound web hook, trigger job, analysis callback, manual build, switch of the branch | `Changesets` |
| Gates, projects, members, groups, subscriptions, seeding (`api.py`, `main.py`, `quality_gate.py`, `project_groups.py`, `startup_init.py`) | those tables and the audit log | create, update, delete, make default, assign, invite, subscribe, seed | `Administration` |
| Dashboards and lists (`dashboard_history.py`, `issues_query.py`, `run_queries.py`, `issue_author.py`, `issue_activity.py`, `platforms.py`) | nothing of their own: derived from the runs | totals, common warnings, facets, pages, authors, timelines | `Dashboards`, `Ledger` |
| Code viewer (`code_viewer.py`, `git_integration.py`) | clones on disk, their time stamps | show a file, clone, update, check out | `Sources` |
| Legacy service, SonarQube to Jira | in-memory cache, Jira | web hook after an analysis | `SonarIssues` |
| Legacy service, repository to Jenkins | `Project` rows, tasks in a thread pool | web hooks, callbacks, forms | `LegacyBuilds` |
| Health pages, login, templates, scripts, legacy scanner | | | not modelled, see below |

How they interact: an upload commits the rows of its run and then calls
`enqueue_job` for Jira, the outgoing web hooks and mail; an inbound web hook
compares commits in the background and enqueues a Jenkins job; that job and the
analysis callback write the last processed changeset that the next web hook
reads; opening a dashboard writes the branch the next web hook looks for. Worker
threads share nothing with the request handlers but the database. The handlers of
uploads are coroutines of one event loop and are interrupted only where they
await; handlers declared with a plain `def`, background tasks and the workers are
threads; a deployment on PostgreSQL runs several processes
(`docs/zero-downtime-deployment.md`).

How the modules fit: `RestQueue` shows how a row of the queue is claimed, retried and lost,
and that it implements `JobLifecycle`. `JiraSync` and `Changesets` are written against that
life cycle: their jobs wait, run, may wait again and settle once or are left in
"processing", and what the handler does in between is spelled out. `RunTracking` has the
steps of one upload; `Dashboards` takes each finished upload as one step, asks what the
pages make of the rows, and implements `Ledger`. `Administration` has the tables the others
take as given.

What is hard, and what makes each part correct:

* **Queue.** Several threads and processes take rows from one table; a claim is
  a read and a later write; a thread can be stopped, killed with its process,
  or end by a database exception at each of its steps; calls to other systems
  cannot be taken back. Correct: a row is executed by one thread at a time and
  stays its own until that thread writes it, the outside sees at most one call
  per attempt and no more attempts than configured, a job is given up only when
  they are used up, "done" is not a lie, a fault costs one row at most, and
  every job settles.
* **Tracking.** Uploads of one project overlap between their first commit and
  their diff; the diff, the rows and the counters are three steps; a build may
  be uploaded again, in full or incrementally; users change rows meanwhile.
  Correct: the rows of a warning in a run come from one report, nothing that was shown is lost, the
  counters are those of the rows, the diff is with a finished run of the same
  platform, and that run stays finished.
* **Jira.** The keys of a run are committed at the end of its job, so that
  failures forget bugs that exist, and the rows may be replaced under the job.
  Correct: one bug per warning unless Jira could not be searched or a request was
  repeated, and when the queue is quiet every new warning has its bug.
* **CI.** Web hooks, retries and callbacks write one changeset in any order; it
  moves backwards; deliveries repeat or are lost. Correct: no change lies behind
  the last changeset that no build was asked to look at, a web hook that was
  examined is not forgotten, and no project is built from differences first.
* **Administration.** Handlers commit in several steps, on several instances and beside
  the seeding of a start, and check what no constraint backs. Correct: a second default
  gate or a second role of a member comes only from requests that overlap, and no project
  loses its gate by a side effect.
* **Dashboards.** Totals are added up over a window of runs whose platforms
  interleave; facets, lists and pages are computed apart; runs that never finished keep their
  rows. Correct: they agree, and a timeline tells what happened.
* **Code viewer.** Pages share a directory without a lock, and git commands that
  time out go on; a directory may be of another repository or branch. Correct: a page
  nobody disturbs shows the version asked for unless it took another repository's clone,
  and every page ends.
* **Legacy service.** A cache that is never invalidated, answers of one page, requests
  that are repeated; tasks with rows read long ago, changesets TFVC does not give.
  Correct: no second bug unless Jira could not be searched or a request was repeated,
  staleness within the time to live on the first page, no change behind the last
  changeset that no build was asked for and TFVC gave.

## RestQueue: the outgoing-call queue

`RestQueue.tla` models the rows and the threads together.

| Action | Code |
|---|---|
| `Enqueue` | `store.enqueue_job`; ids come from a sequence before the commit, so rows become visible in any order |
| `Select`, `Claim` | `store.claim_next_job`: the SELECT, then the UPDATE and commit; PostgreSQL locks the selected row (`FOR UPDATE SKIP LOCKED`), SQLite does not |
| `HandlerReturns`, `HandlerRaises`, `RejectUnknown` | `handlers.execute_job` and the handlers: the call takes place or not, and the handler returns, swallows a failure, or raises before or after the call |
| `Complete`, `Fail` | `store.complete_job`, `store.fail_job` (with the retry and its delay) |
| `BackoffElapses` | `available_at` passes |
| `Start`, `Stop`, `Retire` | `runtime.start_embedded_workers`, `ServiceWorker.stop`, the end of `run()` |
| `Kill` | the daemon thread dies with its process: after the join of a stop timed out, or at any time if `HardCrash` |
| `ClaimRaises`, `RejectRaises`, `CompleteRaises`, `FailRaises` | the database raises, with its commit done or not; `complete_job` is inside the try block of `execute_job`, `fail_job` inside its except block, `claim_next_job` in neither |

A thread is one `ServiceWorker` object and is never restarted; a restart is the
start of another element of `Worker`. Payloads and results are left out. Three
tasks stand for the kinds of handler: one that raises when its call fails, one
that swallows it, one `HANDLERS` does not know.

`JobLifecycle.tla` is what callers of the queue rely on: a job waits, runs, may
wait again, settles once; a run makes at most one call. `ImplementsLifecycle`
is the refinement, with `Phase` as its mapping. The mapping says what an
unacknowledged commit of "done" means: the row is still in the hands of its
thread, which may put it back to waiting.

| Run | Shows |
|---|---|
| `queue_postgres` | three threads of one service on PostgreSQL, two rows, two attempts, one stop, one kill anywhere, one database exception anywhere: all safety properties and the refinement |
| `queue_embedded` | SQLite, two services with two generations of threads: under fairness, and without kills or exceptions, every job settles |

*Bounds.* A violation of exclusion needs two threads and one row; a third
thread adds a claim after the death of one of them, a second row the choice
among rows and the order of ids. Two attempts give a first, a retry and a
last one. One fault of each kind is enough to meet each place where it can
strike, and the proofs below cover any number.

*Fairness.* `FairSpec` assumes that delays elapse, that threads are scheduled
(`WorkerStep` and `Start` weakly fair per thread) and, inside that, that every
external call returns: all of them carry timeouts. Nothing is assumed of
enqueueing, stops or faults. Whether a handler succeeds is not assumed either;
the attempts bound the retries. The fairness is per thread, not per row: a
thread that is busy with other rows may not starve one, which is part of what
`JobSettles` checks.

*Seen on the way.* A thread that does not finish within the 5 s join of a graceful
stop dies with its process and leaves its row in "processing" for ever
(`runtime.py:50`, against `docs/rest-queue.md:62`). Two instances with embedded
workers call one service from two threads at once (`docs/rest-queue.md:3` promises
sequential calls per service). `ServiceWorker` stores its event in `_stop`, the name
of a method of `threading.Thread` up to Python 3.12, so that `join` and `is_alive`
of an ended thread raise.

## RunTracking: uploads, runs and warnings

`RunTracking.tla` models the uploads of one project. Each commit is a step, and
so is each read whose result is used by a later commit.

| Action | Code |
|---|---|
| `Register`, `Reuse` | `upload_report_api` and `upload_report_ui` up to the try block: a run in "processing", or the latest finished run of the same build and platform |
| `SnapshotRejected`, `ReportRejected` | a snapshot that cannot be decoded (raised outside the try block), a report that cannot be read |
| `Diff` | `_get_prev_run`, the fingerprints of the baseline and the rows of the own run |
| `Store`, `StoreRefused` | `classify_and_store` or `add_issues_to_existing_run` with its deletions and inserts; deleting a row somebody commented on is refused |
| `Measure`, `Finish` | `calculate_run_metrics`, then the commit of the counters and of "done" |
| `Announce` | quality gate, audit log, subscription, queued jobs: nothing the model keeps |
| `DbRaises`, `Crash` | an exception in the try block, whose handler marks a new run as failed if the session still commits; a process that dies with all its uploads |
| `Ignore`, `Comment` | `ignore_issue`, `ui_issue_add_comment` |

With `OneProcess` the steps between two awaits exclude each other
(`LoopFree`): a handler awaits its uploads and snapshot before `Diff` and not
after it. Without it every upload runs in a process of its own. Handlers that
are plain functions run in threads; those modelled here change the rows by a
single commit. Run ids are taken in the order of `Run.timestamp`.

A report is a set of entries, and `FpOf` gives each its fingerprint: the parser returns a list
(`parser.py:152`) in which two entries may share one, warnings without a location first of all.
Every entry becomes a row (`Added`), also when its neighbour has the same fingerprint: the set of
known fingerprints is not extended on the way (`incremental.py:234`). Of a warning that is gone
one row is copied as fixed (`Copies`), the first the query finds.

| Run | Shows |
|---|---|
| `tracking` | three overlapping uploads of two builds on two platforms, with three entries of two fingerprints: the rows of a warning in a run come from one report and agree in their status, the diff stays on its platform, nothing shown vanishes |
| `tracking_faults` | the same with two entries of one fingerprint, one crash or exception anywhere, and a comment: counters are those of the rows, a baseline stays finished |

*Bounds.* Three uploads are a baseline, a run compared with it and a third that
overlaps or repeats one of them; two runs hold them, since a third upload into a run of its
own would change neither of the others (the proofs have no such bound). One fingerprint suffices
for counters and statuses, two to tell apart a warning that stays from one that goes, and two
entries with one fingerprint for a report that repeats itself. Symmetry is over uploads, builds,
platforms and those two entries, none of which the module names.

*Seen on the way.* A report of an older commit, uploaded again, is compared with a
newer run: the baseline is the latest finished run (`incremental.py:19`), although
its docstring (line 10) speaks of the previous one. A full re-upload is refused once
somebody has commented on a row of the run (`incremental.py:207` deletes what
`models.py:341` refers to), although `docs/quick-reference.md:161` says that it
replaces the rows. One report may store a warning several times in a run, and a later run then shows one of the
rows as fixed; two processes store it from two reports. An incremental
report shrinks the next baseline, and an ignored warning is in none: both are
reported as new again later. An incremental re-upload that shows a warning again
leaves its row "fixed" if the full upload of the build stored it so. A rejected
snapshot or a crash leaves a run in "processing" for ever.
`update_issue_resolution_api` commits a resolution and then builds a comment without
its issue, which always fails (`api.py:1160`). On SQLite a re-upload awaits its
snapshot with a write lock held.

## JiraSync: the bugs of a run

One run, its rows, the jobs its uploads queue, the thread of the service `jira`, and
Jira as the number of bugs per warning. A report is a set of entries, and entries may share
a fingerprint (`FpOf`), as two lines of a report may: each becomes a row of its own.

| Action | Code |
|---|---|
| `Upload` | the rows an upload leaves and the job it queues; a full report replaces the rows, unless the job holds locks on them |
| `Begin`, `Skip` | `claim_next_job`, then `sync_run_issues_to_jira` loads the new rows; without a connection or the project in Jira it returns at once |
| `LookUpNext`, `Create` | `find_issue_by_fingerprint`, which answers None also when both searches fail; `create_bug`: the library sends a request again when the connection breaks (`max_retries=1`, `jira_service.py:40`) and then reads the bug, so that up to two bugs may come of it, heard of or not |
| `Flush` | the autoflush before the fixed rows are read: a row that was deleted meanwhile raises, unless SQLite has given its id away |
| `Commit`, `Complete` | the commit of all keys, on SQLite also to rows that have an id of a deleted one now (`Landing`); `complete_job` |
| `Raise`, `Die` | a database exception and `fail_job`; the end of the process |

`blind` counts the lookups that failed before a bug was opened, `repeated` the requests that
were sent twice: these are the licences `NoTwinBugs` gives. `misplaced` names the rows that
were given the key of another warning because they took the id of a row replaced under the
job: `Issue.id` has no AUTOINCREMENT (`models.py:294`), so SQLite uses the highest ids again, of
this run or of another. `QuietMeansKeyed` excuses these rows and no other, and on PostgreSQL
none. Comments on fixed warnings are left out, but not the time they take. One process is
modelled: two would run two jobs of one run at once. A search is taken to find every bug
opened before it, although Jira's index may lag.

Run `jira_sync`: SQLite, two uploads of three entries, two of which are one warning, two
attempts, one database error and two other troubles. Two troubles allow a failed lookup of a
bug that was itself opened without an answer; two uploads a job whose rows are replaced while
the next one waits. SQLite has the behaviours of PostgreSQL here, but for a re-upload that
adds rows while the thread holds locks; the proofs cover both, and any number of uploads.

*Seen on the way.* Without a connection a job is done without a bug, and nothing
repeats it until the next upload of the run; a crash leaves the job in "processing". On
SQLite a key may land on the row of another warning, whose own bug is then never opened.

## Changesets: from a push to a build

The commits form a graph and are numbered in the order of the pushes, which is what
TFVC does. A web hook is examined in the background with the project it read at its
start.

| Action | Code |
|---|---|
| `Push`, `Redeliver` | the repository server; a web hook is delivered late, never, or again |
| `Receive` | `process_git_event`, `process_tfvc_event` up to the network: the project of the branch, or of the repository |
| `Examine`, `ExamineWithout`, `Drop` | `check_git_changes`, `check_tfvc_changes` and what follows: a job, a release project and its job, or nothing; TFS leaves a changeset out; anything raises |
| `Invoke`, `Refuse`, `InvokeFails` | `_handle_jenkins_trigger` and `trigger_build`: started, refused because the project is paused, or an exception before or after Jenkins took the build |
| `Record`, `RecordFails` | `set_analysis_queued`, `update_last_changeset`, `complete_job`, and their exceptions |
| `Callback` | `analysis_callback` with the commit of the build, at any time |
| `Switch`, `Trigger`, `Toggle` | `sync_project_branch` on opening a dashboard, a build by hand, a pause |
| `Crash` | the tasks and the job in hand are lost |

Run `changesets`: three commits, one of them on a release branch, three jobs of two
attempts, one incident (fault, switch or pause), both version control systems. The
interesting races need two pushes of one branch, in either order of their jobs, and a
release branch beside them.

*Seen on the way.* The diff of two commits is the union of what either touches, so a
last changeset that moves backwards costs a wider build and loses nothing; this is why
`LastIsCovered` holds. A dropped push is made up for by the next one. The merge branch
of TFVC (`check_tfvc_merge`) is never reached. A build by hand on a switched branch
asks for the last commit of the other branch.

## Administration: gates, projects, members, groups, seeding

Handlers do not await between their commits, so an instance runs one at a time; `op[i]` is
what that of instance `i` has left to do. Between two of its commits the other instances go on,
which `docs/zero-downtime-deployment.md:20-23` requires two of, and so does the thread that seeds
a start (`boot[i]`), on the instance itself too: requests are served before it ends
(`main.py:100-122`). A later commit may be refused (`Refused`): a name was taken, a gate or a
project is gone. `Crash` ends the handler and the start of an instance, which starts again.

| Action | Code |
|---|---|
| `CreateGate`, `InsertGate`, `SetRules`, `MakeDefault`, `FinishDefault`, `UpdateGate`, `AddCondition` | the quality gate API: clearing the old default is a commit of its own, the rules are another |
| `DeleteGate`, `FinishDelete` | what a deletion looks at, and its commit, with the rules that were seen; projects assigned between the two lose the gate |
| `SyncWarnings`, `SyncRules` | the import of the catalogue, and then the rules of the default gate |
| `CreateApi`, `CreateUi`, `CreateCi`, `WriteLog` | the ways to create a project, `clone_ci_project` being `CreateCi`; the creator's membership and the log are commits of their own |
| `AddMember`, `InsertMember` | the look for a row of the user, and the row with the role asked for, or the creator's |
| `AssignGate`, `ChooseGroup`, `Subscribe`, `Upload` | the settings of a project, `update_my_notifications`, and what an upload adds here: a log line and a subscriber |
| `DeleteUi`, `DeleteApi` | deletion, which subscribers prevent; the API leaves the log |
| `CreateGroup`, `RenameGroup`, `DeleteGroup` | the groups a project may choose |
| `LoadCatalog`, `SeedPresent`, `SeedLook`, `SeedInsert`, `SeedTaken`, `SeedPopulate`, `SyncGroups` | the start, commit by commit; `SeedTaken` is the branch for a name that was taken between the look and the insert |

`Init` chooses the database. SQLite goes with one instance, checks no foreign keys and uses ids
again; PostgreSQL goes with all of them. Rows remember which creation of a project they belong
to, and a deleted gate of PostgreSQL is `Gone`. A role is one bit (`admin`): the rights of
UserRole.USER lie between those of an admin and of a viewer. Replacing the rules of a gate and updating
one without the flag are one step each: they are one commit, and what two of them
at once leave of the rules concerns no property here. A start whose gate vanishes before it is populated
raises, and its instance never becomes ready.

The properties say what happens when requests overlap by histories of it: `mixed` (the flag
was last moved while another move was under way), `doubled` (a user was added by two requests
at once) and `lapsed` (why there may be no default gate).
Run `administration` has two instances, two users, two gates, two groups, one project id,
two projects in turn on it and three events, which are requests and crashes: that is the least
with which two moves of the flag overlap after a gate exists, two additions of a member
overlap after the creation of their project, and an id is used again. Every action occurs, two
default gates, doubled rows and refused deletions among what follows. The proofs cover any numbers.

*Seen on the way.* Two moves of the default flag that overlap, on two instances or beside a
seeding start, leave two default gates, and the database decides which of them an upload
is judged by (`quality_gate.py:32`); the next move that is alone repairs it. Two overlapping
requests to add a member leave two rows with perhaps two roles. A gate that is made the default while it
is being deleted takes the flag with it. A gate created under the name of the seeded
one before the first start looks leaves the system without a default. Unsetting the default
gate, or a crash between the two commits that move it, leaves projects without a gate until
the flag is set again. On PostgreSQL `delete_project_api` is refused once the project has a log
line; on SQLite its log survives for the next project with that id.

## Dashboards: totals, lists, authors, timelines

The views are operators over the finished runs. The actions are `Upload` (a whole upload
as one step, in which an edited warning may have moved), `Abandon` (one that ends between
the commit of its rows and that of "done", by an exception or a crash), `Ignore`,
`Backfill`, which fills in missing authors at a start, and `NameRoots` and `OpenSettings`,
which decide the key of a warning across platforms. Baselines and every page but one look at
finished runs; the timeline and `ignore_issue` do not ask whether a run is done, so the rows
of the others are kept (`unfinished`). A report holds a warning once here; what two equal
ones do to a run is in `RunTracking`.

| Definition | Code |
|---|---|
| `KeyOf`, `CrossRoot` | `compute_cross_platform_fp`, `get_effective_source_root` |
| `Before`, `Classified`, `Author` | `_get_prev_run`, `classify_and_store`, `resolve_issue_author` |
| `Fill`, `Backfilled` | `_backfill_issue_authors`, run by run |
| `Overview`, `Total`, `Badge`, `GateRun` | `ui_dashboard`, `build_platform_metrics`, `build_quality_gate_result` |
| `Age`, `Window`, `Counted`, `Wave`, `KeysInWave`, `CountedInCommon`, `CountedInJson` | `build_run_history`, `build_common_wave_history`, `api_dashboard` |
| `List`, `ListOfCommon`, `ApiList` | `run_queries.py`, `issues_query.py`, `list_issues_api` |
| `Exported` | `export_issues_csv_api` |
| `SeverityFacet`, `StatusFacet` | `compute_issue_facets` |
| `Abandon`, `unfinished` | an upload that fails or dies in `upload_report_api` after `classify_and_store` |
| `Listing`, `Event`, `Timeline`, `Creator` | `build_issue_activity_timeline` |
| `Offset`, `OnPage`, `HasNext`, `Scrolled` | the pages of `main.py` and `issues_rows.html` |

`Ledger.tla` is what all of this promises somebody who watches the warnings of a platform,
without runs and baselines: a list of entries with a standing and somebody who answers for
each. An analysis touches the list of its own platform, calls a warning new only if it was
not open, and leaves an open one with whoever answers for it; only a full one says that
something was fixed, and it forgets nothing; nobody who is named is replaced while the entry
stays. `KeepsTheLedger` is the refinement: the entries of a platform are the rows of its
latest run (`Entries`). It is not obvious, because ignoring a warning rewrites every run of
its platform, and a start rewrites the authors of all runs from each other.

Run `dashboards`: three runs, the first of an unknown author, histories of two, three
warnings of which two are lines of one defect, two severities, one edit or start that fills
in authors, pages of two rows and then one; at first the project names the source roots
of Windows and Linux, or all (`RootsAtFirst`), and other sets, none among them, by an edit. Three runs are the
least that leave a window of two and let the platforms interleave; the pages show a first
one, a fragment and a last one. An abandoned upload is the edit of its behaviour and one of
its three runs; that several of them, and ignored warnings among them, change nothing is left
to the proof. Run `dashboards_macos` is the finding below. What it shows:
a total never exceeds the list beside it, a defect in Common is open everywhere, the facets
count what a click lists, scrolling shows every row once, a row names whoever brought the
warning in, and a timeline opens a warning again only as a new one, unless a run that never
finished called it fixed, and fixes it only by a full report (`TimelineIsTrue`), and the whole implements `Ledger`. The symmetry of the two
lines is sound for it too, which is a safety property and names no warning.

**Finding.** `platforms.py:79` passes the root of macOS and the global settings in each
other's place to `get_effective_source_root` (`file_resolver.py:128`). Once the
settings row exists every report of macOS is refused, and once a project names a root of
macOS so is every report of a platform without a root. `docs/quick-reference.md:527`
lists `macos` among the platforms of the upload. `EveryPlatformAccepted` states it.

*Seen on the way.* A warning that was fixed and comes back inside the window is not
counted; the Common total leaves out a defect of which one line was fixed; `api_dashboard`
takes the oldest ten runs (`main.py:1780`), which is why `KpiCountsOpenOnly` compares the
two totals only while no run is older than the window; the facet of fixed warnings is
always 0; the total of `list_issues_api` ignores the search text. The backfill
(`main.py:346`) gives a warning nobody is named for to the first later run that names
somebody, who did not bring it in: `AuthorBroughtItIn` says exactly that much. The timeline
does not ask for finished runs (`issue_activity.py:49`): it has events of runs that no
dashboard knows and that no later run was compared with, such as a warning that is fixed in
one and "existing" in the next. A timeline never has the event of a changed line (`issue_activity.py:95`), because the line is part
of the fingerprint it follows (`parser.py:18`). The verdict beside the totals of All and
Common is that of the newest run of any platform, and the export has that run alone.

## Sources: the code viewer and its clones

One directory and the origins, repositories with a branch, that share its name: it is made
of the last part of the address and the branch with `_` for `/` (`git_integration.py:75`). A
revision is a version of an origin; what the directory is a clone of is the origin of its
branch.

| Action | Code |
|---|---|
| `Ask` | `view_code`, `fetch_source_file`: a snapshot of the run is shown at once |
| `UseClone`, `MakeClone` | `clone_or_update_repo` up to its first await |
| `Succeed`, `Fail`, `TimesOut` | one git command under `wait_for`: it works, fails, or is given up and goes on (`Straggle`) |
| `Read` | the file from whatever the directory holds, or the next source |
| `Commit`, `Age`, `Restart` | a remote branch moves, the time to live passes, the process restarts |

Run `sources`: two pages, two branches of one repository and another one of its name, two of
which move, one restart; a second page is all it takes to disturb the first. `disturbed` is
the history of the pages that met trouble or another's work, `misled` of those that took the
clone of another repository for theirs; `RightWhenAlone` is about the rest, to which the pages
of the other branch of a repository belong: their checkout fails, and with a commit of the run
they still end with the right file. *Fairness*: the event loop runs what
is ready and rings time-outs (`WF` on the start of a page, `TimesOut` and `Read`); that git
answers is not assumed.

*Seen on the way.* Two repositories of one name and branch share a clone, and the page of one
shows the file of the other; of two branches such as `feature/x` and `feature_x` the page of
one shows the other, unless its run names a commit (`git_integration.py:79`). A failed clone
removes the directory even if another page works in
it; a failed update renews the time stamp and a failed checkout is swallowed, so that the
page shows another version than the run's commit (`git_integration.py:255`, against
`docs/inline-code-viewer.md:97`); `cleanup_expired` is never called
(`docs/inline-code-viewer.md:103`); a crash during a clone leaves an empty directory that
counts as valid.

## SonarIssues and LegacyBuilds: the legacy service

`SonarIssues`: a web hook after an analysis is one step, because its handler never awaits
(`Process`, with `ProcessRelease` and `ProcessIssues`). `Answers` and `After` are the cache,
`Pages` the one page SonarQube gives, as no request names another one, `Handled` the issues
reached before the handler returns at one without a line or source, `Exists` the search in
Jira, `Opens` what becomes of the requests to create: the library repeats one when the
connection breaks (`max_retries=1`, `services/jira_service.py:49`), each may have been carried
out, and the read that follows may fail. `Analysis`, `Tick`, `SwitchJira` and `RestartService`
are the world; an issue may leave the new-code period without a fix.

Run `legacy_issues`: three issues, of which an answer holds two, two analyses, a time to live
of one tick and days of two, so that an entry expires within a day and across its end. *Seen
on the way*: the pattern of `invalidate_project` matches no key (`cache.py:254`, against
`docs/caching.md:85`), so every answer may be a time to live old; and the service never asks
for a second page (`sonarqube_api_client.py:69`), so that issues beyond the first hundred are
overlooked for as long as the first page is full. `OverlooksOnlyNewIssues` and
`ActsOnRecentAnswers` say how much harm this does, `NoTwinBugs` where a second bug comes from:
a search that failed (`blind`), or a repeated request (`repeated`).

`LegacyBuilds`: background tasks with sessions of their own (`Examine`, `Create`, `Fetch`,
`Trigger`, `Update`), `Callback`, and the forms and buttons of a project (`StartAnalyze`,
`OpenForm`, `SaveForm`, `Clone`, `SwitchOff`, `Delete`). SQLite uses the highest ids again
(`database.py:6`): a new row takes the place behind the last one, so that a task or a form may
write to a project that was created under it. Run `legacy_builds`: two tasks, three
pushes, three web hooks, one fault and one manual action: two tasks overlap, the third
web hook reads what they left. *Seen on the way*: `update_last_changeset` does not ask whether
the build was accepted, so that a refused build is never made up for (`refused` in
`LastIsCovered`); of TFVC, a changeset whose request fails, or which is beyond the list the
server gives, is left out while the last changeset moves past it
(`repository_service.py:300`; `skipped`); a late update writes the changeset of a deleted
project to the one that has its id (`confused`); two concurrent pushes to a new release branch
make two projects of one name (`webhooks.py:331`); the edit form writes back the changeset it
was opened with; a clone copies the last changeset although nothing was analysed for it.


## What is proved

The theorems hold for every number of threads, rows, uploads, users, commits, attempts
and faults. None of the invariants below is inductive as it stands; each module
strengthens it to an `IInv` of named parts, with a lemma per action.

**`RestQueueProofs`.** `ClaimIsHeld` says nothing of a row between its SELECT and its
claim, and `FaultStrandsOne` nothing of who may still point at a row. `IInv` adds

* `BindingInv`: a thread has a row exactly from its SELECT to its release;
* `DistinctInv`: threads past a SELECT have different rows, because of the row lock on
  PostgreSQL and because of `SingleInv`, one live thread per service, on SQLite (where
  rows of different services differ in their task);
* `SelectedInv`: a selected row is still pending and has the attempts that were read,
  so the ORM's stale "attempts + 1" is right;
* `BusyInv`, `RowInv`: what a row in execution, and any row, looks like;
* `OneRowInv`, `OwnerInv`: a processing row points at the thread that executes it or
  died with it, and no two rows point at one thread.

`TypeCorrect`, `Exclusive`, `ClaimSafe`, `FaultContained`, `BoundedEffects`,
`RetriedToTheEnd` and `DoneIsTrue` follow. `Implements` is the refinement: the initial
states map to the initial state of `JobLifecycle`, and under `IInv` each step maps to a
step or a stutter.

**`RunTrackingProofs`.** `IInv` holds in every deployment and gives `TypeCorrect` and
`NothingLost` (`NothingVanishes`). Its core is `KeptInv`: the rows an upload has read at
`Diff`, and those it has stored, remain listed unless another full report of the run
was stored; `OldInv` says that they are rows of its own run, `RowInv` and `PrevInv` where
rows and baselines come from. `SInv` needs `OneProcess` and gives `OneReport`,
`BaselineKept` and `PlatformsApart`, and the part of `NothingLost` that is about what the
baseline showed (`PrevKeptInv`: as the rows of a warning agree, the one that is copied is active). Its core is `LoopInv`, one handler at a time between
two awaits; hence the rows an upload has read are the rows of its run and its baseline (`CurrentInv`), and
a run whose upload may still fail is nobody's baseline (`SettledInv`, `FreshInv`). `CInv`
gives `CountersRight`: the counters an upload has measured and not yet written are those
of the rows, and the counters of a finished run are those of its rows but for the rows
ignored since. It compares cardinalities, so it needs that the table is finite, and that no two
rows become one when they are ignored (`SomeIgnored`).

**`ChangesetsProofs`.** A last changeset is right when a first scan was asked for and
everything behind it was analysed or excused (`Done`). `TaskInv`, `JobInv` and `BuildInv`
say it of what a web hook has read, of what a job will ask for, and of what a callback may
still report. The lemma `Grow` is the argument: builds and excuses only accumulate, so
whatever was right when it was read is right when it is written, in any order. `NoGap`,
`NothingForgotten` and `WholeFirst` follow, and `TypeCorrect`.

**`LegacyProofs`.** Both halves of the legacy service. From a push to a build it is the
same argument, where a changeset is found by searching the pushes: `Good` is a push that
may be a last changeset of a name; `TaskOk`, `BuildOk` and `FormOk` carry it through tasks,
callbacks and forms that were opened long ago. What a task knows is about the name it read,
so that it stays right when its row is another project's; `confused` is what the update then
costs. `LeastOf` and `GreatestOf` supply the first and the last of a set of numbers. `NoGap`,
`WholeFirst`. From SonarQube to Jira the core is `CacheOk`: an entry is never younger than
the clock, what it lists was so when it was fetched, and so was what it lacks unless it is a
full page (`Listed`). This bounds what a stale answer can do: `OverlooksOnlyNew`,
`RecentAnswers`, `OneBug`.

**`AdministrationProofs`.** `ServerInv` types what handlers and starts have left to do, and
says that a gate about to be deleted was no default when it was looked at. `FlagInv` holds
unless moves of the flag met: then at most one handler or start is about to set it, and it is
set nowhere else meanwhile. `LapsedInv` says where the default gate is unless it lapsed: in the
table, in the hands of a handler that moves it, or still to be seeded by every start there is.
`MemberInv` is the same for additions: whoever is about to be added where he has a
row, or twice, is in `doubled`; members are members of projects there are. `ProjectInv` says
that PostgreSQL never uses an id again, not even for a handler that goes on with one.
`OneDefault`, `OneRole`, `GateForEach` and, with `NamesInv` and `BookInv`, `TypeCorrect`
follow from the one invariant `IInv`. A lemma `BeganElsewhere` or `OpStep` says once for all
handlers that a step of one instance leaves what the others have to do alone.

**`JiraSyncProofs`.** `AnswerInv`: whoever is about to open a bug found none, or has a
failed lookup or a repeated request to show for those there are. `OneBug` follows. `NothingOverlooked` needs
`QInv`: the job that the upload of a new row queued waits and has spent attempts on
database errors only, or has the row in hand, or has stored its key (`RowInv`,
`Accounted`); a flush fails only when all rows of the job were replaced (`LoadedInv`), which a
later job accounts for; and a row with a key has the bug of its warning unless it took the
id of another one (`KeyInv`).

**`SourcesProofs`.** `DirOk`: commands, stragglers and deletions keep a clone a clone, or
no clone. `AloneInv`: a page that nobody disturbed finds the clone as its last command left
it, of its own repository unless it was misled, and of its own branch once that could be
checked out: before the pull, which moves whatever the clone is of. `AloneIsRight` follows,
and `TypeCorrect`.

**`DashboardsProofs`.** A page compares rows of different runs, and a row says nothing of
the runs before it; `IInv` says what it must have to do with them. `UniqueInv`: a run has
one row per warning, so that "the row of a warning" is a row. `FollowsInv`: a new row was
not open in the run before on its platform, an existing or fixed one was, and an ignored
one is ignored in every earlier run that lists it, however late somebody ignored it.
`ComparedInv`: a full report has each warning that was open before it, as existing or as
fixed. `LeftInv` says of the rows of unfinished runs what `FollowsInv` says of the others,
with the last finished run before them, and that a row ignored in a later run is ignored in
them. The last part is `AuthorBroughtItIn` itself: a row that a new run takes an author
from must already name the right one. On these rest

* `TypeCorrect`, `AuthorshipIsTrue` and `TimelinesAreTrue`. The hard step is `Backfill`,
  which rewrites all runs at once, each from what it has just written into the one before.
  An induction over the runs is out of reach, so `FilledRows` takes the first run whose
  rows would be wrong and shows that the run before it was wrong already (`LeastOf`, which
  comes from the well-foundedness of strict inclusion among finite sets). An event of a
  timeline compares two sightings of which either may be unfinished: what was sighted after
  the last finished run and before the event was compared with that same run (`LastFinished`);
* `TotalsCountOpenOnly`: the last run of the window that had a counted warning open is the
  latest one, or else the next one was full and has a row of it, which is neither existing
  (it would be open later) nor fixed (it would not be counted). `TotalIsListed` and `JsonIs`
  compare cardinalities of the totals with those of the lists, `AllIsTheSum` adds up three
  disjoint lists;
* `CommonIsOpenEverywhere` and `FacetsAreCounts`: `FirstWave` identifies the first wave
  with the latest runs, `CommonFacets` bounds the rows a key hides;
* `Implements`, the refinement of `Ledger`: `UploadKeeps`, `IgnoreKeeps` and `BackfillKeeps`
  match each step with a step of the ledger, and the others with a stutter. A new row that
  goes on is matched with the one open row of its warning by `UniqueInv`;
* `ScrollingShowsAll`: where a page begins (`BeginIs`) does not depend on the runs. The
  page that shows a place is found by the least fragment that ends behind it, and there
  is only one (`OneFragment`, `OnePage`).

*Assumptions.* `BackendAssumption` says that SQLite goes with one thread per service, as
`docs/rest-queue.md` requires PostgreSQL for several processes. `ChangesetsAssumption`
says that commits are numbered in an order that extends their ancestry,
`AdministrationAssumption` that there is an instance, and `SonarAssumption` that a time to live is shorter than the day a web hook looks back. The others
(`QueueAssumption`, `TrackingAssumption`, `NoneAssumption`,
`JiraAssumption`, `SourcesAssumption`, `LegacyAssumption`, `DashboardsAssumption`) type the
constants and say what is finite. TLC evaluates all of them in the runs of their modules.

## What is only model-checked

* `JobSettles` and `EveryPageEnds`: liveness under fairness is out of the prover's reach.
* `EveryPlatformAccepted`, whose counterexample is the finding.

## What is not modelled

* *Login* (`auth.py`, tokens, LDAP): cryptography and I/O. Users are given.
* *Health pages* (`runtime_health.py`, `integration_health.py`): they read, and show.
* *Schema changes, probes and the time-out of a start*: a start that takes longer than its
  time-out is cancelled while its thread goes on (`main.py:108`); what the thread commits is in
  `Administration`, the rest is the host's.
* *Parsing* of reports and of the vendor's catalogue, fingerprints as text and hash:
  a fingerprint is an identity here, which the entries of a report may share.
* *Templates, scripts in the browser, mail texts, deployment, one-off scripts.*
* *Legacy scanner and rate limiter*: a command line tool on the build agent, and a counter
  that touches nothing else. Redis as a backend of the legacy cache.
* Inside the modelled parts: resolutions and assignments of single warnings (`api.py:1160`
  commits a resolution and then fails to comment on it), the lock of SQLite that a re-upload
  holds across an await (`main.py:1638`: a wait inside the database that no variable of
  `RunTracking` shows), the name `_stop` in `ServiceWorker` (`worker.py:23`: a property of the
  library, not of a state), comments on fixed warnings in Jira, and a second process there.

## Plan

Done: the queue with its refinement, tracking, CI, Jira, administration, dashboards, the code
viewer and the two halves of the legacy service. Every invariant and action property of
the passing runs is a theorem too.

What would add most next, in this order:

1. the deletion of a project beside its uploads and queued jobs, by adding both to
   `RunTracking` (so far `Administration` shows what it leaves in the tables);
2. a second process in `JiraSync`, and the comments on fixed warnings;
3. the same `Ledger` for `RunTracking`, whose finished runs implement it as long as uploads
   of a platform do not overlap.
