------------------------------ MODULE Changesets ------------------------------
(***************************************************************************)
(* From a push to a Jenkins build: the inbound web hook looks for the      *)
(* project of the branch, compares the pushed commit with the last one     *)
(* processed and queues a build of what changed; the queue's Jenkins       *)
(* worker starts it and moves last_processed_changeset; the build calls    *)
(* back and moves it too. Meanwhile users start builds by hand, switch the *)
(* project to another branch by looking at it, and pause it.               *)
(*                                                                         *)
(* Web hooks are examined by background threads, each with the row it read *)
(* at its start. The commits form a graph; a commit is named by its place  *)
(* in the order of the pushes, so that TFVC, which numbers them, compares  *)
(* numbers. Deletion of projects is in module Administration, how a job is *)
(* claimed and retried in module RestQueue.                                *)
(***************************************************************************)
EXTENDS Integers, Sequences, FiniteSets

CONSTANTS
  MaxCommits,   \* bound: commits ever pushed
  Branch,       \* branches of the repository
  BranchOf,     \* BranchOf[c]: the branch a commit is pushed to
  Anc,          \* Anc[c]: the commit and those it is built on
  File,         \* C/C++/C# source files
  Touched,      \* Touched[c]: those a commit changes
  ReleaseBranch,\* branches with "release" in their name
  Root,         \* the project created by a user; it has the repository's name
  SuffixOf,     \* SuffixOf[b]: the last part of a branch's name
  MainBranch,   \* the branch Root is created with
  MaxAttempts,  \* max_attempts of a queued job
  MaxJobs,      \* bound: jobs ever queued
  MaxIncidents, \* bound: faults, switches of branch, pauses
  None

Commit  == 1..MaxCommits
Nothing == 0              \* last_processed_changeset = ""
\* Projects made for a release branch carry its suffix after the name of Root.
Project == {Root} \union {SuffixOf[b] : b \in ReleaseBranch}

\* A Project.
ProjectRow == [branch : Branch, last : 0..MaxCommits, disabled : BOOLEAN]

ASSUME ChangesetsAssumption ==
  /\ MaxCommits \in Nat /\ MaxAttempts \in Nat \ {0}
  /\ MaxJobs \in Nat /\ MaxIncidents \in Nat
  /\ BranchOf \in [Commit -> Branch]
  /\ Touched \in [Commit -> SUBSET File]
  /\ Anc \in [Commit -> SUBSET Commit]
  /\ \A c \in Commit : c \in Anc[c] /\ \A d \in Anc[c] : d <= c
  /\ ReleaseBranch \subseteq Branch /\ MainBranch \in Branch
  /\ \A b \in Branch : SuffixOf[b] # Root
  /\ None \notin ProjectRow

VARIABLES
  cvs,       \* Project.cvs_system, the same for the release projects
  head,      \* how many commits were pushed
  events,    \* pushes whose web hook was not examined yet
  tasks,     \* web hooks being examined, with what was read for them
  projects,  \* projects[p]: branch, last processed commit, disabled; or None
  jobs,      \* jobs[i]: a row of the queue for Jenkins
  builds,    \* the builds Jenkins was asked for
  examined,  \* what the web hooks that ended well looked at
  skipped,   \* changesets whose files TFS did not return
  incidents  \* counter for MaxIncidents

vars == <<cvs, head, events, tasks, projects, jobs, builds, examined, skipped,
          incidents>>

NewProject(b) == [branch |-> b, last |-> Nothing, disabled |-> FALSE]

Init ==
  /\ cvs \in {"Git", "TFVC"}
  /\ head = 0
  /\ events = {}
  /\ tasks = {}
  /\ projects = [p \in Project |-> IF p = Root THEN NewProject(MainBranch) ELSE None]
  /\ jobs = <<>>
  /\ builds = {}
  /\ examined = {}
  /\ skipped = {}
  /\ incidents = 0

Incident == incidents < MaxIncidents /\ incidents' = incidents + 1
Exists(p) == projects[p] # None

-----------------------------------------------------------------------------
(* The repository and its web hooks *)

Push ==
  /\ head < MaxCommits
  /\ head' = head + 1
  /\ events' = events \union {head + 1}
  /\ UNCHANGED <<cvs, tasks, projects, jobs, builds, examined, skipped, incidents>>

\* The server sends a web hook again.
Redeliver(c) ==
  /\ c <= head /\ c \notin events
  /\ Incident
  /\ events' = events \union {c}
  /\ UNCHANGED <<cvs, head, tasks, projects, jobs, builds, examined, skipped>>

\* Git looks for the project named after the branch, then for the one named
\* after the repository; TFVC for the one whose branch it is.
Found(b) ==
  IF cvs = "TFVC" THEN {p \in Project : Exists(p) /\ projects[p].branch = b}
  ELSE IF b \in ReleaseBranch /\ Exists(SuffixOf[b]) THEN {SuffixOf[b]} ELSE {Root}

\* A push to the project's own branch, or, with Git, to a release branch.
Concerns(p, b) ==
  projects[p].branch = b \/ (cvs = "Git" /\ b \in ReleaseBranch)

\* process_git_event, process_tfvc_event up to the network: reads the project.
Receive(c) ==
  /\ c \in events
  /\ events' = events \ {c}
  /\ \/ \E p \in Found(BranchOf[c]) :
          /\ ~projects[p].disabled /\ Concerns(p, BranchOf[c])
          /\ tasks' = tasks \union
               {[commit |-> c, project |-> p, last |-> projects[p].last,
                 own |-> projects[p].branch = BranchOf[c]]}
     \/ /\ \A p \in Found(BranchOf[c]) :
             projects[p].disabled \/ ~Concerns(p, BranchOf[c])
        /\ UNCHANGED tasks
  /\ UNCHANGED <<cvs, head, projects, jobs, builds, examined, skipped, incidents>>

Of(cs) == UNION {Touched[c] : c \in cs}

\* check_git_changes: the files in which the two commits differ.
Between(a, b) == (Anc[a] \ Anc[b]) \union (Anc[b] \ Anc[a])
\* check_tfvc_changes: the changesets by number, from the last one on.
Range(a, b) == {c \in Commit : a <= c /\ c <= b}

Examination(t) == IF cvs = "Git" THEN Between(t.last, t.commit)
                                 ELSE Range(t.last, t.commit)

NewJob(p, c, first, files, update) ==
  [project |-> p, commit |-> c, first |-> first, files |-> files,
   update |-> update, status |-> "pending", attempts |-> 0]
Enqueue(j) == /\ Len(jobs) < MaxJobs
              /\ jobs' = Append(jobs, j)

\* The changed files are known: _trigger_and_update queues a build for the
\* project, or for a release project made of it (duplicate_release_project).
\* Seeds: a release project starts with the files that changed for its template;
\* a project with a build in the queue needs no other; the commit counts as
\* processed once its build is queued.
QueuedPartly(p, t, files) ==
  Enqueue(NewJob(p, t.commit, t.last = Nothing, files, TRUE))
QueuedUnlessWaiting(p, t, files) ==
  IF \E i \in DOMAIN jobs : jobs[i].project = p /\ jobs[i].status = "pending"
    THEN UNCHANGED jobs
    ELSE Enqueue(NewJob(p, t.commit, t.last = Nothing \/ ~t.own, files, TRUE))
Queued(p, t, files) ==
  Enqueue(NewJob(p, t.commit, t.last = Nothing \/ ~t.own, files, TRUE))
MarkedEarly(p, t) == [projects EXCEPT ![p].last = t.commit]
Marked(p, t) == projects

Analyse(t, files) ==
  IF t.own
    THEN /\ Queued(t.project, t, files)
         /\ projects' = Marked(t.project, t)
         /\ examined' = examined \union {<<t.project, t.commit>>}
    ELSE LET p == SuffixOf[BranchOf[t.commit]]
         IN /\ projects' = IF Exists(p) THEN projects
                           ELSE [projects EXCEPT ![p] = NewProject(BranchOf[t.commit])]
            /\ IF projects'[p].disabled
                 THEN UNCHANGED <<jobs, examined>>
                 ELSE /\ Queued(p, t, files)
                      /\ examined' = examined \union {<<p, t.commit>>}

\* No file of interest changed: nothing is queued and nothing is recorded.
Leave(t) ==
  /\ examined' = IF t.own THEN examined \union {<<t.project, t.commit>>} ELSE examined
  /\ UNCHANGED <<projects, jobs>>

Examine(t) ==
  /\ t \in tasks
  /\ tasks' = tasks \ {t}
  /\ IF t.last = Nothing
       THEN Analyse(t, {}) /\ UNCHANGED skipped
       ELSE LET files == Of(Examination(t))
            IN /\ IF files = {} THEN Leave(t) ELSE Analyse(t, files)
               /\ UNCHANGED skipped
  /\ UNCHANGED <<cvs, head, events, builds, incidents>>

\* TFS answers a request for one changeset with an error: it is left out.
ExamineWithout(t, c) ==
  /\ t \in tasks /\ cvs = "TFVC" /\ t.last # Nothing
  /\ c \in Examination(t)
  /\ Incident
  /\ tasks' = tasks \ {t}
  /\ LET files == Of(Examination(t) \ {c})
     IN IF files = {}
          THEN UNCHANGED <<projects, jobs, examined, skipped>>
          ELSE Analyse(t, files) /\ skipped' = skipped \union {c}
  /\ UNCHANGED <<cvs, head, events, builds>>

\* The repository cannot be read, or anything else raises: the push is dropped.
Drop(t) ==
  /\ t \in tasks
  /\ Incident
  /\ tasks' = tasks \ {t}
  /\ UNCHANGED <<cvs, head, events, projects, jobs, builds, examined, skipped>>

-----------------------------------------------------------------------------
(* The Jenkins worker of the queue: _handle_jenkins_trigger *)

BuildOf(j) ==
  [project |-> j.project, commit |-> j.commit, first |-> j.first,
   files |-> j.files, branch |-> projects[j.project].branch]

\* One thread works the Jenkins jobs; the oldest first, but a retry
\* waits, so that later jobs overtake it.
Free == \A i \in DOMAIN jobs : jobs[i].status # "invoked"
Claimable(i) ==
  /\ Free /\ jobs[i].status = "pending"
  /\ \A k \in 1..(i - 1) : jobs[k].status = "pending" => jobs[k].attempts > 0

\* fail_job; seed: one attempt too many.
RetriedOnceMore(j) ==
  [j EXCEPT !.attempts = @ + 1,
            !.status = IF j.attempts < MaxAttempts THEN "pending" ELSE "failed"]
Retried(j) ==
  [j EXCEPT !.attempts = @ + 1,
            !.status = IF j.attempts + 1 < MaxAttempts THEN "pending" ELSE "failed"]

\* trigger_build: the branch and every other parameter are those of the project
\* now, the commit and the files those of the job.
Invoke(i) ==
  /\ Claimable(i)
  /\ ~projects[jobs[i].project].disabled
  /\ builds' = builds \union {BuildOf(jobs[i])}
  /\ jobs' = [jobs EXCEPT ![i].status = "invoked"]
  /\ UNCHANGED <<cvs, head, events, tasks, projects, examined, skipped, incidents>>

\* trigger_build returns None: the project is disabled ...
Refuse(i) ==
  /\ Claimable(i)
  /\ projects[jobs[i].project].disabled
  /\ jobs' = [jobs EXCEPT ![i] = Retried(@)]
  /\ UNCHANGED <<cvs, head, events, tasks, projects, builds, examined, skipped,
                 incidents>>

\* ... or Jenkins raised, before or after it took the build.
InvokeFails(i) ==
  /\ Claimable(i)
  /\ ~projects[jobs[i].project].disabled
  /\ Incident
  /\ builds' \in {builds, builds \union {BuildOf(jobs[i])}}
  /\ jobs' = [jobs EXCEPT ![i] = Retried(@)]
  /\ UNCHANGED <<cvs, head, events, tasks, projects, examined, skipped>>

\* set_analysis_queued and update_last_changeset.
Processed(j) == IF j.update THEN [projects EXCEPT ![j.project].last = j.commit]
                            ELSE projects
Record(i) ==
  /\ jobs[i].status = "invoked"
  /\ projects' = Processed(jobs[i])
  /\ jobs' = [jobs EXCEPT ![i].status = "done", ![i].attempts = @ + 1]
  /\ UNCHANGED <<cvs, head, events, tasks, builds, examined, skipped, incidents>>

\* The database raises before or after the commit of the new last commit, or
\* while the job is marked done: the build is started once more.
RecordFails(i) ==
  /\ jobs[i].status = "invoked"
  /\ Incident
  /\ projects' \in {projects, Processed(jobs[i])}
  /\ jobs' = [jobs EXCEPT ![i] = Retried(@)]
  /\ UNCHANGED <<cvs, head, events, tasks, builds, examined, skipped>>

\* The build calls analysis_callback with its COMMIT, at any time, or never.
Callback(b) ==
  /\ b \in builds
  /\ projects' = [projects EXCEPT ![b.project].last = b.commit]
  /\ UNCHANGED <<cvs, head, events, tasks, jobs, builds, examined, skipped, incidents>>

-----------------------------------------------------------------------------
(* Users *)

\* get_head_commit_git of a branch; get_latest_changeset_tfvc of the repository.
HeadOf(b) ==
  {c \in 1..head : /\ cvs = "Git" => BranchOf[c] = b
                   /\ \A d \in 1..head : (cvs = "Git" => BranchOf[d] = b) => d <= c}

\* sync_project_branch: what a dashboard is opened with becomes the branch.
Switch(p, b) ==
  /\ Exists(p) /\ projects[p].branch # b
  /\ Incident
  /\ projects' = [projects EXCEPT ![p].branch = b]
  /\ UNCHANGED <<cvs, head, events, tasks, jobs, builds, examined, skipped>>

\* trigger_analysis: a build of the last processed commit with no file, or a
\* first scan of the head.
ManualJob(p, c) == IF projects[p].last = Nothing
                     THEN NewJob(p, c, TRUE, {}, FALSE)
                     ELSE NewJob(p, projects[p].last, FALSE, {}, FALSE)
Trigger(p) ==
  /\ Exists(p)
  /\ \E c \in HeadOf(projects[p].branch) : Enqueue(ManualJob(p, c))
  /\ UNCHANGED <<cvs, head, events, tasks, projects, builds, examined, skipped,
                 incidents>>

\* toggle_disabled
Toggle(p) ==
  /\ Exists(p)
  /\ Incident
  /\ projects' = [projects EXCEPT ![p].disabled = ~@]
  /\ UNCHANGED <<cvs, head, events, tasks, jobs, builds, examined, skipped>>

\* The process dies: web hooks being examined are lost, and the job of the worker,
\* claimed or already invoked, stays in processing for good.
Strand(i) == [jobs EXCEPT ![i].status = "stranded"]
Crash ==
  /\ Incident
  /\ tasks' = {}
  /\ jobs' \in IF Free THEN {jobs} \union {Strand(i) : i \in {k \in DOMAIN jobs : Claimable(k)}}
             ELSE {Strand(i) : i \in {k \in DOMAIN jobs : jobs[k].status = "invoked"}}
  /\ UNCHANGED <<cvs, head, events, projects, builds, examined, skipped>>

-----------------------------------------------------------------------------
WebhookNext ==
  \/ Push
  \/ \E c \in Commit : Redeliver(c) \/ Receive(c)
  \/ \E t \in tasks : Examine(t) \/ Drop(t) \/ \E c \in Commit : ExamineWithout(t, c)

WorkerNext ==
  \/ \E i \in DOMAIN jobs : Invoke(i) \/ Refuse(i) \/ InvokeFails(i)
                           \/ Record(i) \/ RecordFails(i)
  \/ \E b \in builds : Callback(b)
  \/ Crash

\* Only Root is opened on other branches.
UserNext ==
  \/ \E b \in Branch : Switch(Root, b)
  \/ \E p \in Project : Trigger(p) \/ Toggle(p)

Next == WebhookNext \/ WorkerNext \/ UserNext

Spec == Init /\ [][Next]_vars

-----------------------------------------------------------------------------
(* Properties *)

JobRow ==
  [project : Project, commit : Commit, first : BOOLEAN, files : SUBSET File,
   update : BOOLEAN, status : {"pending", "invoked", "done", "failed", "stranded"},
   attempts : 0..MaxAttempts]
BuildRow ==
  [project : Project, commit : Commit, first : BOOLEAN, files : SUBSET File,
   branch : Branch]

\* The type invariant; a job, a build or a web hook always has its project.
TypeOK ==
  /\ cvs \in {"Git", "TFVC"} /\ head \in 0..MaxCommits
  /\ events \subseteq Commit /\ skipped \subseteq Commit
  /\ projects \in [Project -> ProjectRow \union {None}]
  /\ tasks \subseteq
       [commit : Commit, project : {p \in Project : Exists(p)},
        last : 0..MaxCommits, own : BOOLEAN]
  /\ jobs \in Seq(JobRow) /\ \A i \in DOMAIN jobs : Exists(jobs[i].project)
  /\ builds \subseteq BuildRow /\ \A b \in builds : Exists(b.project)
  /\ examined \subseteq Project \X Commit

\* What a commit is built on; TFVC takes every changeset up to its number.
Behind(c) == IF cvs = "Git" THEN Anc[c] ELSE 1..c

\* A build of the project was asked to look at every file the commit changes.
Scans(b, c) == c \in Behind(b.commit) /\ (b.first \/ Touched[c] \subseteq b.files)
Covered(p, c) ==
  Touched[c] = {} \/ \E b \in builds : b.project = p /\ Scans(b, c)

Excused(c) == c \in skipped

\* What lies behind last_processed_changeset was analysed: whatever overtakes
\* whatever, is delivered twice, retried or cut short, and although the last
\* commit moves backwards, no change is ever behind it that no build looked at,
\* but for the changesets TFS did not return.
LastIsCovered ==
  \A p \in Project : Exists(p) /\ projects[p].last # Nothing
    => \A c \in Behind(projects[p].last) : Covered(p, c) \/ Excused(c)

\* A web hook that was examined is not forgotten: all it is built on is analysed
\* once the build it queued, if any, is done.
Open(p, c) == \E i \in DOMAIN jobs :
  jobs[i].project = p /\ jobs[i].commit = c /\ jobs[i].update /\ jobs[i].status # "done"
NothingMissed ==
  \A e \in examined :
    Open(e[1], e[2]) \/ \A c \in Behind(e[2]) : Covered(e[1], c) \/ Excused(c)

\* No build analyses changes only in a project that never was analysed whole.
FirstScanFirst ==
  \A b \in builds : b.first \/ \E a \in builds : a.first /\ a.project = b.project
=============================================================================
