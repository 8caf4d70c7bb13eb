--------------------------- MODULE ChangesetsProofs ---------------------------
(***************************************************************************)
(* No change is lost between a push and its build, for every graph of      *)
(* commits and any number of jobs, attempts and incidents, with Git and    *)
(* with TFVC.                                                              *)
(***************************************************************************)
EXTENDS Changesets, TLAPS

-----------------------------------------------------------------------------
(* The inductive invariant, part by part.                                  *)

\* All that a commit is built on was analysed for a project.
UpTo(p, k) == \A c \in Behind(k) : Covered(p, c) \/ Excused(c)
Started(p) == \E b \in builds : b.first /\ b.project = p
Done(p, k) == Started(p) /\ UpTo(p, k)

\* A build of these files will analyse what is left behind a commit.
Enough(p, k, files) ==
  /\ Started(p)
  /\ \A c \in Behind(k) : Covered(p, c) \/ Excused(c) \/ Touched[c] \subseteq files

\* What a web hook read at its start was right, and stays so.
TaskOk(t) ==
  /\ ~t.own => BranchOf[t.commit] \in ReleaseBranch
  /\ t.own /\ t.last # Nothing => Done(t.project, t.last)

\* A job asks for enough; one that was invoked has its build; the worker tries
\* only what has attempts left.
JobOk(j) ==
  /\ j.first \/ Enough(j.project, j.commit, j.files)
  /\ j.status = "invoked" => \E b \in builds : b.project = j.project /\ b.commit = j.commit
  /\ j.status \in {"pending", "invoked"} => j.attempts < MaxAttempts

BuildOk(b) == Done(b.project, b.commit)
RowOk(p, row) == row.last # Nothing => Done(p, row.last)

TaskInv  == \A t \in tasks : TaskOk(t)
JobInv   == \A i \in DOMAIN jobs : JobOk(jobs[i])
BuildInv == \A b \in builds : BuildOk(b)
LastInv  == \A p \in Project : Exists(p) => RowOk(p, projects[p])
RootInv  == Exists(Root)

IInv ==
  /\ TypeOK /\ RootInv
  /\ TaskInv /\ JobInv /\ BuildInv /\ LastInv /\ NothingMissed

-----------------------------------------------------------------------------
(* What was analysed stays analysed. *)

LEMMA Grow ==
  ASSUME cvs' = cvs, builds \subseteq builds', skipped \subseteq skipped'
  PROVE  /\ \A p, k : Done(p, k) => Done(p, k)'
         /\ \A p, k : UpTo(p, k) => UpTo(p, k)'
         /\ \A p, k, F : Enough(p, k, F) => Enough(p, k, F)'
         /\ \A t : TaskOk(t) => TaskOk(t)'
         /\ \A j : JobOk(j) => JobOk(j)'
         /\ \A b : BuildOk(b) => BuildOk(b)'
         /\ \A p, row : RowOk(p, row) => RowOk(p, row)'
<1>1. \A k : Behind(k)' = Behind(k)
  BY DEF Behind
<1>2. \A p, c : Covered(p, c) => Covered(p, c)'
  <2> SUFFICES ASSUME NEW p, NEW c, Covered(p, c) PROVE Covered(p, c)'
    OBVIOUS
  <2>1. \A b : Scans(b, c) => Scans(b, c)'
    BY <1>1 DEF Scans
  <2> QED
    BY <2>1 DEF Covered
<1>3. \A c : Excused(c) => Excused(c)'
  BY DEF Excused
<1>4. \A p : Started(p) => Started(p)'
  BY DEF Started
<1>5. \A p, k : UpTo(p, k) => UpTo(p, k)'
  BY <1>1, <1>2, <1>3 DEF UpTo
<1>6. \A p, k : Done(p, k) => Done(p, k)'
  BY <1>4, <1>5 DEF Done
<1>7. \A p, k, F : Enough(p, k, F) => Enough(p, k, F)'
  BY <1>1, <1>2, <1>3, <1>4 DEF Enough
<1>8. \A t : TaskOk(t) => TaskOk(t)'
  BY <1>6 DEF TaskOk
<1>9. \A j : JobOk(j) => JobOk(j)'
  BY <1>7 DEF JobOk
<1>10. \A b : BuildOk(b) => BuildOk(b)'
  BY <1>6 DEF BuildOk
<1>11. \A p, row : RowOk(p, row) => RowOk(p, row)'
  BY <1>6 DEF RowOk
<1> QED
  BY <1>5, <1>6, <1>7, <1>8, <1>9, <1>10, <1>11

\* What a web hook examined, with what its project had, is enough; and if it
\* finds nothing, nothing was left.
LEMMA ExaminedEnough ==
  ASSUME IInv, NEW t \in tasks, t.own, t.last # Nothing, NEW S, NEW F,
         Examination(t) \subseteq S \union skipped', skipped \subseteq skipped',
         UNCHANGED <<cvs, builds>>, \A c \in S : Touched[c] \subseteq F
  PROVE  Enough(t.project, t.commit, F)'
<1>1. Done(t.project, t.last) /\ Done(t.project, t.last)'
  BY Grow DEF IInv, TaskInv, TaskOk
<1>2. t.commit \in Commit /\ t.last \in Commit
  BY DEF IInv, TypeOK, Commit, Nothing
<1>3. \A c \in Behind(t.commit) : c \in Behind(t.last) \/ c \in Examination(t)
  <2>1. CASE cvs = "Git"
    BY <2>1 DEF Behind, Examination, Between
  <2>2. CASE cvs # "Git"
    BY <1>2, <2>2, ChangesetsAssumption
       DEF Behind, Examination, Range, Commit, ChangesetsAssumption
  <2> QED
    BY <2>1, <2>2
<1>4. \A c \in Behind(t.commit) : (Covered(t.project, c) \/ Excused(c) \/ Touched[c] \subseteq F)'
  BY <1>1, <1>3 DEF Done, UpTo, Excused, Behind
<1>5. Behind(t.commit)' = Behind(t.commit)
  BY DEF Behind
<1> QED
  BY <1>1, <1>4, <1>5 DEF Done, Enough

-----------------------------------------------------------------------------
(* A step keeps the invariant when all it adds is right. *)

\* What becomes of a job: it stays the job of its commit, and is done only when
\* all that commit is built on was analysed.
JobKept(i) ==
  /\ i \in DOMAIN jobs'
  /\ jobs'[i].project = jobs[i].project /\ jobs'[i].commit = jobs[i].commit
  /\ jobs'[i].update = jobs[i].update
  /\ jobs'[i].status = "done"
       => jobs[i].status = "done" \/ UpTo(jobs[i].project, jobs[i].commit)

LEMMA Keep ==
  ASSUME IInv, TypeOK', cvs' = cvs, builds \subseteq builds', skipped \subseteq skipped',
         \A p \in Project : Exists(p) => projects'[p] # None,
         \A t \in tasks' : t \in tasks \/ TaskOk(t)',
         \A i \in DOMAIN jobs' :
           (\E k \in DOMAIN jobs : jobs[k] = jobs'[i]) \/ JobOk(jobs[i])',
         \A b \in builds' : b \in builds \/ BuildOk(b)',
         \A p \in Project : projects'[p] # None =>
           \/ Exists(p) /\ projects'[p].last = projects[p].last
           \/ RowOk(p, projects[p])',
         \A i \in DOMAIN jobs : JobKept(i),
         \A e \in examined' : e \in examined \/ Open(e[1], e[2])' \/ UpTo(e[1], e[2])'
  PROVE  IInv'
<1>1. RootInv'
  BY DEF IInv, RootInv, Exists, Project
<1>2. TaskInv'
  BY Grow DEF IInv, TaskInv
<1>3. JobInv'
  BY Grow DEF IInv, JobInv
<1>4. BuildInv'
  BY Grow DEF IInv, BuildInv
<1>5. LastInv'
  <2> SUFFICES ASSUME NEW p \in Project, Exists(p)' PROVE RowOk(p, projects[p])'
    BY DEF LastInv, Project
  <2>1. CASE Exists(p) /\ projects'[p].last = projects[p].last
    <3>1. RowOk(p, projects[p])'
      <4>1. projects[p].last # Nothing => Done(p, projects[p].last)
        BY <2>1 DEF IInv, LastInv, RowOk
      <4>2. projects'[p].last # Nothing => Done(p, projects[p].last)'
        BY <2>1, <4>1, Grow DEF Nothing
      <4> QED
        BY <4>2 DEF RowOk, Nothing
    <3> QED
      BY <3>1
  <2>2. CASE RowOk(p, projects[p])'
    BY <2>2
  <2> QED
    BY <2>1, <2>2 DEF Exists
<1>6. NothingMissed'
  <2> SUFFICES ASSUME NEW e \in examined' PROVE Open(e[1], e[2])' \/ UpTo(e[1], e[2])'
    BY DEF NothingMissed, UpTo
  <2>1. CASE e \in examined
    <3>1. Open(e[1], e[2]) \/ UpTo(e[1], e[2])
      BY <2>1 DEF IInv, NothingMissed, UpTo
    <3>2. CASE UpTo(e[1], e[2])
      BY <3>2, Grow
    <3>3. CASE Open(e[1], e[2])
      <4>1. PICK i \in DOMAIN jobs :
               jobs[i].project = e[1] /\ jobs[i].commit = e[2] /\ jobs[i].update
               /\ jobs[i].status # "done"
        BY <3>3 DEF Open
      <4>2. CASE UpTo(e[1], e[2])
        BY <4>2, Grow
      <4>3. CASE ~UpTo(e[1], e[2])
        BY <4>1, <4>3 DEF JobKept, Open
      <4> QED
        BY <4>2, <4>3
    <3> QED
      BY <3>1, <3>2, <3>3
  <2> QED
    BY <2>1
<1> QED
  BY <1>1, <1>2, <1>3, <1>4, <1>5, <1>6 DEF IInv

\* Nothing but the queue of web hooks and the counter moved.
LEMMA KeepAll ==
  ASSUME IInv, TypeOK', UNCHANGED <<cvs, projects, jobs, builds, examined, skipped>>,
         \A t \in tasks' : t \in tasks \/ TaskOk(t)'
  PROVE  IInv'
<1>1. \A i \in DOMAIN jobs : JobKept(i)
  BY DEF JobKept
<1> QED
  BY <1>1, Keep DEF Exists

LEMMA JobTyped ==
  ASSUME TypeOK, NEW i \in DOMAIN jobs
  PROVE  jobs[i] \in JobRow /\ jobs[i].project \in Project /\ Exists(jobs[i].project)
<1>1. jobs[i] \in JobRow /\ Exists(jobs[i].project)
  BY DEF TypeOK
<1> QED
  BY <1>1 DEF JobRow

LEMMA BuildTyped ==
  ASSUME TypeOK
  PROVE  /\ builds \subseteq BuildRow
         /\ \A b \in builds : b.project \in Project /\ Exists(b.project)
BY DEF TypeOK, BuildRow

\* A job more, with enough files to analyse.
LEMMA OneJobMore ==
  ASSUME TypeOK, NEW j \in JobRow, Enqueue(j)
  PROVE  /\ jobs' \in Seq(JobRow)
         /\ DOMAIN jobs' = DOMAIN jobs \union {Len(jobs) + 1}
         /\ jobs'[Len(jobs) + 1] = j
         /\ \A i \in DOMAIN jobs : jobs'[i] = jobs[i]
         /\ \A i \in DOMAIN jobs : JobKept(i)
<1>1. jobs \in Seq(JobRow) /\ jobs' = Append(jobs, j)
  BY DEF TypeOK, Enqueue
<1>2. /\ jobs' \in Seq(JobRow)
      /\ DOMAIN jobs' = DOMAIN jobs \union {Len(jobs) + 1}
      /\ jobs'[Len(jobs) + 1] = j
      /\ \A i \in DOMAIN jobs : jobs'[i] = jobs[i]
  BY <1>1
<1> QED
  BY <1>2 DEF JobKept

\* Another state of one job.
LEMMA OneJobChanged ==
  ASSUME TypeOK, NEW i \in DOMAIN jobs, NEW j \in JobRow, jobs' = [jobs EXCEPT ![i] = j]
  PROVE  /\ jobs' \in Seq(JobRow)
         /\ DOMAIN jobs' = DOMAIN jobs
         /\ jobs'[i] = j
         /\ \A k \in DOMAIN jobs : k # i => jobs'[k] = jobs[k]
<1>1. jobs \in Seq(JobRow) /\ i \in 1..Len(jobs)
  BY DEF TypeOK
<1> QED
  BY <1>1

-----------------------------------------------------------------------------
(* The initial states, and the steps of the web hooks. *)

LEMMA InitInv == Init => IInv
<1> SUFFICES ASSUME Init PROVE IInv
  OBVIOUS
<1>0. NewProject(MainBranch) \in ProjectRow /\ None \notin ProjectRow
  BY ChangesetsAssumption DEF NewProject, ProjectRow, Nothing, ChangesetsAssumption
<1>1. projects \in [Project -> ProjectRow \union {None}] /\ projects[Root] # None
  BY <1>0 DEF Init, Project
<1>2. \A p \in Project : Exists(p) => projects[p].last = Nothing
  BY DEF Init, NewProject, Exists
<1>3. TypeOK
  BY <1>1, ChangesetsAssumption DEF Init, TypeOK, ChangesetsAssumption
<1>4. TaskInv /\ JobInv /\ BuildInv /\ NothingMissed
  BY DEF Init, TaskInv, JobInv, BuildInv, NothingMissed
<1> QED
  BY <1>1, <1>2, <1>3, <1>4 DEF IInv, RootInv, Exists, LastInv, RowOk

LEMMA PushInv == ASSUME IInv, Push PROVE IInv'
<1>1. TypeOK'
  BY ChangesetsAssumption DEF IInv, TypeOK, Push, Commit, Exists, ChangesetsAssumption
<1> QED
  BY <1>1, KeepAll DEF Push

LEMMA RedeliverInv == ASSUME IInv, NEW c \in Commit, Redeliver(c) PROVE IInv'
<1>1. TypeOK'
  BY DEF IInv, TypeOK, Redeliver, Exists
<1> QED
  BY <1>1, KeepAll DEF Redeliver

LEMMA ReceiveInv == ASSUME IInv, NEW c \in Commit, Receive(c) PROVE IInv'
<1>1. CASE UNCHANGED tasks
  <2>1. TypeOK'
    BY <1>1 DEF IInv, TypeOK, Receive, Exists
  <2> QED
    BY <1>1, <2>1, KeepAll DEF Receive
<1>2. ASSUME NEW p \in Found(BranchOf[c]), Concerns(p, BranchOf[c]),
             tasks' = tasks \union
               {[commit |-> c, project |-> p, last |-> projects[p].last,
                 own |-> projects[p].branch = BranchOf[c]]}
      PROVE  IInv'
  <2>0. PICK t : t = [commit |-> c, project |-> p, last |-> projects[p].last,
                      own |-> projects[p].branch = BranchOf[c]]
    OBVIOUS
  <2>1. p \in Project /\ Exists(p)
    BY DEF Found, IInv, RootInv, Project
  <2>2. projects[p] \in ProjectRow
    BY <2>1 DEF IInv, TypeOK, Exists
  <2>3. t \in [commit : Commit, project : {q \in Project : Exists(q)},
               last : 0..MaxCommits, own : BOOLEAN]
    BY <2>0, <2>1, <2>2 DEF ProjectRow
  <2>4. TaskOk(t)
    BY <1>2, <2>0, <2>1 DEF TaskOk, Concerns, IInv, LastInv, RowOk
  <2>5. UNCHANGED <<cvs, projects, jobs, builds, examined, skipped>>
    BY DEF Receive
  <2>6. TaskOk(t)'
    BY <2>4, <2>5, Grow
  <2>7. tasks' = tasks \union {t}
    BY <1>2, <2>0
  <2>8. TypeOK'
    BY <2>3, <2>5, <2>7 DEF IInv, TypeOK, Receive, Exists
  <2>9. \A u \in tasks' : u \in tasks \/ TaskOk(u)'
    BY <2>6, <2>7
  <2> QED
    BY <2>5, <2>8, <2>9, KeepAll
<1> QED
  BY <1>1, <1>2 DEF Receive

LEMMA DropInv == ASSUME IInv, NEW t \in tasks, Drop(t) PROVE IInv'
<1>1. TypeOK'
  BY DEF IInv, TypeOK, Drop, Exists
<1> QED
  BY <1>1, KeepAll DEF Drop

\* A build queued for a project, which may just have been created.
LEMMA QueuedInv ==
  ASSUME IInv, NEW t \in tasks, NEW p \in Project, NEW F \in SUBSET File,
         Queued(p, t, F), tasks' = tasks \ {t},
         UNCHANGED <<cvs, head, events, builds>>,
         skipped \subseteq skipped', skipped' \subseteq Commit,
         projects' \in [Project -> ProjectRow \union {None}], projects'[p] # None,
         \A q \in Project : \/ projects'[q] = projects[q]
                            \/ projects[q] = None /\ projects'[q].last = Nothing,
         examined' = examined \union {<<p, t.commit>>},
         t.own => (t.last # Nothing => Enough(p, t.commit, F)')
  PROVE  IInv'
<1>0. PICK j : j = NewJob(p, t.commit, t.last = Nothing \/ ~t.own, F, TRUE)
  OBVIOUS
<1>1. t.commit \in Commit /\ t.own \in BOOLEAN
  BY DEF IInv, TypeOK
<1>2. j \in JobRow
  BY <1>0, <1>1, ChangesetsAssumption DEF NewJob, JobRow, ChangesetsAssumption
<1>3. /\ j.project = p /\ j.commit = t.commit /\ j.update /\ j.status = "pending"
      /\ j.files = F /\ j.attempts = 0 /\ (j.first <=> (t.last = Nothing \/ ~t.own))
  BY <1>0 DEF NewJob
<1>4. Enqueue(j)
  BY <1>0 DEF Queued
<1>5. JobOk(j)'
  BY <1>1, <1>3, ChangesetsAssumption DEF JobOk, ChangesetsAssumption
<1>6. \A q \in Project : Exists(q) => projects'[q] # None
  BY DEF Exists
<1>7. TypeOK'
  <2>1. jobs' \in Seq(JobRow) /\ \A i \in DOMAIN jobs' : projects'[jobs'[i].project] # None
    <3>1. \A i \in DOMAIN jobs : jobs[i].project \in Project /\ Exists(jobs[i].project)
      BY JobTyped DEF IInv
    <3>2. TypeOK
      BY DEF IInv
    <3> QED
      BY <1>2, <1>3, <1>4, <1>6, <3>1, <3>2, OneJobMore
  <2>2. tasks' \subseteq [commit : Commit, project : {q \in Project : projects'[q] # None},
                          last : 0..MaxCommits, own : BOOLEAN]
    BY <1>6 DEF IInv, TypeOK
  <2>3. examined' \subseteq Project \X Commit
    BY <1>1 DEF IInv, TypeOK
  <2>4. \A b \in builds : projects'[b.project] # None
    BY <1>6, BuildTyped DEF IInv
  <2> QED
    BY <2>1, <2>2, <2>3, <2>4 DEF IInv, TypeOK, Exists
<1>8. \A i \in DOMAIN jobs' : (\E k \in DOMAIN jobs : jobs[k] = jobs'[i]) \/ JobOk(jobs[i])'
  <2> SUFFICES ASSUME NEW i \in DOMAIN jobs', i \notin DOMAIN jobs PROVE JobOk(jobs[i])'
    BY <1>2, <1>4, OneJobMore DEF IInv
  <2>1. jobs'[i] = j
    BY <1>2, <1>4, OneJobMore DEF IInv
  <2> QED
    BY <1>5, <2>1
<1>9. \A i \in DOMAIN jobs : JobKept(i)
  BY <1>2, <1>4, OneJobMore DEF IInv
<1>10. Open(p, t.commit)'
  <2>1. Len(jobs) + 1 \in DOMAIN jobs' /\ jobs'[Len(jobs) + 1] = j
    BY <1>2, <1>4, OneJobMore DEF IInv
  <2> QED
    BY <1>3, <2>1 DEF Open
<1>11. \A e \in examined' : e \in examined \/ Open(e[1], e[2])' \/ UpTo(e[1], e[2])'
  BY <1>10
<1>12. \A q \in Project : projects'[q] # None =>
         \/ Exists(q) /\ projects'[q].last = projects[q].last
         \/ RowOk(q, projects[q])'
  BY DEF Exists, RowOk, Nothing
<1> QED
  BY <1>6, <1>7, <1>8, <1>9, <1>11, <1>12, Keep

\* The files are known: whose build is queued depends on the branch.
LEMMA AnalyseInv ==
  ASSUME IInv, NEW t \in tasks, NEW F \in SUBSET File, Analyse(t, F),
         tasks' = tasks \ {t}, UNCHANGED <<cvs, head, events, builds>>,
         skipped \subseteq skipped', skipped' \subseteq Commit,
         t.own => (t.last # Nothing => Enough(t.project, t.commit, F)')
  PROVE  IInv'
<1>1. t.commit \in Commit /\ t.project \in Project /\ Exists(t.project)
  BY DEF IInv, TypeOK
<1>2. projects \in [Project -> ProjectRow \union {None}]
  BY DEF IInv, TypeOK
<1>3. CASE t.own
  <2>1. /\ Queued(t.project, t, F) /\ projects' = projects
        /\ examined' = examined \union {<<t.project, t.commit>>}
    BY <1>3 DEF Analyse, Marked
  <2> QED
    BY <1>1, <1>2, <2>1, QueuedInv DEF Exists
<1>4. CASE ~t.own
  <2> DEFINE b == BranchOf[t.commit]
             p == SuffixOf[b]
  <2>1. p \in Project
    BY <1>4 DEF IInv, TaskInv, TaskOk, Project
  <2>2. NewProject(b) \in ProjectRow /\ NewProject(b).last = Nothing
    BY <1>1, ChangesetsAssumption DEF NewProject, ProjectRow, Nothing, ChangesetsAssumption
  <2>3. NewProject(b) # None
    BY <2>2, ChangesetsAssumption DEF ChangesetsAssumption
  <2>4. projects' = IF Exists(p) THEN projects ELSE [projects EXCEPT ![p] = NewProject(b)]
    BY <1>4 DEF Analyse
  <2>5. \/ projects'[p].disabled /\ UNCHANGED <<jobs, examined>>
        \/ Queued(p, t, F) /\ examined' = examined \union {<<p, t.commit>>}
    BY <1>4 DEF Analyse
  <2> HIDE DEF p, b
  <2>6. /\ projects' \in [Project -> ProjectRow \union {None}] /\ projects'[p] # None
        /\ \A q \in Project : \/ projects'[q] = projects[q]
                              \/ projects[q] = None /\ projects'[q].last = Nothing
    <3>1. CASE Exists(p)
      BY <1>2, <2>1, <2>4, <3>1 DEF Exists
    <3>2. CASE ~Exists(p)
      BY <1>2, <2>1, <2>2, <2>3, <2>4, <3>2 DEF Exists
    <3> QED
      BY <3>1, <3>2
  <2>7. CASE Queued(p, t, F) /\ examined' = examined \union {<<p, t.commit>>}
    BY <1>4, <2>1, <2>6, <2>7, QueuedInv
  <2>8. CASE UNCHANGED <<jobs, examined>>
    <3>1. \A q \in Project : Exists(q) => projects'[q] # None
      BY <2>6 DEF Exists
    <3>2. TypeOK'
      <4>1. \A i \in DOMAIN jobs : projects'[jobs[i].project] # None
        BY <3>1, JobTyped DEF IInv
      <4>2. tasks' \subseteq [commit : Commit, project : {q \in Project : projects'[q] # None},
                              last : 0..MaxCommits, own : BOOLEAN]
        BY <3>1 DEF IInv, TypeOK
      <4>3. \A a \in builds : projects'[a.project] # None
        BY <3>1, BuildTyped DEF IInv
      <4> QED
        BY <2>6, <2>8, <4>1, <4>2, <4>3 DEF IInv, TypeOK, Exists
    <3>3. \A i \in DOMAIN jobs : JobKept(i)
      BY <2>8 DEF JobKept
    <3>4. \A q \in Project : projects'[q] # None =>
            \/ Exists(q) /\ projects'[q].last = projects[q].last
            \/ RowOk(q, projects[q])'
      BY <2>6 DEF Exists, RowOk, Nothing
    <3> QED
      BY <2>8, <3>1, <3>2, <3>3, <3>4, Keep
  <2> QED
    BY <2>5, <2>7, <2>8
<1> QED
  BY <1>3, <1>4 DEF IInv, TypeOK

\* No file changed: for the project itself nothing was left.
LEMMA LeaveInv ==
  ASSUME IInv, NEW t \in tasks, Leave(t),
         tasks' = tasks \ {t}, UNCHANGED <<cvs, head, events, builds, skipped>>,
         t.own => Enough(t.project, t.commit, {})'
  PROVE  IInv'
<1>1. TypeOK'
  BY DEF IInv, TypeOK, Leave, Exists
<1>2. t.own => UpTo(t.project, t.commit)'
  BY DEF Enough, UpTo, Covered
<1>3. \A e \in examined' : e \in examined \/ Open(e[1], e[2])' \/ UpTo(e[1], e[2])'
  BY <1>2 DEF Leave
<1>4. \A i \in DOMAIN jobs : JobKept(i)
  BY DEF JobKept, Leave
<1> QED
  BY <1>1, <1>3, <1>4, Keep DEF Leave, Exists

LEMMA ExamineInv == ASSUME IInv, NEW t \in tasks, Examine(t) PROVE IInv'
<1>1. UNCHANGED <<cvs, head, events, builds, skipped>> /\ tasks' = tasks \ {t}
      /\ skipped \subseteq Commit
  BY DEF Examine, IInv, TypeOK
<1>2. CASE t.last = Nothing
  <2>1. Analyse(t, {})
    BY <1>2 DEF Examine
  <2> QED
    BY <1>1, <1>2, <2>1, AnalyseInv
<1>3. CASE t.last # Nothing
  <2> DEFINE F == Of(Examination(t))
  <2>1. IF F = {} THEN Leave(t) ELSE Analyse(t, F)
    BY <1>3 DEF Examine
  <2>2. F \in SUBSET File
    <3>1. Examination(t) \subseteq Commit
      <4>1. t.commit \in Commit /\ t.last \in Commit
        BY <1>3 DEF IInv, TypeOK, Commit, Nothing
      <4> QED
        BY <4>1, ChangesetsAssumption DEF Examination, Between, Range, ChangesetsAssumption
    <3> QED
      BY <3>1, ChangesetsAssumption DEF Of, ChangesetsAssumption
  <2>3. \A c \in Examination(t) : Touched[c] \subseteq F
    BY DEF Of
  <2> HIDE DEF F
  <2>4. PICK G : G = F
    OBVIOUS
  <2>5. t.own => Enough(t.project, t.commit, G)'
    BY <1>1, <1>3, <2>3, <2>4, ExaminedEnough
  <2>6. CASE F = {}
    <3>1. t.own => Enough(t.project, t.commit, {})'
      BY <2>4, <2>5, <2>6
    <3> QED
      BY <1>1, <2>1, <2>6, <3>1, LeaveInv
  <2>7. CASE F # {}
    BY <1>1, <1>3, <2>1, <2>2, <2>4, <2>5, <2>7, AnalyseInv
  <2> QED
    BY <2>6, <2>7
<1> QED
  BY <1>2, <1>3

\* What TFS did not return is excused, if a build is queued for the rest.
LEMMA ExamineWithoutInv ==
  ASSUME IInv, NEW t \in tasks, NEW c \in Commit, ExamineWithout(t, c)
  PROVE  IInv'
<1> DEFINE F == Of(Examination(t) \ {c})
<1>1. UNCHANGED <<cvs, head, events, builds>> /\ tasks' = tasks \ {t} /\ t.last # Nothing
  BY DEF ExamineWithout
<1>2. IF F = {} THEN UNCHANGED <<projects, jobs, examined, skipped>>
                ELSE Analyse(t, F) /\ skipped' = skipped \union {c}
  BY DEF ExamineWithout
<1>3. F \in SUBSET File
  <2>1. Examination(t) \subseteq Commit
    BY DEF ExamineWithout, Examination, Range
  <2> QED
    BY <2>1, ChangesetsAssumption DEF Of, ChangesetsAssumption
<1>4. \A d \in Examination(t) \ {c} : Touched[d] \subseteq F
  BY DEF Of
<1> HIDE DEF F
<1>5. CASE F = {}
  <2>1. TypeOK'
    BY <1>1, <1>2, <1>5 DEF IInv, TypeOK, Exists
  <2> QED
    BY <1>1, <1>2, <1>5, <2>1, KeepAll
<1>6. CASE F # {}
  <2>1. PICK G : G = F
    OBVIOUS
  <2>2. PICK S : S = Examination(t) \ {c}
    OBVIOUS
  <2>3. Examination(t) \subseteq S \union skipped'
    BY <1>2, <1>6, <2>2
  <2>4. skipped \subseteq skipped' /\ skipped' \subseteq Commit
    BY <1>2, <1>6 DEF IInv, TypeOK
  <2>5. t.own => Enough(t.project, t.commit, G)'
    BY <1>1, <1>4, <2>1, <2>2, <2>3, <2>4, ExaminedEnough
  <2> QED
    BY <1>1, <1>2, <1>3, <1>6, <2>1, <2>4, <2>5, AnalyseInv
<1> QED
  BY <1>5, <1>6

-----------------------------------------------------------------------------
(* The steps of the worker. *)

\* The worker moves one job on, and perhaps starts its build.
LEMMA WorkedInv ==
  ASSUME IInv, NEW i \in DOMAIN jobs, NEW j \in JobRow, jobs' = [jobs EXCEPT ![i] = j],
         UNCHANGED <<cvs, head, events, examined, skipped>>,
         tasks' \subseteq tasks,
         builds \subseteq builds', builds' \subseteq BuildRow,
         \A b \in builds' : b.project \in Project /\ Exists(b.project),
         projects' \in [Project -> ProjectRow \union {None}],
         \A p \in Project : projects'[p] # None <=> Exists(p),
         \A p \in Project : Exists(p) =>
           projects'[p].last = projects[p].last \/ Done(p, projects'[p].last),
         \A b \in builds' : b \in builds \/ BuildOk(b)',
         j.project = jobs[i].project, j.commit = jobs[i].commit,
         j.update = jobs[i].update, JobOk(j)',
         j.status = "done" => UpTo(j.project, j.commit)
  PROVE  IInv'
<1>1. /\ jobs' \in Seq(JobRow) /\ DOMAIN jobs' = DOMAIN jobs
      /\ jobs'[i] = j /\ \A k \in DOMAIN jobs : k # i => jobs'[k] = jobs[k]
  BY OneJobChanged DEF IInv
<1>2. TypeOK'
  <2>1. \A k \in DOMAIN jobs' : projects'[jobs'[k].project] # None
    BY <1>1, JobTyped DEF IInv
  <2>2. tasks' \subseteq [commit : Commit, project : {p \in Project : projects'[p] # None},
                          last : 0..MaxCommits, own : BOOLEAN]
    BY DEF IInv, TypeOK
  <2> QED
    BY <1>1, <2>1, <2>2 DEF IInv, TypeOK, Exists
<1>3. \A k \in DOMAIN jobs' : (\E l \in DOMAIN jobs : jobs[l] = jobs'[k]) \/ JobOk(jobs[k])'
  <2> SUFFICES ASSUME NEW k \in DOMAIN jobs', k = i PROVE JobOk(jobs[k])'
    BY <1>1
  <2> QED
    BY <1>1
<1>4. \A k \in DOMAIN jobs : JobKept(k)
  BY <1>1 DEF JobKept
<1>5. \A p \in Project : projects'[p] # None =>
        \/ Exists(p) /\ projects'[p].last = projects[p].last
        \/ RowOk(p, projects[p])'
  <2> SUFFICES ASSUME NEW p \in Project, Exists(p), Done(p, projects'[p].last)
               PROVE  RowOk(p, projects[p])'
    OBVIOUS
  <2>1. PICK k : k = projects'[p].last
    OBVIOUS
  <2>2. Done(p, k)'
    BY <2>1, Grow
  <2> QED
    BY <2>1, <2>2 DEF RowOk
<1>6. \A p \in Project : Exists(p) => projects'[p] # None
  OBVIOUS
<1>7. \A t \in tasks' : t \in tasks \/ TaskOk(t)'
  OBVIOUS
<1>8. \A e \in examined' : e \in examined \/ Open(e[1], e[2])' \/ UpTo(e[1], e[2])'
  OBVIOUS
<1> QED
  BY <1>2, <1>3, <1>4, <1>5, <1>6, <1>7, <1>8, Keep

\* The build of a job analyses all its commit is built on.
LEMMA BuildInvoked ==
  ASSUME IInv, NEW i \in DOMAIN jobs, NEW b, b = BuildOf(jobs[i]),
         cvs' = cvs, skipped' = skipped, builds' = builds \union {b}
  PROVE  /\ builds' \subseteq BuildRow
         /\ \A a \in builds' : a.project \in Project /\ Exists(a.project)
         /\ BuildOk(b)'
         /\ b \in builds' /\ b.project = jobs[i].project /\ b.commit = jobs[i].commit
<1>1. jobs[i] \in JobRow /\ jobs[i].project \in Project /\ Exists(jobs[i].project)
  BY JobTyped DEF IInv
<1>2. projects[jobs[i].project] \in ProjectRow
  BY <1>1 DEF IInv, TypeOK, Exists
<1>3. b \in BuildRow
  BY <1>1, <1>2 DEF BuildOf, BuildRow, JobRow, ProjectRow
<1>4. /\ b.project = jobs[i].project /\ b.commit = jobs[i].commit
      /\ b.first = jobs[i].first /\ b.files = jobs[i].files
  BY DEF BuildOf
<1>5. b.first \/ Enough(b.project, b.commit, b.files)'
  <2>1. JobOk(jobs[i])
    BY DEF IInv, JobInv
  <2>2. b.first \/ Enough(b.project, b.commit, b.files)
    BY <1>4, <2>1 DEF JobOk
  <2> QED
    BY <2>2, Grow
<1>6. BuildOk(b)'
  <2>1. CASE b.first
    <3>1. Started(b.project)'
      BY <2>1 DEF Started
    <3>2. UpTo(b.project, b.commit)'
      BY <2>1 DEF UpTo, Covered, Scans
    <3> QED
      BY <3>1, <3>2 DEF BuildOk, Done
  <2>2. CASE Enough(b.project, b.commit, b.files)'
    <3>1. Started(b.project)'
      BY <2>2 DEF Enough
    <3>2. UpTo(b.project, b.commit)'
      BY <2>2 DEF Enough, UpTo, Covered, Scans
    <3> QED
      BY <3>1, <3>2 DEF BuildOk, Done
  <2> QED
    BY <1>5, <2>1, <2>2
<1>7. b.project \in Project /\ Exists(b.project)
  BY <1>1, <1>4
<1> QED
  BY <1>3, <1>4, <1>6, <1>7, BuildTyped DEF IInv

\* The job of an attempt that failed.
LEMMA RetriedJob ==
  ASSUME IInv, NEW i \in DOMAIN jobs, jobs[i].status \in {"pending", "invoked"},
         cvs' = cvs, builds \subseteq builds', skipped' = skipped,
         NEW j, j = Retried(jobs[i])
  PROVE  /\ j \in JobRow /\ j.project = jobs[i].project /\ j.commit = jobs[i].commit
         /\ j.update = jobs[i].update /\ j.status # "done" /\ JobOk(j)'
<1>1. jobs[i] \in JobRow /\ JobOk(jobs[i])
  BY JobTyped DEF IInv, JobInv
<1>2. jobs[i].attempts < MaxAttempts
  BY <1>1 DEF JobOk
<1>3. j \in JobRow
  <2>1. jobs[i].attempts + 1 \in 0..MaxAttempts
    BY <1>1, <1>2, ChangesetsAssumption DEF JobRow, ChangesetsAssumption
  <2>2. PICK s \in {"pending", "failed"}, n \in 0..MaxAttempts :
          j = [jobs[i] EXCEPT !.attempts = n, !.status = s]
    BY <2>1 DEF Retried
  <2> QED
    BY <1>1, <2>2 DEF JobRow
<1>4. /\ j.project = jobs[i].project /\ j.commit = jobs[i].commit
      /\ j.update = jobs[i].update /\ j.first = jobs[i].first /\ j.files = jobs[i].files
      /\ j.attempts = jobs[i].attempts + 1
      /\ j.status = IF jobs[i].attempts + 1 < MaxAttempts THEN "pending" ELSE "failed"
  BY <1>1 DEF Retried, JobRow
<1>5. JobOk(j)
  BY <1>1, <1>4 DEF JobOk
<1>6. JobOk(j)'
  BY <1>5, Grow
<1> QED
  BY <1>3, <1>4, <1>6

LEMMA InvokeInv == ASSUME IInv, NEW i \in DOMAIN jobs, Invoke(i) PROVE IInv'
<1>0. PICK j : j = [jobs[i] EXCEPT !.status = "invoked"]
  OBVIOUS
<1>1. PICK b : b = BuildOf(jobs[i])
  OBVIOUS
<1>2. jobs[i] \in JobRow /\ JobOk(jobs[i])
  BY JobTyped DEF IInv, JobInv
<1>3. jobs[i].status = "pending"
  BY DEF Invoke, Claimable
<1>4. /\ builds' = builds \union {b} /\ jobs' = [jobs EXCEPT ![i] = j]
      /\ UNCHANGED <<cvs, head, events, tasks, projects, examined, skipped>>
  BY <1>0, <1>1 DEF Invoke
<1>5. /\ j \in JobRow /\ j.project = jobs[i].project /\ j.commit = jobs[i].commit
      /\ j.update = jobs[i].update /\ j.first = jobs[i].first /\ j.files = jobs[i].files
      /\ j.attempts = jobs[i].attempts /\ j.status = "invoked"
  BY <1>0, <1>2 DEF JobRow
<1>6. /\ builds' \subseteq BuildRow /\ BuildOk(b)'
      /\ b \in builds' /\ b.project = j.project /\ b.commit = j.commit
      /\ \A a \in builds' : a.project \in Project /\ Exists(a.project)
  BY <1>1, <1>4, <1>5, BuildInvoked
<1>7. JobOk(j)'
  <2>1. j.first \/ Enough(j.project, j.commit, j.files)
    BY <1>2, <1>5 DEF JobOk
  <2>2. j.first \/ Enough(j.project, j.commit, j.files)'
    BY <1>4, <2>1, Grow
  <2>3. j.attempts < MaxAttempts
    BY <1>2, <1>3, <1>5 DEF JobOk
  <2> QED
    BY <1>5, <1>6, <2>2, <2>3 DEF JobOk
<1>8. /\ projects' \in [Project -> ProjectRow \union {None}]
      /\ \A p \in Project : projects'[p] # None <=> Exists(p)
      /\ \A p \in Project : Exists(p) => projects'[p].last = projects[p].last
  BY <1>4 DEF IInv, TypeOK, Exists
<1>9. \A a \in builds' : a \in builds \/ BuildOk(a)'
  BY <1>4, <1>6
<1> QED
  BY <1>4, <1>5, <1>6, <1>7, <1>8, <1>9, WorkedInv

LEMMA InvokeFailsInv == ASSUME IInv, NEW i \in DOMAIN jobs, InvokeFails(i) PROVE IInv'
<1>0. PICK j : j = Retried(jobs[i])
  OBVIOUS
<1>1. PICK b : b = BuildOf(jobs[i])
  OBVIOUS
<1>2. /\ builds' \in {builds, builds \union {b}} /\ jobs' = [jobs EXCEPT ![i] = j]
      /\ UNCHANGED <<cvs, head, events, tasks, projects, examined, skipped>>
      /\ jobs[i].status = "pending"
  BY <1>0, <1>1 DEF InvokeFails, Claimable
<1>3. /\ j \in JobRow /\ j.project = jobs[i].project /\ j.commit = jobs[i].commit
      /\ j.update = jobs[i].update /\ j.status # "done" /\ JobOk(j)'
  BY <1>0, <1>2, RetriedJob
<1>4. /\ builds' \subseteq BuildRow /\ \A a \in builds' : a \in builds \/ BuildOk(a)'
      /\ \A a \in builds' : a.project \in Project /\ Exists(a.project)
  <2>1. CASE builds' = builds
    BY <2>1, BuildTyped DEF IInv
  <2>2. CASE builds' = builds \union {b}
    BY <1>1, <1>2, <2>2, BuildInvoked
  <2> QED
    BY <1>2, <2>1, <2>2
<1>5. /\ projects' \in [Project -> ProjectRow \union {None}]
      /\ \A p \in Project : projects'[p] # None <=> Exists(p)
      /\ \A p \in Project : Exists(p) => projects'[p].last = projects[p].last
  BY <1>2 DEF IInv, TypeOK, Exists
<1> QED
  BY <1>2, <1>3, <1>4, <1>5, WorkedInv

LEMMA RefuseInv == ASSUME IInv, NEW i \in DOMAIN jobs, Refuse(i) PROVE IInv'
<1>0. PICK j : j = Retried(jobs[i])
  OBVIOUS
<1>1. /\ builds' = builds /\ jobs' = [jobs EXCEPT ![i] = j]
      /\ UNCHANGED <<cvs, head, events, tasks, projects, examined, skipped>>
      /\ jobs[i].status = "pending"
  BY <1>0 DEF Refuse, Claimable
<1>2. /\ j \in JobRow /\ j.project = jobs[i].project /\ j.commit = jobs[i].commit
      /\ j.update = jobs[i].update /\ j.status # "done" /\ JobOk(j)'
  BY <1>0, <1>1, RetriedJob
<1>3. /\ builds' \subseteq BuildRow
      /\ \A b \in builds' : b.project \in Project /\ Exists(b.project)
      /\ projects' \in [Project -> ProjectRow \union {None}]
      /\ \A p \in Project : projects'[p] # None <=> Exists(p)
      /\ \A p \in Project : Exists(p) => projects'[p].last = projects[p].last
  BY <1>1, BuildTyped DEF IInv, TypeOK, Exists
<1> QED
  BY <1>1, <1>2, <1>3, WorkedInv

\* update_last_changeset, after the build was invoked.
LEMMA ProcessedRight ==
  ASSUME IInv, NEW i \in DOMAIN jobs, jobs[i].status = "invoked",
         projects' \in {projects, Processed(jobs[i])}
  PROVE  /\ UpTo(jobs[i].project, jobs[i].commit)
         /\ projects' \in [Project -> ProjectRow \union {None}]
         /\ \A p \in Project : projects'[p] # None <=> Exists(p)
         /\ \A p \in Project : Exists(p) =>
              projects'[p].last = projects[p].last \/ Done(p, projects'[p].last)
<1>1. /\ jobs[i] \in JobRow /\ JobOk(jobs[i])
      /\ jobs[i].project \in Project /\ Exists(jobs[i].project)
  BY JobTyped DEF IInv, JobInv
<1>2. Done(jobs[i].project, jobs[i].commit)
  BY <1>1 DEF JobOk, IInv, BuildInv, BuildOk
<1>3. projects \in [Project -> ProjectRow \union {None}]
  BY DEF IInv, TypeOK
<1>4. CASE projects' = projects
  BY <1>2, <1>3, <1>4 DEF Done, Exists
<1>5. CASE projects' # projects
  <2> DEFINE q == jobs[i].project
             row == [projects[q] EXCEPT !.last = jobs[i].commit]
  <2>1. projects' = [projects EXCEPT ![q] = row]
    BY <1>5 DEF Processed
  <2>2. projects[q] \in ProjectRow /\ jobs[i].commit \in Commit
    BY <1>1, <1>3 DEF Exists, JobRow
  <2>3. row \in ProjectRow /\ row.last = jobs[i].commit
    BY <2>2 DEF ProjectRow, Commit
  <2>4. row # None
    BY <2>3, ChangesetsAssumption DEF ChangesetsAssumption
  <2> HIDE DEF row
  <2> QED
    BY <1>1, <1>2, <1>3, <2>1, <2>3, <2>4 DEF Exists, Done
<1> QED
  BY <1>4, <1>5

LEMMA RecordInv == ASSUME IInv, NEW i \in DOMAIN jobs, Record(i) PROVE IInv'
<1>0. PICK j : j = [jobs[i] EXCEPT !.status = "done", !.attempts = @ + 1]
  OBVIOUS
<1>1. jobs[i] \in JobRow /\ JobOk(jobs[i])
  BY JobTyped DEF IInv, JobInv
<1>2. /\ jobs' = [jobs EXCEPT ![i] = j] /\ jobs[i].status = "invoked"
      /\ projects' = Processed(jobs[i])
      /\ UNCHANGED <<cvs, head, events, tasks, builds, examined, skipped>>
  BY <1>0 DEF Record
<1>3. jobs[i].attempts < MaxAttempts
  BY <1>1, <1>2 DEF JobOk
<1>4. /\ j \in JobRow /\ j.project = jobs[i].project /\ j.commit = jobs[i].commit
      /\ j.update = jobs[i].update /\ j.first = jobs[i].first /\ j.files = jobs[i].files
      /\ j.status = "done"
  <2>1. jobs[i].attempts + 1 \in 0..MaxAttempts
    BY <1>1, <1>3, ChangesetsAssumption DEF JobRow, ChangesetsAssumption
  <2>2. PICK n \in 0..MaxAttempts : j = [jobs[i] EXCEPT !.status = "done", !.attempts = n]
    BY <1>0, <2>1
  <2> QED
    BY <1>1, <2>2 DEF JobRow
<1>5. JobOk(j)
  BY <1>1, <1>4 DEF JobOk
<1>6. JobOk(j)'
  BY <1>2, <1>5, Grow
<1>7. /\ builds' \subseteq BuildRow
      /\ \A b \in builds' : b.project \in Project /\ Exists(b.project)
  BY <1>2, BuildTyped DEF IInv
<1> QED
  BY <1>2, <1>4, <1>6, <1>7, ProcessedRight, WorkedInv

LEMMA RecordFailsInv == ASSUME IInv, NEW i \in DOMAIN jobs, RecordFails(i) PROVE IInv'
<1>0. PICK j : j = Retried(jobs[i])
  OBVIOUS
<1>1. /\ jobs' = [jobs EXCEPT ![i] = j] /\ jobs[i].status = "invoked"
      /\ projects' \in {projects, Processed(jobs[i])}
      /\ UNCHANGED <<cvs, head, events, tasks, builds, examined, skipped>>
  BY <1>0 DEF RecordFails
<1>2. /\ j \in JobRow /\ j.project = jobs[i].project /\ j.commit = jobs[i].commit
      /\ j.update = jobs[i].update /\ j.status # "done" /\ JobOk(j)'
  BY <1>0, <1>1, RetriedJob
<1>3. /\ builds' \subseteq BuildRow
      /\ \A b \in builds' : b.project \in Project /\ Exists(b.project)
  BY <1>1, BuildTyped DEF IInv
<1> QED
  BY <1>1, <1>2, <1>3, ProcessedRight, WorkedInv

-----------------------------------------------------------------------------
(* The calls of builds and users, and a crash. *)

\* One project's row changes, and what it takes for processed was analysed.
LEMMA RowInv ==
  ASSUME IInv, NEW p \in Project, Exists(p), NEW row \in ProjectRow,
         projects' = [projects EXCEPT ![p] = row],
         row.last = projects[p].last \/ Done(p, row.last),
         UNCHANGED <<cvs, head, events, tasks, jobs, builds, examined, skipped>>
  PROVE  IInv'
<1>1. projects \in [Project -> ProjectRow \union {None}] /\ row # None
  BY ChangesetsAssumption DEF IInv, TypeOK, ChangesetsAssumption
<1>2. /\ projects' \in [Project -> ProjectRow \union {None}]
      /\ \A q \in Project : projects'[q] # None <=> Exists(q)
      /\ \A q \in Project : q # p => projects'[q] = projects[q]
      /\ projects'[p] = row
  BY <1>1 DEF Exists
<1>3. TypeOK'
  BY <1>2 DEF IInv, TypeOK, Exists
<1>4. \A q \in Project : projects'[q] # None =>
        \/ Exists(q) /\ projects'[q].last = projects[q].last
        \/ RowOk(q, projects[q])'
  <2>1. CASE row.last = projects[p].last
    BY <1>2, <2>1
  <2>2. CASE Done(p, row.last)
    <3>1. Done(p, row.last)'
      BY <2>2, Grow
    <3> QED
      BY <1>2, <3>1 DEF RowOk
  <2> QED
    BY <2>1, <2>2
<1>5. \A i \in DOMAIN jobs : JobKept(i)
  BY DEF JobKept
<1> QED
  BY <1>2, <1>3, <1>4, <1>5, Keep

LEMMA CallbackInv == ASSUME IInv, NEW b \in builds, Callback(b) PROVE IInv'
<1>1. b \in BuildRow /\ Done(b.project, b.commit)
  BY DEF IInv, TypeOK, BuildInv, BuildOk
<1>2. b.project \in Project /\ b.commit \in Commit /\ Exists(b.project)
  BY <1>1, BuildTyped DEF BuildRow, IInv
<1>3. PICK row : row = [projects[b.project] EXCEPT !.last = b.commit]
  OBVIOUS
<1>4. projects[b.project] \in ProjectRow
  BY <1>2 DEF IInv, TypeOK, Exists
<1>5. row \in ProjectRow /\ row.last = b.commit
  BY <1>2, <1>3, <1>4 DEF ProjectRow, Commit
<1>6. projects' = [projects EXCEPT ![b.project] = row]
  BY <1>3 DEF Callback
<1> QED
  BY <1>1, <1>2, <1>5, <1>6, RowInv DEF Callback

LEMMA SwitchInv == ASSUME IInv, NEW b \in Branch, Switch(Root, b) PROVE IInv'
<1>1. PICK row : row = [projects[Root] EXCEPT !.branch = b]
  OBVIOUS
<1>2. Root \in Project /\ Exists(Root) /\ projects[Root] \in ProjectRow
  BY DEF IInv, RootInv, TypeOK, Exists, Project
<1>3. row \in ProjectRow /\ row.last = projects[Root].last
  BY <1>1, <1>2 DEF ProjectRow
<1>4. projects' = [projects EXCEPT ![Root] = row]
  BY <1>1 DEF Switch
<1> QED
  BY <1>2, <1>3, <1>4, RowInv DEF Switch

LEMMA ToggleInv == ASSUME IInv, NEW p \in Project, Toggle(p) PROVE IInv'
<1>1. PICK row : row = [projects[p] EXCEPT !.disabled = ~@]
  OBVIOUS
<1>2. Exists(p) /\ projects[p] \in ProjectRow
  BY DEF Toggle, IInv, TypeOK, Exists
<1>3. row \in ProjectRow /\ row.last = projects[p].last
  BY <1>1, <1>2 DEF ProjectRow
<1>4. projects' = [projects EXCEPT ![p] = row]
  BY <1>1 DEF Toggle
<1> QED
  BY <1>2, <1>3, <1>4, RowInv DEF Toggle

\* A first scan by hand analyses everything; another one needs no file, since
\* what is processed was analysed.
LEMMA TriggerInv == ASSUME IInv, NEW p \in Project, Trigger(p) PROVE IInv'
<1>1. PICK c \in HeadOf(projects[p].branch) : Enqueue(ManualJob(p, c))
  BY DEF Trigger
<1>2. PICK j : j = ManualJob(p, c)
  OBVIOUS
<1>3. /\ Exists(p) /\ projects[p] \in ProjectRow
      /\ UNCHANGED <<cvs, head, events, tasks, projects, builds, examined, skipped>>
  BY DEF Trigger, IInv, TypeOK, Exists
<1>4. c \in Commit
  <2>1. c \in 1..head
    BY DEF HeadOf
  <2> QED
    BY <2>1, ChangesetsAssumption DEF Commit, IInv, TypeOK, ChangesetsAssumption
<1>5. /\ j \in JobRow /\ j.project = p /\ j.attempts = 0 /\ j.status = "pending"
      /\ \/ j.first
         \/ j.commit = projects[p].last /\ projects[p].last # Nothing /\ j.files = {}
  <2>1. CASE projects[p].last = Nothing
    <3>1. j = NewJob(p, c, TRUE, {}, FALSE)
      BY <1>2, <2>1 DEF ManualJob
    <3> QED
      BY <1>4, <3>1, ChangesetsAssumption DEF NewJob, JobRow, ChangesetsAssumption
  <2>2. CASE projects[p].last # Nothing
    <3>1. projects[p].last \in Commit
      BY <1>3, <2>2 DEF ProjectRow, Commit, Nothing
    <3> QED
      BY <1>2, <2>2, <3>1, ChangesetsAssumption
         DEF ManualJob, NewJob, JobRow, ChangesetsAssumption
  <2> QED
    BY <2>1, <2>2
<1>6. j.first \/ Enough(j.project, j.commit, j.files)
  <2>1. projects[p].last # Nothing => Done(p, projects[p].last)
    BY <1>3 DEF IInv, LastInv, RowOk
  <2>2. projects[p].last # Nothing => Enough(p, projects[p].last, {})
    BY <2>1 DEF Done, UpTo, Enough
  <2> QED
    BY <1>5, <2>2
<1>7. JobOk(j)
  BY <1>5, <1>6, ChangesetsAssumption DEF JobOk, ChangesetsAssumption
<1>8. JobOk(j)'
  BY <1>3, <1>7, Grow
<1>9. /\ jobs' \in Seq(JobRow)
      /\ DOMAIN jobs' = DOMAIN jobs \union {Len(jobs) + 1}
      /\ jobs'[Len(jobs) + 1] = j
      /\ \A i \in DOMAIN jobs : jobs'[i] = jobs[i]
      /\ \A i \in DOMAIN jobs : JobKept(i)
  BY <1>1, <1>2, <1>5, OneJobMore DEF IInv
<1>10. TypeOK'
  <2>1. \A i \in DOMAIN jobs' : Exists(jobs'[i].project)
    BY <1>3, <1>5, <1>9, JobTyped DEF IInv
  <2> QED
    BY <1>3, <1>9, <2>1 DEF IInv, TypeOK, Exists
<1>11. \A i \in DOMAIN jobs' : (\E k \in DOMAIN jobs : jobs[k] = jobs'[i]) \/ JobOk(jobs[i])'
  <2> SUFFICES ASSUME NEW i \in DOMAIN jobs', i \notin DOMAIN jobs PROVE JobOk(jobs[i])'
    BY <1>9
  <2>1. jobs'[i] = j
    BY <1>9
  <2> QED
    BY <1>8, <2>1
<1> QED
  BY <1>3, <1>9, <1>10, <1>11, Keep DEF Exists

\* A job that is stranded stays open.
LEMMA CrashInv == ASSUME IInv, Crash PROVE IInv'
<1>1. /\ UNCHANGED <<cvs, head, events, projects, builds, examined, skipped>>
      /\ tasks' = {}
      /\ UNCHANGED jobs \/ \E i \in DOMAIN jobs : jobs' = Strand(i)
  BY DEF Crash
<1>2. CASE UNCHANGED jobs
  <2>1. TypeOK'
    BY <1>1, <1>2 DEF IInv, TypeOK, Exists
  <2> QED
    BY <1>1, <1>2, <2>1, KeepAll
<1>3. ASSUME NEW i \in DOMAIN jobs, jobs' = Strand(i) PROVE IInv'
  <2>1. PICK j : j = [jobs[i] EXCEPT !.status = "stranded"]
    OBVIOUS
  <2>2. jobs[i] \in JobRow /\ JobOk(jobs[i])
    BY JobTyped DEF IInv, JobInv
  <2>3. /\ j \in JobRow /\ j.project = jobs[i].project /\ j.commit = jobs[i].commit
        /\ j.update = jobs[i].update /\ j.first = jobs[i].first /\ j.files = jobs[i].files
        /\ j.status = "stranded"
    BY <2>1, <2>2 DEF JobRow
  <2>4. JobOk(j)
    BY <2>2, <2>3 DEF JobOk
  <2>5. JobOk(j)'
    BY <1>1, <2>4, Grow
  <2>6. jobs' = [jobs EXCEPT ![i] = j]
    BY <1>3, <2>1 DEF Strand
  <2>7. /\ builds' \subseteq BuildRow
        /\ \A b \in builds' : b.project \in Project /\ Exists(b.project)
        /\ projects' \in [Project -> ProjectRow \union {None}]
        /\ \A p \in Project : projects'[p] # None <=> Exists(p)
        /\ \A p \in Project : Exists(p) => projects'[p].last = projects[p].last
    BY <1>1, BuildTyped DEF IInv, TypeOK, Exists
  <2> QED
    BY <1>1, <2>3, <2>5, <2>6, <2>7, WorkedInv
<1> QED
  BY <1>1, <1>2, <1>3

-----------------------------------------------------------------------------
LEMMA NextInv == IInv /\ [Next]_vars => IInv'
<1> SUFFICES ASSUME IInv, [Next]_vars PROVE IInv'
  OBVIOUS
<1>1. CASE WebhookNext
  BY <1>1, PushInv, RedeliverInv, ReceiveInv, ExamineInv, DropInv, ExamineWithoutInv
     DEF WebhookNext
<1>2. CASE WorkerNext
  BY <1>2, InvokeInv, RefuseInv, InvokeFailsInv, RecordInv, RecordFailsInv, CallbackInv,
     CrashInv DEF WorkerNext
<1>3. CASE UserNext
  BY <1>3, SwitchInv, TriggerInv, ToggleInv DEF UserNext
<1>4. CASE UNCHANGED vars
  <2>1. TypeOK'
    BY <1>4 DEF IInv, TypeOK, Exists, vars
  <2> QED
    BY <1>4, <2>1, KeepAll DEF vars
<1> QED
  BY <1>1, <1>2, <1>3, <1>4 DEF Next

LEMMA Inductive == Spec => []IInv
BY InitInv, NextInv, PTL DEF Spec

\* Every row, web hook, job and build is well formed, and none outlives its
\* project.
THEOREM TypeCorrect == Spec => []TypeOK
<1>1. IInv => TypeOK
  BY DEF IInv
<1> QED
  BY <1>1, Inductive, PTL

\* LastIsCovered: the commit a project takes for processed has nothing behind it
\* that no build looked at, in whatever order web hooks, jobs and callbacks end.
THEOREM NoGap == Spec => []LastIsCovered
<1>1. IInv => LastIsCovered
  BY DEF IInv, LastInv, RowOk, Done, UpTo, LastIsCovered
<1> QED
  BY <1>1, Inductive, PTL

\* NothingMissed: what a web hook examined is analysed when its job is done.
THEOREM NothingForgotten == Spec => []NothingMissed
<1>1. IInv => NothingMissed
  BY DEF IInv
<1> QED
  BY <1>1, Inductive, PTL

\* FirstScanFirst: a build of changed files is never a project's first.
THEOREM WholeFirst == Spec => []FirstScanFirst
<1>1. IInv => FirstScanFirst
  BY DEF IInv, BuildInv, BuildOk, Done, Started, FirstScanFirst
<1> QED
  BY <1>1, Inductive, PTL
===============================================================================
