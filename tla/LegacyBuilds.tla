----------------------------- MODULE LegacyBuilds -----------------------------
(***************************************************************************)
(* The legacy service between the repositories and Jenkins                 *)
(* (PVS_Sonar_WebHook_FastAPI): the server of a repository posts a web     *)
(* hook for a push, the service compares the push with the changeset it    *)
(* processed last, asks Jenkins for a build of what changed and remembers  *)
(* the push.  There is no queue: process_git_event and process_tfvc_event  *)
(* run in the thread pool, several at a time, each with a session of its   *)
(* own, whose rows are as old as their first reading.  The routes of the   *)
(* projects are coroutines without an await: each is one step.             *)
(***************************************************************************)
EXTENDS Naturals, Sequences, FiniteSets

CONSTANTS Task,     \* the background tasks that may run at the same time
          MaxPushes, MaxRows, MaxFaults, MaxManual, MaxHooks  \* bounds

ASSUME LegacyAssumption ==
    /\ IsFiniteSet(Task)
    /\ {MaxPushes, MaxRows, MaxFaults, MaxManual, MaxHooks} \subseteq Nat

VARIABLES cvs,      \* Project.cvs_system of the project and what is made from it
          pushes,   \* the repository: the branch and the kind of each push
          rows,     \* the table of projects, in the order of their ids; SQLite uses the
                    \* ids behind the last row again
          task,     \* what each task is doing
          builds,   \* Jenkins: the builds, [name, commit]
          form,     \* the edit form a user has open
          used,     \* calls that failed, manual actions, web hooks handled (bounds)
          asked,    \* history: by project name, the pushes whose files builds were asked to look at
          refused,  \* history: those of the builds that Jenkins or the service refused
          skipped,  \* history: pushes left out of a build as TFVC did not give their changes
          scanned,  \* history: the names for which a first scan was asked for or refused
          confused  \* history: the names of projects that were given the changeset of the
                    \* project that had their id before

history == <<asked, refused, skipped, scanned, confused>>
vars == <<cvs, pushes, rows, task, builds, form, used, history>>

Branch == {"main", "release"}
Name == Branch \cup {"clone"}
Idle == [pc |-> "idle"]
Closed == [open |-> FALSE]
Unused == [fault |-> 0, manual |-> 0, hook |-> 0]

-----------------------------------------------------------------------------
(* The repository. *)

On(b) == {i \in DOMAIN pushes : pushes[i].branch = b}
UpTo(i) == {j \in On(pushes[i].branch) : j <= i}
\* The pushes that touch C, C++ or C# files.
OfC(s) == {i \in s : pushes[i].kind = "C"}

\* The diff of two commits: what one of them has and the other has not.
Between(a, b) ==
    IF pushes[a].branch = pushes[b].branch
    THEN (UpTo(a) \ UpTo(b)) \cup (UpTo(b) \ UpTo(a))
    ELSE UpTo(a) \cup UpTo(b)
\* The changesets from one to another, both included, under the path of the project.
FromTo(a, b) == a..b

-----------------------------------------------------------------------------
(* The table. *)

Alive == {r \in DOMAIN rows : rows[r].alive}
First(s) == CHOOSE r \in s : \A q \in s : r <= q
Greatest(s) == CHOOSE r \in s : \A q \in s : q <= r
Named(n) == {r \in Alive : rows[r].name = n}

\* The project that a push concerns.  Git: the one named after the branch, else the main one.
\* TFVC: the projects with the path, until one has the branch.
Concerned(b) ==
    IF cvs = "TFVC" THEN {r \in Alive : rows[r].branch = b}
    ELSE IF Named(b) # {} THEN Named(b) ELSE Named("main")

\* Seed: the release project goes on where its parent is.
NewRowWithLast(from) ==
    [alive |-> TRUE, name |-> "release", branch |-> "release",
     last |-> IF from \in Alive THEN rows[from].last ELSE 0, disabled |-> FALSE]

NewRow(from) ==
    [alive |-> TRUE, name |-> "release", branch |-> "release", last |-> 0, disabled |-> FALSE]

-----------------------------------------------------------------------------
(* A web hook. *)

\* Seed: only the push itself is compared.
ExaminedAlone(last, push) == [files |-> OfC({push}), first |-> last = 0]

\* check_git_changes and check_tfvc_changes: what a build has to look at.
Examined(last, push) ==
    [files |-> IF last = 0 THEN UpTo(push)
               ELSE OfC(IF cvs = "Git" THEN Between(last, push) ELSE FromTo(last, push)),
     first |-> last = 0]

\* A task begins with a web hook: of any push, as its request may be late, lost or sent again.
\* It reads the project and compares.  A failed comparison counts as no change, and without
\* a change in a C file the task ends, the push not remembered.  The changes of TFVC are
\* asked for changeset by changeset: those whose request fails, or which the server leaves
\* out of its list, are missed.
Examine(t) ==
    /\ task[t].pc = "idle"
    /\ used.hook < MaxHooks
    /\ \E push \in DOMAIN pushes, fails \in BOOLEAN, missed \in SUBSET DOMAIN pushes :
        LET b == pushes[push].branch
            found == Concerned(b)
            r == First(found)
            ex == Examined(rows[r].last, push)
            files == ex.files \ missed
            ended == \/ found = {}
                     \/ cvs = "Git" /\ rows[r].disabled
                     \/ fails /\ rows[r].last # 0
                     \/ files = {}
                     \/ cvs = "Git" /\ rows[r].branch # b /\ b # "release"
            trouble == fails \/ missed # {}
        IN  /\ missed # {} => cvs = "TFVC" /\ ~fails /\ found # {} /\ rows[r].last # 0
            /\ trouble => used.fault < MaxFaults
            /\ used' = [used EXCEPT !.fault = @ + (IF trouble THEN 1 ELSE 0), !.hook = @ + 1]
            /\ task' = [task EXCEPT ![t] =
                    IF ended THEN Idle
                    ELSE [pc |-> IF rows[r].branch = b THEN "examined" ELSE "create",
                          push |-> push, row |-> r, name |-> rows[r].name, off |-> rows[r].disabled,
                          files |-> files, missed |-> missed, first |-> ex.first]]
    /\ UNCHANGED <<cvs, pushes, rows, builds, form, history>>

\* A push to a release branch that has no project makes one, whatever came meanwhile.
Create(t) ==
    /\ task[t].pc = "create"
    /\ Len(rows) < MaxRows
    /\ rows' = Append(rows, NewRow(task[t].row))
    /\ task' = [task EXCEPT ![t] = [pc |-> "created", push |-> @.push]]
    /\ UNCHANGED <<cvs, pushes, builds, form, used, history>>

\* The new project is looked up by its name, and scanned for the first time.
Fetch(t) ==
    /\ task[t].pc = "created"
    /\ task' = [task EXCEPT ![t] =
            IF Named("release") = {} THEN Idle
            ELSE LET r == First(Named("release"))
                 IN  [pc |-> "examined", push |-> @.push, row |-> r, name |-> "release",
                      off |-> rows[r].disabled, files |-> UpTo(@.push), missed |-> {}, first |-> TRUE]]
    /\ UNCHANGED <<cvs, pushes, rows, builds, form, used, history>>

\* The parameters of a build.
BuildOf(name, commit) == [name |-> name, commit |-> commit]

\* trigger_build: a build of a disabled project is refused, and any other may be.
Ask(name, commit, files, first, off) ==
    /\ scanned' = IF first THEN scanned \cup {name} ELSE scanned
    /\ \/ /\ refused' = [refused EXCEPT ![name] = @ \cup files]
          /\ UNCHANGED <<asked, builds>>
       \/ /\ ~off
          /\ asked' = [asked EXCEPT ![name] = @ \cup files]
          /\ builds' = builds \cup {BuildOf(name, commit)}
          /\ UNCHANGED refused

Trigger(t) ==
    /\ task[t].pc = "examined"
    /\ Ask(task[t].name, task[t].push, task[t].files, task[t].first, task[t].off)
    /\ skipped' = [skipped EXCEPT ![task[t].name] = @ \cup task[t].missed]
    /\ task' = [task EXCEPT ![t] = [pc |-> "triggered", push |-> @.push, row |-> @.row, name |-> @.name]]
    /\ UNCHANGED <<cvs, pushes, rows, form, used, confused>>

\* update_last_changeset does not ask what became of the build; the row may be gone, and
\* another project may have its id.
Update(t) ==
    /\ task[t].pc = "triggered"
    /\ IF task[t].row \in Alive
       THEN /\ rows' = [rows EXCEPT ![task[t].row].last = task[t].push]
            /\ confused' = confused \cup ({rows[task[t].row].name} \ {task[t].name})
       ELSE UNCHANGED <<rows, confused>>
    /\ task' = [task EXCEPT ![t] = Idle]
    /\ UNCHANGED <<cvs, pushes, builds, form, used, asked, refused, skipped, scanned>>

-----------------------------------------------------------------------------
(* Jenkins and the users. *)

\* A build reports the commit it was asked for, when it is done and perhaps again.
Reported(b) == b.commit

Callback(b) ==
    /\ rows' = IF Named(b.name) = {} THEN rows
               ELSE [rows EXCEPT ![First(Named(b.name))].last = Reported(b)]
    /\ UNCHANGED <<cvs, pushes, task, builds, form, used, history>>

Manual == used.manual < MaxManual

\* The head of a branch, as the repository gives it.
HeadOf(b) == CHOOSE i \in On(b) : \A j \in On(b) : j <= i

\* A forced analysis of the whole tree at the last changeset, or a first scan of the head.
StartAnalyze(r) ==
    /\ Manual
    /\ LET last == rows[r].last
           commit == IF last # 0 THEN last ELSE HeadOf(rows[r].branch)
       IN  /\ last = 0 => On(rows[r].branch) # {}
           /\ Ask(rows[r].name, commit, UpTo(commit), last = 0, rows[r].disabled)
    /\ used' = [used EXCEPT !.manual = @ + 1]
    /\ UNCHANGED <<cvs, pushes, rows, task, form, skipped, confused>>

\* The edit form is filled from the row, and writes all of it when it is saved, whatever
\* project has the id by then.
OpenForm(r) ==
    /\ Manual
    /\ ~form.open
    /\ form' = [open |-> TRUE, row |-> r, name |-> rows[r].name, branch |-> rows[r].branch,
                last |-> rows[r].last]
    /\ used' = [used EXCEPT !.manual = @ + 1]
    /\ UNCHANGED <<cvs, pushes, rows, task, builds, history>>

SaveForm ==
    /\ form.open
    /\ form' = Closed
    /\ \E disabled \in BOOLEAN :
        rows' = IF form.row \in Alive
                THEN [rows EXCEPT ![form.row] =
                        [alive |-> TRUE, name |-> form.name, branch |-> form.branch,
                         last |-> form.last, disabled |-> disabled]]
                ELSE rows
    /\ UNCHANGED <<cvs, pushes, task, builds, used, history>>

Clone(r) ==
    /\ Manual
    /\ Len(rows) < MaxRows
    /\ rows' = Append(rows, [rows[r] EXCEPT !.name = "clone", !.disabled = FALSE])
    /\ used' = [used EXCEPT !.manual = @ + 1]
    /\ UNCHANGED <<cvs, pushes, task, builds, form, history>>

\* /project/disable and /project/enable.
SwitchOff(r) ==
    /\ Manual
    /\ rows' = [rows EXCEPT ![r].disabled = ~@]
    /\ used' = [used EXCEPT !.manual = @ + 1]
    /\ UNCHANGED <<cvs, pushes, task, builds, form, history>>

\* The row goes, whatever SonarQube answered; an unreachable SonarQube leaves it.
Delete(r) ==
    /\ Manual
    /\ rows' = SubSeq([rows EXCEPT ![r].alive = FALSE], 1, Greatest((Alive \ {r}) \cup {0}))
    /\ used' = [used EXCEPT !.manual = @ + 1]
    /\ UNCHANGED <<cvs, pushes, task, builds, form, history>>

-----------------------------------------------------------------------------
(* The repository server and the process. *)

Push(b, k) ==
    /\ Len(pushes) < MaxPushes
    /\ pushes' = Append(pushes, [branch |-> b, kind |-> k])
    /\ UNCHANGED <<cvs, rows, task, builds, form, used, history>>

\* The process ends and starts again: what it was doing is gone.
Restart ==
    /\ \E t \in Task : task[t] # Idle
    /\ task' = [t \in Task |-> Idle]
    /\ UNCHANGED <<cvs, pushes, rows, builds, form, used, history>>

Init ==
    /\ cvs \in {"Git", "TFVC"}
    /\ pushes = <<>>
    /\ rows = <<[alive |-> TRUE, name |-> "main", branch |-> "main", last |-> 0, disabled |-> FALSE]>>
    /\ task = [t \in Task |-> Idle]
    /\ builds = {}
    /\ form = Closed
    /\ used = Unused
    /\ asked = [n \in Name |-> {}] /\ refused = [n \in Name |-> {}] /\ skipped = [n \in Name |-> {}]
    /\ scanned = {} /\ confused = {}

Next ==
    \/ \E b \in Branch, k \in {"C", "other"} : Push(b, k)
    \/ \E t \in Task : Examine(t) \/ Create(t) \/ Fetch(t) \/ Trigger(t) \/ Update(t)
    \/ \E b \in builds : Callback(b)
    \/ \E r \in Alive : StartAnalyze(r) \/ OpenForm(r) \/ Clone(r) \/ SwitchOff(r) \/ Delete(r)
    \/ SaveForm
    \/ Restart

Spec == Init /\ [][Next]_vars

-----------------------------------------------------------------------------

\* A change that is behind the last changeset of a project was in a build, or in one that was
\* refused, or TFVC did not give it when it was asked: no interleaving of web hooks, callbacks
\* and forms loses it. Only a project that has the id of a deleted one may be given a last
\* changeset of that one.
LastIsCovered ==
    \A r \in Alive : rows[r].name \notin confused \cup {"clone"} /\ rows[r].last # 0 =>
        OfC(UpTo(rows[r].last)) \subseteq
            asked[rows[r].name] \cup refused[rows[r].name] \cup skipped[rows[r].name]

\* A project is not built from differences before a first scan of it was asked for, unless it
\* was given the last changeset of a deleted one.
FirstScanFirst ==
    \A n \in Branch \ confused : asked[n] \cup refused[n] # {} => n \in scanned
=============================================================================
