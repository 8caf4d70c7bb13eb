-------------------------------- MODULE Sources --------------------------------
(***************************************************************************)
(* The source shown by the code viewer (git_integration.py,                *)
(* code_viewer.py): the snapshot uploaded with the run, else a file of a   *)
(* clone that pages share, else an archive, else the file system.          *)
(*                                                                         *)
(* The directory of a clone is named by the last part of the repository's  *)
(* address and the branch, with _ for /.  An origin is a repository and a  *)
(* branch; the module is about one directory and all the origins that have *)
(* its name: other repositories of the name, and branches such as          *)
(* feature/x and feature_x.                                                *)
(*                                                                         *)
(* A page is a coroutine, and each git command is awaited: between two     *)
(* commands of one page any other page may work in the same directory.     *)
(* There is no lock.  A command that takes too long is given up, but its   *)
(* process is not killed and may still do its work.                        *)
(***************************************************************************)
EXTENDS Naturals, Sequences, FiniteSets

CONSTANTS Page,    \* the pages that are asked for
          Origin,  \* what may be cloned into the directory
          RepoOf, BranchOf, \* the repository and the branch of an origin
          Other,   \* the sources of the project besides Git, and whether runs have snapshots
          MaxHead, \* how many versions of the branch of an origin are pushed (a bound)
          MaxCrashes, \* a bound
          None

\* A version of the branch of an origin.
Revision == [of : Origin, at : Nat \ {0}]

ASSUME SourcesAssumption ==
    /\ MaxHead \in [Origin -> Nat] /\ MaxCrashes \in Nat
    /\ Other \subseteq {"snapshot", "archive", "local"}
    /\ None \notin Revision /\ None \notin Page
    /\ \A o, b \in Origin : RepoOf[o] = RepoOf[b] /\ BranchOf[o] = BranchOf[b] => o = b

VARIABLES head,      \* the version of each branch in its remote repository
          dir,       \* the directory of the clone
          stamp,     \* _repo_timestamps: none, or younger or older than the time to live
          page,      \* the coroutines
          left,      \* processes given up that may still do their work: [run, of, commit]
          crashes,   \* restarts of the process (a bound)
          disturbed, \* history: the pages that met trouble of their own or another's work
          misled     \* history: the pages that took the clone of another repository

vars == <<head, dir, stamp, page, left, crashes, disturbed, misled>>

\* branch: where the local branch of the clone is; work: the version of the files; has: the
\* revisions the clone knows; detached: the work tree is at a commit and not on the branch.
NoDir == [there |-> FALSE, cloned |-> FALSE, branch |-> None, work |-> None, has |-> {}, detached |-> FALSE]
EmptyDir == [NoDir EXCEPT !.there = TRUE]

\* of: what the page wants a file of, want: the commit of its run; since: the version of the
\* branch when it was asked for.
NewPage == [pc |-> "new"]
Shown(source, version) == [source |-> source, version |-> version]

-----------------------------------------------------------------------------
(* Git. *)

Pushed(o, first) == {[of |-> o, at |-> n] : n \in first..head[o]}
Tip(o) == [of |-> o, at |-> head[o]]
SameRepo(o, d) == d.cloned /\ RepoOf[d.branch.of] = RepoOf[o]

\* Whether a command that a page of origin o started can work in a directory, and the
\* directory after it.  A clone has one branch, and fetches and pulls what it is a clone of.
Works(run, o, c, d) ==
    CASE run = "clone" -> d.there /\ ~d.cloned
      [] run = "fetch" -> d.cloned
      [] run = "checkout" -> d.cloned /\ BranchOf[d.branch.of] = BranchOf[o]
      [] run = "pull" -> d.cloned /\ ~d.detached
      [] run = "fetch commit" -> SameRepo(o, d)
      [] run = "checkout commit" -> d.cloned /\ c \in d.has

Effect(run, o, c, d) ==
    CASE run = "clone" -> [there |-> TRUE, cloned |-> TRUE, branch |-> Tip(o), work |-> Tip(o),
                           has |-> {Tip(o)}, detached |-> FALSE]
      [] run = "fetch" -> [d EXCEPT !.has = @ \cup Pushed(d.branch.of, d.branch.at)]
      [] run = "checkout" -> [d EXCEPT !.work = d.branch, !.detached = FALSE]
      [] run = "pull" -> [d EXCEPT !.branch = Tip(d.branch.of), !.work = Tip(d.branch.of),
                                   !.has = @ \cup Pushed(d.branch.of, d.branch.at)]
      [] run = "fetch commit" -> [d EXCEPT !.has = @ \cup {c}]
      [] run = "checkout commit" -> [d EXCEPT !.work = c, !.detached = TRUE]

\* Seed: a cached clone is fetched and not pulled.
UpdateUnpulled == <<"fetch", "checkout">>
Update == <<"fetch", "checkout", "pull">>
CheckoutCommit(c) == IF c = None THEN <<>> ELSE <<"fetch commit", "checkout commit">>

-----------------------------------------------------------------------------
(* The cache of clones. *)

\* is_cache_valid: a directory without a time stamp is as old as its last change.
Valid == stamp \in {"none", "young"}
Expired == stamp \in {"none", "old"}

\* Another page sees what this one does to the directory.
Disturbs(p) == {q \in Page \ {p} : page[q].pc \in {"update", "clone", "commit", "read"}}
After(p, d) == IF d # dir THEN Disturbs(p) ELSE {}

-----------------------------------------------------------------------------
(* A page. *)

InSnapshot(run) == run /\ "snapshot" \in Other
InArchive == "archive" \in Other
InSourceRoot == "local" \in Other

\* The sources that are left when Git gives nothing, in their order.
Fallback == IF InArchive THEN Shown("archive", None)
            ELSE IF InSourceRoot THEN Shown("local", None)
            ELSE Shown("none", None)

\* A page that is answered.
Answered(pg, shown) == [pc |-> "done", of |-> pg.of, want |-> pg.want, since |-> pg.since, shown |-> shown]

\* view_code and fetch_source_file: a snapshot of the run is shown at once.
Ask(p, o, commit, run) ==
    /\ page[p].pc = "new"
    /\ LET asked == [pc |-> "begin", todo |-> <<>>, of |-> o, want |-> commit, since |-> head[o]]
       IN  page' = [page EXCEPT ![p] = IF InSnapshot(run) THEN Answered(asked, Shown("snapshot", None))
                                       ELSE asked]
    /\ UNCHANGED <<head, dir, stamp, left, crashes, disturbed, misled>>

\* clone_or_update_repo up to its first await.  What is there and valid is updated, whatever
\* it is a clone of; anything else is removed and cloned.
UseClone(p) ==
    /\ page[p].pc = "begin"
    /\ dir.there /\ Valid
    /\ stamp' = "young"
    /\ page' = [page EXCEPT ![p].pc = "update", ![p].todo = Update]
    /\ misled' = misled \cup (IF dir.cloned /\ ~SameRepo(page[p].of, dir) THEN {p} ELSE {})
    /\ UNCHANGED <<head, dir, left, crashes, disturbed>>

MakeClone(p) ==
    /\ page[p].pc = "begin"
    /\ ~dir.there \/ Expired
    /\ dir' = EmptyDir
    /\ page' = [page EXCEPT ![p].pc = "clone", ![p].todo = <<"clone">>]
    /\ stamp' = IF dir.there THEN "old" ELSE stamp
    /\ disturbed' = disturbed \cup After(p, EmptyDir)
    /\ UNCHANGED <<head, left, crashes, misled>>

\* The next phase, when the commands of one are done.
Following(pg) ==
    CASE pg.pc \in {"update", "clone"} /\ pg.want # None -> [pg EXCEPT !.pc = "commit", !.todo = CheckoutCommit(pg.want)]
      [] OTHER -> [pg EXCEPT !.pc = "read", !.todo = <<>>]

Running(p) == page[p].pc \in {"update", "clone", "commit"}
Command(p) == Head(page[p].todo)

Succeed(p) ==
    /\ Running(p)
    /\ Works(Command(p), page[p].of, page[p].want, dir)
    /\ dir' = Effect(Command(p), page[p].of, page[p].want, dir)
    /\ LET rest == Tail(page[p].todo)
       IN  /\ page' = [page EXCEPT ![p] = IF rest = <<>> THEN Following(@) ELSE [@ EXCEPT !.todo = rest]]
           /\ stamp' = IF rest = <<>> /\ page[p].pc # "commit" THEN "young" ELSE stamp
    /\ disturbed' = disturbed \cup After(p, dir')
    /\ UNCHANGED <<head, left, crashes, misled>>

\* A failed update or checkout is logged, and the page goes on with what is there.
GiveUp(p) ==
    /\ IF page[p].pc = "clone"
       THEN /\ dir' = NoDir
            /\ page' = [page EXCEPT ![p] = Answered(@, Fallback)]
            /\ UNCHANGED stamp
       ELSE /\ page' = [page EXCEPT ![p] = Following(@)]
            /\ stamp' = IF page[p].pc = "update" THEN "young" ELSE stamp
            /\ UNCHANGED dir
    /\ disturbed' = disturbed \cup {p} \cup After(p, dir')

\* The command fails, as it may at any time and must when it cannot work.
Fail(p) ==
    /\ Running(p)
    /\ GiveUp(p)
    /\ UNCHANGED <<head, left, crashes, misled>>

\* Seed: the update of a clone may take for ever.
TimesOutUnlessUpdating(p) ==
    /\ page[p].pc \in {"clone", "commit"}
    /\ left' = left \cup {[run |-> Command(p), of |-> page[p].of, commit |-> page[p].want]}
    /\ GiveUp(p)
    /\ UNCHANGED <<head, crashes, misled>>

\* wait_for gives the command up; the process goes on.
TimesOut(p) ==
    /\ Running(p)
    /\ left' = left \cup {[run |-> Command(p), of |-> page[p].of, commit |-> page[p].want]}
    /\ GiveUp(p)
    /\ UNCHANGED <<head, crashes, misled>>

\* The work of a process that was given up.
Straggle(s) ==
    /\ left' = left \ {s}
    /\ dir' = IF Works(s.run, s.of, s.commit, dir) THEN Effect(s.run, s.of, s.commit, dir) ELSE dir
    /\ disturbed' = disturbed \cup (IF dir' # dir THEN Disturbs(None) ELSE {})
    /\ UNCHANGED <<head, stamp, page, crashes, misled>>

\* The file is read from whatever the directory holds now.
Read(p) ==
    /\ page[p].pc = "read"
    /\ page' = [page EXCEPT ![p] = Answered(@, IF dir.cloned THEN Shown("git", dir.work) ELSE Fallback)]
    /\ UNCHANGED <<head, dir, stamp, left, crashes, disturbed, misled>>

-----------------------------------------------------------------------------
(* The world. *)

Commit(o) ==
    /\ head[o] < MaxHead[o]
    /\ head' = [head EXCEPT ![o] = @ + 1]
    /\ UNCHANGED <<dir, stamp, page, left, crashes, disturbed, misled>>

\* The time to live of the clone passes.  Nothing calls cleanup_expired.
Age ==
    /\ stamp = "young"
    /\ stamp' = "old"
    /\ UNCHANGED <<head, dir, page, left, crashes, disturbed, misled>>

\* The process ends and starts again: its pages are lost, its time stamps too, not the clone.
Restart ==
    /\ crashes < MaxCrashes
    /\ crashes' = crashes + 1
    /\ stamp' = "none"
    /\ left' = {}
    /\ page' = [p \in Page |-> IF page[p].pc \in {"new", "done"} THEN page[p]
                ELSE Answered(page[p], Shown("none", None))]
    /\ disturbed' = Page
    /\ UNCHANGED <<head, dir, misled>>

Init ==
    /\ head = [o \in Origin |-> 1]
    /\ dir = NoDir
    /\ stamp = "none"
    /\ page = [p \in Page |-> NewPage]
    /\ left = {}
    /\ crashes = 0
    /\ disturbed = {} /\ misled = {}

Next ==
    \/ \E p \in Page :
        \/ \E o \in Origin, run \in BOOLEAN : \E commit \in Pushed(o, 1) \cup {None} : Ask(p, o, commit, run)
        \/ UseClone(p) \/ MakeClone(p)
        \/ Succeed(p) \/ Fail(p) \/ TimesOut(p)
        \/ Read(p)
    \/ \E s \in left : Straggle(s)
    \/ \E o \in Origin : Commit(o)
    \/ Age \/ Restart

\* The event loop runs what is ready and rings the time-outs; git may hang.
Fairness == \A p \in Page : WF_vars(UseClone(p) \/ MakeClone(p)) /\ WF_vars(TimesOut(p)) /\ WF_vars(Read(p))

Spec == Init /\ [][Next]_vars /\ Fairness

-----------------------------------------------------------------------------

TypeOK ==
    /\ head \in [Origin -> Nat \ {0}]
    /\ dir.cloned => dir.there /\ {dir.work, dir.branch} \subseteq dir.has
    /\ dir.has \subseteq Revision
    /\ stamp \in {"none", "young", "old"}
    /\ \A p \in Page : page[p].pc = "done" =>
        page[p].shown \in [source : {"snapshot", "git", "archive", "local", "none"},
                           version : Revision \cup {None}]
    /\ disturbed \subseteq Page /\ misled \subseteq Page

\* The file a page should show: as of the commit of its run, or, without a commit, of its
\* branch and no older than the page.
Wanted(pg, revision) ==
    /\ pg.want # None => revision = pg.want
    /\ pg.want = None => revision.of = pg.of /\ revision.at >= pg.since

\* A page that met no trouble and nobody's work, and found no clone of another repository of
\* the same name, shows the file it should, however many branches share the directory.
RightWhenAlone ==
    \A p \in Page \ (disturbed \cup misled) : page[p].pc = "done" /\ page[p].shown.source # "snapshot" =>
        page[p].shown.source = "git" /\ Wanted(page[p], page[p].shown.version)

\* Git may hang, the page does not: every page that is asked for is answered.
EveryPageEnds == \A p \in Page : page[p].pc = "begin" ~> page[p].pc = "done"
=============================================================================
