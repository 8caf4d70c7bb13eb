------------------------------- MODULE Dashboards -------------------------------
(***************************************************************************)
(* What the pages of a project show of its runs on three platforms:        *)
(* the totals of the dashboard (dashboard_history.py), the list of         *)
(* warnings under a filter with its facets and pages (issues_query.py,     *)
(* run_queries.py), the author of a warning (issue_author.py) and its      *)
(* timeline (issue_activity.py), and the key that finds one defect in the  *)
(* reports of several platforms (platforms.py).                            *)
(*                                                                         *)
(* Every view is computed from the rows the uploads left, so the views are *)
(* operators over the state and the uploads are the actions. Each upload   *)
(* is a build of its own on one branch, and a report holds a warning once; *)
(* what is torn, repeated or concurrent in an upload is the subject of     *)
(* RunTracking, except that one may end before its run is done, which only *)
(* the timeline and the ignored warnings see. Reports hold absolute paths  *)
(* below the source root of their platform. Of the filters of the list,    *)
(* status and severity are kept; type and priority behave as the severity  *)
(* does.                                                                   *)
(***************************************************************************)
EXTENDS Integers, Sequences, FiniteSets, FiniteSetsExt

CONSTANTS Warning,   \* a rule at a line of a file
          Defect,    \* a rule and its message in a file, at any line
          DefectOf,  \* the defect of each warning
          Severity, SeverityOf, \* the severities, and that of each warning
          Limit,     \* build_dashboard_histories(limit): runs a history looks back
          FirstPage, NextPage, \* initial_per_page, and per_page of a fragment
          Anonymous, \* the runs whose upload does not name the author of its commit
          RootsAtFirst, \* the sets of platforms whose roots a project may name from the start
          MaxRuns, MaxEdits \* bounds

Platform == {"windows", "linux", "macos"}

ASSUME DashboardsAssumption ==
    /\ IsFiniteSet(Warning) /\ DefectOf \in [Warning -> Defect] /\ SeverityOf \in [Warning -> Severity]
    /\ Limit \in Nat \ {0} /\ FirstPage \in Nat \ {0} /\ NextPage \in Nat \ {0}
    /\ RootsAtFirst \subseteq SUBSET Platform
    /\ MaxRuns \in Nat /\ MaxEdits \in Nat /\ Anonymous \subseteq 1..MaxRuns

VARIABLES runs,     \* the finished runs in the order of Run.timestamp
          unfinished, \* the uploads that left rows in a run that is not done
          roots,    \* the platforms whose source root the project names
          settings, \* whether the row GlobalSettings exists
          edits     \* counter for MaxEdits

vars == <<runs, unfinished, roots, settings, edits>>

Status == {"new", "existing", "fixed", "ignored"}
\* cross_platform_fp: the defect, and the platform when its absolute path is part of it.
Relative == "relative"
Key == Defect \X (Platform \cup {Relative})
\* author: the run whose commit's author the row names, if it names one.
NoAuthor == 0
Row == [warning : Warning, status : Status, key : Key, author : 0..MaxRuns]
\* compared: the report was full and there was a baseline to compare it with, so that what
\* is gone was marked fixed. The program does not keep it; history for the properties.
RunRow == [platform : Platform, compared : BOOLEAN, rows : SUBSET Row]
\* after: the number of finished runs it is later than. Whom its rows name is left out.
LeftRow == [after : 0..MaxRuns, platform : Platform, compared : BOOLEAN,
            rows : SUBSET [warning : Warning, status : Status]]

OpenStatus == {"new", "existing"}
Open(r) == {i \in runs[r].rows : i.status \in OpenStatus}
Fixed(r) == {i \in runs[r].rows : i.status = "fixed"}
Warnings(S) == {i.warning : i \in S}
Keys(S) == {i.key : i \in S}
RowIn(S, w) == CHOOSE i \in S : i.warning = w

-----------------------------------------------------------------------------
(* compute_cross_platform_fp *)

\* get_effective_source_root as platforms.py calls it, its third and its fourth argument
\* swapped: the row GlobalSettings stands for the root of macOS, and the root of macOS,
\* a string, for the row. Either of them raises where it is used.
CrossRoot(p) ==
    IF p # "macos" /\ p \in roots THEN "root"
    ELSE IF (p = "macos" /\ settings) \/ "macos" \in roots THEN "raises"
    ELSE "none"

\* Seed: the root itself goes into the key.
KeyOfRoot(p, w) == <<DefectOf[w], IF CrossRoot(p) = "root" THEN "root" ELSE p>>

KeyOf(p, w) == <<DefectOf[w], IF CrossRoot(p) = "root" THEN Relative ELSE p>>

-----------------------------------------------------------------------------
(* Runs of a platform, and the baseline of the next one. *)

RunsOf(p) == {r \in 1..Len(runs) : runs[r].platform = p}
Analysed == {p \in Platform : RunsOf(p) # {}}
\* get_latest_run
Latest(p) == Max(RunsOf(p))
\* The runs of its platform before a run.
Before(r) == {n \in RunsOf(runs[r].platform) : n < r}

\* Seed: the rows of the run before as they are.
BaselineOfAll(p) == IF p \in Analysed THEN runs[Latest(p)].rows ELSE {}

\* _get_prev_run and its rows that count.
Baseline(p) == IF p \in Analysed THEN Open(Latest(p)) ELSE {}

\* Run.commit_author_name
NamedBy(r) == IF r \in Anonymous THEN NoAuthor ELSE r

\* Seed: whoever commits is the author of all that a run reports.
AuthorOfRun(p, w, status) == NamedBy(Len(runs) + 1)
\* resolve_issue_author, when the new run is the next one.
Author(p, w, status) ==
    IF status = "new" \/ p \notin Analysed THEN NamedBy(Len(runs) + 1)
    ELSE RowIn(runs[Latest(p)].rows, w).author

ClassOf(p, w) == IF p \notin Analysed \/ w \in Warnings(Baseline(p)) THEN "existing" ELSE "new"
Reported(p, report) ==
    {[warning |-> w, key |-> KeyOf(p, w), status |-> ClassOf(p, w), author |-> Author(p, w, ClassOf(p, w))]
       : w \in report}
Gone(p, report) == {j \in Baseline(p) : j.warning \notin report}

\* Seed: what a full report no longer has is left out.
ClassifiedWithoutFixed(p, full, report) == Reported(p, report)

\* classify_and_store: the rows of a new run.
Classified(p, full, report) ==
    Reported(p, report)
    \cup (IF full THEN {[i EXCEPT !.status = "fixed", !.author = Author(p, i.warning, "fixed")] : i \in Gone(p, report)}
          ELSE {})

-----------------------------------------------------------------------------
(* Actions *)

\* A report that cannot be classified leaves a failed run without rows.
Upload(p, full, report) ==
    /\ Len(runs) + Len(unfinished) < MaxRuns
    /\ report # {} => CrossRoot(p) # "raises"
    /\ runs' = Append(runs, [platform |-> p, compared |-> full /\ p \in Analysed,
                             rows |-> Classified(p, full, report)])
    /\ UNCHANGED <<unfinished, roots, settings, edits>>

Edit ==
    /\ edits < MaxEdits
    /\ edits' = edits + 1

\* An upload that ends between the commit of its rows and that of "done", or fails after it,
\* which sets its run to failed. It counts among the runs of MaxRuns. While an upload is under
\* way between the two commits, the timeline shows it the same way.
Abandon(p, full, report) ==
    /\ Edit
    /\ Len(runs) + Len(unfinished) < MaxRuns
    /\ report # {} => CrossRoot(p) # "raises"
    /\ unfinished' = Append(unfinished,
                            [after |-> Len(runs), platform |-> p, compared |-> full /\ p \in Analysed,
                             rows |-> {[warning |-> i.warning, status |-> i.status]
                                         : i \in Classified(p, full, report)}])
    /\ UNCHANGED <<runs, roots, settings>>

\* Whether a run, finished or not, is of a platform and lists a warning.
Lists(run, p, w) == run.platform = p /\ w \in Warnings(run.rows)
Stored(p, w) ==
    \/ \E r \in 1..Len(runs) : Lists(runs[r], p, w)
    \/ \E n \in 1..Len(unfinished) : Lists(unfinished[n], p, w)
WithIgnored(run, w) ==
    [run EXCEPT !.rows = {IF i.warning = w THEN [i EXCEPT !.status = "ignored"] ELSE i : i \in @}]

\* Seed: in the runs of every platform.
IgnoreEverywhere(p, w) ==
    /\ Edit
    /\ Stored(p, w)
    /\ runs' = [r \in 1..Len(runs) |-> WithIgnored(runs[r], w)]
    /\ unfinished' = [n \in 1..Len(unfinished) |-> WithIgnored(unfinished[n], w)]
    /\ UNCHANGED <<roots, settings>>

\* ignore_issue: in every run that has the fingerprint, finished or not, and a fingerprint
\* holds the path, so it is of one platform.
Ignore(p, w) ==
    /\ Edit
    /\ Stored(p, w)
    /\ runs' = [r \in 1..Len(runs) |-> IF runs[r].platform = p THEN WithIgnored(runs[r], w) ELSE runs[r]]
    /\ unfinished' = [n \in 1..Len(unfinished) |->
                        IF unfinished[n].platform = p THEN WithIgnored(unfinished[n], w) ELSE unfinished[n]]
    /\ UNCHANGED <<roots, settings>>

\* _backfill_issue_authors, at a start: a row without an author takes that of the row in
\* the run before, if it has one by then, and else that of its own run.
Fill(filled, r) ==
    LET Inherited(w) == IF Before(r) = {} \/ w \notin Warnings(filled[Max(Before(r))]) THEN NoAuthor
                        ELSE RowIn(filled[Max(Before(r))], w).author
        Source(i) == IF i.status = "new" \/ Inherited(i.warning) = NoAuthor THEN NamedBy(r)
                     ELSE Inherited(i.warning)
    IN {IF i.author = NoAuthor THEN [i EXCEPT !.author = Source(i)] ELSE i : i \in runs[r].rows}
Backfilled[r \in 1..Len(runs)] == Fill(Backfilled, r)

\* A start that finds nothing to fill in changes nothing.
Backfill ==
    /\ Edit
    /\ \E r \in 1..Len(runs) : Backfilled[r] # runs[r].rows
    /\ runs' = [r \in 1..Len(runs) |-> [runs[r] EXCEPT !.rows = Backfilled[r]]]
    /\ UNCHANGED <<unfinished, roots, settings>>

\* update_source_roots
NameRoots(R) ==
    /\ Edit
    /\ R # roots
    /\ roots' = R
    /\ UNCHANGED <<runs, unfinished, settings>>

\* The first look at the global settings creates their row.
OpenSettings ==
    /\ Edit
    /\ ~settings
    /\ settings' = TRUE
    /\ UNCHANGED <<runs, unfinished, roots>>

-----------------------------------------------------------------------------
(* dashboard_history.py *)

\* The runs of its platform since a run.
Age(r) == Cardinality({n \in RunsOf(runs[r].platform) : n > r})
\* _fetch_runs: the last runs of a platform.
Window(p) == {r \in RunsOf(p) : Age(r) < Limit}

\* build_run_history: the warnings the last point of a platform counts as its total.
Counted(p) ==
    (UNION {Warnings(Open(r)) : r \in Window(p)}) \ (UNION {Warnings(Fixed(r)) : r \in Window(p)})

\* _wave_runs: the latest runs, the second latest ones, ...
Seen == UNION {Window(p) : p \in Platform}
Wave(age) == {r \in Seen : Age(r) = age}

\* Seed: what any of the platforms has.
CommonKeysOfAny(R) == UNION {Keys(Open(r)) : r \in R}

\* common_cross_fps_for_runs
CommonKeys(R) ==
    IF Cardinality(R) < 2 THEN {}
    ELSE {k \in UNION {Keys(Open(r)) : r \in R} : \A r \in R : k \in Keys(Open(r))}

\* build_common_wave_history: the keys its last point counts. A key is taken for fixed only
\* in a wave where it is common all the same.
KeysInWave(r, rows) == Keys(rows) \cap CommonKeys(Wave(Age(r)))
CountedInCommon ==
    (UNION {KeysInWave(r, Open(r)) : r \in Seen}) \ (UNION {KeysInWave(r, Fixed(r)) : r \in Seen})

\* _build_all_combined_history: the last point of All adds up those of the platforms.
TotalOfAll ==
    Cardinality(Counted("windows")) + Cardinality(Counted("linux")) + Cardinality(Counted("macos"))

Total(view) ==
    IF view \in Platform THEN IF view \in Analysed THEN Cardinality(Counted(view)) ELSE 0
    ELSE IF view = "all" THEN TotalOfAll
    ELSE Cardinality(CountedInCommon)

\* api_dashboard: the JSON dashboard adds up the first runs, of whatever platform.
FirstRuns == 1..(IF Len(runs) < Limit THEN Len(runs) ELSE Limit)
InJson(r, rows) == {<<runs[r].platform, w>> : w \in Warnings(rows)}
CountedInJson ==
    (UNION {InJson(r, Open(r)) : r \in FirstRuns}) \ (UNION {InJson(r, Fixed(r)) : r \in FirstRuns})

-----------------------------------------------------------------------------
(* issues_query.py and ui_issues *)

LatestRuns == {Latest(p) : p \in Analysed}

NoFilter == "any"
Matches(i, status, severity) ==
    /\ IF status = NoFilter THEN i.status \in OpenStatus ELSE i.status = status
    /\ severity \in {NoFilter, SeverityOf[i.warning]}

\* resolve_issues_for_filter: for a platform, for All, and for Common, where a key is shown
\* once, by the first of its rows that pass the filter.
ListOf(p, status, severity) ==
    {<<Latest(p), i>> : i \in IF p \in Analysed THEN {j \in runs[Latest(p)].rows : Matches(j, status, severity)}
                              ELSE {}}
ListOfAll(status, severity) == UNION {ListOf(p, status, severity) : p \in Platform}
ListOfCommon(status, severity) ==
    LET keys == CommonKeys(LatestRuns)
        passed == IF keys = {} THEN {} ELSE {x \in ListOfAll(status, severity) : x[2].key \in keys}
    IN {CHOOSE x \in passed : x[2].key = k : k \in {x[2].key : x \in passed}}

List(view, status, severity) ==
    IF view \in Platform THEN ListOf(view, status, severity)
    ELSE IF view = "all" THEN ListOfAll(status, severity)
    ELSE ListOfCommon(status, severity)
Views == Platform \cup {"all", "common"}

\* list_issues_api: the newest run of any platform, with its rows of any status.
ApiList(status, severity) ==
    {<<Len(runs), i>> : i \in IF runs = <<>> THEN {}
                              ELSE {j \in runs[Len(runs)].rows : /\ status \in {NoFilter, j.status}
                                                                 /\ severity \in {NoFilter, SeverityOf[j.warning]}}}

\* export_issues_csv_api, without a run: the newest one of any platform, as it is.
Exported == IF runs = <<>> THEN {} ELSE runs[Len(runs)].rows

\* count_issues_for_filter: the badge beside the total on the dashboard.
Badge(view) == Cardinality(List(view, NoFilter, NoFilter))

\* build_quality_gate_result: the run whose verdict the dashboard shows, if any.
GateRun(view) ==
    IF view \in Platform THEN IF view \in Analysed THEN {Latest(view)} ELSE {}
    ELSE IF Cardinality(Analysed) >= (IF view = "all" THEN 1 ELSE 2) THEN {Len(runs)} ELSE {}

\* ui_dashboard and its fragments
Overview(view) == [total |-> Total(view), badge |-> Badge(view), gate |-> GateRun(view)]

\* compute_issue_facets: the counts beside the list, each under the filter on the other
\* attribute; all is the list without a filter on either.
SeverityFacet(all, status, v) == Cardinality({x \in all : Matches(x[2], status, v)})
\* Seed: the severity that is chosen is left out.
StatusFacetOfAny(all, severity, v) == Cardinality({x \in all : x[2].status = v})
StatusFacet(all, severity, v) ==
    Cardinality({x \in all : x[2].status = v /\ severity \in {NoFilter, SeverityOf[x[2].warning]}})

\* Seed: pages of one size, whatever the size of the first one.
OffsetEven(fragment, page) == (page - 1) * NextPage
Offset(fragment, page) ==
    IF fragment THEN FirstPage + (IF page > 2 THEN page - 2 ELSE 0) * NextPage
    ELSE (page - 1) * FirstPage
Size(fragment) == IF fragment THEN NextPage ELSE FirstPage

\* The places of a list of n rows a page shows, and whether it asks for another one.
OnPage(n, fragment, page) ==
    (Offset(fragment, page) + 1)..(Offset(fragment, page) + Size(fragment)) \cap 1..n
HasNext(n, fragment, page) == Offset(fragment, page) + Size(fragment) < n

\* build_issue_activity_timeline. Its query takes every run that lists the warning, finished
\* or not, in the order of time: a sighting is a finished run (nth = 0) or the nth unfinished
\* one after it.
ListedBy(p, w) == {r \in RunsOf(p) : w \in Warnings(runs[r].rows)}
Listing(p, w) ==
    {[after |-> r, nth |-> 0] : r \in ListedBy(p, w)}
    \cup {[after |-> unfinished[n].after, nth |-> n]
            : n \in {m \in 1..Len(unfinished) : Lists(unfinished[m], p, w)}}
Earlier(x, y) == x.after < y.after \/ (x.after = y.after /\ x.nth < y.nth)
RunAt(x) == IF x.nth = 0 THEN runs[x.after] ELSE unfinished[x.nth]

\* What a row says, where it differs from the one before it (since, if there is one).
Said(x, w) == RowIn(RunAt(x).rows, w).status
Event(p, w, y) ==
    LET earlier == {x \in Listing(p, w) : Earlier(x, y)}
        since == {x \in earlier : \A z \in earlier : ~Earlier(x, z)}
    IN [at |-> y, since |-> since, to |-> Said(y, w),
        was |-> IF since = {} THEN "created" ELSE Said(CHOOSE x \in since : TRUE, w)]
Timeline(p, w) == {e \in {Event(p, w, y) : y \in Listing(p, w)} : e.was # e.to}
\* The first event names the author of the oldest row, or else that of its run; said of
\* finished runs only.
Creator(p, w) ==
    LET first == Min(ListedBy(p, w))
        author == RowIn(runs[first].rows, w).author
    IN IF author # NoAuthor THEN author ELSE NamedBy(first)

\* The pages a reader is shown who scrolls to the end: the first, and fragments while the
\* one before asked for more.
Scrolled(n) == {1} \cup {k \in 2..n : \A j \in 1..(k - 1) : HasNext(n, j # 1, j)}

-----------------------------------------------------------------------------
Init ==
    /\ runs = <<>>
    /\ unfinished = <<>>
    /\ roots \in RootsAtFirst
    /\ settings = FALSE
    /\ edits = 0

Next ==
    \/ \E p \in Platform, full \in BOOLEAN, report \in SUBSET Warning :
         Upload(p, full, report) \/ Abandon(p, full, report)
    \/ \E p \in Platform, w \in Warning : Ignore(p, w)
    \/ \E R \in SUBSET Platform : NameRoots(R)
    \/ OpenSettings
    \/ Backfill

Spec == Init /\ [][Next]_vars

-----------------------------------------------------------------------------
(* Properties *)

TypeOK ==
    /\ runs \in Seq(RunRow) /\ Len(runs) <= MaxRuns
    /\ unfinished \in Seq(LeftRow)
    /\ roots \subseteq Platform
    /\ settings \in BOOLEAN
    /\ edits \in 0..MaxEdits

\* While the reports of a platform were full, the total of its dashboard, which is added up
\* over the last runs, counts no warning that the latest run no longer has open: what went
\* away was marked fixed in the run after it, whatever was ignored or came back in between.
\* So the total is never more than the badge beside it, which is the length of the list;
\* and while no run is older than the histories reach, the JSON dashboard, which mixes the
\* platforms, has the total of All, which adds them up. The verdict beside a total is that
\* of a run the total counts.
KpiCountsOpenOnly ==
    LET InFull(p) == \A r \in Window(p) \ {Min(Window(p))} : runs[r].compared
    IN /\ \A p \in Analysed : InFull(p) => Counted(p) \subseteq Warnings(Open(Latest(p)))
       /\ \A view \in Platform \cup {"all"} :
            LET of == IF view = "all" THEN Analysed ELSE {view} \cap Analysed
                shown == Overview(view)
            IN /\ (\A p \in of : InFull(p)) => shown.total <= shown.badge
               /\ \A r \in shown.gate : \E p \in of : r \in Window(p)
       /\ Len(runs) <= Limit => Cardinality(CountedInJson) = TotalOfAll

\* The list under Common shows a defect once, whatever the number of its lines and of the
\* platforms, and only while the latest run of every platform that was ever analysed has it;
\* and it shows each defect of which this is so if the roots were named all along. The total
\* of the Common dashboard leaves out a listed defect only when the runs it looks back at
\* have a line of it that was fixed.
CommonOpenEverywhere ==
    /\ \A c, d \in ListOfCommon(NoFilter, NoFilter) : c[2].key = d[2].key => c = d
    /\ \A c \in ListOfCommon(NoFilter, NoFilter), p \in Analysed : \E i \in ListOf(p, NoFilter, NoFilter) : i[2].key = c[2].key
    /\ Cardinality(Analysed) > 1 =>
         \A d \in Defect :
           (\A p \in Analysed : \E i \in ListOf(p, NoFilter, NoFilter) : i[2].key = <<d, Relative>>)
             => \E c \in ListOfCommon(NoFilter, NoFilter) : c[2].key = <<d, Relative>>
    /\ \A k \in CommonKeys(LatestRuns) :
         k \in CountedInCommon \/ \E p \in Analysed : \E r \in Window(p) : k \in Keys(Fixed(r))

\* The count beside a facet is the length of the list that a click on it leads to, for open
\* warnings; under Common it may be less, since a row hides the others of its key before it
\* is counted. The list of the API under such a filter is that of the platform it reports on,
\* and the export is all of these together.
FacetsCountTheList ==
    /\ \A status \in Status, severity \in Severity \cup {NoFilter} :
         runs # <<>> => ApiList(status, severity) = List(runs[Len(runs)].platform, status, severity)
    /\ runs # <<>> =>
         Exported = UNION {{x[2] : x \in List(runs[Len(runs)].platform, status, NoFilter)} : status \in Status}
    /\ \A view \in Analysed \cup {"common"} :
         LET all == List(view, NoFilter, NoFilter)
             Agree(n, shown) == IF view = "common" THEN n <= Cardinality(shown) ELSE n = Cardinality(shown)
         IN all # {} =>
              \A status \in OpenStatus, severity \in Severity \cup {NoFilter} :
                 /\ severity # NoFilter => Agree(SeverityFacet(all, status, severity), List(view, status, severity))
                 /\ Agree(StatusFacet(all, severity, status), List(view, status, severity))

\* Scrolling through a list shows every row of it once.
ScrollShowsAll ==
    \A n \in {Cardinality(List(view, NoFilter, NoFilter)) : view \in Views} :
        \A place \in 1..n : Cardinality({k \in Scrolled(n) : place \in OnPage(n, k # 1, k)}) = 1

\* The run o brought in the warning w, which the run r lists: it is followed by runs that
\* list it, and the one before, if any, did not have it open.
CameIn(r, w, o) ==
    /\ \A n \in RunsOf(runs[r].platform) : o <= n /\ n <= r => w \in Warnings(runs[n].rows)
    /\ Before(o) # {} => w \notin Warnings(Open(Max(Before(o))))

\* The author is the first one that a run since o names.
FirstNamed(r, author, o) ==
    /\ author \in (RunsOf(runs[r].platform) \cap o..r) \ Anonymous
    /\ \A n \in RunsOf(runs[r].platform) : o <= n /\ n < author => n \in Anonymous

\* The author a row names is that of the run that brought the warning in, or, once a start
\* has filled in what was missing, of the first run since then that names one; a row that
\* names nobody was brought in by a run that does not.
AuthorBroughtItIn ==
    \A r \in 1..Len(runs) : \A i \in runs[r].rows :
        \E o \in RunsOf(runs[r].platform) :
            /\ o <= r /\ CameIn(r, i.warning, o)
            /\ IF i.author = NoAuthor THEN o \in Anonymous ELSE FirstNamed(r, i.author, o)

\* The finished runs of a platform before a sighting.
FinishedBefore(p, y) == {n \in RunsOf(p) : Earlier([after |-> n, nth |-> 0], y)}

\* The timeline of a warning tells what happened, in finished runs and in unfinished ones: it
\* is open again after it was fixed or ignored only as a new one, unless an unfinished run
\* called it fixed or no run was finished before; it is fixed only by a full report, it is
\* reported as new a second time without having been fixed only after a finished run left it
\* out, and the creator, if a finished run listed it first, is nobody who committed later
\* than the row of the list names.
TimelineIsTrue ==
    \A p \in Platform : \A w \in Warning :
        /\ \A e \in Timeline(p, w) :
             CASE e.to = "existing" -> \/ e.was = "new"
                                       \/ e.was = "fixed" /\ \A x \in e.since : x.nth # 0
                                       \/ FinishedBefore(p, e.at) = {}
               [] e.to = "fixed"    -> e.was \in {"new", "existing"} /\ RunAt(e.at).compared
               [] e.to = "ignored"  -> e.was = "created"
               [] e.to = "new"      -> \/ e.was \in {"created", "fixed", "ignored"}
                                       \/ \E n \in FinishedBefore(p, e.at) : w \notin Warnings(runs[n].rows)
        /\ LET last == RowIn(runs[Max(ListedBy(p, w))].rows, w)
               first == [after |-> Min(ListedBy(p, w)), nth |-> 0]
           IN ListedBy(p, w) # {} /\ (\A x \in Listing(p, w) : ~Earlier(x, first)) /\ last.author # NoAuthor =>
                Creator(p, w) <= last.author

\* Seen through its latest run, a platform keeps the ledger of its warnings: no upload of
\* another platform moves an entry, a warning is new only if it was not open, an open one
\* keeps its author whoever commits next, only a full report closes one, an ignored one is
\* ignored on its own platform, and a start names somebody only where nobody was named.
Entries(p) ==
    {[warning |-> i.warning, standing |-> i.status, who |-> i.author]
       : i \in IF p \in Analysed THEN runs[Latest(p)].rows ELSE {}}
Promise == INSTANCE Ledger WITH
    Person <- 1..MaxRuns, Nobody <- NoAuthor,
    known <- Analysed, entries <- [p \in Platform |-> Entries(p)]
KeepsTheLedger == Promise!Spec

\* A report of any platform the upload accepts can be classified.
EveryPlatformAccepted == \A p \in Platform : CrossRoot(p) # "raises"
=================================================================================
