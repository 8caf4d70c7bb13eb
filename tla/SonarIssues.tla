------------------------------ MODULE SonarIssues ------------------------------
(***************************************************************************)
(* The legacy service between SonarQube and Jira                           *)
(* (PVS_Sonar_WebHook_FastAPI): SonarQube posts a web hook when an         *)
(* analysis is complete, the service asks SonarQube for the open and the   *)
(* fixed issues through a cache with a time to live, opens a Jira bug for  *)
(* an issue that has none and comments the bugs of what was fixed today.   *)
(*                                                                         *)
(* process_sonarqube_webhook is a coroutine without an await: one web hook *)
(* is one step of the event loop.  SonarQube and Jira are external.        *)
(***************************************************************************)
EXTENDS Naturals, Sequences, FiniteSets, SequencesExt

CONSTANTS Project,        \* the projects of the service
          ReleaseProject, \* those whose branch name contains "release"
          Issue,          \* the issues SonarQube may ever find
          ProjectOf,      \* the project of each issue
          Lineless,       \* the issues of a whole file: they have no line
          PageSize,       \* the issues SonarQube gives in one answer
          TTL,            \* CacheTTL.ISSUES, in ticks of the clock
          Day,            \* the ticks of a day
          MaxClock, MaxAnalyses, MaxWebHooks, MaxOutages, \* bounds
          None

ASSUME SonarAssumption ==
    /\ ReleaseProject \subseteq Project
    /\ ProjectOf \in [Issue -> Project]
    /\ Lineless \subseteq Issue /\ IsFiniteSet(Issue)
    /\ PageSize \in Nat /\ TTL \in Nat /\ Day \in Nat /\ Day > TTL
    /\ {MaxClock, MaxAnalyses, MaxWebHooks, MaxOutages} \subseteq Nat
    /\ None \notin Issue

VARIABLES clock,       \* the time, in ticks
          open,        \* SonarQube: the issues of the new-code period that are open
          closed,      \* SonarQube: the issues that are fixed, with the time of the fix
          analyses,    \* the analyses so far (a bound)
          hooks,       \* background tasks accepted and not run, per project
          cache,       \* the in-memory cache: entries by key
          disableJira, \* Project.disable_jira
          bugs,        \* Jira: the bugs with this SonarQube Issue ID
          comments,    \* Jira: how often the bug of an issue was commented as fixed
          faults,      \* calls of SonarQube or Jira that failed (a bound)
          blind,       \* history: bugs created while the search for one failed
          repeated,    \* history: requests for a bug sent a second time by the library
          openAt,      \* history: when an issue was last open
          closedAt,    \* history: when an issue was last fixed
          since,       \* history: since when an open issue is open
          overlooked,  \* the open issues that the web hook handled last, in this very step,
                       \* did not get in SonarQube's answer
          paged        \* whether that answer was as long as an answer can be

sonar == <<open, closed, analyses>>
jira == <<bugs, comments, blind, repeated>>
answered == <<overlooked, paged>>
issueHistory == <<openAt, closedAt, since>>
issueVars == <<clock, sonar, hooks, cache, disableJira, jira, faults, issueHistory, answered>>

Of(p) == {i \in Issue : ProjectOf[i] = p}
ClosedRows(i) == {c \in closed : c.issue = i}
IsClosed(i) == ClosedRows(i) # {}
\* A day of the calendar.
DayOf(t) == t \div Day

-----------------------------------------------------------------------------
(* The cache. *)

Endpoint == {"issues:search", "issues:search:fixed"}
\* A key is prefix:endpoint:hash, where the hash is the MD5 of the parameters: it does not
\* contain the project's key as text.
MakeKey(endpoint, p) == <<"sonarqube:cache", endpoint, <<"md5", p>> >>
Key == {MakeKey(e, p) : e \in Endpoint, p \in Project}

\* clear_pattern: the keys that start with the pattern, character by character.
StartsWith(pattern) == {k \in Key : IsPrefix(pattern, k)}
\* invalidate_project passes a pattern with a star in it.
Invalidated(p) == [k \in Key |-> IF k \in StartsWith(<<"sonarqube:cache", "*", p>>)
                                 THEN None ELSE cache[k]]

\* Seed: an entry is served for ever.
NeverExpires(c, k) == c[k] # None

\* An entry is served while expires_at < now does not hold.
Served(c, k) == c[k] # None /\ clock <= c[k].at + TTL

\* No request names a page, so that SonarQube answers with the first one: all there is, or
\* as many as one answer holds.
Pages(s) == {t \in SUBSET s : /\ Cardinality(t) <= PageSize
                              /\ t # s => Cardinality(t) = PageSize}

\* What SonarQube answers now: open issues in some order, fixed ones.
OpenAnswers(p) ==
    {l \in SeqOf(open \cap Of(p), PageSize) : IsInjective(l) /\ ToSet(l) \in Pages(open \cap Of(p))}
FixedAnswers(p) == Pages({c \in closed : c.issue \in Of(p)})

\* One cached request: what it may answer, and the cache after it.  A failed request gives
\* what the caller treats as an empty answer, and is not cached.
Answers(c, k, fresh, empty, fails) ==
    IF Served(c, k) THEN {c[k].value} ELSE IF fails THEN {empty} ELSE fresh
After(c, k, answer, fails) ==
    IF Served(c, k) \/ fails THEN c ELSE [c EXCEPT ![k] = [value |-> answer, at |-> clock]]

-----------------------------------------------------------------------------
(* The web hook of an analysis. *)

\* The calls that fail while one web hook is handled, as sets of issues.
NoFailure == [list |-> FALSE, fixed |-> FALSE, snippet |-> {}, search |-> {}, create |-> {}]
Failures(p) ==
    {NoFailure} \cup {[NoFailure EXCEPT !.list = TRUE], [NoFailure EXCEPT !.fixed = TRUE]}
    \cup UNION {{[NoFailure EXCEPT !.snippet = {i}], [NoFailure EXCEPT !.search = {i}],
                 [NoFailure EXCEPT !.create = {i}]} : i \in Of(p)}

\* The source of an issue is read before its bug is considered.
HasSource(i, f) == i \notin f.snippet

\* The handler returns, with the rest of the list not looked at, at an issue without a line
\* or without source, and, after the source was read, when the project has Jira switched off.
Returns(p, i, f) == i \in Lineless \/ ~HasSource(i, f) \/ disableJira[p]
Handled(p, list, f) ==
    {list[k] : k \in {k \in DOMAIN list : \A j \in 1..k : ~Returns(p, list[j], f)}}

\* check_exist_task answers False when Jira cannot be asked.
Exists(n, i, f) == n[i] > 0 /\ i \notin f.search

\* Seed: the search for an existing bug is left out.
CreatedUnchecked(handled, f) == handled

\* The issues create_jira_issue is called for.
Created(handled, f) == {i \in handled : ~Exists(bugs, i, f)}

\* create_issue: a call that meets no trouble opens one bug. When the connection breaks the
\* library sends the request once more (max_retries), each of them may have been carried
\* out, and reading the new bug may fail too; or the project is not found in Jira.
Opens(created, f, requests, taken) ==
    /\ bugs' = [i \in Issue |-> bugs[i] + (IF i \notin created THEN 0
                                          ELSE IF i \in f.create THEN taken ELSE 1)]
    /\ repeated' = [i \in Issue |-> repeated[i] + (IF i \in created \cap f.create
                                                  THEN requests - 1 ELSE 0)]

\* What was fixed today is commented, when its bug is found.
Commented(fixed, f) ==
    {i \in {c.issue : c \in {c \in fixed : DayOf(c.at) = DayOf(clock)}} : Exists(bugs', i, f)}

Unanswered == overlooked' = {} /\ paged' = FALSE

ProcessRelease(p) ==
    /\ p \in ReleaseProject
    /\ cache' = Invalidated(p)
    /\ disableJira' = [disableJira EXCEPT ![p] = FALSE]
    /\ Unanswered
    /\ UNCHANGED <<jira, faults>>

ProcessIssues(p) ==
    /\ p \notin ReleaseProject
    /\ \E f \in Failures(p), requests \in 1..2, taken \in 0..2 :
        /\ taken <= requests
        /\ faults + (IF f = NoFailure THEN 0 ELSE 1) <= MaxOutages
        /\ faults' = faults + (IF f = NoFailure THEN 0 ELSE 1)
        /\ \E list \in Answers(Invalidated(p), MakeKey("issues:search", p), OpenAnswers(p), <<>>, f.list) :
            LET handled == Handled(p, list, f)
                created == Created(handled, f)
                known == After(Invalidated(p), MakeKey("issues:search", p), list, f.list)
            IN  /\ Opens(created, f, requests, taken)
                /\ blind' = [i \in Issue |-> blind[i] + (IF i \in created \cap f.search THEN 1 ELSE 0)]
                /\ overlooked' = IF f = NoFailure THEN (open \cap Of(p)) \ ToSet(list) ELSE {}
                /\ paged' = (f = NoFailure /\ Len(list) >= PageSize)
                /\ \/ /\ handled # ToSet(list)
                      /\ cache' = known
                      /\ UNCHANGED comments
                   \/ /\ handled = ToSet(list)
                      /\ \E fixed \in Answers(known, MakeKey("issues:search:fixed", p),
                                             FixedAnswers(p), {}, f.fixed) :
                            /\ cache' = After(known, MakeKey("issues:search:fixed", p), fixed, f.fixed)
                            /\ comments' = [i \in Issue |-> comments[i] +
                                   (IF i \in Commented(fixed, f) THEN 1 ELSE 0)]
    /\ UNCHANGED disableJira

Process(p) ==
    /\ hooks[p] > 0
    /\ hooks' = [hooks EXCEPT ![p] = @ - 1]
    /\ ProcessRelease(p) \/ ProcessIssues(p)
    /\ UNCHANGED <<clock, sonar, issueHistory>>

-----------------------------------------------------------------------------
(* SonarQube, the users and the process. *)

\* The web hook is answered, its processing is a background task.
Accept(p) ==
    /\ hooks[p] < MaxWebHooks
    /\ hooks' = [hooks EXCEPT ![p] = @ + 1]

\* An analysis finds some of the project's issues open in the new-code period. Of the others
\* some are fixed, and the rest has left the period or never was in it.  Its web hook
\* arrives, or is lost on the way.
Analysis(p, found, fixed, arrives) ==
    /\ analyses < MaxAnalyses
    /\ analyses' = analyses + 1
    /\ open' = (open \ Of(p)) \cup found
    /\ closed' = {c \in closed : c.issue \notin found}
                 \cup {[issue |-> i, at |-> clock] : i \in fixed}
    /\ openAt' = [i \in Issue |-> IF i \in open \cup found THEN clock ELSE openAt[i]]
    /\ closedAt' = [i \in Issue |-> IF i \in fixed \/ IsClosed(i)
                                    THEN clock ELSE closedAt[i]]
    /\ IF arrives THEN Accept(p) ELSE UNCHANGED hooks
    /\ since' = [i \in Issue |-> IF i \in found \ open THEN clock ELSE since[i]]
    /\ Unanswered
    /\ UNCHANGED <<clock, cache, disableJira, jira, faults>>

Tick ==
    /\ clock < MaxClock
    /\ clock' = clock + 1
    /\ openAt' = [i \in Issue |-> IF i \in open THEN clock + 1 ELSE openAt[i]]
    /\ closedAt' = [i \in Issue |-> IF IsClosed(i) THEN clock + 1 ELSE closedAt[i]]
    /\ Unanswered
    /\ UNCHANGED <<sonar, hooks, cache, disableJira, jira, faults, since>>

\* /project/disable_jira, /project/enable_jira and the edit form.
SwitchJira(p) ==
    /\ disableJira' = [disableJira EXCEPT ![p] = ~@]
    /\ Unanswered
    /\ UNCHANGED <<clock, sonar, hooks, cache, jira, faults, issueHistory>>

\* The process ends and starts again: its cache and its background tasks are gone.
RestartService ==
    /\ \E p \in Project : hooks[p] > 0
    /\ hooks' = [p \in Project |-> 0]
    /\ cache' = [k \in Key |-> None]
    /\ Unanswered
    /\ UNCHANGED <<clock, sonar, disableJira, jira, faults, issueHistory>>

IssuesInit ==
    /\ clock = 0
    /\ open = {} /\ closed = {} /\ analyses = 0
    /\ hooks = [p \in Project |-> 0]
    /\ cache = [k \in Key |-> None]
    /\ disableJira \in [Project -> BOOLEAN]
    /\ bugs = [i \in Issue |-> 0] /\ comments = [i \in Issue |-> 0]
    /\ blind = [i \in Issue |-> 0] /\ repeated = [i \in Issue |-> 0]
    /\ faults = 0
    /\ openAt = [i \in Issue |-> 0] /\ closedAt = [i \in Issue |-> 0]
    /\ since = [i \in Issue |-> 0]
    /\ overlooked = {} /\ paged = FALSE

IssuesNext ==
    \/ \E p \in Project :
        \/ Process(p)
        \/ \E found \in SUBSET Of(p), arrives \in BOOLEAN :
             \E fixed \in SUBSET {i \in Of(p) \ found : ~IsClosed(i)} : Analysis(p, found, fixed, arrives)
        \/ SwitchJira(p)
    \/ Tick
    \/ RestartService

IssuesSpec == IssuesInit /\ [][IssuesNext]_issueVars

-----------------------------------------------------------------------------

TypeOK ==
    /\ clock \in 0..MaxClock
    /\ open \subseteq Issue
    /\ closed \subseteq [issue : Issue, at : 0..MaxClock]
    /\ analyses \in 0..MaxAnalyses
    /\ hooks \in [Project -> 0..MaxWebHooks]
    /\ DOMAIN cache = Key /\ \A k \in Key : cache[k] = None \/ cache[k].at \in 0..clock
    /\ disableJira \in [Project -> BOOLEAN]
    /\ {bugs, comments, blind, repeated} \subseteq [Issue -> Nat]
    /\ paged \in BOOLEAN
    /\ faults \in 0..MaxOutages
    /\ {openAt, closedAt, since} \subseteq [Issue -> 0..clock]

\* An issue has at most one bug, plus one for every time Jira could not be searched or a
\* request was sent twice: however often it is analysed, closed, reopened and served from
\* the cache.
NoTwinBugs == \A i \in Issue : bugs[i] <= 1 + blind[i] + repeated[i]

\* A bug is opened only for an issue that was open within the time to live, and an issue is
\* reported as fixed only when it was fixed within it: a stale answer does no other harm.
ActsOnRecentAnswers ==
    [][\A i \in Issue :
        /\ bugs'[i] > bugs[i] => clock <= openAt[i] + TTL
        /\ comments'[i] > comments[i] => clock <= closedAt[i] + TTL]_issueVars

\* A handled web hook may overlook an issue, as the cache is not invalidated. It overlooks one
\* that has been open for longer than the time to live only when the answer was a full page,
\* behind which the service never looks.
OverlooksOnlyNewIssues == paged \/ \A i \in overlooked : clock <= since[i] + TTL
=============================================================================
