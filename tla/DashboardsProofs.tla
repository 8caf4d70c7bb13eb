---------------------------- MODULE DashboardsProofs ----------------------------
(***************************************************************************)
(* What the pages show is right for every number of runs, warnings,        *)
(* defects, severities and edits, every length of a history and every size *)
(* of a page.                                                              *)
(***************************************************************************)
EXTENDS Dashboards, FiniteSetTheorems, WellFoundedInduction, TLAPS

-----------------------------------------------------------------------------
(* The inductive invariant, part by part. *)

\* A run lists a warning once.
UniqueInv ==
  \A r \in 1..Len(runs) : \A i, j \in runs[r].rows : i.warning = j.warning => i = j

\* What the status of a row says of the run before it, whatever was ignored since.
Follows(r, i) ==
  LET before == Warnings(Open(Max(Before(r)))) IN
  /\ i.status = "new" => /\ i.author = NamedBy(r)
                         /\ Before(r) # {} /\ i.warning \notin before
  /\ i.status = "existing" => Before(r) = {} \/ i.warning \in before
  /\ i.status = "fixed" => runs[r].compared /\ Before(r) # {} /\ i.warning \in before
  /\ i.status = "ignored" => \A n \in Before(r) : \A j \in runs[n].rows :
                               j.warning = i.warning => j.status = "ignored"

FollowsInv == \A r \in 1..Len(runs) : \A i \in runs[r].rows : Follows(r, i)

\* A full report leaves nothing out that was open.
ComparedInv ==
  \A r \in 1..Len(runs) : runs[r].compared =>
    /\ Before(r) # {}
    /\ \A j \in Open(Max(Before(r))) : \E i \in runs[r].rows :
         i.warning = j.warning /\ i.status \in {"existing", "fixed"}

\* The finished runs an unfinished one was compared with the last of.
Base(n) == {r \in RunsOf(unfinished[n].platform) : r <= unfinished[n].after}

\* Whether the unfinished run m comes before n.
Sooner(m, n) ==
  \/ unfinished[m].after < unfinished[n].after
  \/ unfinished[m].after = unfinished[n].after /\ m < n

\* The same of a row of an unfinished run.
LeftFollows(n, i) ==
  LET before == Warnings(Open(Max(Base(n)))) IN
  /\ i.status = "new" => Base(n) # {} /\ i.warning \notin before
  /\ i.status = "existing" => Base(n) = {} \/ i.warning \in before
  /\ i.status = "fixed" => unfinished[n].compared /\ Base(n) # {} /\ i.warning \in before
  /\ i.status = "ignored" =>
       /\ \A r \in Base(n) : \A j \in runs[r].rows : j.warning = i.warning => j.status = "ignored"
       /\ \A m \in 1..Len(unfinished) :
            unfinished[m].platform = unfinished[n].platform /\ Sooner(m, n) =>
              \A j \in unfinished[m].rows : j.warning = i.warning => j.status = "ignored"

\* A row that is ignored in a finished run is ignored in the unfinished ones before it.
LeftIgnored(n, r) ==
  \A i \in runs[r].rows, j \in unfinished[n].rows :
    i.warning = j.warning /\ i.status = "ignored" => j.status = "ignored"

LeftInv ==
  \A n \in 1..Len(unfinished) :
    /\ unfinished[n].after <= Len(runs)
    /\ \A i, j \in unfinished[n].rows : i.warning = j.warning => i = j
    /\ \A i \in unfinished[n].rows : LeftFollows(n, i)
    /\ \A r \in 1..Len(runs) :
         runs[r].platform = unfinished[n].platform /\ unfinished[n].after < r => LeftIgnored(n, r)

IInv == TypeOK /\ UniqueInv /\ FollowsInv /\ ComparedInv /\ AuthorBroughtItIn /\ LeftInv

-----------------------------------------------------------------------------
(* Sets of runs, and the first and the last of them. *)

\* Among the initial parts of T there is a least one, and it belongs to the least number.
LEMMA LeastOf ==
  ASSUME NEW n \in Nat, NEW T, T \subseteq 1..n, T # {}
  PROVE  \E k \in T : \A x \in T : k <= x
<1> DEFINE UpToIn(k) == {x \in T : x <= k}
           Heads == {UpToIn(k) : k \in T}
<1>1. Heads # {} /\ Heads \subseteq FiniteSubsetsOf(T)
  <2>1. IsFiniteSet(1..n)
    BY FS_Interval
  <2>2. IsFiniteSet(T)
    BY <2>1, FS_Subset
  <2>3. \A k \in T : UpToIn(k) \in FiniteSubsetsOf(T)
    BY <2>2, FS_Subset DEF FiniteSubsetsOf
  <2>4. PICK k \in T : TRUE
    OBVIOUS
  <2>5. UpToIn(k) \in Heads
    OBVIOUS
  <2> QED
    BY <2>3, <2>5
<1>2. PICK U \in Heads : \A V \in Heads : ~(<<V, U>> \in StrictSubsetOrdering(T))
  <2> HIDE DEF Heads
  <2> QED
    BY <1>1, FS_StrictSubsetOrderingWellFounded, WFMin, Zenon
<1>3. PICK k \in T : U = UpToIn(k)
  OBVIOUS
<1>4. ASSUME NEW x \in T, x < k PROVE FALSE
  <2>1. UpToIn(x) \in Heads
    OBVIOUS
  <2>2. k \in Int /\ x \in Int /\ \A y \in T : y \in Int
    OBVIOUS
  <2>3. UpToIn(x) \subseteq UpToIn(k) /\ k \in UpToIn(k) /\ k \notin UpToIn(x)
    <3>1. \A y \in T : y <= x => y <= k
      BY <1>4, <2>2
    <3>2. k <= k /\ ~(k <= x)
      BY <1>4, <2>2
    <3> QED
      BY <3>1, <3>2
  <2>4. <<UpToIn(x), U>> \in StrictSubsetOrdering(T)
    BY <1>3, <2>3 DEF StrictSubsetOrdering
  <2> QED
    BY <1>2, <2>1, <2>4
<1> QED
  BY <1>4

\* The greatest one is the least one counted from behind.
LEMMA GreatestOf ==
  ASSUME NEW n \in Nat, NEW T, T \subseteq 1..n, T # {}
  PROVE  \E k \in T : \A x \in T : x <= k
<1> DEFINE Mirror == {n + 1 - x : x \in T}
<1>1. Mirror \subseteq 1..n /\ Mirror # {}
  OBVIOUS
<1>2. PICK m \in Mirror : \A y \in Mirror : m <= y
  <2> HIDE DEF Mirror
  <2> QED
    BY <1>1, LeastOf
<1>3. PICK k \in T : m = n + 1 - k
  OBVIOUS
<1>4. ASSUME NEW x \in T PROVE x <= k
  <2>1. n + 1 - x \in Mirror
    OBVIOUS
  <2>2. n + 1 - k <= n + 1 - x
    BY <1>2, <1>3, <2>1
  <2> QED
    BY <2>2
<1> QED
  BY <1>4

LEMMA MaxIs ==
  ASSUME NEW n \in Nat, NEW T, T \subseteq 1..n, T # {}
  PROVE  /\ Max(T) \in T
         /\ \A x \in T : x <= Max(T)
<1>1. PICK k \in T : \A x \in T : x <= k
  BY GreatestOf
<1>2. \A x \in T : k >= x
  BY <1>1
<1>3. Max(T) \in T /\ \A x \in T : Max(T) >= x
  BY <1>2 DEF Max
<1> QED
  BY <1>3

LEMMA MinIs ==
  ASSUME NEW n \in Nat, NEW T, T \subseteq 1..n, T # {}
  PROVE  /\ Min(T) \in T
         /\ \A x \in T : Min(T) <= x
<1>1. PICK k \in T : \A x \in T : k <= x
  BY LeastOf
<1> QED
  BY <1>1 DEF Min

LEMMA RunsAre ==
  ASSUME TypeOK
  PROVE  /\ Len(runs) \in Nat /\ DOMAIN runs = 1..Len(runs)
         /\ \A r \in 1..Len(runs) : runs[r] \in RunRow
         /\ \A p : RunsOf(p) \subseteq 1..Len(runs)
BY DEF TypeOK, RunsOf

LeftRows == [warning : Warning, status : Status]

LEMMA LeftAre ==
  ASSUME TypeOK
  PROVE  /\ Len(unfinished) \in Nat /\ DOMAIN unfinished = 1..Len(unfinished)
         /\ \A n \in 1..Len(unfinished) :
              /\ unfinished[n] \in LeftRow /\ unfinished[n].after \in 0..MaxRuns
              /\ unfinished[n].after \in Nat
              /\ unfinished[n].rows \subseteq LeftRows
              /\ Base(n) \subseteq 1..Len(runs)
<1>1. unfinished \in Seq(LeftRow) /\ MaxRuns \in Nat
  BY DashboardsAssumption DEF TypeOK
<1>2. \A n \in 1..Len(unfinished) : unfinished[n] \in LeftRow
  BY <1>1
<1>3. \A x \in LeftRow : x.after \in 0..MaxRuns /\ x.rows \subseteq LeftRows
  BY DEF LeftRow, LeftRows
<1>4. \A n : Base(n) \subseteq 1..Len(runs)
  BY RunsAre DEF Base
<1> QED
  BY <1>1, <1>2, <1>3, <1>4

\* The run an unfinished one was compared with.
LEMMA BaseIs ==
  ASSUME TypeOK, NEW n \in 1..Len(unfinished), Base(n) # {}
  PROVE  /\ Max(Base(n)) \in Base(n) /\ Max(Base(n)) \in 1..Len(runs)
         /\ runs[Max(Base(n))].platform = unfinished[n].platform
         /\ \A r \in Base(n) : r <= Max(Base(n))
<1>1. Base(n) \subseteq 1..Len(runs) /\ Len(runs) \in Nat
  BY LeftAre, RunsAre
<1>2. Max(Base(n)) \in Base(n) /\ \A r \in Base(n) : r <= Max(Base(n))
  BY <1>1, MaxIs
<1> QED
  BY <1>1, <1>2 DEF Base, RunsOf

\* The latest run of a platform.
LEMMA LatestIs ==
  ASSUME TypeOK, NEW p \in Analysed
  PROVE  /\ Latest(p) \in RunsOf(p)
         /\ \A r \in RunsOf(p) : r <= Latest(p)
<1>1. RunsOf(p) # {}
  BY DEF Analysed
<1> QED
  BY <1>1, RunsAre, MaxIs DEF Latest

\* The run before a run.
LEMMA PreviousIs ==
  ASSUME TypeOK, NEW r \in 1..Len(runs), Before(r) # {}
  PROVE  /\ Max(Before(r)) \in Before(r)
         /\ \A n \in Before(r) : n <= Max(Before(r))
<1>1. Before(r) \subseteq 1..Len(runs)
  BY RunsAre DEF Before
<1> QED
  BY <1>1, RunsAre, MaxIs

\* The rows of the baseline are rows of the latest run.
LEMMA RowInIs ==
  ASSUME NEW S, NEW w \in Warnings(S)
  PROVE  RowIn(S, w) \in S /\ RowIn(S, w).warning = w
BY DEF Warnings, RowIn

LEMMA OnlyRow ==
  ASSUME UniqueInv, NEW r \in 1..Len(runs), NEW i \in runs[r].rows
  PROVE  RowIn(runs[r].rows, i.warning) = i
<1>1. i.warning \in Warnings(runs[r].rows)
  BY DEF Warnings
<1> QED
  BY <1>1, RowInIs DEF UniqueInv

-----------------------------------------------------------------------------
(* What the steps do to the runs. *)

LEMMA Unmoved ==
  ASSUME TypeOK, Len(runs') = Len(runs),
         \A r \in 1..Len(runs) : runs'[r].platform = runs[r].platform
  PROVE  /\ \A p : RunsOf(p)' = RunsOf(p)
         /\ \A r \in 1..Len(runs) : Before(r)' = Before(r)
BY DEF RunsOf, Before

LEMMA Added ==
  ASSUME TypeOK, NEW x, runs' = Append(runs, x)
  PROVE  /\ Len(runs') = Len(runs) + 1 /\ runs'[Len(runs) + 1] = x
         /\ \A r \in 1..Len(runs) : runs'[r] = runs[r] /\ Before(r)' = Before(r)
         /\ \A r : r = Len(runs) + 1 => Before(r)' = RunsOf(x.platform)
         /\ \A p : RunsOf(p)' = RunsOf(p) \cup (IF p = x.platform THEN {Len(runs) + 1} ELSE {})
<1>1. Len(runs) \in Nat /\ DOMAIN runs = 1..Len(runs) /\ runs \in Seq(RunRow)
  BY DEF TypeOK
<1>2. Len(runs') = Len(runs) + 1 /\ runs'[Len(runs) + 1] = x
      /\ \A r \in 1..Len(runs) : runs'[r] = runs[r]
  BY <1>1
<1>3. \A p : RunsOf(p)' = RunsOf(p) \cup (IF p = x.platform THEN {Len(runs) + 1} ELSE {})
  BY <1>1, <1>2 DEF RunsOf
<1>4. \A r \in 1..Len(runs) : Before(r)' = Before(r)
  BY <1>1, <1>2 DEF RunsOf, Before
<1>5. \A r : r = Len(runs) + 1 => Before(r)' = RunsOf(x.platform)
  BY <1>1, <1>2 DEF RunsOf, Before
<1> QED
  BY <1>2, <1>3, <1>4, <1>5

-----------------------------------------------------------------------------
(* The rows of an upload. *)

\* What the status of a row of a new run says of the run before, and whose row it is.
Comes(p, full, i) ==
  LET open == IF p \in Analysed THEN Warnings(Open(Latest(p))) ELSE {} IN
  \/ /\ i.status = "new" /\ i.author = NamedBy(Len(runs) + 1)
     /\ p \in Analysed /\ i.warning \notin open
  \/ /\ i.status = "existing" /\ i.author = NamedBy(Len(runs) + 1)
     /\ p \notin Analysed
  \/ /\ \/ i.status = "existing"
        \/ i.status = "fixed" /\ full
     /\ p \in Analysed /\ i.warning \in open
     /\ i.author = RowIn(runs[Latest(p)].rows, i.warning).author

LEMMA NamedByType == ASSUME TypeOK, Len(runs) < MaxRuns
                     PROVE  NamedBy(Len(runs) + 1) \in 0..MaxRuns
BY DashboardsAssumption, RunsAre DEF NamedBy, NoAuthor

LEMMA OpenAre ==
  ASSUME NEW r, NEW w \in Warnings(Open(r))
  PROVE  \E i \in runs[r].rows : i.warning = w /\ i.status \in OpenStatus
BY DEF Warnings, Open

LEMMA LatestRow ==
  ASSUME TypeOK, NEW p \in Analysed, NEW w \in Warnings(runs[Latest(p)].rows)
  PROVE  RowIn(runs[Latest(p)].rows, w) \in Row
<1>1. RowIn(runs[Latest(p)].rows, w) \in runs[Latest(p)].rows
  BY RowInIs
<1>2. runs[Latest(p)] \in RunRow
  BY LatestIs, RunsAre
<1> QED
  BY <1>1, <1>2 DEF RunRow

LEMMA ReportedRows ==
  ASSUME TypeOK, Len(runs) < MaxRuns, NEW p \in Platform, NEW full \in BOOLEAN,
         NEW report \in SUBSET Warning, NEW i \in Reported(p, report)
  PROVE  i \in Row /\ i.warning \in report /\ i.status # "fixed" /\ Comes(p, full, i)
<1> PICK w \in report : i = [warning |-> w, key |-> KeyOf(p, w), status |-> ClassOf(p, w),
                             author |-> Author(p, w, ClassOf(p, w))]
  BY DEF Reported
<1>1. KeyOf(p, w) \in Key
  BY DashboardsAssumption DEF KeyOf, Key
<1>2. CASE p \notin Analysed
  <2>1. ClassOf(p, w) = "existing" /\ Author(p, w, ClassOf(p, w)) = NamedBy(Len(runs) + 1)
    BY <1>2 DEF ClassOf, Author
  <2> QED
    BY <1>1, <1>2, <2>1, NamedByType DEF Row, Status, Comes
<1>3. CASE p \in Analysed /\ w \notin Warnings(Open(Latest(p)))
  <2>1. ClassOf(p, w) = "new" /\ Author(p, w, ClassOf(p, w)) = NamedBy(Len(runs) + 1)
    BY <1>3 DEF ClassOf, Author, Baseline
  <2> QED
    BY <1>1, <1>3, <2>1, NamedByType DEF Row, Status, Comes
<1>4. CASE p \in Analysed /\ w \in Warnings(Open(Latest(p)))
  <2>1. ClassOf(p, w) = "existing"
        /\ Author(p, w, ClassOf(p, w)) = RowIn(runs[Latest(p)].rows, w).author
    BY <1>4 DEF ClassOf, Author, Baseline
  <2>2. w \in Warnings(runs[Latest(p)].rows)
    BY <1>4, OpenAre DEF Warnings
  <2>3. RowIn(runs[Latest(p)].rows, w).author \in 0..MaxRuns
    BY <1>4, <2>2, LatestRow DEF Row
  <2> QED
    BY <1>1, <1>4, <2>1, <2>3 DEF Row, Status, Comes
<1> QED
  BY <1>2, <1>3, <1>4

\* The row a full report leaves of one that is gone.
Marked(p, j) == [j EXCEPT !.status = "fixed", !.author = Author(p, j.warning, "fixed")]

LEMMA MarkedIs ==
  ASSUME NEW p, NEW j \in Row
  PROVE  /\ Marked(p, j).warning = j.warning
         /\ Marked(p, j).status = "fixed"
         /\ Marked(p, j).author = Author(p, j.warning, "fixed")
BY DEF Marked, Row

LEMMA GoneRows ==
  ASSUME TypeOK, UniqueInv, NEW p \in Platform, NEW report, NEW j \in Gone(p, report)
  PROVE  /\ p \in Analysed /\ j \in runs[Latest(p)].rows /\ j \in Row /\ j.warning \notin report
         /\ Marked(p, j) \in Row /\ Comes(p, TRUE, Marked(p, j))
<1>1. p \in Analysed /\ j \in Open(Latest(p)) /\ j.warning \notin report
  BY DEF Gone, Baseline
<1>2. j \in runs[Latest(p)].rows /\ runs[Latest(p)] \in RunRow
  BY <1>1, LatestIs, RunsAre DEF Open
<1>3. j \in Row
  BY <1>2 DEF RunRow
<1>4. Author(p, j.warning, "fixed") = RowIn(runs[Latest(p)].rows, j.warning).author
  BY <1>1 DEF Author
<1>5. j.warning \in Warnings(runs[Latest(p)].rows) /\ j.warning \in Warnings(Open(Latest(p)))
  BY <1>1, <1>2 DEF Warnings
<1>6. Author(p, j.warning, "fixed") \in 0..MaxRuns
  BY <1>1, <1>4, <1>5, LatestRow DEF Row
<1> DEFINE i == Marked(p, j)
<1>7. /\ i \in Row /\ i.warning = j.warning /\ i.status = "fixed"
      /\ i.author = Author(p, j.warning, "fixed")
  BY <1>3, <1>6 DEF Row, Status, Marked
<1>8. Comes(p, TRUE, i)
  BY <1>1, <1>4, <1>5, <1>7 DEF Comes
<1> QED
  BY <1>1, <1>2, <1>3, <1>7, <1>8

\* What classify_and_store makes of a report.
LEMMA NewRows ==
  ASSUME TypeOK, UniqueInv, Len(runs) < MaxRuns, NEW p \in Platform, NEW full \in BOOLEAN,
         NEW report \in SUBSET Warning
  PROVE  /\ \A i \in Classified(p, full, report) : i \in Row /\ Comes(p, full, i)
         /\ \A i, j \in Classified(p, full, report) : i.warning = j.warning => i = j
         /\ full /\ p \in Analysed =>
              \A j \in Open(Latest(p)) : \E i \in Classified(p, full, report) :
                i.warning = j.warning /\ i.status \in {"existing", "fixed"}
<1>1. \A i \in Classified(p, full, report) :
        i \in Reported(p, report) \/ (full /\ \E j \in Gone(p, report) : i = Marked(p, j))
  BY DEF Classified, Marked
<1>2. ASSUME NEW i \in Classified(p, full, report) PROVE i \in Row /\ Comes(p, full, i)
  <2>1. CASE i \in Reported(p, report)
    BY <2>1, ReportedRows
  <2>2. ASSUME full, NEW j \in Gone(p, report), i = Marked(p, j) PROVE i \in Row /\ Comes(p, full, i)
    <3>1. i \in Row /\ Comes(p, TRUE, i)
      BY <2>2, GoneRows
    <3>2. full = TRUE
      BY <2>2
    <3> QED
      BY <3>1, <3>2
  <2> QED
    BY <1>1, <2>1, <2>2
<1>3. \A i, j \in Reported(p, report) : i.warning = j.warning => i = j
  BY DEF Reported
<1>4. ASSUME full, NEW i \in Gone(p, report), NEW j \in Gone(p, report), Marked(p, i).warning = Marked(p, j).warning
      PROVE  Marked(p, i) = Marked(p, j)
  <2>1. p \in Analysed /\ i \in runs[Latest(p)].rows /\ j \in runs[Latest(p)].rows
        /\ i.warning = j.warning
    <3>1. Marked(p, i).warning = i.warning
      BY GoneRows, MarkedIs
    <3>2. Marked(p, j).warning = j.warning
      BY GoneRows, MarkedIs
    <3>3. p \in Analysed /\ i \in runs[Latest(p)].rows
      BY GoneRows
    <3>4. j \in runs[Latest(p)].rows
      BY GoneRows
    <3> QED
      BY <1>4, <3>1, <3>2, <3>3, <3>4
  <2>2. Latest(p) \in 1..Len(runs)
    BY <2>1, LatestIs, RunsAre
  <2> QED
    BY <2>1, <2>2 DEF UniqueInv
<1>5. ASSUME full, NEW i \in Gone(p, report), NEW j \in Reported(p, report)
      PROVE  Marked(p, i).warning # j.warning
  <2>1. i.warning \notin report /\ i \in Row
    BY GoneRows
  <2>2. j.warning \in report
    BY ReportedRows
  <2> QED
    BY <2>1, <2>2, MarkedIs
<1>6. \A i, j \in Classified(p, full, report) : i.warning = j.warning => i = j
  <2> QED
    BY <1>1, <1>3, <1>4, <1>5
<1>7. ASSUME full, p \in Analysed, NEW j \in Open(Latest(p))
      PROVE  \E i \in Classified(p, full, report) :
               i.warning = j.warning /\ i.status \in {"existing", "fixed"}
  <2>1. CASE j.warning \in report
    <3> DEFINE w == j.warning
               i == [warning |-> w, key |-> KeyOf(p, w), status |-> ClassOf(p, w),
                     author |-> Author(p, w, ClassOf(p, w))]
    <3>1. i \in Classified(p, full, report)
      BY <2>1 DEF Classified, Reported
    <3>2. ClassOf(p, w) = "existing"
      BY <1>7 DEF ClassOf, Baseline, Warnings
    <3> QED
      BY <3>1, <3>2
  <2>2. CASE j.warning \notin report
    <3>1. j \in Gone(p, report)
      BY <1>7, <2>2 DEF Gone, Baseline
    <3>2. Marked(p, j) \in Classified(p, full, report)
      BY <1>7, <3>1 DEF Classified, Marked
    <3>3. j \in Row
      BY <3>1, GoneRows
    <3> QED
      BY <3>2, <3>3, MarkedIs
  <2> QED
    BY <2>1, <2>2
<1> QED
  BY <1>2, <1>6, <1>7

-----------------------------------------------------------------------------
(* Who brought a warning in. *)

Attributed(r, i) ==
  \E o \in RunsOf(runs[r].platform) :
    /\ o <= r /\ CameIn(r, i.warning, o)
    /\ IF i.author = NoAuthor THEN o \in Anonymous ELSE FirstNamed(r, i.author, o)

LEMMA AuthorIs ==
  AuthorBroughtItIn <=> \A r \in 1..Len(runs) : \A i \in runs[r].rows : Attributed(r, i)
BY Zenon DEF AuthorBroughtItIn, Attributed

-----------------------------------------------------------------------------
(* The invariant holds at first. *)

LEMMA InitInv == Init => IInv
<1> SUFFICES ASSUME Init PROVE IInv
  OBVIOUS
<1>1. /\ runs = <<>> /\ Len(runs) = 0 /\ 1..Len(runs) = {}
      /\ unfinished = <<>> /\ Len(unfinished) = 0 /\ 1..Len(unfinished) = {}
  BY DEF Init
<1>2. TypeOK
  <2>1. runs \in Seq(RunRow) /\ unfinished \in Seq(LeftRow)
    BY <1>1
  <2>2. roots \subseteq Platform /\ settings \in BOOLEAN /\ edits = 0
    BY DashboardsAssumption DEF Init
  <2> QED
    BY <1>1, <2>1, <2>2, DashboardsAssumption DEF TypeOK
<1> QED
  BY <1>1, <1>2 DEF IInv, UniqueInv, FollowsInv, ComparedInv, AuthorBroughtItIn, LeftInv

-----------------------------------------------------------------------------
(* An upload. *)

LEMMA UploadStep ==
  ASSUME IInv, NEW p \in Platform, NEW full \in BOOLEAN, NEW report \in SUBSET Warning,
         Upload(p, full, report)
  PROVE  IInv'
<1> DEFINE k == Len(runs) + 1
           new == Classified(p, full, report)
           x == [platform |-> p, compared |-> full /\ p \in Analysed, rows |-> new]
<1>1. TypeOK /\ UniqueInv /\ FollowsInv /\ ComparedInv /\ AuthorBroughtItIn /\ LeftInv
  BY DEF IInv
<1>2. Len(runs) < MaxRuns /\ runs' = Append(runs, x) /\ UNCHANGED <<unfinished, roots, settings, edits>>
  BY <1>1, RunsAre, LeftAre, DashboardsAssumption DEF Upload
<1>3. /\ Len(runs) \in Nat /\ Len(runs') = k /\ runs'[k] = x
      /\ \A r \in 1..Len(runs) : runs'[r] = runs[r] /\ Before(r)' = Before(r)
      /\ \A r : r = k => Before(r)' = RunsOf(p)
      /\ \A q : RunsOf(q)' = RunsOf(q) \cup (IF q = p THEN {k} ELSE {})
  <2> HIDE DEF new
  <2> QED
    BY <1>1, <1>2, Added, RunsAre
<1>4. /\ \A i \in new : i \in Row /\ Comes(p, full, i)
      /\ \A i, j \in new : i.warning = j.warning => i = j
      /\ full /\ p \in Analysed =>
           \A j \in Open(Latest(p)) : \E i \in new :
             i.warning = j.warning /\ i.status \in {"existing", "fixed"}
  BY <1>1, <1>2, NewRows
<1> HIDE DEF new
<1>5. x.platform = p /\ x.rows = new /\ x.compared = (full /\ p \in Analysed)
  OBVIOUS
<1>6. 1..Len(runs') = 1..Len(runs) \cup {k}
  BY <1>3
<1>7. \A r \in 1..Len(runs) : Open(r)' = Open(r)
  BY <1>3 DEF Open
<1>8. p \in Analysed => Latest(p) \in RunsOf(p) /\ Latest(p) \in 1..Len(runs) /\ RunsOf(p) # {}
  BY <1>1, LatestIs, RunsAre
<1>9. \A r \in 1..Len(runs) : Before(r) # {} => Max(Before(r)) \in 1..Len(runs)
  BY <1>1, PreviousIs DEF Before, RunsOf
<1>10. p \notin Analysed => RunsOf(p) = {}
  BY DEF Analysed
<1>11. TypeOK'
  <2>1. x \in RunRow
    BY <1>4 DEF RunRow
  <2>2. runs' \in Seq(RunRow) /\ Len(runs') <= MaxRuns
    BY <1>1, <1>2, <1>3, <2>1, DashboardsAssumption DEF TypeOK
  <2> QED
    BY <1>1, <1>2, <2>2 DEF TypeOK
<1>12. UniqueInv'
  BY <1>1, <1>3, <1>4, <1>5, <1>6 DEF UniqueInv
<1>13. FollowsInv'
  <2>1. ASSUME NEW r \in 1..Len(runs), NEW i \in runs[r].rows PROVE Follows(r, i)'
    <3>1. Follows(r, i)
      BY <1>1 DEF FollowsInv
    <3>2. runs'[r] = runs[r] /\ Before(r)' = Before(r)
      BY <1>3
    <3>3. Before(r) # {} => Open(Max(Before(r)))' = Open(Max(Before(r)))
      BY <1>7, <1>9, <3>2
    <3>4. \A n \in Before(r) : runs'[n] = runs[n]
      BY <1>1, <1>3, RunsAre DEF Before
    <3>5. Before(r) # {} =>
            Warnings(Open(Max(Before(r))))' = Warnings(Open(Max(Before(r))))
      BY <3>3 DEF Warnings
    <3> QED
      BY <3>1, <3>2, <3>4, <3>5 DEF Follows, NamedBy
  <2>2. ASSUME NEW r, r = k, NEW i \in new PROVE Follows(r, i)'
    <3>1. Comes(p, full, i) /\ Before(r)' = RunsOf(p) /\ runs'[r] = x
      BY <1>3, <1>4, <2>2
    <3>2. ASSUME p \in Analysed
          PROVE  Warnings(Open(Max(Before(r))))' = Warnings(Open(Latest(p))) /\ Before(r)' # {}
      <4>1. Max(Before(r))' = Latest(p)
        BY <3>1 DEF Latest
      <4>2. Open(Max(Before(r)))' = Open(Latest(p))
        BY <1>7, <1>8, <3>2, <4>1
      <4> QED
        BY <1>8, <3>1, <3>2, <4>2 DEF Warnings
    <3>3. p \notin Analysed => Before(r)' = {}
      BY <1>10, <3>1
    <3> QED
      BY <1>5, <2>2, <3>1, <3>2, <3>3 DEF Follows, Comes, NamedBy
  <2> QED
    BY <1>3, <1>5, <1>6, <2>1, <2>2 DEF FollowsInv
<1>14. ComparedInv'
  <2>1. ASSUME NEW r \in 1..Len(runs), runs[r].compared
        PROVE  /\ Before(r)' # {}
               /\ \A j \in Open(Max(Before(r)))' : \E i \in runs'[r].rows :
                    i.warning = j.warning /\ i.status \in {"existing", "fixed"}
    <3>1. Before(r) # {} /\ Before(r)' = Before(r) /\ runs'[r] = runs[r]
      BY <1>1, <1>3, <2>1 DEF ComparedInv
    <3>2. Open(Max(Before(r)))' = Open(Max(Before(r)))
      BY <1>7, <1>9, <3>1
    <3> QED
      BY <1>1, <2>1, <3>1, <3>2 DEF ComparedInv
  <2>2. ASSUME NEW r, r = k, x.compared
        PROVE  /\ Before(r)' # {}
               /\ \A j \in Open(Max(Before(r)))' : \E i \in new :
                    i.warning = j.warning /\ i.status \in {"existing", "fixed"}
    <3>1. full /\ p \in Analysed
      BY <1>5, <2>2
    <3>2. Before(r)' = RunsOf(p) /\ Max(Before(r))' = Latest(p)
      BY <1>3, <2>2 DEF Latest
    <3>3. Open(Max(Before(r)))' = Open(Latest(p))
      BY <1>7, <1>8, <3>1, <3>2
    <3> QED
      BY <1>4, <1>8, <3>1, <3>2, <3>3
  <2> QED
    BY <1>3, <1>5, <1>6, <2>1, <2>2 DEF ComparedInv
<1>15. \A r \in 1..k : \A q : q = runs'[r].platform =>
         RunsOf(runs[r].platform)' = RunsOf(q) \cup (IF q = p THEN {k} ELSE {})
  BY <1>3 DEF RunsOf
<1>16. \A r \in 1..Len(runs) : \A w, o : o \in 1..Len(runs) /\ CameIn(r, w, o) => CameIn(r, w, o)'
  <2> SUFFICES ASSUME NEW r \in 1..Len(runs), NEW w, NEW o \in 1..Len(runs), CameIn(r, w, o)
               PROVE  CameIn(r, w, o)'
    OBVIOUS
  <2>1. \A n \in RunsOf(runs[r].platform)' : o <= n /\ n <= r => w \in Warnings(runs'[n].rows)
    <3>1. \A n \in RunsOf(runs[r].platform)' :
            n <= r => n \in RunsOf(runs[r].platform) /\ n \in 1..Len(runs)
      BY <1>1, <1>3, <1>15, RunsAre
    <3> QED
      BY <1>3, <3>1 DEF CameIn
  <2>2. Before(o)' # {} => w \notin Warnings(Open(Max(Before(o))))'
    <3> SUFFICES ASSUME Before(o)' # {} PROVE w \notin Warnings(Open(Max(Before(o))))'
      OBVIOUS
    <3>1. Before(o) # {} /\ Max(Before(o))' = Max(Before(o)) /\ Max(Before(o)) \in 1..Len(runs)
      BY <1>3, <1>9
    <3>2. Open(Max(Before(o)))' = Open(Max(Before(o)))
      BY <1>7, <3>1
    <3> QED
      BY <3>1, <3>2 DEF CameIn, Warnings
  <2> QED
    BY <2>1, <2>2 DEF CameIn, Warnings
<1>17. AuthorBroughtItIn'
  <2>1. ASSUME NEW r \in 1..Len(runs), NEW i \in runs[r].rows PROVE Attributed(r, i)'
    <3>1. PICK o \in RunsOf(runs[r].platform) :
            /\ o <= r /\ CameIn(r, i.warning, o)
            /\ IF i.author = NoAuthor THEN o \in Anonymous ELSE FirstNamed(r, i.author, o)
      BY <1>1, AuthorIs DEF Attributed
    <3>2. CameIn(r, i.warning, o)' /\ o \in RunsOf(runs[r].platform)' /\ o \in 1..Len(runs)
      BY <1>1, <1>3, <1>16, <1>15, <3>1, RunsAre
    <3>3. FirstNamed(r, i.author, o) => FirstNamed(r, i.author, o)'
      <4>1. \A n \in RunsOf(runs[r].platform)' : n <= r => n \in RunsOf(runs[r].platform)
        BY <1>1, <1>3, <1>15, RunsAre
      <4>2. \A a \in o..r : \A n \in 1..k : n < a => n <= r
        BY <3>2
      <4>3. RunsOf(runs[r].platform)' \subseteq 1..k
        BY <1>1, <1>3, <1>15, RunsAre
      <4> QED
        BY <1>3, <4>1, <4>2, <4>3 DEF FirstNamed
    <3> QED
      BY <3>1, <3>2, <3>3 DEF Attributed
  <2>2. ASSUME NEW r, r = k, NEW i \in new PROVE Attributed(r, i)'
    <3>1. Comes(p, full, i) /\ Before(r)' = RunsOf(p) /\ runs'[r] = x
          /\ RunsOf(runs[r].platform)' = RunsOf(p) \cup {r} /\ r \in 1..k
      BY <1>3, <1>4, <1>5, <1>15, <2>2
    <3>2. \A n \in RunsOf(p) : n < r /\ n \in 1..Len(runs)
      BY <1>1, <1>3, <2>2, RunsAre
    <3>3. i.warning \in Warnings(runs'[r].rows)
      BY <1>5, <3>1 DEF Warnings
    <3>4. CASE i.author = NamedBy(r) /\ (p \in Analysed => i.warning \notin Warnings(Open(Latest(p))))
      <4>1. CameIn(r, i.warning, r)'
        <5>1. \A n \in RunsOf(p) \cup {r} : r <= n => n = r
          BY <3>2, <2>2, <1>3
        <5>2. Before(r)' # {} => i.warning \notin Warnings(Open(Max(Before(r))))'
          <6> SUFFICES ASSUME Before(r)' # {} PROVE i.warning \notin Warnings(Open(Max(Before(r))))'
            OBVIOUS
          <6>1. p \in Analysed /\ Max(Before(r))' = Latest(p)
            BY <1>10, <3>1 DEF Latest
          <6>2. Open(Max(Before(r)))' = Open(Latest(p))
            BY <1>7, <1>8, <6>1
          <6> QED
            BY <3>4, <6>1, <6>2 DEF Warnings
        <5> QED
          BY <3>1, <3>3, <5>1, <5>2 DEF CameIn, Warnings
      <4>2. IF i.author = NoAuthor THEN r \in Anonymous ELSE FirstNamed(r, i.author, r)'
        <5>1. r \notin Anonymous => NamedBy(r) = r /\ r # NoAuthor
          BY <1>3, <2>2 DEF NamedBy, NoAuthor
        <5>2. r \in Anonymous => NamedBy(r) = NoAuthor
          BY DEF NamedBy
        <5>3. r \in r..r
          BY <1>3, <2>2
        <5>4. r \notin Anonymous => FirstNamed(r, r, r)'
          BY <1>3, <2>2, <3>1, <3>2, <5>3 DEF FirstNamed
        <5> QED
          BY <3>4, <5>1, <5>2, <5>4
      <4>3. r <= r /\ r \in RunsOf(runs[r].platform)'
        BY <1>3, <2>2, <3>1
      <4> QED
        BY <4>1, <4>2, <4>3 DEF Attributed
    <3>5. CASE /\ p \in Analysed /\ i.warning \in Warnings(Open(Latest(p)))
               /\ i.author = RowIn(runs[Latest(p)].rows, i.warning).author
      <4> PICK l : l = Latest(p)
        OBVIOUS
      <4> DEFINE j == RowIn(runs[l].rows, i.warning)
      <4>1. i.warning \in Warnings(runs[l].rows)
        BY <3>5, OpenAre DEF Warnings
      <4>2. j \in runs[l].rows /\ j.warning = i.warning
        BY <4>1, RowInIs
      <4>3. l \in 1..Len(runs) /\ runs[l].platform = p /\ \A n \in RunsOf(p) : n <= l
        BY <1>1, <1>8, <3>5, LatestIs DEF RunsOf
      <4>4. PICK o \in RunsOf(p) :
              /\ o <= l /\ CameIn(l, i.warning, o)
              /\ IF i.author = NoAuthor THEN o \in Anonymous ELSE FirstNamed(l, i.author, o)
        <5>1. i.author = j.author
          BY <3>5
        <5> HIDE DEF j
        <5> QED
          BY <1>1, <4>2, <4>3, <5>1, AuthorIs DEF Attributed
      <4>5. o \in 1..Len(runs) /\ o <= r
        BY <1>1, <1>3, <2>2, <4>4, RunsAre
      <4>6. CameIn(l, i.warning, o)'
        BY <1>16, <4>3, <4>4, <4>5
      <4>7. CameIn(r, i.warning, o)'
        <5>1. runs'[l].platform = p
          BY <1>3, <4>3
        <5>2. \A n \in RunsOf(p) \cup {r} : n = r \/ n <= l
          BY <4>3
        <5>3. RunsOf(runs[l].platform)' = RunsOf(p) \cup {r}
          BY <1>3, <1>15, <2>2, <4>3, <5>1
        <5> QED
          BY <3>1, <3>3, <4>6, <5>2, <5>3 DEF CameIn, Warnings
      <4>8. FirstNamed(l, i.author, o) => FirstNamed(r, i.author, o)'
        <5>1. o..l \subseteq o..r /\ \A a \in o..l : ~(r < a)
          BY <1>3, <2>2, <4>3, <4>5
        <5> QED
          BY <3>1, <4>3, <5>1 DEF FirstNamed
      <4> QED
        BY <3>1, <4>4, <4>5, <4>7, <4>8 DEF Attributed
    <3> QED
      BY <2>2, <3>1, <3>4, <3>5 DEF Comes
  <2> QED
    BY <1>3, <1>5, <1>6, <2>1, <2>2 DEF AuthorBroughtItIn, Attributed
<1>18. LeftInv'
  <2> SUFFICES ASSUME NEW n \in 1..Len(unfinished)
               PROVE  /\ unfinished[n].after <= Len(runs')
                      /\ \A i, j \in unfinished[n].rows : i.warning = j.warning => i = j
                      /\ \A i \in unfinished[n].rows : LeftFollows(n, i)'
                      /\ \A r \in 1..Len(runs') : runs'[r].platform = unfinished[n].platform /\ unfinished[n].after < r => LeftIgnored(n, r)'
    BY <1>2 DEF LeftInv
  <2>1. /\ unfinished[n].after <= Len(runs) /\ unfinished[n].after \in Nat
        /\ \A i, j \in unfinished[n].rows : i.warning = j.warning => i = j
        /\ \A i \in unfinished[n].rows : LeftFollows(n, i)
        /\ \A r \in 1..Len(runs) : runs[r].platform = unfinished[n].platform /\ unfinished[n].after < r => LeftIgnored(n, r)
    BY <1>1, LeftAre DEF LeftInv
  <2>2. Base(n)' = Base(n)
    <3> PICK q, a : q = unfinished[n].platform /\ a = unfinished[n].after
      OBVIOUS
    <3>1. RunsOf(q)' = RunsOf(q) \cup (IF q = p THEN {k} ELSE {})
      BY <1>3
    <3>2. ~(k <= a)
      BY <1>3, <2>1
    <3>3. Base(n)' = {r \in RunsOf(q)' : r <= a} /\ Base(n) = {r \in RunsOf(q) : r <= a}
      BY <1>2 DEF Base
    <3> QED
      BY <3>1, <3>2, <3>3
  <2>3. \A i \in unfinished[n].rows : LeftFollows(n, i)'
    <3> SUFFICES ASSUME NEW i \in unfinished[n].rows PROVE LeftFollows(n, i)'
      OBVIOUS
    <3>1. Base(n) # {} => Open(Max(Base(n)))' = Open(Max(Base(n)))
      <4> SUFFICES ASSUME Base(n) # {} PROVE Open(Max(Base(n)))' = Open(Max(Base(n)))
        OBVIOUS
      <4> PICK m : m = Max(Base(n))
        OBVIOUS
      <4>1. m \in 1..Len(runs)
        BY <1>1, BaseIs
      <4>2. m = Max(Base(n))'
        BY <2>2
      <4> QED
        BY <1>7, <4>1, <4>2
    <3>2. \A r \in Base(n) : runs'[r] = runs[r]
      BY <1>1, <1>3, LeftAre
    <3>3. LeftFollows(n, i)
      BY <2>1
    <3>4. unfinished' = unfinished
      BY <1>2
    <3> QED
      BY <2>2, <3>1, <3>2, <3>3, <3>4 DEF LeftFollows, Sooner, Warnings
  <2>4. ASSUME NEW r \in 1..Len(runs'), runs'[r].platform = unfinished[n].platform, unfinished[n].after < r
        PROVE  LeftIgnored(n, r)'
    <3>1. CASE r = k
      <4>1. \A i \in runs'[r].rows : i.status # "ignored"
        BY <1>3, <1>4, <1>5, <3>1 DEF Comes
      <4> QED
        BY <4>1 DEF LeftIgnored
    <3>2. CASE r \in 1..Len(runs)
      <4>1. runs'[r] = runs[r]
        BY <1>3, <3>2
      <4> QED
        BY <1>2, <2>1, <2>4, <3>2, <4>1 DEF LeftIgnored
    <3> QED
      BY <1>6, <3>1, <3>2
  <2> QED
    BY <1>3, <2>1, <2>3, <2>4
<1> QED
  BY <1>11, <1>12, <1>13, <1>14, <1>17, <1>18 DEF IInv

-----------------------------------------------------------------------------
(* An ignored warning. *)

LEMMA IgnoreStep ==
  ASSUME IInv, NEW p \in Platform, NEW w \in Warning, Ignore(p, w)
  PROVE  IInv'
<1> DEFINE Off(i) == IF i.warning = w THEN [i EXCEPT !.status = "ignored"] ELSE i
<1>1. TypeOK /\ UniqueInv /\ FollowsInv /\ ComparedInv /\ AuthorBroughtItIn /\ LeftInv
  BY DEF IInv
<1>2. /\ runs' = [r \in 1..Len(runs) |->
            IF runs[r].platform = p
            THEN [runs[r] EXCEPT !.rows = {Off(i) : i \in @}]
            ELSE runs[r]]
      /\ unfinished' = [n \in 1..Len(unfinished) |->
            IF unfinished[n].platform = p
            THEN [unfinished[n] EXCEPT !.rows = {Off(i) : i \in @}]
            ELSE unfinished[n]]
      /\ edits < MaxEdits /\ edits' = edits + 1 /\ UNCHANGED <<roots, settings>>
  BY DEF Ignore, Edit, WithIgnored
<1>3a. \A i \in LeftRows : /\ Off(i) \in LeftRows /\ Off(i).warning = i.warning
                           /\ i.warning = w => Off(i).status = "ignored"
                           /\ i.warning # w => Off(i) = i
  BY DEF LeftRows, Status
<1>3. \A i \in Row : /\ Off(i) \in Row /\ Off(i).warning = i.warning /\ Off(i).author = i.author
                     /\ i.warning = w => Off(i).status = "ignored"
                     /\ i.warning # w => Off(i) = i
  BY DEF Row, Status
<1> HIDE DEF Off
<1>4. \A r \in 1..Len(runs) : runs[r].rows \subseteq Row /\ runs[r] \in RunRow
  BY <1>1, RunsAre DEF RunRow
<1>5. \A r \in 1..Len(runs) :
        /\ runs'[r] \in RunRow
        /\ runs'[r].platform = runs[r].platform /\ runs'[r].compared = runs[r].compared
        /\ runs[r].platform = p => runs'[r].rows = {Off(i) : i \in runs[r].rows}
        /\ runs[r].platform # p => runs'[r] = runs[r]
  <2> SUFFICES ASSUME NEW r \in 1..Len(runs)
               PROVE  /\ runs'[r] \in RunRow
                      /\ runs'[r].platform = runs[r].platform /\ runs'[r].compared = runs[r].compared
                      /\ runs[r].platform = p => runs'[r].rows = {Off(i) : i \in runs[r].rows}
                      /\ runs[r].platform # p => runs'[r] = runs[r]
    OBVIOUS
  <2>1. CASE runs[r].platform = p
    <3>1. {Off(i) : i \in runs[r].rows} \subseteq Row
      BY <1>3, <1>4
    <3>2. runs'[r] = [runs[r] EXCEPT !.rows = {Off(i) : i \in runs[r].rows}]
      BY <1>2, <2>1
    <3> QED
      BY <1>4, <2>1, <3>1, <3>2 DEF RunRow
  <2>2. CASE runs[r].platform # p
    BY <1>2, <1>4, <2>2
  <2> QED
    BY <2>1, <2>2
<1>6. Len(runs) \in Nat /\ Len(runs') = Len(runs)
  BY <1>1, <1>2, RunsAre
<1>7. /\ \A q : RunsOf(q)' = RunsOf(q)
      /\ \A r \in 1..Len(runs) : Before(r)' = Before(r)
  BY <1>1, <1>5, <1>6, Unmoved
\* Every row stands for one that was there before, and the other way round.
<1>8. \A r \in 1..Len(runs) :
        /\ \A i \in runs'[r].rows : \E j \in runs[r].rows :
             j.warning = i.warning /\ (i = j \/ i = Off(j)) /\ (runs[r].platform = p => i = Off(j))
        /\ \A j \in runs[r].rows : \E i \in runs'[r].rows :
             j.warning = i.warning /\ (i = j \/ i = Off(j)) /\ (runs[r].platform = p => i = Off(j))
  BY <1>3, <1>4, <1>5
<1>9. \A r \in 1..Len(runs) :
        /\ Warnings(runs'[r].rows) = Warnings(runs[r].rows)
        /\ Open(r)' \subseteq Open(r)
        /\ \A j \in Open(r) : j \in Open(r)' \/ (runs[r].platform = p /\ j.warning = w)
        /\ runs[r].platform = p => \A j \in Open(r)' : j.warning # w
  <2> SUFFICES ASSUME NEW r \in 1..Len(runs)
               PROVE  /\ Warnings(runs'[r].rows) = Warnings(runs[r].rows)
                      /\ Open(r)' \subseteq Open(r)
                      /\ \A j \in Open(r) : j \in Open(r)' \/ (runs[r].platform = p /\ j.warning = w)
                      /\ runs[r].platform = p => \A j \in Open(r)' : j.warning # w
    OBVIOUS
  <2>1. Warnings(runs'[r].rows) = Warnings(runs[r].rows)
    BY <1>8 DEF Warnings
  <2>2. CASE runs[r].platform # p
    BY <1>5, <2>1, <2>2 DEF Open
  <2>3. CASE runs[r].platform = p
    <3>1. \A i \in runs'[r].rows : i.status \in OpenStatus => i \in runs[r].rows /\ i.warning # w
      BY <1>3, <1>4, <1>8, <2>3 DEF OpenStatus
    <3>2. \A j \in runs[r].rows : j.warning # w => j \in runs'[r].rows
      BY <1>3, <1>4, <1>8, <2>3
    <3> QED
      BY <2>1, <2>3, <3>1, <3>2 DEF Open
  <2> QED
    BY <2>2, <2>3
<1>10. \A r \in 1..Len(runs) : Before(r) # {} =>
         /\ Max(Before(r)) \in 1..Len(runs) /\ runs[Max(Before(r))].platform = runs[r].platform
         /\ Max(Before(r))' = Max(Before(r))
  BY <1>1, <1>7, PreviousIs DEF Before, RunsOf
\* What becomes of the unfinished runs.
<1>10a. \A n \in 1..Len(unfinished) :
          /\ unfinished'[n] \in LeftRow
          /\ unfinished'[n].platform = unfinished[n].platform
          /\ unfinished'[n].compared = unfinished[n].compared /\ unfinished'[n].after = unfinished[n].after
          /\ unfinished[n].platform = p => unfinished'[n].rows = {Off(i) : i \in unfinished[n].rows}
          /\ unfinished[n].platform # p => unfinished'[n] = unfinished[n]
  <2> SUFFICES ASSUME NEW n \in 1..Len(unfinished)
               PROVE  /\ unfinished'[n] \in LeftRow
                      /\ unfinished'[n].platform = unfinished[n].platform
                      /\ unfinished'[n].compared = unfinished[n].compared /\ unfinished'[n].after = unfinished[n].after
                      /\ unfinished[n].platform = p => unfinished'[n].rows = {Off(i) : i \in unfinished[n].rows}
                      /\ unfinished[n].platform # p => unfinished'[n] = unfinished[n]
    OBVIOUS
  <2>1. unfinished[n] \in LeftRow /\ unfinished[n].rows \subseteq LeftRows
    BY <1>1, LeftAre
  <2>2. CASE unfinished[n].platform = p
    <3>1. {Off(i) : i \in unfinished[n].rows} \subseteq LeftRows
      BY <1>3a, <2>1
    <3>2. unfinished'[n] = [unfinished[n] EXCEPT !.rows = {Off(i) : i \in unfinished[n].rows}]
      BY <1>2, <2>2
    <3> QED
      BY <2>1, <2>2, <3>1, <3>2 DEF LeftRow, LeftRows
  <2>3. CASE unfinished[n].platform # p
    BY <1>2, <2>1, <2>3
  <2> QED
    BY <2>2, <2>3
<1>10b. Len(unfinished) \in Nat /\ Len(unfinished') = Len(unfinished)
  BY <1>1, <1>2, LeftAre
<1>10c. \A n \in 1..Len(unfinished) : \A i \in unfinished'[n].rows : \E j \in unfinished[n].rows :
          /\ j.warning = i.warning /\ (i = j \/ i = Off(j))
          /\ unfinished[n].platform = p => i = Off(j)
          /\ unfinished[n].platform # p => i = j
  <2> SUFFICES ASSUME NEW n \in 1..Len(unfinished), NEW i \in unfinished'[n].rows
               PROVE  \E j \in unfinished[n].rows :
                        /\ j.warning = i.warning /\ (i = j \/ i = Off(j))
                        /\ unfinished[n].platform = p => i = Off(j)
                        /\ unfinished[n].platform # p => i = j
    OBVIOUS
  <2>1. CASE unfinished[n].platform = p
    <3>1. PICK j \in unfinished[n].rows : i = Off(j)
      BY <1>10a, <2>1
    <3>2. j \in LeftRows
      BY <1>1, LeftAre
    <3> QED
      BY <1>3a, <2>1, <3>1, <3>2
  <2>2. CASE unfinished[n].platform # p
    BY <1>10a, <2>2
  <2> QED
    BY <2>1, <2>2
<1>11. TypeOK'
  <2>1. runs' \in Seq(RunRow)
    <3>1. runs' \in [1..Len(runs) -> RunRow]
      BY <1>2, <1>5
    <3> QED
      BY <1>6, <3>1
  <2>2. unfinished' \in Seq(LeftRow)
    <3>1. unfinished' \in [1..Len(unfinished) -> LeftRow]
      BY <1>2, <1>10a
    <3> QED
      BY <1>10b, <3>1
  <2>3. Len(runs') <= MaxRuns /\ edits' \in 0..MaxEdits
    BY <1>1, <1>2, <1>6, DashboardsAssumption DEF TypeOK
  <2>4. roots' \subseteq Platform /\ settings' \in BOOLEAN
    BY <1>1, <1>2 DEF TypeOK
  <2> QED
    BY <2>1, <2>2, <2>3, <2>4 DEF TypeOK
<1>12. UniqueInv'
  <2> SUFFICES ASSUME NEW r \in 1..Len(runs), NEW i \in runs'[r].rows, NEW j \in runs'[r].rows,
                      i.warning = j.warning
               PROVE  i = j
    BY <1>6 DEF UniqueInv
  <2>1. PICK a \in runs[r].rows : a.warning = i.warning /\ (runs[r].platform = p => i = Off(a))
    BY <1>8
  <2>2. PICK b \in runs[r].rows : b.warning = j.warning /\ (runs[r].platform = p => j = Off(b))
    BY <1>8
  <2>3. a = b
    BY <1>1, <2>1, <2>2 DEF UniqueInv
  <2>4. CASE runs[r].platform # p
    BY <1>1, <1>5, <2>4 DEF UniqueInv
  <2> QED
    BY <2>1, <2>2, <2>3, <2>4
<1>13. \A m \in 1..Len(runs) : \A v :
         /\ v \notin Warnings(Open(m)) => v \notin Warnings(Open(m))'
         /\ v \in Warnings(Open(m)) /\ (runs[m].platform # p \/ v # w) => v \in Warnings(Open(m))'
  BY <1>9 DEF Warnings
<1>14. FollowsInv'
  <2> SUFFICES ASSUME NEW r \in 1..Len(runs), NEW i \in runs'[r].rows PROVE Follows(r, i)'
    BY <1>6 DEF FollowsInv
  <2>1. PICK j \in runs[r].rows :
          /\ j.warning = i.warning /\ (i = j \/ i = Off(j))
          /\ runs[r].platform = p => i = Off(j)
    BY <1>8
  <2>2. Follows(r, j) /\ j \in Row
    BY <1>1, <1>4 DEF FollowsInv
  <2>3. Before(r)' = Before(r) /\ runs'[r].compared = runs[r].compared
    BY <1>5, <1>7
  <2>4. \A n \in Before(r) : n \in 1..Len(runs) /\ runs[n].platform = runs[r].platform
    BY DEF Before, RunsOf
  <2>5. CASE runs[r].platform = p /\ j.warning = w
    <3>1. i.status = "ignored"
      BY <1>3, <2>1, <2>2, <2>5
    <3>2. \A n \in Before(r) : \A b \in runs'[n].rows : b.warning = i.warning => b.status = "ignored"
      <4> SUFFICES ASSUME NEW n \in Before(r), NEW b \in runs'[n].rows, b.warning = i.warning
                   PROVE  b.status = "ignored"
        OBVIOUS
      <4>1. PICK a \in runs[n].rows : a.warning = b.warning /\ b = Off(a)
        BY <1>8, <2>4, <2>5
      <4>2. a \in Row
        BY <1>4, <2>4
      <4> QED
        BY <1>3, <2>1, <2>5, <4>1, <4>2
    <3> QED
      BY <2>3, <3>1, <3>2 DEF Follows
  <2>6. CASE runs[r].platform # p \/ j.warning # w
    <3>1. i = j
      <4>1. CASE runs[r].platform # p
        BY <1>1, <1>5, <2>1, <4>1 DEF UniqueInv
      <4>2. CASE j.warning # w
        BY <1>3, <2>1, <2>2, <4>2
      <4> QED
        BY <2>6, <4>1, <4>2
    <3>2. \A n \in Before(r) : \A b \in runs'[n].rows : b.warning = i.warning => b \in runs[n].rows
      <4> SUFFICES ASSUME NEW n \in Before(r), NEW b \in runs'[n].rows, b.warning = i.warning
                   PROVE  b \in runs[n].rows
        OBVIOUS
      <4>1. CASE runs[r].platform # p
        BY <1>5, <2>4, <4>1
      <4>2. CASE i.warning # w
        <5>1. PICK a \in runs[n].rows : a.warning = b.warning /\ (b = a \/ b = Off(a))
          BY <1>8, <2>4
        <5> QED
          BY <1>3, <1>4, <2>4, <4>2, <5>1
      <4> QED
        BY <2>6, <3>1, <4>1, <4>2
    <3>3. /\ i.status = "new" => /\ i.author = NamedBy(r)
                                 /\ Before(r) # {} /\ i.warning \notin Warnings(Open(Max(Before(r))))'
          /\ i.status = "existing" => Before(r) = {} \/ i.warning \in Warnings(Open(Max(Before(r))))'
          /\ i.status = "fixed" => runs[r].compared /\ Before(r) # {}
                                  /\ i.warning \in Warnings(Open(Max(Before(r))))'
      <4>1. ASSUME Before(r) # {}
            PROVE  /\ i.warning \notin Warnings(Open(Max(Before(r)))) =>
                        i.warning \notin Warnings(Open(Max(Before(r))))'
                   /\ i.warning \in Warnings(Open(Max(Before(r)))) =>
                        i.warning \in Warnings(Open(Max(Before(r))))'
        <5> PICK m \in 1..Len(runs) : m = Max(Before(r)) /\ m = Max(Before(r))'
                                     /\ runs[m].platform = runs[r].platform
          BY <1>10, <4>1
        <5> QED
          BY <1>13, <2>6, <3>1
      <4> QED
        BY <2>2, <3>1, <4>1 DEF Follows
    <3> QED
      BY <2>2, <2>3, <3>1, <3>2, <3>3 DEF Follows, NamedBy
  <2> QED
    BY <2>5, <2>6
<1>15. ComparedInv'
  <2> SUFFICES ASSUME NEW r \in 1..Len(runs), runs[r].compared
               PROVE  /\ Before(r)' # {}
                      /\ \A j \in Open(Max(Before(r)))' : \E i \in runs'[r].rows :
                           i.warning = j.warning /\ i.status \in {"existing", "fixed"}
    BY <1>5, <1>6 DEF ComparedInv
  <2>1. Before(r) # {} /\ Before(r)' = Before(r)
    BY <1>1, <1>7 DEF ComparedInv
  <2>2. PICK m \in 1..Len(runs) : m = Max(Before(r)) /\ m = Max(Before(r))'
                                 /\ runs[m].platform = runs[r].platform
    BY <1>10, <2>1
  <2>3. ASSUME NEW j \in Open(m)'
        PROVE  \E i \in runs'[r].rows : i.warning = j.warning /\ i.status \in {"existing", "fixed"}
    <3>1. j \in Open(m) /\ (runs[r].platform = p => j.warning # w)
      BY <1>9, <2>2, <2>3
    <3>2. PICK a \in runs[r].rows : a.warning = j.warning /\ a.status \in {"existing", "fixed"}
      BY <1>1, <2>2, <3>1 DEF ComparedInv
    <3>3. CASE runs[r].platform # p
      BY <1>5, <3>2, <3>3
    <3>4. CASE runs[r].platform = p
      <4>1. Off(a) = a
        BY <1>3, <1>4, <3>1, <3>2, <3>4
      <4> QED
        BY <1>5, <3>2, <3>4, <4>1
    <3> QED
      BY <3>3, <3>4
  <2> QED
    BY <2>1, <2>2, <2>3
<1>16. AuthorBroughtItIn'
  <2> SUFFICES ASSUME NEW r \in 1..Len(runs), NEW i \in runs'[r].rows PROVE Attributed(r, i)'
    BY <1>6 DEF AuthorBroughtItIn, Attributed
  <2>1. PICK j \in runs[r].rows : j.warning = i.warning /\ (i = j \/ i = Off(j))
    BY <1>8
  <2>2. i.author = j.author
    BY <1>3, <1>4, <2>1
  <2>3. PICK o \in RunsOf(runs[r].platform) :
          /\ o <= r /\ CameIn(r, j.warning, o)
          /\ IF j.author = NoAuthor THEN o \in Anonymous ELSE FirstNamed(r, j.author, o)
    BY <1>1, AuthorIs DEF Attributed
  <2>4. RunsOf(runs[r].platform)' = RunsOf(runs[r].platform)
    BY <1>5, <1>6 DEF RunsOf
  <2>5. o \in 1..Len(runs)
    BY <1>1, <2>3, RunsAre
  <2>6. CameIn(r, i.warning, o)'
    <3>1. \A n \in RunsOf(runs[r].platform) : o <= n /\ n <= r => i.warning \in Warnings(runs'[n].rows)
      <4>1. \A n \in RunsOf(runs[r].platform) : Warnings(runs'[n].rows) = Warnings(runs[n].rows)
        BY <1>1, <1>9, RunsAre
      <4> QED
        BY <2>1, <2>3, <4>1 DEF CameIn
    <3>2. Before(o) # {} => i.warning \notin Warnings(Open(Max(Before(o))))'
      <4> SUFFICES ASSUME Before(o) # {} PROVE i.warning \notin Warnings(Open(Max(Before(o))))'
        OBVIOUS
      <4>1. PICK m \in 1..Len(runs) : m = Max(Before(o)) /\ m = Max(Before(o))'
        BY <1>10, <2>5
      <4>2. i.warning \notin Warnings(Open(m))
        BY <2>1, <2>3, <4>1 DEF CameIn
      <4> QED
        BY <1>13, <4>1, <4>2
    <3> QED
      BY <1>7, <2>4, <2>5, <3>1, <3>2 DEF CameIn, Warnings
  <2>7. FirstNamed(r, j.author, o) => FirstNamed(r, j.author, o)'
    BY <2>4 DEF FirstNamed
  <2>8. o \in RunsOf(runs[r].platform)'
    BY <2>3, <2>4
  <2> QED
    BY <2>2, <2>3, <2>6, <2>7, <2>8 DEF Attributed
<1>17. LeftInv'
  <2> SUFFICES ASSUME NEW n \in 1..Len(unfinished)
               PROVE  /\ unfinished'[n].after <= Len(runs')
                      /\ \A i, j \in unfinished'[n].rows : i.warning = j.warning => i = j
                      /\ \A i \in unfinished'[n].rows : LeftFollows(n, i)'
                      /\ \A r \in 1..Len(runs') : runs'[r].platform = unfinished'[n].platform /\ unfinished'[n].after < r => LeftIgnored(n, r)'
    BY <1>10b DEF LeftInv
  <2>0. unfinished[n].rows \subseteq LeftRows /\ unfinished[n].after \in Nat
    BY <1>1, LeftAre
  <2>1. /\ unfinished[n].after <= Len(runs)
        /\ \A i, j \in unfinished[n].rows : i.warning = j.warning => i = j
        /\ \A i \in unfinished[n].rows : LeftFollows(n, i)
        /\ \A r \in 1..Len(runs) : runs[r].platform = unfinished[n].platform /\ unfinished[n].after < r => LeftIgnored(n, r)
    BY <1>1 DEF LeftInv
  <2>2. ASSUME NEW i \in unfinished'[n].rows, NEW j \in unfinished'[n].rows, i.warning = j.warning
        PROVE  i = j
    <3>1. PICK a \in unfinished[n].rows :
            /\ a.warning = i.warning /\ (unfinished[n].platform = p => i = Off(a))
            /\ unfinished[n].platform # p => i = a
      BY <1>10c
    <3>2. PICK b \in unfinished[n].rows :
            /\ b.warning = j.warning /\ (unfinished[n].platform = p => j = Off(b))
            /\ unfinished[n].platform # p => j = b
      BY <1>10c
    <3>3. a = b
      BY <2>1, <2>2, <3>1, <3>2
    <3> QED
      BY <3>1, <3>2, <3>3
  <2>3. Base(n)' = Base(n) /\ Base(n) \subseteq 1..Len(runs)
    BY <1>1, <1>7, <1>10a, LeftAre DEF Base
  <2>4. ASSUME NEW i \in unfinished'[n].rows PROVE LeftFollows(n, i)'
    <3>1. PICK j \in unfinished[n].rows :
            /\ j.warning = i.warning /\ (unfinished[n].platform = p => i = Off(j))
            /\ unfinished[n].platform # p => i = j
      BY <1>10c
    <3>2. LeftFollows(n, j) /\ j \in LeftRows
      BY <2>0, <2>1
    <3>3. \A r \in Base(n) : r \in 1..Len(runs) /\ runs[r].platform = unfinished[n].platform
      BY <2>3 DEF Base, RunsOf
    <3>4. CASE unfinished[n].platform = p /\ j.warning = w
      <4>1. i.status = "ignored"
        BY <1>3a, <3>1, <3>2, <3>4
      <4>2. \A r \in Base(n) : \A b \in runs'[r].rows : b.warning = i.warning => b.status = "ignored"
        <5> SUFFICES ASSUME NEW r \in Base(n), NEW b \in runs'[r].rows, b.warning = i.warning
                     PROVE  b.status = "ignored"
          OBVIOUS
        <5>1. PICK a \in runs[r].rows : a.warning = b.warning /\ b = Off(a)
          BY <1>8, <3>3, <3>4
        <5>2. a \in Row
          BY <1>4, <3>3
        <5> QED
          BY <1>3, <3>1, <3>4, <5>1, <5>2
      <4>3. \A m \in 1..Len(unfinished) : unfinished[m].platform = p =>
              \A b \in unfinished'[m].rows : b.warning = i.warning => b.status = "ignored"
        <5> SUFFICES ASSUME NEW m \in 1..Len(unfinished), unfinished[m].platform = p,
                            NEW b \in unfinished'[m].rows, b.warning = i.warning
                     PROVE  b.status = "ignored"
          OBVIOUS
        <5>1. PICK a \in unfinished[m].rows : a.warning = b.warning /\ b = Off(a)
          BY <1>10c
        <5>2. a \in LeftRows
          BY <1>1, LeftAre
        <5> QED
          BY <1>3a, <3>1, <3>4, <5>1, <5>2
      <4> QED
        BY <1>10a, <1>10b, <2>3, <3>4, <4>1, <4>2, <4>3 DEF LeftFollows
    <3>5. CASE unfinished[n].platform # p \/ j.warning # w
      <4>1. i = j
        BY <1>3a, <3>1, <3>2, <3>5
      <4>2. \A r \in Base(n) : \A b \in runs'[r].rows : b.warning = i.warning => b \in runs[r].rows
        <5> SUFFICES ASSUME NEW r \in Base(n), NEW b \in runs'[r].rows, b.warning = i.warning
                     PROVE  b \in runs[r].rows
          OBVIOUS
        <5>1. CASE unfinished[n].platform # p
          BY <1>5, <3>3, <5>1
        <5>2. CASE i.warning # w
          <6>1. PICK a \in runs[r].rows : a.warning = b.warning /\ (b = a \/ b = Off(a))
            BY <1>8, <3>3
          <6>2. a \in Row
            BY <1>4, <3>3
          <6> QED
            BY <1>3, <5>2, <6>1, <6>2
        <5> QED
          BY <3>5, <4>1, <5>1, <5>2
      <4>3. \A m \in 1..Len(unfinished) : unfinished[m].platform = unfinished[n].platform =>
              \A b \in unfinished'[m].rows : b.warning = i.warning => b \in unfinished[m].rows
        <5> SUFFICES ASSUME NEW m \in 1..Len(unfinished), unfinished[m].platform = unfinished[n].platform,
                            NEW b \in unfinished'[m].rows, b.warning = i.warning
                     PROVE  b \in unfinished[m].rows
          OBVIOUS
        <5>1. CASE unfinished[n].platform # p
          BY <1>10a, <5>1
        <5>2. CASE i.warning # w
          <6>1. PICK a \in unfinished[m].rows : a.warning = b.warning /\ (b = a \/ b = Off(a))
            BY <1>10c
          <6>2. a \in LeftRows
            BY <1>1, LeftAre
          <6> QED
            BY <1>3a, <5>2, <6>1, <6>2
        <5> QED
          BY <3>5, <4>1, <5>1, <5>2
      <4>4. Base(n) # {} =>
              /\ i.warning \notin Warnings(Open(Max(Base(n)))) =>
                   i.warning \notin Warnings(Open(Max(Base(n))))'
              /\ i.warning \in Warnings(Open(Max(Base(n)))) =>
                   i.warning \in Warnings(Open(Max(Base(n))))'
        <5> SUFFICES ASSUME Base(n) # {}
                     PROVE  /\ i.warning \notin Warnings(Open(Max(Base(n)))) =>
                                 i.warning \notin Warnings(Open(Max(Base(n))))'
                            /\ i.warning \in Warnings(Open(Max(Base(n)))) =>
                                 i.warning \in Warnings(Open(Max(Base(n))))'
          OBVIOUS
        <5> PICK m : m = Max(Base(n))
          OBVIOUS
        <5>1. m \in 1..Len(runs) /\ runs[m].platform = unfinished[n].platform
          BY <1>1, BaseIs
        <5>2. m = Max(Base(n))'
          BY <2>3
        <5>3. runs[m].platform # p \/ i.warning # w
          BY <3>5, <4>1, <5>1
        <5>4. i.warning \notin Warnings(Open(m)) => i.warning \notin Warnings(Open(m))'
          BY <1>13, <5>1
        <5>5. i.warning \in Warnings(Open(m)) => i.warning \in Warnings(Open(m))'
          BY <1>13, <5>1, <5>3
        <5> QED
          BY <5>2, <5>4, <5>5
      <4>5. LeftFollows(n, i)
        BY <3>2, <4>1
      <4>6. i.status = "ignored" =>
              /\ \A r \in Base(n) : \A b \in runs'[r].rows : b.warning = i.warning => b.status = "ignored"
              /\ \A m \in 1..Len(unfinished) :
                   unfinished[m].platform = unfinished[n].platform /\ Sooner(m, n) =>
                     \A b \in unfinished'[m].rows : b.warning = i.warning => b.status = "ignored"
        BY <4>2, <4>3, <4>5 DEF LeftFollows
      <4>7. \A m \in 1..Len(unfinished) : /\ Sooner(m, n)' => Sooner(m, n)
                                         /\ unfinished'[m].platform = unfinished[m].platform
        BY <1>10a DEF Sooner
      <4>8. /\ i.status = "new" => Base(n) # {} /\ i.warning \notin Warnings(Open(Max(Base(n))))'
            /\ i.status = "existing" => Base(n) = {} \/ i.warning \in Warnings(Open(Max(Base(n))))'
            /\ i.status = "fixed" => unfinished'[n].compared /\ Base(n) # {}
                                    /\ i.warning \in Warnings(Open(Max(Base(n))))'
        BY <1>10a, <4>4, <4>5 DEF LeftFollows
      <4> QED
        BY <1>10b, <2>3, <4>6, <4>7, <4>8 DEF LeftFollows
    <3> QED
      BY <3>4, <3>5
  <2>5. ASSUME NEW r \in 1..Len(runs), runs[r].platform = unfinished[n].platform, unfinished[n].after < r
        PROVE  LeftIgnored(n, r)'
    <3> SUFFICES ASSUME NEW i \in runs'[r].rows, NEW j \in unfinished'[n].rows,
                        i.warning = j.warning, i.status = "ignored"
                 PROVE  j.status = "ignored"
      BY DEF LeftIgnored
    <3>0. r \in 1..Len(runs) /\ runs[r].platform = unfinished[n].platform /\ LeftIgnored(n, r)
      BY <2>1, <2>5
    <3>1. PICK a \in runs[r].rows : a.warning = i.warning /\ (i = a \/ i = Off(a))
      BY <1>8, <3>0
    <3>2. PICK b \in unfinished[n].rows :
            /\ b.warning = j.warning /\ (unfinished[n].platform = p => j = Off(b))
            /\ unfinished[n].platform # p => j = b
      BY <1>10c
    <3>3. a \in Row /\ b \in LeftRows
      BY <1>4, <2>0, <3>0
    <3>4. CASE unfinished[n].platform = p /\ b.warning = w
      BY <1>3a, <3>2, <3>3, <3>4
    <3>5. CASE unfinished[n].platform = p /\ b.warning # w
      <4>1. i = a /\ j = b
        BY <1>3, <1>3a, <3>1, <3>2, <3>3, <3>5
      <4> QED
        BY <3>0, <4>1 DEF LeftIgnored
    <3>6. CASE unfinished[n].platform # p
      <4>1. i \in runs[r].rows /\ j \in unfinished[n].rows
        BY <1>5, <1>10a, <3>0, <3>6
      <4> QED
        BY <3>0, <4>1 DEF LeftIgnored
    <3> QED
      BY <3>4, <3>5, <3>6
  <2> QED
    BY <1>5, <1>6, <1>10a, <2>1, <2>2, <2>4, <2>5
<1> QED
  BY <1>11, <1>12, <1>14, <1>15, <1>16, <1>17 DEF IInv

-----------------------------------------------------------------------------
(* The unfinished runs, when no row of a finished one changes its status. *)

LEMMA LeftKept ==
  ASSUME TypeOK, LeftInv, UNCHANGED unfinished, Len(runs') = Len(runs),
         \A r \in 1..Len(runs) :
           /\ runs'[r].platform = runs[r].platform
           /\ Warnings(Open(r))' = Warnings(Open(r))
           /\ \A i \in runs'[r].rows : \E j \in runs[r].rows : j.warning = i.warning /\ j.status = i.status
  PROVE  LeftInv'
<1> SUFFICES ASSUME NEW n \in 1..Len(unfinished)
             PROVE  /\ unfinished[n].after <= Len(runs')
                    /\ \A i, j \in unfinished[n].rows : i.warning = j.warning => i = j
                    /\ \A i \in unfinished[n].rows : LeftFollows(n, i)'
                    /\ \A r \in 1..Len(runs') : runs'[r].platform = unfinished[n].platform /\ unfinished[n].after < r => LeftIgnored(n, r)'
  BY DEF LeftInv
<1>1. /\ unfinished[n].after <= Len(runs)
      /\ \A i, j \in unfinished[n].rows : i.warning = j.warning => i = j
      /\ \A i \in unfinished[n].rows : LeftFollows(n, i)
      /\ \A r \in 1..Len(runs) : runs[r].platform = unfinished[n].platform /\ unfinished[n].after < r => LeftIgnored(n, r)
  BY DEF LeftInv
<1>2. \A q : RunsOf(q)' = RunsOf(q)
  BY Unmoved
<1>3. Base(n)' = Base(n) /\ Base(n) \subseteq 1..Len(runs)
  BY <1>2, LeftAre DEF Base
<1>4. ASSUME NEW i \in unfinished[n].rows PROVE LeftFollows(n, i)'
  <2>1. Base(n) # {} => Warnings(Open(Max(Base(n))))' = Warnings(Open(Max(Base(n))))
    <3> SUFFICES ASSUME Base(n) # {}
                 PROVE  Warnings(Open(Max(Base(n))))' = Warnings(Open(Max(Base(n))))
      OBVIOUS
    <3> PICK m : m = Max(Base(n))
      OBVIOUS
    <3>1. m \in 1..Len(runs)
      BY BaseIs
    <3>2. m = Max(Base(n))'
      BY <1>3
    <3> QED
      BY <3>1, <3>2
  <2>2. LeftFollows(n, i)
    BY <1>1
  <2>3. i.status = "ignored" =>
          \A r \in Base(n) : \A b \in runs'[r].rows : b.warning = i.warning => b.status = "ignored"
    BY <1>3, <2>2 DEF LeftFollows
  <2> QED
    BY <1>3, <2>1, <2>2, <2>3 DEF LeftFollows, Sooner
<1>5. ASSUME NEW r \in 1..Len(runs), runs[r].platform = unfinished[n].platform, unfinished[n].after < r
      PROVE  LeftIgnored(n, r)'
  <2>1. LeftIgnored(n, r)
    BY <1>1, <1>5
  <2> QED
    BY <2>1 DEF LeftIgnored
<1> QED
  BY <1>1, <1>2, <1>4, <1>5

-----------------------------------------------------------------------------
(* An upload that does not end. *)

LEMMA AbandonStep ==
  ASSUME IInv, NEW p \in Platform, NEW full \in BOOLEAN, NEW report \in SUBSET Warning,
         Abandon(p, full, report)
  PROVE  TypeOK' /\ LeftInv'
<1> PICK k : k = Len(unfinished) + 1
  OBVIOUS
<1> DEFINE new == Classified(p, full, report)
           rows == {[warning |-> i.warning, status |-> i.status] : i \in new}
           x == [after |-> Len(runs), platform |-> p, compared |-> full /\ p \in Analysed, rows |-> rows]
<1>1. TypeOK /\ UniqueInv /\ LeftInv
  BY DEF IInv
<1>2. /\ Len(runs) < MaxRuns /\ unfinished' = Append(unfinished, x) /\ edits' \in 0..MaxEdits
      /\ UNCHANGED <<runs, roots, settings>>
  BY <1>1, RunsAre, LeftAre, DashboardsAssumption DEF Abandon, Edit, TypeOK
<1>3. /\ \A i \in new : i \in Row /\ Comes(p, full, i)
      /\ \A i, j \in new : i.warning = j.warning => i = j
  BY <1>1, <1>2, NewRows
<1> HIDE DEF new
<1>4. \A i \in rows : /\ i \in LeftRows
                      /\ \E j \in new : j.warning = i.warning /\ j.status = i.status
  BY <1>3 DEF LeftRows, Row
<1>5. \A i, j \in rows : i.warning = j.warning => i = j
  BY <1>3
<1>6. x.after = Len(runs) /\ x.platform = p /\ x.compared = (full /\ p \in Analysed) /\ x.rows = rows
  OBVIOUS
<1>7. x \in LeftRow
  <2>1. Len(runs) \in 0..MaxRuns
    BY <1>1, <1>2, RunsAre, DashboardsAssumption
  <2>2. rows \in SUBSET LeftRows
    BY <1>4
  <2> HIDE DEF rows
  <2> QED
    BY <2>1, <2>2 DEF LeftRow, LeftRows
<1> HIDE DEF rows, x
<1>8. /\ Len(unfinished) \in Nat /\ unfinished \in Seq(LeftRow)
      /\ Len(unfinished') = k /\ unfinished'[k] = x /\ unfinished' \in Seq(LeftRow)
      /\ \A n \in 1..Len(unfinished) : unfinished'[n] = unfinished[n]
  BY <1>1, <1>2, <1>7, LeftAre DEF TypeOK
<1>9. TypeOK'
  BY <1>1, <1>2, <1>8 DEF TypeOK
<1>10. (\A q : RunsOf(q)' = RunsOf(q)) /\ (\A m : Open(m)' = Open(m))
  BY <1>2 DEF RunsOf, Open
<1>11. ASSUME NEW n \in 1..Len(unfinished)
       PROVE  /\ unfinished'[n].after <= Len(runs')
              /\ \A i, j \in unfinished'[n].rows : i.warning = j.warning => i = j
              /\ \A i \in unfinished'[n].rows : LeftFollows(n, i)'
              /\ \A r \in 1..Len(runs') : runs'[r].platform = unfinished'[n].platform /\ unfinished'[n].after < r => LeftIgnored(n, r)'
  <2>0. unfinished'[n] = unfinished[n] /\ unfinished[n].after \in Nat /\ runs' = runs
    BY <1>1, <1>2, <1>8, LeftAre
  <2>1. /\ unfinished[n].after <= Len(runs)
        /\ \A i, j \in unfinished[n].rows : i.warning = j.warning => i = j
        /\ \A i \in unfinished[n].rows : LeftFollows(n, i)
        /\ \A r \in 1..Len(runs) : runs[r].platform = unfinished[n].platform /\ unfinished[n].after < r => LeftIgnored(n, r)
    BY <1>1 DEF LeftInv
  <2>2. Base(n)' = Base(n)
    <3> PICK q : q = unfinished[n].platform
      OBVIOUS
    <3>1. RunsOf(q)' = RunsOf(q)
      BY <1>10
    <3>2. Base(n)' = {r \in RunsOf(q)' : r <= unfinished[n].after}
      BY <2>0 DEF Base
    <3> QED
      BY <3>1, <3>2 DEF Base
  <2>3. ~Sooner(k, n)'
    BY <1>6, <1>8, <2>0, <2>1, RunsAre, <1>1 DEF Sooner
  <2>4. \A m \in 1..Len(unfinished) : unfinished'[m] = unfinished[m] /\ (Sooner(m, n)' <=> Sooner(m, n))
    BY <1>8, <2>0 DEF Sooner
  <2>5. ASSUME NEW i \in unfinished[n].rows PROVE LeftFollows(n, i)'
    <3>1. LeftFollows(n, i)
      BY <2>1
    <3>2. Warnings(Open(Max(Base(n))))' = Warnings(Open(Max(Base(n))))
      <4> PICK m : m = Max(Base(n))
        OBVIOUS
      <4>1. m = Max(Base(n))'
        BY <2>2
      <4> QED
        BY <1>10, <4>1 DEF Warnings
    <3>3. 1..Len(unfinished') = 1..Len(unfinished) \cup {k}
      BY <1>8
    <3>4. i.status = "ignored" =>
            /\ \A r \in Base(n) : \A j \in runs[r].rows : j.warning = i.warning => j.status = "ignored"
            /\ \A m \in 1..Len(unfinished') :
                 unfinished'[m].platform = unfinished[n].platform /\ Sooner(m, n)' =>
                   \A j \in unfinished'[m].rows : j.warning = i.warning => j.status = "ignored"
      BY <2>3, <2>4, <3>1, <3>3 DEF LeftFollows
    <3>5. /\ i.status = "new" => Base(n) # {} /\ i.warning \notin Warnings(Open(Max(Base(n))))
          /\ i.status = "existing" => Base(n) = {} \/ i.warning \in Warnings(Open(Max(Base(n))))
          /\ i.status = "fixed" => /\ unfinished[n].compared /\ Base(n) # {}
                                   /\ i.warning \in Warnings(Open(Max(Base(n))))
      BY <3>1 DEF LeftFollows
    <3> QED
      BY <2>0, <2>2, <3>2, <3>4, <3>5 DEF LeftFollows
  <2> QED
    BY <1>10, <2>0, <2>1, <2>5 DEF LeftIgnored
<1>12. /\ x.after <= Len(runs')
       /\ \A i, j \in x.rows : i.warning = j.warning => i = j
       /\ \A i \in x.rows : LeftFollows(k, i)'
       /\ \A r \in 1..Len(runs') : x.after < r => LeftIgnored(k, r)'
  <2>1. Base(k)' = RunsOf(p)
    <3>1. Base(k)' = {r \in RunsOf(p) : r <= Len(runs)}
      <4>1. unfinished'[k].platform = p /\ unfinished'[k].after = Len(runs)
        BY <1>6, <1>8
      <4>2. RunsOf(p)' = RunsOf(p)
        BY <1>10
      <4>3. Base(k)' = {r \in RunsOf(p)' : r <= Len(runs)}
        BY <4>1 DEF Base
      <4> QED
        BY <4>2, <4>3
    <3>2. \A r \in RunsOf(p) : r <= Len(runs)
      BY <1>1, RunsAre
    <3> QED
      BY <3>1, <3>2
  <2>2. Warnings(Open(Max(Base(k))))' = Warnings(Open(Latest(p)))
    <3> PICK m : m = Latest(p)
      OBVIOUS
    <3>1. m = Max(Base(k))'
      BY <2>1 DEF Latest
    <3> QED
      BY <1>10, <3>1 DEF Warnings
  <2>3. ASSUME NEW i \in rows PROVE LeftFollows(k, i)'
    <3>1. PICK j \in new : j.warning = i.warning /\ j.status = i.status
      BY <1>4
    <3>2. Comes(p, full, j)
      BY <1>3
    <3>3. p \in Analysed <=> RunsOf(p) # {}
      BY DEF Analysed
    <3>4. i.status # "ignored"
      BY <3>1, <3>2 DEF Comes
    <3>5. /\ i.status = "new" => p \in Analysed /\ i.warning \notin Warnings(Open(Latest(p)))
          /\ i.status = "existing" => p \notin Analysed \/ i.warning \in Warnings(Open(Latest(p)))
          /\ i.status = "fixed" => full /\ p \in Analysed /\ i.warning \in Warnings(Open(Latest(p)))
      BY <3>1, <3>2 DEF Comes
    <3> QED
      BY <1>6, <1>8, <2>1, <2>2, <3>3, <3>4, <3>5 DEF LeftFollows
  <2>4. ASSUME NEW r \in 1..Len(runs') PROVE ~(x.after < r)
    BY <1>1, <1>2, <1>6, RunsAre
  <2> QED
    BY <1>1, <1>2, <1>5, <1>6, <1>10, <2>3, <2>4, RunsAre
<1>13. LeftInv'
  <2>1. 1..Len(unfinished') = 1..Len(unfinished) \cup {k}
    BY <1>8
  <2> QED
    BY <1>8, <1>11, <1>12, <2>1 DEF LeftInv
<1> QED
  BY <1>9, <1>13

-----------------------------------------------------------------------------
(* The authors a start fills in. *)

LEMMA FillReads ==
  ASSUME TypeOK, NEW r \in 1..Len(runs), NEW f, NEW g,
         \A n \in 1..Len(runs) : n < r => f[n] = g[n]
  PROVE  Fill(f, r) = Fill(g, r)
<1>1. CASE Before(r) = {}
  BY <1>1 DEF Fill
<1>2. CASE Before(r) # {}
  <2>1. Max(Before(r)) \in 1..Len(runs) /\ Max(Before(r)) < r
    BY <1>2, PreviousIs DEF Before, RunsOf
  <2>2. f[Max(Before(r))] = g[Max(Before(r))]
    BY <2>1
  <2> QED
    BY <2>2 DEF Fill
<1> QED
  BY <1>1, <1>2

\* The recursion is well founded: the rows of a run are filled in from those of a run before.
LEMMA FillEnds ==
  ASSUME TypeOK
  PROVE  \E f : f = [r \in 1..Len(runs) |-> Fill(f, r)]
<1> DEFINE n == Len(runs)
           T == {k \in 1..n : ~ \E f : f = [r \in 1..k |-> Fill(f, r)]}
<1>1. n \in Nat
  BY RunsAre
<1>2. SUFFICES ASSUME T # {} PROVE FALSE
  <2>1. CASE n = 0
    <3> DEFINE f == [r \in 1..n |-> Fill(<<>>, r)]
    <3>1. f = [r \in 1..n |-> Fill(f, r)]
      BY <2>1
    <3> QED
      BY <3>1
  <2>2. CASE n # 0
    <3>1. n \in 1..n
      BY <1>1, <2>2
    <3> QED
      BY <1>2, <3>1
  <2> QED
    BY <2>1, <2>2
<1>3. PICK k \in T : \A x \in T : k <= x
  <2>1. T \subseteq 1..n
    OBVIOUS
  <2> HIDE DEF T
  <2> QED
    BY <1>1, <1>2, <2>1, LeastOf
<1>4. PICK g : k # 1 => g = [r \in 1..(k - 1) |-> Fill(g, r)]
  <2>1. CASE k = 1
    BY <2>1
  <2>2. CASE k # 1
    <3>1. k - 1 \in 1..n /\ k - 1 \notin T
      <4>1. ~(k <= k - 1) /\ k - 1 \in 1..n
        BY <1>1, <2>2
      <4> QED
        BY <1>3, <4>1
    <3> QED
      BY <3>1
  <2> QED
    BY <2>1, <2>2
<1> DEFINE f == [r \in 1..k |-> Fill(g, r)]
<1>5. k \in 1..n /\ 1..k \subseteq 1..n
  BY <1>1
<1>6. \A r \in 1..n : r < k => f[r] = g[r]
  <2> SUFFICES ASSUME NEW r \in 1..n, r < k PROVE f[r] = g[r]
    OBVIOUS
  <2>1. r \in 1..(k - 1) /\ r \in 1..k /\ k # 1
    BY <1>1, <1>5
  <2>2. g = [q \in 1..(k - 1) |-> Fill(g, q)]
    BY <1>4, <2>1
  <2>3. g[r] = Fill(g, r)
    BY <2>1, <2>2
  <2> QED
    BY <2>1, <2>3
<1>7. \A r \in 1..k : Fill(f, r) = Fill(g, r)
  <2> SUFFICES ASSUME NEW r \in 1..k PROVE Fill(f, r) = Fill(g, r)
    OBVIOUS
  <2>1. r \in 1..n /\ \A m \in 1..n : m < r => m < k
    BY <1>1, <1>5
  <2> HIDE DEF f
  <2> QED
    BY <1>6, <2>1, FillReads
<1>8. f = [r \in 1..k |-> Fill(f, r)]
  BY <1>7
<1> QED
  BY <1>8

\* What a row takes over, and what it becomes.
Inherited(r, w) ==
  IF Before(r) = {} \/ w \notin Warnings(Backfilled[Max(Before(r))]) THEN NoAuthor
  ELSE RowIn(Backfilled[Max(Before(r))], w).author
Source(r, i) ==
  IF i.status = "new" \/ Inherited(r, i.warning) = NoAuthor THEN NamedBy(r)
  ELSE Inherited(r, i.warning)
Filled(r, i) == IF i.author = NoAuthor THEN [i EXCEPT !.author = Source(r, i)] ELSE i

LEMMA BackfilledIs ==
  ASSUME TypeOK
  PROVE  \A r \in 1..Len(runs) : Backfilled[r] = {Filled(r, i) : i \in runs[r].rows}
<1>1. Backfilled = [r \in 1..Len(runs) |-> Fill(Backfilled, r)]
  BY FillEnds DEF Backfilled
<1>2. \A r \in 1..Len(runs) : Backfilled[r] = Fill(Backfilled, r)
  BY <1>1
<1>3. \A r \in 1..Len(runs) : Fill(Backfilled, r) = {Filled(r, i) : i \in runs[r].rows}
  BY DEF Fill, Filled, Source, Inherited
<1> QED
  BY <1>2, <1>3

\* A filled-in row names the first one who is named since the warning came in, if any is.
Traced(r, i) ==
  \E o \in RunsOf(runs[r].platform) :
    /\ o <= r /\ CameIn(r, i.warning, o)
    /\ IF i.author = NoAuthor
       THEN \A n \in RunsOf(runs[r].platform) : o <= n /\ n <= r => n \in Anonymous
       ELSE FirstNamed(r, i.author, o)

LEMMA FilledIs ==
  ASSUME NEW r, NEW i \in Row
  PROVE  /\ Filled(r, i).warning = i.warning /\ Filled(r, i).status = i.status
         /\ i.author # NoAuthor => Filled(r, i) = i
         /\ i.author = NoAuthor => Filled(r, i).author = Source(r, i)
         /\ Source(r, i) \in 0..MaxRuns => Filled(r, i) \in Row
BY DEF Filled, Row

LEMMA NamedByIs ==
  ASSUME TypeOK, NEW r \in 1..Len(runs)
  PROVE  NamedBy(r) \in 0..MaxRuns /\ (NamedBy(r) = NoAuthor <=> r \in Anonymous)
         /\ (r \notin Anonymous => NamedBy(r) = r)
BY DashboardsAssumption DEF TypeOK, NamedBy, NoAuthor

\* A row that nobody is named for takes the author from the run before, or else from its own
\* run; either way the runs since the warning came in are of nobody until then.
LEMMA FilledRow ==
  ASSUME TypeOK, FollowsInv, AuthorBroughtItIn,
         NEW r \in 1..Len(runs), NEW i \in runs[r].rows, i \in Row, i.author = NoAuthor,
         Before(r) # {} => \A b \in runs[Max(Before(r))].rows :
           Filled(Max(Before(r)), b) \in Row /\ Traced(Max(Before(r)), Filled(Max(Before(r)), b)),
         Before(r) # {} => runs[Max(Before(r))].rows \subseteq Row
  PROVE  Filled(r, i) \in Row /\ Traced(r, Filled(r, i))
<1> DEFINE w == i.warning
           own == RunsOf(runs[r].platform)
           m == Max(Before(r))
           e == RowIn(Backfilled[m], w)
<1>1. r \in own /\ r <= r /\ r \in Int
      /\ \A n \in own : n \in 1..Len(runs) /\ runs[n].platform = runs[r].platform
  BY DEF RunsOf
<1>2. Before(r) = {n \in own : n < r}
  BY DEF Before
<1>3. w \in Warnings(runs[r].rows)
  BY DEF Warnings
<1>4. PICK o \in own : o <= r /\ CameIn(r, w, o) /\ o \in Anonymous
  BY AuthorIs DEF Attributed
<1>5. /\ Before(r) # {} =>
           /\ m \in own /\ m < r /\ m \in 1..Len(runs) /\ runs[m].platform = runs[r].platform
           /\ \A n \in own : n < r => n <= m
      /\ Before(r) = {} => \A n \in own : n <= r => n = r
  <2>1. Before(r) # {} => m \in Before(r) /\ \A n \in Before(r) : n <= m
    BY PreviousIs
  <2> HIDE DEF own, m
  <2>2. Before(r) # {} => m \in own /\ m < r
    BY <1>2, <2>1
  <2>3. Before(r) # {} => \A n \in own : n < r => n <= m
    BY <1>2, <2>1
  <2>4. Before(r) = {} => \A n \in own : n <= r => n = r
    <3>1. \A n \in own : n <= r => n = r \/ n < r
      BY <1>1
    <3> QED
      BY <1>2, <3>1
  <2> QED
    BY <1>1, <2>2, <2>3, <2>4
<1>6. /\ Filled(r, i).warning = w /\ Filled(r, i).author = Source(r, i)
      /\ Source(r, i) \in 0..MaxRuns => Filled(r, i) \in Row
  BY FilledIs
<1>7. NamedBy(r) \in 0..MaxRuns /\ (NamedBy(r) = NoAuthor <=> r \in Anonymous)
      /\ (r \notin Anonymous => NamedBy(r) = r)
  BY NamedByIs
<1> HIDE DEF own, m, w
\* A run names somebody, and no run of the warning before it does.
<1>8. ASSUME NEW q \in own, q <= r, CameIn(r, w, q), Source(r, i) = NamedBy(r),
             \A n \in own : q <= n /\ n < r => n \in Anonymous
      PROVE  Filled(r, i) \in Row /\ Traced(r, Filled(r, i))
  <2>1. Filled(r, i) \in Row
    BY <1>6, <1>7, <1>8
  <2>2. q <= q /\ q \in Int /\ r \in q..r
    BY <1>1, <1>8
  <2>3. r \notin Anonymous => FirstNamed(r, NamedBy(r), q)
    BY <1>1, <1>7, <1>8, <2>2 DEF FirstNamed, own
  <2>4. r \in Anonymous => \A n \in own : q <= n /\ n <= r => n \in Anonymous
    <3>1. \A n \in own : n <= r => n = r \/ n < r
      BY <1>1
    <3> QED
      BY <1>8, <3>1
  <2> QED
    BY <1>6, <1>7, <1>8, <2>1, <2>3, <2>4 DEF Traced, own, w
<1>9. CASE i.status = "new"
  <2>1. Source(r, i) = NamedBy(r)
    BY <1>9 DEF Source
  <2>2. Before(r) # {} /\ w \notin Warnings(Open(m))
    BY <1>9 DEF FollowsInv, Follows, m, w
  <2>3. CameIn(r, w, r)
    <3>1. \A n \in own : r <= n /\ n <= r => n = r
      BY <1>1
    <3> QED
      BY <1>3, <2>2, <3>1 DEF CameIn, own, m
  <2>4. \A n \in own : ~(r <= n /\ n < r)
    BY <1>1
  <2> QED
    BY <1>1, <1>8, <2>1, <2>3, <2>4
<1>10. CASE i.status # "new" /\ (Before(r) = {} \/ w \notin Warnings(Backfilled[m]))
  <2>1. Source(r, i) = NamedBy(r)
    BY <1>10 DEF Source, Inherited, m, w
  <2>2. o = r
    <3>1. CASE Before(r) = {}
      BY <1>4, <1>5, <3>1
    <3>2. CASE Before(r) # {} /\ w \notin Warnings(Backfilled[m])
      <4>1. w \notin Warnings(runs[m].rows)
        <5>1. \A b \in runs[m].rows : Filled(m, b) \in Backfilled[m] /\ Filled(m, b).warning = b.warning
          BY <1>5, <3>2, BackfilledIs, FilledIs DEF m
        <5> QED
          BY <3>2, <5>1 DEF Warnings
      <4>2. ~(o <= m /\ m <= r)
        BY <1>4, <1>5, <3>2, <4>1 DEF CameIn, own
      <4> QED
        BY <1>1, <1>4, <1>5, <3>2, <4>2
    <3> QED
      BY <1>10, <3>1, <3>2
  <2>3. \A n \in own : ~(r <= n /\ n < r)
    BY <1>1
  <2> QED
    BY <1>1, <1>4, <1>8, <2>1, <2>2, <2>3
<1>11. CASE i.status # "new" /\ Before(r) # {} /\ w \in Warnings(Backfilled[m])
  <2>1. Inherited(r, w) = e.author
    BY <1>11 DEF Inherited, m
  <2>2. PICK b \in runs[m].rows : e = Filled(m, b) /\ e.warning = w
    <3>1. e \in Backfilled[m] /\ e.warning = w
      BY <1>11, RowInIs
    <3> HIDE DEF e
    <3> QED
      BY <1>5, <1>11, <3>1, BackfilledIs
  <2> HIDE DEF e
  <2>3. e \in Row /\ Traced(m, e)
    BY <1>11, <2>2 DEF m
  <2>4. PICK q \in own :
          /\ q <= m /\ CameIn(m, w, q)
          /\ IF e.author = NoAuthor
             THEN \A n \in own : q <= n /\ n <= m => n \in Anonymous
             ELSE FirstNamed(m, e.author, q)
    BY <1>5, <1>11, <2>2, <2>3 DEF Traced, own
  <2>5. CameIn(r, w, q) /\ q <= r
    <3>1. \A n \in own : n <= r => n = r \/ n <= m
      BY <1>1, <1>5, <1>11
    <3>2. q <= r
      BY <1>1, <1>5, <1>11, <2>4
    <3> QED
      BY <1>3, <1>5, <1>11, <2>4, <3>1, <3>2 DEF CameIn, own
  <2>6. CASE e.author = NoAuthor
    <3>1. Source(r, i) = NamedBy(r)
      BY <2>1, <2>6 DEF Source, w
    <3>2. \A n \in own : q <= n /\ n < r => n \in Anonymous
      BY <1>5, <1>11, <2>4, <2>6
    <3> QED
      BY <1>8, <2>5, <3>1, <3>2
  <2>7. CASE e.author # NoAuthor
    <3>1. Source(r, i) = e.author
      BY <1>11, <2>1, <2>7 DEF Source, w
    <3>2. e.author \in 0..MaxRuns
      BY <2>3 DEF Row
    <3>3. FirstNamed(r, e.author, q)
      <4>1. q..m \subseteq q..r
        BY <1>1, <1>5, <1>11
      <4> QED
        BY <1>5, <1>11, <2>4, <2>7, <4>1 DEF FirstNamed
    <3> QED
      BY <1>6, <2>4, <2>5, <2>7, <3>1, <3>2, <3>3 DEF Traced, own, w
  <2> QED
    BY <2>6, <2>7
<1> QED
  BY <1>9, <1>10, <1>11

LEMMA FilledRows ==
  ASSUME TypeOK, FollowsInv, AuthorBroughtItIn
  PROVE  \A r \in 1..Len(runs) : \A i \in runs[r].rows :
           Filled(r, i) \in Row /\ Traced(r, Filled(r, i))
<1> DEFINE T == {r \in 1..Len(runs) : ~ \A i \in runs[r].rows :
                                        Filled(r, i) \in Row /\ Traced(r, Filled(r, i))}
<1>1. SUFFICES ASSUME T # {} PROVE FALSE
  OBVIOUS
<1>2. PICK r \in T : \A x \in T : r <= x
  <2>1. T \subseteq 1..Len(runs) /\ Len(runs) \in Nat
    BY RunsAre
  <2> HIDE DEF T
  <2> QED
    BY <1>1, <2>1, LeastOf
<1>3. r \in 1..Len(runs) /\ \A n \in 1..Len(runs) : runs[n].rows \subseteq Row
  BY RunsAre DEF RunRow
<1>4. PICK i \in runs[r].rows : ~(Filled(r, i) \in Row /\ Traced(r, Filled(r, i)))
  BY <1>2
<1>5. CASE i.author # NoAuthor
  <2>1. Filled(r, i) = i /\ i \in Row
    BY <1>3, <1>5, FilledIs
  <2>2. Traced(r, i)
    BY <1>3, <1>5, AuthorIs DEF Attributed, Traced
  <2> QED
    BY <1>4, <2>1, <2>2
<1>6. CASE i.author = NoAuthor
  <2>1. ASSUME Before(r) # {}
        PROVE  /\ runs[Max(Before(r))].rows \subseteq Row
               /\ \A b \in runs[Max(Before(r))].rows :
                    /\ Filled(Max(Before(r)), b) \in Row
                    /\ Traced(Max(Before(r)), Filled(Max(Before(r)), b))
    <3>1. Max(Before(r)) \in 1..Len(runs) /\ ~(r <= Max(Before(r)))
      BY <1>3, <2>1, PreviousIs DEF Before, RunsOf
    <3>2. Max(Before(r)) \notin T
      BY <1>2, <3>1
    <3> QED
      BY <1>3, <3>1, <3>2
  <2>2. i \in Row
    BY <1>3
  <2> HIDE DEF T
  <2> QED
    BY <1>3, <1>4, <1>6, <2>1, <2>2, FilledRow
<1> QED
  BY <1>5, <1>6

-----------------------------------------------------------------------------
(* A start. *)

LEMMA BackfillStep ==
  ASSUME IInv, Backfill
  PROVE  IInv'
<1>1. TypeOK /\ UniqueInv /\ FollowsInv /\ ComparedInv /\ AuthorBroughtItIn /\ LeftInv
  BY DEF IInv
<1>2. /\ runs' = [r \in 1..Len(runs) |-> [runs[r] EXCEPT !.rows = Backfilled[r]]]
      /\ edits < MaxEdits /\ edits' = edits + 1 /\ UNCHANGED <<unfinished, roots, settings>>
  BY DEF Backfill, Edit
<1>3. \A r \in 1..Len(runs) : runs[r].rows \subseteq Row /\ runs[r] \in RunRow
  BY <1>1, RunsAre DEF RunRow
<1>4. \A r \in 1..Len(runs) : \A i \in runs[r].rows :
        /\ Filled(r, i) \in Row /\ Traced(r, Filled(r, i))
        /\ Filled(r, i).warning = i.warning /\ Filled(r, i).status = i.status
        /\ i.author # NoAuthor => Filled(r, i) = i
        /\ i.author = NoAuthor => Filled(r, i).author = Source(r, i)
  BY <1>1, <1>3, FilledRows, FilledIs
<1>5. \A r \in 1..Len(runs) :
        /\ runs'[r] \in RunRow
        /\ runs'[r].platform = runs[r].platform /\ runs'[r].compared = runs[r].compared
        /\ runs'[r].rows = {Filled(r, i) : i \in runs[r].rows}
  <2> SUFFICES ASSUME NEW r \in 1..Len(runs)
               PROVE  /\ runs'[r] \in RunRow
                      /\ runs'[r].platform = runs[r].platform /\ runs'[r].compared = runs[r].compared
                      /\ runs'[r].rows = {Filled(r, i) : i \in runs[r].rows}
    OBVIOUS
  <2>1. Backfilled[r] = {Filled(r, i) : i \in runs[r].rows}
    BY <1>1, BackfilledIs
  <2>2. Backfilled[r] \subseteq Row
    BY <1>4, <2>1
  <2>3. runs'[r] = [runs[r] EXCEPT !.rows = Backfilled[r]]
    BY <1>2
  <2> QED
    BY <1>3, <2>1, <2>2, <2>3 DEF RunRow
<1>6. Len(runs) \in Nat /\ Len(runs') = Len(runs)
  BY <1>1, <1>2, RunsAre
<1>7. /\ \A q : RunsOf(q)' = RunsOf(q)
      /\ \A r \in 1..Len(runs) : Before(r)' = Before(r)
  BY <1>1, <1>5, <1>6, Unmoved
<1>8. \A r \in 1..Len(runs) :
        /\ Warnings(runs'[r].rows) = Warnings(runs[r].rows)
        /\ \A i \in Open(r)' : \E j \in Open(r) : j.warning = i.warning
        /\ \A j \in Open(r) : \E i \in Open(r)' : j.warning = i.warning
  <2> SUFFICES ASSUME NEW r \in 1..Len(runs)
               PROVE  /\ Warnings(runs'[r].rows) = Warnings(runs[r].rows)
                      /\ \A i \in Open(r)' : \E j \in Open(r) : j.warning = i.warning
                      /\ \A j \in Open(r) : \E i \in Open(r)' : j.warning = i.warning
    OBVIOUS
  <2>1. Warnings(runs'[r].rows) = Warnings(runs[r].rows)
    BY <1>4, <1>5 DEF Warnings
  <2>2. \A i \in Open(r)' : \E j \in Open(r) : j.warning = i.warning
    BY <1>4, <1>5 DEF Open
  <2>3. \A j \in Open(r) : \E i \in Open(r)' : j.warning = i.warning
    BY <1>4, <1>5 DEF Open
  <2> QED
    BY <2>1, <2>2, <2>3
<1>9. \A m \in 1..Len(runs) : Warnings(Open(m))' = Warnings(Open(m))
  BY <1>8 DEF Warnings
<1>10. \A r \in 1..Len(runs) : Before(r) # {} =>
         /\ Max(Before(r)) \in 1..Len(runs) /\ runs[Max(Before(r))].platform = runs[r].platform
         /\ Max(Before(r))' = Max(Before(r))
  BY <1>1, <1>7, PreviousIs DEF Before, RunsOf
<1>11. TypeOK'
  <2>1. runs' \in Seq(RunRow)
    <3>1. runs' \in [1..Len(runs) -> RunRow]
      BY <1>2, <1>5
    <3> QED
      BY <1>6, <3>1
  <2> QED
    BY <1>1, <1>2, <1>6, <2>1, DashboardsAssumption DEF TypeOK
<1>12. UniqueInv'
  <2> SUFFICES ASSUME NEW r \in 1..Len(runs), NEW i \in runs'[r].rows, NEW j \in runs'[r].rows,
                      i.warning = j.warning
               PROVE  i = j
    BY <1>6 DEF UniqueInv
  <2>1. PICK a \in runs[r].rows : a.warning = i.warning /\ i = Filled(r, a)
    BY <1>4, <1>5
  <2>2. PICK b \in runs[r].rows : b.warning = j.warning /\ j = Filled(r, b)
    BY <1>4, <1>5
  <2>3. a = b
    BY <1>1, <2>1, <2>2 DEF UniqueInv
  <2> QED
    BY <2>1, <2>2, <2>3
<1>13. FollowsInv'
  <2> SUFFICES ASSUME NEW r \in 1..Len(runs), NEW i \in runs'[r].rows PROVE Follows(r, i)'
    BY <1>6 DEF FollowsInv
  <2>1. PICK j \in runs[r].rows : j.warning = i.warning /\ j.status = i.status /\ i = Filled(r, j)
    BY <1>4, <1>5
  <2>2. Follows(r, j)
    BY <1>1 DEF FollowsInv
  <2>3. Before(r)' = Before(r) /\ runs'[r].compared = runs[r].compared
    BY <1>5, <1>7
  <2>4. Before(r) # {} => Warnings(Open(Max(Before(r))))' = Warnings(Open(Max(Before(r))))
    <3> SUFFICES ASSUME Before(r) # {}
                 PROVE  Warnings(Open(Max(Before(r))))' = Warnings(Open(Max(Before(r))))
      OBVIOUS
    <3>1. PICK m \in 1..Len(runs) : m = Max(Before(r)) /\ m = Max(Before(r))'
      BY <1>10
    <3> QED
      BY <1>9, <3>1
  <2>5. i.status = "new" => i.author = NamedBy(r)
    <3> SUFFICES ASSUME i.status = "new" PROVE i.author = NamedBy(r)
      OBVIOUS
    <3>1. j.author = NamedBy(r)
      BY <2>1, <2>2 DEF Follows
    <3>2. Source(r, j) = NamedBy(r)
      BY <2>1 DEF Source
    <3> QED
      BY <1>4, <2>1, <3>1, <3>2
  <2>6. ASSUME i.status = "ignored", NEW n \in Before(r), NEW b \in runs'[n].rows, b.warning = i.warning
        PROVE  b.status = "ignored"
    <3>1. n \in 1..Len(runs)
      BY DEF Before, RunsOf
    <3>2. PICK a \in runs[n].rows : a.warning = b.warning /\ a.status = b.status
      BY <1>4, <1>5, <3>1
    <3> QED
      BY <2>1, <2>2, <2>6, <3>2 DEF Follows
  <2> QED
    BY <2>1, <2>2, <2>3, <2>4, <2>5, <2>6 DEF Follows, NamedBy
<1>14. ComparedInv'
  <2> SUFFICES ASSUME NEW r \in 1..Len(runs), runs[r].compared
               PROVE  /\ Before(r)' # {}
                      /\ \A j \in Open(Max(Before(r)))' : \E i \in runs'[r].rows :
                           i.warning = j.warning /\ i.status \in {"existing", "fixed"}
    BY <1>5, <1>6 DEF ComparedInv
  <2>1. Before(r) # {} /\ Before(r)' = Before(r)
    BY <1>1, <1>7 DEF ComparedInv
  <2>2. PICK m \in 1..Len(runs) : m = Max(Before(r)) /\ m = Max(Before(r))'
    BY <1>10, <2>1
  <2>3. ASSUME NEW j \in Open(m)'
        PROVE  \E i \in runs'[r].rows : i.warning = j.warning /\ i.status \in {"existing", "fixed"}
    <3>1. PICK c \in Open(m) : c.warning = j.warning
      BY <1>8, <2>2, <2>3
    <3>2. PICK a \in runs[r].rows : a.warning = j.warning /\ a.status \in {"existing", "fixed"}
      BY <1>1, <2>2, <3>1 DEF ComparedInv
    <3> QED
      BY <1>4, <1>5, <3>2
  <2> QED
    BY <2>1, <2>2, <2>3
<1>15. AuthorBroughtItIn'
  <2> SUFFICES ASSUME NEW r \in 1..Len(runs), NEW i \in runs'[r].rows PROVE Attributed(r, i)'
    BY <1>6 DEF AuthorBroughtItIn, Attributed
  <2>1. Traced(r, i)
    BY <1>4, <1>5
  <2>2. PICK o \in RunsOf(runs[r].platform) :
          /\ o <= r /\ CameIn(r, i.warning, o)
          /\ IF i.author = NoAuthor
             THEN \A n \in RunsOf(runs[r].platform) : o <= n /\ n <= r => n \in Anonymous
             ELSE FirstNamed(r, i.author, o)
    BY <2>1 DEF Traced
  <2>3. RunsOf(runs[r].platform)' = RunsOf(runs[r].platform)
    BY <1>5, <1>6 DEF RunsOf
  <2>4. o \in 1..Len(runs) /\ o <= o
    BY <1>1, <2>2, RunsAre
  <2>5. CameIn(r, i.warning, o)'
    <3>1. \A n \in RunsOf(runs[r].platform) : o <= n /\ n <= r => i.warning \in Warnings(runs'[n].rows)
      <4>1. \A n \in RunsOf(runs[r].platform) : Warnings(runs'[n].rows) = Warnings(runs[n].rows)
        BY <1>1, <1>8, RunsAre
      <4> QED
        BY <2>2, <4>1 DEF CameIn
    <3>2. Before(o) # {} => i.warning \notin Warnings(Open(Max(Before(o))))'
      <4> SUFFICES ASSUME Before(o) # {} PROVE i.warning \notin Warnings(Open(Max(Before(o))))'
        OBVIOUS
      <4>1. PICK m \in 1..Len(runs) : m = Max(Before(o)) /\ m = Max(Before(o))'
        BY <1>10, <2>4
      <4>2. i.warning \notin Warnings(Open(m))
        BY <2>2, <4>1 DEF CameIn
      <4> QED
        BY <1>9, <4>1, <4>2
    <3> QED
      BY <1>7, <2>3, <2>4, <3>1, <3>2 DEF CameIn, Warnings
  <2>6. FirstNamed(r, i.author, o) => FirstNamed(r, i.author, o)'
    BY <2>3 DEF FirstNamed
  <2>7. o \in RunsOf(runs[r].platform)'
    BY <2>2, <2>3
  <2> QED
    BY <2>2, <2>4, <2>5, <2>6, <2>7 DEF Attributed
<1>16. LeftInv'
  <2>1. \A r \in 1..Len(runs) : \A i \in runs'[r].rows : \E j \in runs[r].rows :
          j.warning = i.warning /\ j.status = i.status
    BY <1>4, <1>5
  <2> QED
    BY <1>1, <1>2, <1>5, <1>6, <1>9, <2>1, LeftKept
<1> QED
  BY <1>11, <1>12, <1>13, <1>14, <1>15, <1>16 DEF IInv

-----------------------------------------------------------------------------
(* Every step. *)

LEMMA SameRuns ==
  ASSUME IInv, UNCHANGED runs, TypeOK', LeftInv'
  PROVE  IInv'
<1>0. TypeOK
  BY DEF IInv
<1>1. UniqueInv'
  BY DEF IInv, UniqueInv
<1>2. /\ \A r \in 1..Len(runs) : Before(r)' = Before(r)
      /\ \A m : Warnings(Open(m))' = Warnings(Open(m))
      /\ \A p : RunsOf(p)' = RunsOf(p)
  <2>1. /\ \A r \in 1..Len(runs) : Before(r)' = Before(r)
        /\ \A p : RunsOf(p)' = RunsOf(p)
    BY <1>0, Unmoved
  <2>2. \A m : Open(m)' = Open(m)
    BY DEF Open
  <2> QED
    BY <2>1, <2>2 DEF Warnings
<1>3. \A r \in 1..Len(runs) : Warnings(Open(Max(Before(r))))' = Warnings(Open(Max(Before(r))))
  <2> SUFFICES ASSUME NEW r \in 1..Len(runs)
               PROVE  Warnings(Open(Max(Before(r))))' = Warnings(Open(Max(Before(r))))
    OBVIOUS
  <2> PICK m : m = Max(Before(r))
    OBVIOUS
  <2>1. m = Max(Before(r))'
    BY <1>2
  <2> QED
    BY <1>2, <2>1
<1>4. FollowsInv'
  <2> SUFFICES ASSUME NEW r \in 1..Len(runs), NEW i \in runs[r].rows PROVE Follows(r, i)'
    BY DEF FollowsInv
  <2>1. Follows(r, i)
    BY DEF IInv, FollowsInv
  <2> QED
    BY <1>2, <1>3, <2>1 DEF Follows, NamedBy
<1>5. ComparedInv'
  BY DEF IInv, ComparedInv, Before, RunsOf, Open
<1>6. AuthorBroughtItIn'
  <2> SUFFICES ASSUME NEW r \in 1..Len(runs), NEW i \in runs[r].rows PROVE Attributed(r, i)'
    BY DEF AuthorBroughtItIn, Attributed
  <2>1. PICK o \in RunsOf(runs[r].platform) :
          /\ o <= r /\ CameIn(r, i.warning, o)
          /\ IF i.author = NoAuthor THEN o \in Anonymous ELSE FirstNamed(r, i.author, o)
    BY AuthorIs DEF IInv, Attributed
  <2>2. RunsOf(runs[r].platform)' = RunsOf(runs[r].platform) /\ o \in 1..Len(runs)
    BY <2>1 DEF RunsOf
  <2>3. CameIn(r, i.warning, o)'
    BY <1>2, <1>3, <2>1, <2>2 DEF CameIn, Warnings
  <2>4. FirstNamed(r, i.author, o) => FirstNamed(r, i.author, o)'
    BY <2>2 DEF FirstNamed
  <2> QED
    BY <2>1, <2>2, <2>3, <2>4 DEF Attributed
<1> QED
  BY <1>1, <1>4, <1>5, <1>6 DEF IInv

LEMMA SameLeft ==
  ASSUME IInv, UNCHANGED <<runs, unfinished>>
  PROVE  LeftInv'
BY LeftKept DEF IInv, Open, Warnings

LEMMA NextInv == IInv /\ [Next]_vars => IInv'
<1> SUFFICES ASSUME IInv, [Next]_vars PROVE IInv'
  OBVIOUS
<1>1. ASSUME NEW R \in SUBSET Platform, NameRoots(R) PROVE IInv'
  <2>1. TypeOK'
    BY <1>1, DashboardsAssumption DEF IInv, TypeOK, NameRoots, Edit
  <2> QED
    BY <1>1, <2>1, SameRuns, SameLeft DEF NameRoots
<1>2. ASSUME OpenSettings PROVE IInv'
  <2>1. TypeOK'
    BY <1>2, DashboardsAssumption DEF IInv, TypeOK, OpenSettings, Edit
  <2> QED
    BY <1>2, <2>1, SameRuns, SameLeft DEF OpenSettings
<1>3. ASSUME UNCHANGED vars PROVE IInv'
  <2>1. TypeOK'
    BY <1>3 DEF IInv, TypeOK, vars
  <2> QED
    BY <1>3, <2>1, SameRuns, SameLeft DEF vars
<1>4. ASSUME NEW p \in Platform, NEW full \in BOOLEAN, NEW report \in SUBSET Warning,
             Abandon(p, full, report)
      PROVE  IInv'
  BY <1>4, AbandonStep, SameRuns DEF Abandon
<1> QED
  BY <1>1, <1>2, <1>3, <1>4, UploadStep, IgnoreStep, BackfillStep DEF Next

THEOREM Invariance == Spec => []IInv
<1> QED
  BY InitInv, NextInv, PTL DEF Spec

\* The runs and their rows stay what they are declared to be.
THEOREM TypeCorrect == Spec => []TypeOK
<1>1. IInv => TypeOK
  BY DEF IInv
<1> QED
  BY Invariance, <1>1, PTL

\* The author of a row is that of the run that brought its warning in, or of the first run
\* since then that names one.
THEOREM AuthorshipIsTrue == Spec => []AuthorBroughtItIn
<1>1. IInv => AuthorBroughtItIn
  BY DEF IInv
<1> QED
  BY Invariance, <1>1, PTL

-----------------------------------------------------------------------------
(* The timeline of a warning. *)

LEMMA ListedByIs ==
  ASSUME IInv, NEW p \in Platform, NEW w, NEW r \in ListedBy(p, w)
  PROVE  /\ r \in RunsOf(p) /\ r \in 1..Len(runs) /\ runs[r].platform = p
         /\ RowIn(runs[r].rows, w) \in runs[r].rows /\ RowIn(runs[r].rows, w) \in Row
         /\ RowIn(runs[r].rows, w).warning = w
         /\ Follows(r, RowIn(runs[r].rows, w))
<1>1. r \in RunsOf(p) /\ r \in 1..Len(runs) /\ runs[r].platform = p /\ w \in Warnings(runs[r].rows)
  BY DEF ListedBy, RunsOf
<1>2. RowIn(runs[r].rows, w) \in runs[r].rows /\ RowIn(runs[r].rows, w).warning = w
  BY <1>1, RowInIs
<1>3. RowIn(runs[r].rows, w) \in Row
  BY <1>1, <1>2, RunsAre DEF IInv, RunRow
<1>4. Follows(r, RowIn(runs[r].rows, w))
  BY <1>1, <1>2 DEF IInv, FollowsInv
<1> QED
  BY <1>1, <1>2, <1>3, <1>4

\* A sighting is a finished run that lists the warning, or an unfinished one.
LEMMA SightingIs ==
  ASSUME TypeOK, NEW p \in Platform, NEW w, NEW y \in Listing(p, w)
  PROVE  /\ y = [after |-> y.after, nth |-> y.nth] /\ y.after \in Nat /\ y.nth \in Nat
         /\ y.nth = 0 => /\ y.after \in ListedBy(p, w) /\ y.after \in RunsOf(p) /\ y.after \in 1..Len(runs)
                         /\ runs[y.after].platform = p /\ RunAt(y) = runs[y.after]
         /\ y.nth # 0 => /\ y.nth \in 1..Len(unfinished) /\ unfinished[y.nth].platform = p
                         /\ y.after = unfinished[y.nth].after /\ RunAt(y) = unfinished[y.nth]
         /\ w \in Warnings(RunAt(y).rows)
<1>1. CASE y \in {[after |-> r, nth |-> 0] : r \in ListedBy(p, w)}
  <2>1. PICK r \in ListedBy(p, w) : y = [after |-> r, nth |-> 0]
    BY <1>1
  <2>2. r \in RunsOf(p) /\ r \in 1..Len(runs) /\ runs[r].platform = p /\ w \in Warnings(runs[r].rows)
    BY DEF ListedBy, RunsOf
  <2>3. y.after = r /\ y.nth = 0 /\ RunAt(y) = runs[r]
    BY <2>1 DEF RunAt
  <2> QED
    BY <2>1, <2>2, <2>3, RunsAre, LeftAre
<1>2. CASE y \in {[after |-> unfinished[n].after, nth |-> n]
                    : n \in {m \in 1..Len(unfinished) : Lists(unfinished[m], p, w)}}
  <2>1. PICK n \in 1..Len(unfinished) : y = [after |-> unfinished[n].after, nth |-> n] /\ Lists(unfinished[n], p, w)
    BY <1>2
  <2>2. y.after = unfinished[n].after /\ y.nth = n /\ RunAt(y) = unfinished[n]
    BY <2>1, LeftAre DEF RunAt
  <2>3. unfinished[n].after \in Nat /\ Len(unfinished) \in Nat /\ Len(runs) \in Nat
    BY LeftAre, RunsAre
  <2> QED
    BY <2>1, <2>2, <2>3 DEF Lists
<1> QED
  BY <1>1, <1>2 DEF Listing

\* Whatever is not empty has a last sighting.
LEMMA LastSighting ==
  ASSUME TypeOK, NEW p \in Platform, NEW w, NEW S, S \subseteq Listing(p, w), S # {}
  PROVE  \E x \in S : \A z \in S : ~Earlier(x, z)
<1> DEFINE A == {x.after + 1 : x \in S}
<1>1. \A x \in S : x.after \in 0..MaxRuns /\ x.nth \in 0..Len(unfinished) /\ Len(unfinished) \in Nat
  <2>1. \A x \in S : x.nth = 0 => x.after \in 1..Len(runs)
    BY SightingIs
  <2>2. \A x \in S : x.nth # 0 => x.nth \in 1..Len(unfinished) /\ x.after = unfinished[x.nth].after
    BY SightingIs
  <2>3. \A m \in 1..Len(unfinished) : unfinished[m].after \in 0..MaxRuns
    BY LeftAre
  <2>4. \A x \in S : x.after \in 0..MaxRuns
    BY <2>1, <2>2, <2>3, RunsAre, DashboardsAssumption DEF TypeOK
  <2> QED
    BY <2>1, <2>2, <2>4, LeftAre
<1>2. PICK a \in A : \A b \in A : b <= a
  <2>1. A \subseteq 1..(MaxRuns + 1) /\ A # {} /\ MaxRuns + 1 \in Nat
    BY <1>1, DashboardsAssumption
  <2> HIDE DEF A
  <2> QED
    BY <2>1, GreatestOf
<1> DEFINE B == {x.nth + 1 : x \in {y \in S : y.after + 1 = a}}
<1>3. PICK b \in B : \A c \in B : c <= b
  <2>1. B \subseteq 1..(Len(unfinished) + 1) /\ B # {} /\ Len(unfinished) + 1 \in Nat
    BY <1>1, <1>2, LeftAre
  <2> HIDE DEF B
  <2> QED
    BY <2>1, GreatestOf
<1>4. PICK x \in S : x.after + 1 = a /\ x.nth + 1 = b
  BY <1>3
<1>5. ASSUME NEW z \in S PROVE ~Earlier(x, z)
  <2>1. z.after + 1 <= a
    BY <1>2
  <2>2. z.after = x.after => z.nth + 1 <= b
    BY <1>3, <1>4
  <2>3. x.after \in Int /\ z.after \in Int /\ x.nth \in Int /\ z.nth \in Int
    BY <1>1
  <2> QED
    BY <1>4, <2>1, <2>2, <2>3 DEF Earlier
<1> QED
  BY <1>5

\* What the status of a sighted row says of the finished runs before it and, when it is
\* ignored, of every sighting before it.
LEMMA SaidFollows ==
  ASSUME IInv, NEW p \in Platform, NEW w, NEW y \in Listing(p, w)
  PROVE  LET B == FinishedBefore(p, y)
             before == Warnings(Open(Max(B)))
         IN /\ B \subseteq 1..Len(runs)
            /\ Said(y, w) \in Status
            /\ Said(y, w) = "new" => B # {} /\ w \notin before
            /\ Said(y, w) = "existing" => B = {} \/ w \in before
            /\ Said(y, w) = "fixed" => RunAt(y).compared /\ B # {} /\ w \in before
            /\ Said(y, w) = "ignored" => \A x \in Listing(p, w) : Earlier(x, y) => Said(x, w) = "ignored"
<1>1. TypeOK /\ UniqueInv /\ FollowsInv /\ LeftInv
  BY DEF IInv
<1>2. \A x \in Listing(p, w) : RowIn(RunAt(x).rows, w) \in RunAt(x).rows /\ RowIn(RunAt(x).rows, w).warning = w
  BY <1>1, SightingIs, RowInIs
<1>3. FinishedBefore(p, y) \subseteq 1..Len(runs)
  BY <1>1, RunsAre DEF FinishedBefore
<1> DEFINE i == RowIn(RunAt(y).rows, w)
<1>4. i \in RunAt(y).rows /\ i.warning = w /\ Said(y, w) = i.status
  BY <1>2 DEF Said
<1> HIDE DEF i
<1>5. CASE y.nth = 0
  <2>1. y.after \in RunsOf(p) /\ y.after \in 1..Len(runs) /\ runs[y.after].platform = p /\ RunAt(y) = runs[y.after]
    BY <1>1, <1>5, SightingIs
  <2>2. FinishedBefore(p, y) = Before(y.after)
    <3>1. \A r \in RunsOf(p) : Earlier([after |-> r, nth |-> 0], y) <=> r < y.after
      BY <1>5 DEF Earlier
    <3> QED
      BY <2>1, <3>1 DEF FinishedBefore, Before
  <2>3. Follows(y.after, i) /\ i \in Row
    BY <1>1, <1>4, <2>1, RunsAre DEF FollowsInv, RunRow
  <2>4. i.status = "ignored" => \A x \in Listing(p, w) : Earlier(x, y) => Said(x, w) = "ignored"
    <3> SUFFICES ASSUME i.status = "ignored", NEW x \in Listing(p, w), Earlier(x, y)
                 PROVE  RowIn(RunAt(x).rows, w).status = "ignored"
      BY DEF Said
    <3>1. CASE x.nth = 0
      <4>1. x.after \in RunsOf(p) /\ RunAt(x) = runs[x.after] /\ x.after \in 1..Len(runs)
        BY <1>1, <3>1, SightingIs
      <4>2. x.after < y.after
        BY <1>5, <3>1, <4>1, <2>1, RunsAre, <1>1 DEF Earlier
      <4>3. x.after \in Before(y.after)
        BY <2>1, <4>1, <4>2 DEF Before
      <4> QED
        BY <1>2, <1>4, <2>3, <4>1, <4>3 DEF Follows
    <3>2. CASE x.nth # 0
      <4>1. /\ x.nth \in 1..Len(unfinished) /\ unfinished[x.nth].platform = p
            /\ x.after = unfinished[x.nth].after /\ RunAt(x) = unfinished[x.nth] /\ x.nth \in Nat
        BY <1>1, <3>2, SightingIs
      <4>2. x.after < y.after
        BY <1>1, <1>5, <4>1, LeftAre, <3>2 DEF Earlier
      <4>3. LeftIgnored(x.nth, y.after)
        BY <1>1, <2>1, <4>1, <4>2 DEF LeftInv
      <4> QED
        BY <1>2, <1>4, <2>1, <4>1, <4>3 DEF LeftIgnored
    <3> QED
      BY <3>1, <3>2
  <2> QED
    BY <1>3, <1>4, <2>1, <2>2, <2>3, <2>4 DEF Follows, Row
<1>6. CASE y.nth # 0
  <2> DEFINE n == y.nth
  <2>1. /\ n \in 1..Len(unfinished) /\ unfinished[n].platform = p /\ n \in Nat /\ n > 0
        /\ y.after = unfinished[n].after /\ y.after \in Nat /\ RunAt(y) = unfinished[n]
    BY <1>1, <1>6, SightingIs
  <2>2. FinishedBefore(p, y) = Base(n)
    <3>1. \A r \in RunsOf(p) : Earlier([after |-> r, nth |-> 0], y) <=> r <= y.after
      BY <1>1, <2>1, RunsAre DEF Earlier
    <3> QED
      BY <2>1, <3>1 DEF FinishedBefore, Base
  <2>3. LeftFollows(n, i) /\ i \in LeftRows
    BY <1>1, <1>4, <2>1, LeftAre DEF LeftInv
  <2>4. i.status = "ignored" => \A x \in Listing(p, w) : Earlier(x, y) => Said(x, w) = "ignored"
    <3> SUFFICES ASSUME i.status = "ignored", NEW x \in Listing(p, w), Earlier(x, y)
                 PROVE  RowIn(RunAt(x).rows, w).status = "ignored"
      BY DEF Said
    <3>1. CASE x.nth = 0
      <4>1. x.after \in RunsOf(p) /\ RunAt(x) = runs[x.after] /\ x.after \in 1..Len(runs)
            /\ x = [after |-> x.after, nth |-> 0]
        BY <1>1, <3>1, SightingIs
      <4>2. x.after \in FinishedBefore(p, y)
        BY <4>1 DEF FinishedBefore
      <4>3. x.after \in Base(n)
        BY <2>2, <4>2
      <4>4. \A j \in runs[x.after].rows : j.warning = i.warning => j.status = "ignored"
        BY <2>3, <4>3 DEF LeftFollows
      <4> QED
        BY <1>2, <1>4, <4>1, <4>4
    <3>2. CASE x.nth # 0
      <4>1. /\ x.nth \in 1..Len(unfinished) /\ unfinished[x.nth].platform = p
            /\ x.after = unfinished[x.nth].after /\ RunAt(x) = unfinished[x.nth]
        BY <1>1, <3>2, SightingIs
      <4>2. Sooner(x.nth, n)
        BY <2>1, <4>1 DEF Earlier, Sooner
      <4>3. \A j \in unfinished[x.nth].rows : j.warning = i.warning => j.status = "ignored"
        BY <2>1, <2>3, <4>1, <4>2 DEF LeftFollows
      <4> QED
        BY <1>2, <1>4, <4>1, <4>3
    <3> QED
      BY <3>1, <3>2
  <2>5. i.status \in Status
    BY <2>3 DEF LeftRows
  <2> QED
    BY <1>3, <1>4, <2>1, <2>2, <2>3, <2>4, <2>5 DEF LeftFollows
<1> QED
  BY <1>1, <1>5, <1>6, SightingIs

\* What the timeline may say of an event.
Tells(p, w, e) ==
  CASE e.to = "existing" -> \/ e.was = "new"
                            \/ e.was = "fixed" /\ \A x \in e.since : x.nth # 0
                            \/ FinishedBefore(p, e.at) = {}
    [] e.to = "fixed"    -> e.was \in {"new", "existing"} /\ RunAt(e.at).compared
    [] e.to = "ignored"  -> e.was = "created"
    [] e.to = "new"      -> \/ e.was \in {"created", "fixed", "ignored"}
                            \/ \E n \in FinishedBefore(p, e.at) : w \notin Warnings(runs[n].rows)

\* The last finished run before a sighting, if it lists the warning, is a sighting too; what
\* was sighted since then, before this one, was compared with that run.
LEMMA LastFinished ==
  ASSUME IInv, NEW p \in Platform, NEW w, NEW y \in Listing(p, w), NEW x \in Listing(p, w),
         FinishedBefore(p, y) # {}, NEW l, l = Max(FinishedBefore(p, y)),
         w \in Warnings(runs[l].rows), Earlier(x, y), ~Earlier(x, [after |-> l, nth |-> 0])
  PROVE  /\ [after |-> l, nth |-> 0] \in Listing(p, w) /\ Earlier([after |-> l, nth |-> 0], y)
         /\ x.nth = 0 => x.after = l
         /\ x.nth # 0 => FinishedBefore(p, x) = FinishedBefore(p, y)
<1>1. TypeOK
  BY DEF IInv
<1>2. FinishedBefore(p, y) \subseteq 1..Len(runs) /\ Len(runs) \in Nat
  BY <1>1, RunsAre DEF FinishedBefore
<1>3. l \in FinishedBefore(p, y) /\ \A r \in FinishedBefore(p, y) : r <= l
  BY <1>2, MaxIs
<1>4. l \in RunsOf(p) /\ l \in 1..Len(runs) /\ Earlier([after |-> l, nth |-> 0], y)
  BY <1>2, <1>3 DEF FinishedBefore
<1>5. [after |-> l, nth |-> 0] \in Listing(p, w)
  BY <1>4 DEF Listing, ListedBy
<1>6. x.after \in Nat /\ x.nth \in Nat /\ y.after \in Nat /\ y.nth \in Nat
  BY <1>1, SightingIs
<1>7. l <= x.after
  BY <1>4, <1>6 DEF Earlier
<1>8. ASSUME x.nth = 0 PROVE x.after = l
  <2>1. x.after \in RunsOf(p) /\ x = [after |-> x.after, nth |-> 0]
    BY <1>1, <1>8, SightingIs
  <2>2. x.after \in FinishedBefore(p, y)
    BY <2>1 DEF FinishedBefore
  <2> QED
    BY <1>3, <1>4, <1>6, <1>7, <2>2
<1>9. ASSUME x.nth # 0 PROVE FinishedBefore(p, x) = FinishedBefore(p, y)
  <2>1. ASSUME NEW r \in RunsOf(p)
        PROVE  Earlier([after |-> r, nth |-> 0], x) <=> Earlier([after |-> r, nth |-> 0], y)
    <3>1. r \in Nat
      BY <1>1, RunsAre
    <3>2. Earlier([after |-> r, nth |-> 0], x) => Earlier([after |-> r, nth |-> 0], y)
      BY <1>6, <1>9, <3>1 DEF Earlier
    <3>3. ASSUME Earlier([after |-> r, nth |-> 0], y) PROVE Earlier([after |-> r, nth |-> 0], x)
      <4>1. r \in FinishedBefore(p, y)
        BY <3>3 DEF FinishedBefore
      <4>2. r <= x.after
        BY <1>3, <1>4, <1>6, <1>7, <3>1, <4>1
      <4> QED
        BY <1>6, <1>9, <3>1, <4>2 DEF Earlier
    <3> QED
      BY <3>2, <3>3
  <2> QED
    BY <2>1 DEF FinishedBefore
<1> QED
  BY <1>4, <1>5, <1>8, <1>9

LEMMA EventIsTrue ==
  ASSUME IInv, NEW p \in Platform, NEW w, NEW y \in Listing(p, w),
         NEW e, e = Event(p, w, y), e.was # e.to
  PROVE  Tells(p, w, e)
<1> DEFINE earlier == {x \in Listing(p, w) : Earlier(x, y)}
           since == {x \in earlier : \A z \in earlier : ~Earlier(x, z)}
           B == FinishedBefore(p, y)
           l == Max(B)
           m == [after |-> l, nth |-> 0]
<1>1. TypeOK /\ UniqueInv
  BY DEF IInv
<1>2. /\ e.at = y /\ e.since = since /\ e.to = Said(y, w)
      /\ since = {} => e.was = "created"
      /\ since # {} => e.was = Said(CHOOSE x \in since : TRUE, w)
  BY DEF Event
<1>3. /\ Said(y, w) \in Status
      /\ Said(y, w) = "new" => B # {} /\ w \notin Warnings(Open(l))
      /\ Said(y, w) = "existing" => B = {} \/ w \in Warnings(Open(l))
      /\ Said(y, w) = "fixed" => RunAt(y).compared /\ B # {} /\ w \in Warnings(Open(l))
      /\ Said(y, w) = "ignored" => \A x \in earlier : Said(x, w) = "ignored"
  BY SaidFollows
<1>4. earlier # {} => since # {}
  <2>1. earlier \subseteq Listing(p, w)
    OBVIOUS
  <2> HIDE DEF earlier
  <2> QED
    BY <1>1, <2>1, LastSighting
<1>5. B # {} => l \in B /\ l \in 1..Len(runs)
  <2>1. B \subseteq 1..Len(runs) /\ Len(runs) \in Nat
    BY <1>1, RunsAre DEF FinishedBefore
  <2> HIDE DEF B
  <2> QED
    BY <2>1, MaxIs
\* Where the last finished run lists the warning, it is among the sightings before.
<1>6. ASSUME B # {}, w \in Warnings(runs[l].rows) PROVE m \in earlier
  <2>1. l \in RunsOf(p) /\ Earlier(m, y)
    BY <1>5, <1>6 DEF FinishedBefore
  <2> HIDE DEF l
  <2> QED
    BY <1>6, <2>1 DEF Listing, ListedBy
<1>7. ASSUME B # {}, w \in Warnings(runs[l].rows), NEW x \in since
      PROVE  /\ m \in Listing(p, w)
             /\ x.nth = 0 => x = m
             /\ x.nth # 0 => FinishedBefore(p, x) = B
  <2>1. x \in Listing(p, w) /\ Earlier(x, y) /\ ~Earlier(x, m) /\ m \in Listing(p, w)
    BY <1>6, <1>7
  <2>2. x = [after |-> x.after, nth |-> x.nth]
    BY <1>1, <2>1, SightingIs
  <2>3. /\ x.nth = 0 => x.after = l
        /\ x.nth # 0 => FinishedBefore(p, x) = FinishedBefore(p, y)
    BY <1>7, <2>1, LastFinished
  <2> QED
    BY <2>1, <2>2, <2>3
<1>8. ASSUME B # {} PROVE w \in Warnings(Open(l)) => w \in Warnings(runs[l].rows)
  BY DEF Warnings, Open
<1>9. ASSUME B # {}, w \in Warnings(Open(l)) PROVE Said(m, w) \in OpenStatus
  <2>1. PICK a \in runs[l].rows : a.warning = w /\ a.status \in OpenStatus
    BY <1>9, OpenAre
  <2>2. RowIn(runs[l].rows, w) = a
    BY <1>1, <1>5, <1>9, <2>1, OnlyRow
  <2> HIDE DEF l
  <2>3. RunAt(m) = runs[l]
    BY DEF RunAt
  <2> QED
    BY <2>1, <2>2, <2>3 DEF Said
<1>10. ASSUME B # {}, w \in Warnings(runs[l].rows), w \notin Warnings(Open(l)) PROVE Said(m, w) \notin OpenStatus
  <2>1. RowIn(runs[l].rows, w) \in runs[l].rows /\ RowIn(runs[l].rows, w).warning = w
    BY <1>10, RowInIs
  <2>2. RowIn(runs[l].rows, w).status \notin OpenStatus
    BY <1>10, <2>1 DEF Open, Warnings
  <2> HIDE DEF l
  <2>3. RunAt(m) = runs[l]
    BY DEF RunAt
  <2> QED
    BY <2>2, <2>3 DEF Said
\* Two last sightings are one.
<1>11. ASSUME NEW x \in since, NEW z \in since PROVE x = z
  <2>1. ~Earlier(x, z) /\ ~Earlier(z, x) /\ x \in Listing(p, w) /\ z \in Listing(p, w)
    BY <1>11
  <2>2. /\ x = [after |-> x.after, nth |-> x.nth] /\ x.after \in Nat /\ x.nth \in Nat
        /\ z = [after |-> z.after, nth |-> z.nth] /\ z.after \in Nat /\ z.nth \in Nat
    BY <1>1, <2>1, SightingIs
  <2>3. x.after = z.after /\ x.nth = z.nth
    BY <2>1, <2>2 DEF Earlier
  <2> QED
    BY <2>2, <2>3
<1> HIDE DEF since, B, l, m
<1>12. since # {} => \E x \in since : e.was = Said(x, w)
  BY <1>2
<1>13. \A x \in since : x \in Listing(p, w) /\ x \in earlier
  BY DEF since
<1>14. \A x \in since : LET C == FinishedBefore(p, x) IN
         /\ Said(x, w) \in Status
         /\ Said(x, w) = "new" => C # {} /\ w \notin Warnings(Open(Max(C)))
         /\ Said(x, w) = "existing" => C = {} \/ w \in Warnings(Open(Max(C)))
         /\ Said(x, w) = "ignored" => \A z \in Listing(p, w) : Earlier(z, x) => Said(z, w) = "ignored"
  BY <1>13, SaidFollows
\* After a finished run that has the warning open, an unfinished run never ignores it.
<1>15. ASSUME B # {}, w \in Warnings(Open(l)), NEW x \in since, x.nth # 0 PROVE Said(x, w) \in {"existing", "fixed"}
  <2>1. w \in Warnings(runs[l].rows)
    BY <1>8, <1>15
  <2>2. FinishedBefore(p, x) = B /\ m \in Listing(p, w)
    BY <1>7, <1>15, <2>1
  <2>3. Earlier(m, x)
    <3>1. l \in RunsOf(p) /\ Earlier([after |-> l, nth |-> 0], x)
      BY <1>5, <1>15, <2>2 DEF FinishedBefore
    <3> QED
      BY <3>1 DEF m
  <2>4. Said(m, w) # "ignored"
    BY <1>9, <1>15 DEF OpenStatus
  <2>5. Said(x, w) # "ignored"
    BY <1>14, <1>15, <2>2, <2>3, <2>4
  <2>6. Said(x, w) # "new"
    BY <1>14, <1>15, <2>2 DEF l
  <2> QED
    BY <1>14, <1>15, <2>5, <2>6 DEF Status
<1>17. CASE Said(y, w) = "existing"
  <2>1. CASE B = {}
    BY <1>2, <1>17, <2>1 DEF Tells, B
  <2>2. CASE B # {}
    <3>1. w \in Warnings(Open(l)) /\ w \in Warnings(runs[l].rows)
      BY <1>3, <1>8, <1>17, <2>2
    <3>2. since # {}
      BY <1>4, <1>6, <2>2, <3>1
    <3>3. PICK x \in since : e.was = Said(x, w)
      BY <1>12, <3>2
    <3>4. CASE x.nth = 0
      <4>1. Said(x, w) \in OpenStatus
        BY <1>7, <1>9, <2>2, <3>1, <3>4
      <4>2. e.was = "new"
        BY <1>2, <1>17, <3>3, <4>1 DEF OpenStatus
      <4> QED
        BY <1>2, <1>17, <4>2 DEF Tells
    <3>5. CASE x.nth # 0
      <4>1. e.was = "fixed"
        BY <1>2, <1>15, <1>17, <2>2, <3>1, <3>3, <3>5
      <4>2. \A z \in e.since : z.nth # 0
        BY <1>2, <1>11, <3>5
      <4> QED
        BY <1>2, <1>17, <4>1, <4>2 DEF Tells
    <3> QED
      BY <3>4, <3>5
  <2> QED
    BY <2>1, <2>2
<1>18. CASE Said(y, w) = "fixed"
  <2>1. B # {} /\ w \in Warnings(Open(l)) /\ w \in Warnings(runs[l].rows) /\ RunAt(y).compared
    BY <1>3, <1>8, <1>18
  <2>2. since # {}
    BY <1>4, <1>6, <2>1
  <2>3. PICK x \in since : e.was = Said(x, w)
    BY <1>12, <2>2
  <2>4. e.was \in {"new", "existing"}
    <3>1. CASE x.nth = 0
      BY <1>7, <1>9, <2>1, <2>3, <3>1 DEF OpenStatus
    <3>2. CASE x.nth # 0
      BY <1>2, <1>15, <1>18, <2>1, <2>3, <3>2
    <3> QED
      BY <3>1, <3>2
  <2> QED
    BY <1>2, <1>18, <2>1, <2>4 DEF Tells
<1>19. CASE Said(y, w) = "ignored"
  <2>1. since # {} => e.was = "ignored"
    BY <1>3, <1>12, <1>13, <1>19
  <2>2. e.was = "created"
    BY <1>2, <1>19, <2>1
  <2> QED
    BY <1>2, <1>19, <2>2 DEF Tells
<1>20. CASE Said(y, w) = "new"
  <2>1. B # {} /\ w \notin Warnings(Open(l))
    BY <1>3, <1>20
  <2>2. CASE w \notin Warnings(runs[l].rows)
    BY <1>2, <1>5, <1>20, <2>1, <2>2 DEF Tells, B
  <2>3. CASE w \in Warnings(runs[l].rows)
    <3>1. since # {}
      BY <1>4, <1>6, <2>1, <2>3
    <3>2. PICK x \in since : e.was = Said(x, w)
      BY <1>12, <3>1
    <3>3. Said(x, w) # "existing"
      <4>1. CASE x.nth = 0
        BY <1>7, <1>10, <2>1, <2>3, <4>1 DEF OpenStatus
      <4>2. CASE x.nth # 0
        BY <1>7, <1>14, <2>1, <2>3, <4>2 DEF l
      <4> QED
        BY <4>1, <4>2
    <3>4. e.was \in {"fixed", "ignored"}
      BY <1>2, <1>14, <1>20, <3>2, <3>3 DEF Status
    <3> QED
      BY <1>2, <1>20, <3>4 DEF Tells
  <2> QED
    BY <2>2, <2>3
<1> QED
  BY <1>3, <1>17, <1>18, <1>19, <1>20 DEF Status

LEMMA CreatorIsFirst ==
  ASSUME IInv, NEW p \in Platform, NEW w, ListedBy(p, w) # {},
         RowIn(runs[Max(ListedBy(p, w))].rows, w).author # NoAuthor
  PROVE  Creator(p, w) <= RowIn(runs[Max(ListedBy(p, w))].rows, w).author
<1> DEFINE L == Max(ListedBy(p, w))
           F == Min(ListedBy(p, w))
           last == RowIn(runs[L].rows, w)
           first == RowIn(runs[F].rows, w)
<1>1. TypeOK /\ ListedBy(p, w) \subseteq 1..Len(runs) /\ Len(runs) \in Nat
  BY RunsAre DEF IInv, ListedBy, RunsOf
<1>2. L \in ListedBy(p, w) /\ F \in ListedBy(p, w) /\ \A n \in ListedBy(p, w) : F <= n
  BY <1>1, MaxIs, MinIs
<1>3. /\ L \in 1..Len(runs) /\ runs[L].platform = p /\ last \in runs[L].rows /\ last.warning = w
      /\ F \in 1..Len(runs) /\ runs[F].platform = p /\ first \in runs[F].rows /\ first.warning = w
  <2> HIDE DEF L, F
  <2> QED
    BY <1>2, ListedByIs
<1> HIDE DEF L, F, last, first
<1>4. PICK o \in RunsOf(p) : o <= L /\ CameIn(L, w, o) /\ FirstNamed(L, last.author, o)
  <2>1. last.author # NoAuthor
    BY DEF last, L
  <2> QED
    BY <1>3, <2>1, AuthorIs DEF IInv, Attributed
<1>5. o \in 1..Len(runs) /\ o \in ListedBy(p, w)
  <2>1. o \in 1..Len(runs) /\ o <= o
    BY <1>1, <1>4, RunsAre
  <2> QED
    BY <1>3, <1>4, <2>1 DEF ListedBy, CameIn
<1>6. last.author \in Int /\ o <= last.author /\ F <= o /\ F \in Int /\ F > 0
  BY <1>1, <1>2, <1>3, <1>4, <1>5 DEF FirstNamed
<1>7. CASE first.author = NoAuthor
  <2>1. NamedBy(F) \in {0, F}
    BY DEF NamedBy, NoAuthor
  <2>2. Creator(p, w) = NamedBy(F)
    BY <1>7 DEF Creator, first, F
  <2> QED
    BY <1>5, <1>6, <2>1, <2>2 DEF last, L
<1>8. CASE first.author # NoAuthor
  <2>1. Creator(p, w) = first.author
    BY <1>8 DEF Creator, first, F
  <2>2. PICK q \in RunsOf(p) : q <= F /\ FirstNamed(F, first.author, q)
    BY <1>3, <1>8, AuthorIs DEF IInv, Attributed
  <2>3. first.author \in Int /\ first.author <= F
    BY <1>1, <1>6, <2>2, RunsAre DEF FirstNamed
  <2> QED
    BY <1>5, <1>6, <2>1, <2>3 DEF last, L
<1> QED
  BY <1>7, <1>8

LEMMA TimelineFollows == IInv => TimelineIsTrue
<1> SUFFICES ASSUME IInv, NEW p \in Platform, NEW w \in Warning
             PROVE  /\ \A e \in Timeline(p, w) : Tells(p, w, e)
                    /\ LET last == RowIn(runs[Max(ListedBy(p, w))].rows, w)
                           first == [after |-> Min(ListedBy(p, w)), nth |-> 0]
                       IN ListedBy(p, w) # {} /\ (\A x \in Listing(p, w) : ~Earlier(x, first)) /\ last.author # NoAuthor =>
                            Creator(p, w) <= last.author
  BY DEF TimelineIsTrue, Tells
<1>1. \A e \in Timeline(p, w) : e.was # e.to /\ \E y \in Listing(p, w) : e = Event(p, w, y)
  BY DEF Timeline
<1>2. \A e \in Timeline(p, w) : Tells(p, w, e)
  BY <1>1, EventIsTrue
<1>3. ListedBy(p, w) # {} /\ RowIn(runs[Max(ListedBy(p, w))].rows, w).author # NoAuthor =>
        Creator(p, w) <= RowIn(runs[Max(ListedBy(p, w))].rows, w).author
  BY CreatorIsFirst
<1> QED
  BY <1>2, <1>3

\* The timeline of a warning tells what happened to it.
THEOREM TimelinesAreTrue == Spec => []TimelineIsTrue
<1> QED
  BY Invariance, TimelineFollows, PTL

-----------------------------------------------------------------------------
(* Counting. *)

LEMMA NoMoreBy ==
  ASSUME NEW S, NEW T, IsFiniteSet(T), NEW f,
         \A x \in S : f[x] \in T, \A x, y \in S : f[x] = f[y] => x = y
  PROVE  IsFiniteSet(S) /\ Cardinality(S) <= Cardinality(T)
<1> DEFINE g == [x \in S |-> f[x]]
<1>1. g \in Injection(S, T)
  BY DEF Injection, IsInjective
<1> QED
  BY <1>1, FS_Injection

LEMMA NoMoreThan ==
  ASSUME NEW S, NEW T, IsFiniteSet(S), NEW f,
         \A y \in T : \E x \in S : f[x] = y
  PROVE  IsFiniteSet(T) /\ Cardinality(T) <= Cardinality(S)
<1> DEFINE g == [y \in T |-> CHOOSE x \in S : f[x] = y]
<1>1. \A y \in T : g[y] \in S /\ f[g[y]] = y
  OBVIOUS
<1>2. \A x, y \in T : g[x] = g[y] => x = y
  BY <1>1
<1> HIDE DEF g
<1> QED
  BY <1>1, <1>2, NoMoreBy

\* The rows of a run are no more than the warnings.
LEMMA RowsFinite ==
  ASSUME IInv, NEW r \in 1..Len(runs)
  PROVE  IsFiniteSet(runs[r].rows)
<1> DEFINE f == [i \in runs[r].rows |-> i.warning]
<1>1. IsFiniteSet(Warning)
  BY DashboardsAssumption
<1>2. \A i \in runs[r].rows : f[i] \in Warning
  BY RunsAre DEF IInv, RunRow, Row
<1>3. \A i, j \in runs[r].rows : f[i] = f[j] => i = j
  BY DEF IInv, UniqueInv
<1> HIDE DEF f
<1> QED
  BY <1>1, <1>2, <1>3, NoMoreBy

LEMMA RunsFinite ==
  ASSUME TypeOK, NEW T \in SUBSET (1..Len(runs))
  PROVE  IsFiniteSet(T) /\ Cardinality(T) \in Nat
<1>1. IsFiniteSet(1..Len(runs))
  BY RunsAre, FS_Interval
<1>2. IsFiniteSet(T)
  BY <1>1, FS_Subset
<1> QED
  BY <1>2, FS_CardinalityType

LEMMA PlatformsFinite == IsFiniteSet(Platform)
<1>1. IsFiniteSet({"windows"}) /\ IsFiniteSet({"windows"} \cup {"linux"})
  BY FS_Singleton, FS_AddElement
<1>2. Platform = ({"windows"} \cup {"linux"}) \cup {"macos"}
  BY DEF Platform
<1> QED
  BY <1>1, <1>2, FS_AddElement

-----------------------------------------------------------------------------
(* The window of a history. *)

LEMMA AgeIs ==
  ASSUME TypeOK, NEW p, NEW r \in RunsOf(p)
  PROVE  /\ Age(r) = Cardinality({n \in RunsOf(p) : n > r}) /\ Age(r) \in Nat
         /\ \A s \in RunsOf(p) : r <= s => Age(s) <= Age(r)
         /\ Age(r) = 0 <=> \A n \in RunsOf(p) : n <= r
<1>1. /\ RunsOf(p) \subseteq 1..Len(runs) /\ \A s \in RunsOf(p) : runs[s].platform = p
      /\ r \in 1..Len(runs)
  BY DEF RunsOf
<1>2. \A s \in RunsOf(p) : Age(s) = Cardinality({n \in RunsOf(p) : n > s})
  BY <1>1 DEF Age
<1>3. \A s \in RunsOf(p) : {n \in RunsOf(p) : n > s} \in SUBSET (1..Len(runs))
  BY <1>1
<1>4. \A s \in RunsOf(p) : IsFiniteSet({n \in RunsOf(p) : n > s}) /\ Age(s) \in Nat
  BY <1>2, <1>3, RunsFinite
<1>5. ASSUME NEW s \in RunsOf(p), r <= s PROVE Age(s) <= Age(r)
  <2> DEFINE Later(m) == {n \in RunsOf(p) : n > m}
  <2>1. Later(s) \in SUBSET Later(r)
    BY <1>1, <1>5
  <2>2. IsFiniteSet(Later(r)) /\ Age(s) = Cardinality(Later(s)) /\ Age(r) = Cardinality(Later(r))
    BY <1>2, <1>4, <1>5
  <2> HIDE DEF Later
  <2> QED
    BY <2>1, <2>2, FS_Subset
<1>6. Age(r) = 0 <=> {n \in RunsOf(p) : n > r} = {}
  BY <1>2, <1>4, FS_EmptySet
<1>7. {n \in RunsOf(p) : n > r} = {} <=> \A n \in RunsOf(p) : n <= r
  BY <1>1
<1> QED
  BY <1>2, <1>4, <1>5, <1>6, <1>7

LEMMA LatestInWindow ==
  ASSUME TypeOK, NEW p \in Analysed
  PROVE  /\ Latest(p) \in Window(p) /\ Age(Latest(p)) = 0
         /\ \A r \in RunsOf(p) : Age(r) = 0 => r = Latest(p)
<1>1. Latest(p) \in RunsOf(p) /\ \A r \in RunsOf(p) : r <= Latest(p)
  BY LatestIs
<1>2. Age(Latest(p)) = 0
  BY <1>1, AgeIs
<1>3. 0 < Limit
  BY DashboardsAssumption
<1>4. ASSUME NEW r \in RunsOf(p), Age(r) = 0 PROVE r = Latest(p)
  <2>1. Latest(p) <= r /\ r <= Latest(p)
    BY <1>1, <1>4, AgeIs
  <2>2. r \in Int /\ Latest(p) \in Int
    BY <1>1 DEF RunsOf
  <2> QED
    BY <2>1, <2>2
<1> QED
  BY <1>1, <1>2, <1>3, <1>4 DEF Window

LEMMA LatestDiffers ==
  ASSUME TypeOK, NEW p \in Analysed, NEW q \in Analysed, Latest(p) = Latest(q)
  PROVE  p = q
BY LatestIs DEF RunsOf

LEMMA FirstWave ==
  ASSUME TypeOK
  PROVE  Wave(0) = LatestRuns
<1>1. \A p \in Platform : \A r \in Window(p) : p \in Analysed /\ r \in RunsOf(p)
  BY DEF Window, Analysed
<1>2. \A p \in Analysed : p \in Platform
  BY DEF Analysed
<1> QED
  BY <1>1, <1>2, LatestInWindow DEF Wave, Seen, LatestRuns

-----------------------------------------------------------------------------
(* The list under Common. *)

LEMMA CommonList ==
  ASSUME NEW status, NEW severity
  PROVE  /\ \A c \in ListOfCommon(status, severity) :
              c \in ListOfAll(status, severity) /\ c[2].key \in CommonKeys(LatestRuns)
         /\ \A c, d \in ListOfCommon(status, severity) : c[2].key = d[2].key => c = d
         /\ \A x \in ListOfAll(status, severity) : x[2].key \in CommonKeys(LatestRuns) =>
              \E c \in ListOfCommon(status, severity) : c[2].key = x[2].key
<1> DEFINE keys == CommonKeys(LatestRuns)
           passed == IF keys = {} THEN {} ELSE {x \in ListOfAll(status, severity) : x[2].key \in keys}
           Shown(k) == CHOOSE x \in passed : x[2].key = k
<1>1. ListOfCommon(status, severity) = {Shown(k) : k \in {x[2].key : x \in passed}}
  BY DEF ListOfCommon
<1>2. \A k \in {x[2].key : x \in passed} : Shown(k) \in passed /\ Shown(k)[2].key = k
  <2> HIDE DEF passed
  <2> QED
    OBVIOUS
<1>3. \A x \in passed : x \in ListOfAll(status, severity) /\ x[2].key \in keys
  OBVIOUS
<1>4. \A x \in ListOfAll(status, severity) : x[2].key \in keys => x \in passed
  OBVIOUS
<1> HIDE DEF passed, Shown, keys
<1>5. \A c \in ListOfCommon(status, severity) : c \in passed /\ c = Shown(c[2].key)
  BY <1>1, <1>2
<1>6. \A c, d \in ListOfCommon(status, severity) : c[2].key = d[2].key => c = d
  BY <1>5
<1>7. \A x \in passed : \E c \in ListOfCommon(status, severity) : c[2].key = x[2].key
  BY <1>1, <1>2
<1> QED
  BY <1>3, <1>4, <1>5, <1>6, <1>7 DEF keys

LEMMA OpenList ==
  ASSUME NEW p \in Analysed, NEW k
  PROVE  k \in Keys(Open(Latest(p))) <=> \E x \in ListOf(p, NoFilter, NoFilter) : x[2].key = k
<1>1. \A i \in runs[Latest(p)].rows : Matches(i, NoFilter, NoFilter) <=> i \in Open(Latest(p))
  BY DEF Matches, Open
<1>2. ListOf(p, NoFilter, NoFilter) = {<<Latest(p), i>> : i \in Open(Latest(p))}
  BY <1>1 DEF ListOf, Open
<1>3. ASSUME k \in Keys(Open(Latest(p))) PROVE \E x \in ListOf(p, NoFilter, NoFilter) : x[2].key = k
  <2>1. PICK i \in Open(Latest(p)) : i.key = k
    BY <1>3 DEF Keys
  <2>2. <<Latest(p), i>> \in ListOf(p, NoFilter, NoFilter) /\ <<Latest(p), i>>[2].key = k
    BY <1>2, <2>1
  <2> QED
    BY <2>2
<1>4. ASSUME NEW x \in ListOf(p, NoFilter, NoFilter), x[2].key = k PROVE k \in Keys(Open(Latest(p)))
  <2>1. PICK i \in Open(Latest(p)) : x = <<Latest(p), i>>
    BY <1>2
  <2> QED
    BY <1>4, <2>1 DEF Keys
<1> QED
  BY <1>3, <1>4

LEMMA CommonFollows == IInv => CommonOpenEverywhere
<1> SUFFICES ASSUME IInv PROVE CommonOpenEverywhere
  OBVIOUS
<1>0. TypeOK
  BY DEF IInv
<1>1. \A c, d \in ListOfCommon(NoFilter, NoFilter) : c[2].key = d[2].key => c = d
  BY CommonList
<1>2. ASSUME NEW c \in ListOfCommon(NoFilter, NoFilter), NEW p \in Analysed
      PROVE  \E i \in ListOf(p, NoFilter, NoFilter) : i[2].key = c[2].key
  <2>1. c[2].key \in CommonKeys(LatestRuns)
    BY CommonList
  <2>2. c[2].key \in Keys(Open(Latest(p)))
    BY <2>1 DEF CommonKeys, LatestRuns
  <2> QED
    BY <2>2, OpenList
<1>3. ASSUME Cardinality(Analysed) > 1, NEW d \in Defect,
             \A p \in Analysed : \E i \in ListOf(p, NoFilter, NoFilter) : i[2].key = <<d, Relative>>
      PROVE  \E c \in ListOfCommon(NoFilter, NoFilter) : c[2].key = <<d, Relative>>
  <2> DEFINE k == <<d, Relative>>
  <2>1. IsFiniteSet(LatestRuns) /\ Cardinality(LatestRuns) \in Nat
    <3>1. LatestRuns \in SUBSET (1..Len(runs))
      BY <1>0, LatestIs, RunsAre DEF LatestRuns
    <3> QED
      BY <1>0, <3>1, RunsFinite
  <2>2. Cardinality(Analysed) <= Cardinality(LatestRuns) /\ Cardinality(Analysed) \in Nat
    <3> DEFINE f == [p \in Analysed |-> Latest(p)]
    <3>1. \A p \in Analysed : f[p] \in LatestRuns
      BY DEF LatestRuns
    <3>2. \A p, q \in Analysed : f[p] = f[q] => p = q
      BY <1>0, LatestDiffers
    <3> HIDE DEF f
    <3> QED
      BY <2>1, <3>1, <3>2, NoMoreBy, FS_CardinalityType
  <2>3. \A r \in LatestRuns : k \in Keys(Open(r))
    BY <1>3, OpenList DEF LatestRuns
  <2>4. PICK p \in Analysed : TRUE
    BY <1>3, FS_EmptySet
  <2>5. Latest(p) \in LatestRuns
    BY DEF LatestRuns
  <2>6. k \in CommonKeys(LatestRuns)
    <3>1. ~(Cardinality(LatestRuns) < 2)
      BY <1>3, <2>1, <2>2
    <3> HIDE DEF k
    <3> QED
      BY <2>3, <2>5, <3>1 DEF CommonKeys
  <2>7. PICK x \in ListOf(p, NoFilter, NoFilter) : x[2].key = k
    BY <1>3
  <2>8. x \in ListOfAll(NoFilter, NoFilter)
    BY <2>7 DEF ListOfAll, Analysed
  <2> HIDE DEF k
  <2> QED
    BY <2>6, <2>7, <2>8, CommonList DEF k
<1>4. ASSUME NEW k \in CommonKeys(LatestRuns), k \notin CountedInCommon
      PROVE  \E p \in Analysed : \E r \in Window(p) : k \in Keys(Fixed(r))
  <2>1. PICK p \in Analysed : k \in Keys(Open(Latest(p)))
    BY <1>4 DEF CommonKeys, LatestRuns
  <2>2. Latest(p) \in Seen /\ Age(Latest(p)) = 0 /\ Wave(0) = LatestRuns
    BY <1>0, LatestInWindow, FirstWave DEF Analysed, Seen
  <2>3. k \in KeysInWave(Latest(p), Open(Latest(p)))
    BY <1>4, <2>1, <2>2 DEF KeysInWave
  <2>4. PICK r \in Seen : k \in KeysInWave(r, Fixed(r))
    BY <1>4, <2>2, <2>3 DEF CountedInCommon
  <2> QED
    BY <2>4 DEF Seen, KeysInWave, Window, Analysed
<1> QED
  BY <1>1, <1>2, <1>3, <1>4 DEF CommonOpenEverywhere

\* The list under Common shows what is open everywhere, and each defect of it once.
THEOREM CommonIsOpenEverywhere == Spec => []CommonOpenEverywhere
<1> QED
  BY Invariance, CommonFollows, PTL

-----------------------------------------------------------------------------
(* The lists are finite, and their lengths can be compared. *)

LEMMA ListFinite ==
  ASSUME IInv, NEW p \in Platform, NEW status, NEW severity
  PROVE  IsFiniteSet(ListOf(p, status, severity))
<1>1. CASE p \notin Analysed
  <2>1. ListOf(p, status, severity) = {}
    BY <1>1 DEF ListOf
  <2> QED
    BY <2>1, FS_EmptySet
<1>2. CASE p \in Analysed
  <2>1. Latest(p) \in 1..Len(runs)
    BY <1>2, LatestIs, RunsAre DEF IInv
  <2>2. IsFiniteSet(runs[Latest(p)].rows)
    BY <2>1, RowsFinite
  <2> DEFINE f == [i \in runs[Latest(p)].rows |-> <<Latest(p), i>>]
  <2>3. \A x \in ListOf(p, status, severity) : \E i \in runs[Latest(p)].rows : f[i] = x
    BY <1>2 DEF ListOf
  <2> HIDE DEF f
  <2> QED
    BY <2>2, <2>3, NoMoreThan
<1> QED
  BY <1>1, <1>2

LEMMA ListOfAllIs ==
  ASSUME NEW status, NEW severity
  PROVE  ListOfAll(status, severity) =
           (ListOf("windows", status, severity) \cup ListOf("linux", status, severity))
             \cup ListOf("macos", status, severity)
BY DEF ListOfAll, Platform

LEMMA ListsFinite ==
  ASSUME IInv, NEW status, NEW severity, NEW view \in Views
  PROVE  IsFiniteSet(List(view, status, severity))
<1>1. \A p \in Platform : IsFiniteSet(ListOf(p, status, severity))
  BY ListFinite
<1>2. IsFiniteSet(ListOfAll(status, severity))
  <2>1. "windows" \in Platform /\ "linux" \in Platform /\ "macos" \in Platform
    BY DEF Platform
  <2> QED
    BY <1>1, <2>1, ListOfAllIs, FS_Union
<1>3. IsFiniteSet(ListOfCommon(status, severity))
  <2>1. ListOfCommon(status, severity) \in SUBSET ListOfAll(status, severity)
    BY CommonList
  <2> QED
    BY <1>2, <2>1, FS_Subset
<1> QED
  BY <1>1, <1>2, <1>3 DEF List

-----------------------------------------------------------------------------
(* The counts beside a list. *)

LEMMA ApiListIs ==
  ASSUME IInv, NEW status \in Status, NEW severity, runs # <<>>
  PROVE  ApiList(status, severity) = List(runs[Len(runs)].platform, status, severity)
<1> DEFINE p == runs[Len(runs)].platform
<1>1. TypeOK /\ Len(runs) \in 1..Len(runs) /\ runs[Len(runs)] \in RunRow
  BY RunsAre DEF IInv, TypeOK
<1>2. p \in Platform /\ p \in Analysed /\ Latest(p) = Len(runs)
  <2>1. p \in Platform /\ Len(runs) \in RunsOf(p)
    BY <1>1 DEF RunRow, RunsOf
  <2>2. p \in Analysed
    BY <2>1 DEF Analysed
  <2>3. Latest(p) \in RunsOf(p) /\ Len(runs) <= Latest(p) /\ Latest(p) \in 1..Len(runs)
    BY <1>1, <2>1, <2>2, LatestIs, RunsAre
  <2> QED
    BY <2>1, <2>2, <2>3
<1>3. status # NoFilter
  BY DEF Status, NoFilter
<1> HIDE DEF p
<1>4. List(p, status, severity) = ListOf(p, status, severity)
  BY <1>2 DEF List
<1>5. \A i \in runs[Len(runs)].rows :
        Matches(i, status, severity) <=> status \in {NoFilter, i.status}
                                         /\ severity \in {NoFilter, SeverityOf[i.warning]}
  BY <1>3 DEF Matches
<1>6. ListOf(p, status, severity) =
        {<<Len(runs), i>> : i \in {j \in runs[Len(runs)].rows : Matches(j, status, severity)}}
  BY <1>2 DEF ListOf
<1>7. ApiList(status, severity) =
        {<<Len(runs), i>> : i \in {j \in runs[Len(runs)].rows :
           status \in {NoFilter, j.status} /\ severity \in {NoFilter, SeverityOf[j.warning]}}}
  BY DEF ApiList
<1>8. {j \in runs[Len(runs)].rows : Matches(j, status, severity)} =
      {j \in runs[Len(runs)].rows :
           status \in {NoFilter, j.status} /\ severity \in {NoFilter, SeverityOf[j.warning]}}
  BY <1>5
<1> QED
  BY <1>4, <1>6, <1>7, <1>8 DEF p

LEMMA ExportIs ==
  ASSUME IInv, runs # <<>>
  PROVE  Exported = UNION {{x[2] : x \in List(runs[Len(runs)].platform, status, NoFilter)} : status \in Status}
<1>1. \A status \in Status : List(runs[Len(runs)].platform, status, NoFilter) = ApiList(status, NoFilter)
  BY ApiListIs
<1>2. \A status \in Status :
        {x[2] : x \in ApiList(status, NoFilter)} = {i \in runs[Len(runs)].rows : i.status = status}
  <2> SUFFICES ASSUME NEW status \in Status
               PROVE  {x[2] : x \in ApiList(status, NoFilter)} = {i \in runs[Len(runs)].rows : i.status = status}
    OBVIOUS
  <2>1. status # NoFilter
    BY DEF Status, NoFilter
  <2>2. ApiList(status, NoFilter) = {<<Len(runs), i>> : i \in {j \in runs[Len(runs)].rows : j.status = status}}
    BY <2>1 DEF ApiList
  <2>3. \A i : <<Len(runs), i>>[2] = i
    OBVIOUS
  <2>4. \A i \in runs[Len(runs)].rows : i.status = status => i \in {x[2] : x \in ApiList(status, NoFilter)}
    BY <2>2, <2>3
  <2>5. \A x \in ApiList(status, NoFilter) : x[2] \in runs[Len(runs)].rows /\ x[2].status = status
    <3> SUFFICES ASSUME NEW x \in ApiList(status, NoFilter)
                 PROVE  x[2] \in runs[Len(runs)].rows /\ x[2].status = status
      OBVIOUS
    <3>1. PICK i \in runs[Len(runs)].rows : i.status = status /\ x = <<Len(runs), i>>
      BY <2>2
    <3> QED
      BY <2>3, <3>1
  <2> QED
    BY <2>4, <2>5
<1>3. Len(runs) \in 1..Len(runs) /\ \A i \in runs[Len(runs)].rows : i.status \in Status
  <2>1. Len(runs) \in 1..Len(runs) /\ runs[Len(runs)] \in RunRow
    BY RunsAre DEF IInv, TypeOK
  <2> QED
    BY <2>1 DEF RunRow, Row
<1>4. Exported = runs[Len(runs)].rows
  BY DEF Exported
<1>5. Exported = UNION {{i \in runs[Len(runs)].rows : i.status = status} : status \in Status}
  BY <1>3, <1>4
<1> QED
  BY <1>1, <1>2, <1>5

LEMMA MatchesIs ==
  ASSUME NEW i, NEW status \in OpenStatus, NEW severity
  PROVE  /\ Matches(i, status, severity) <=> i.status = status /\ severity \in {NoFilter, SeverityOf[i.warning]}
         /\ Matches(i, NoFilter, NoFilter) <=> i.status \in OpenStatus
BY DEF Matches, OpenStatus, NoFilter

LEMMA PlatformFacets ==
  ASSUME IInv, NEW p \in Analysed, NEW status \in OpenStatus, NEW severity
  PROVE  {x \in ListOf(p, NoFilter, NoFilter) : Matches(x[2], status, severity)} = ListOf(p, status, severity)
<1>1. \A i : Matches(i, status, severity) => Matches(i, NoFilter, NoFilter)
  BY MatchesIs
<1> QED
  BY <1>1 DEF ListOf

LEMMA CommonFacets ==
  ASSUME IInv, NEW status \in OpenStatus, NEW severity
  PROVE  Cardinality({x \in ListOfCommon(NoFilter, NoFilter) : Matches(x[2], status, severity)})
           <= Cardinality(ListOfCommon(status, severity))
<1> DEFINE counted == {x \in ListOfCommon(NoFilter, NoFilter) : Matches(x[2], status, severity)}
           shown == ListOfCommon(status, severity)
           f == [x \in counted |-> CHOOSE c \in shown : c[2].key = x[2].key]
<1>1. \A x \in counted : x \in ListOfAll(status, severity) /\ x[2].key \in CommonKeys(LatestRuns)
  <2> SUFFICES ASSUME NEW x \in counted
               PROVE  x \in ListOfAll(status, severity) /\ x[2].key \in CommonKeys(LatestRuns)
    OBVIOUS
  <2>1. x \in ListOfAll(NoFilter, NoFilter) /\ x[2].key \in CommonKeys(LatestRuns)
    BY CommonList
  <2>2. PICK p \in Platform : x \in ListOf(p, NoFilter, NoFilter)
    BY <2>1 DEF ListOfAll
  <2>3. p \in Analysed
    BY <2>2 DEF ListOf
  <2>4. x \in ListOf(p, status, severity)
    BY <2>2, <2>3, PlatformFacets
  <2> QED
    BY <2>1, <2>4 DEF ListOfAll
<1>2. \A x \in counted : f[x] \in shown /\ f[x][2].key = x[2].key
  <2>1. \A x \in counted : \E c \in shown : c[2].key = x[2].key
    BY <1>1, CommonList
  <2> HIDE DEF counted, shown
  <2> QED
    BY <2>1
<1>3. \A x, y \in counted : f[x] = f[y] => x = y
  <2>1. \A x, y \in counted : x[2].key = y[2].key => x = y
    BY CommonList
  <2> HIDE DEF counted, f
  <2> QED
    BY <1>2, <2>1
<1>4. IsFiniteSet(shown)
  <2>1. "common" \in Views /\ List("common", status, severity) = shown
    BY DEF Views, List, Platform
  <2> QED
    BY <2>1, ListsFinite
<1> HIDE DEF f
<1> QED
  BY <1>2, <1>3, <1>4, NoMoreBy

LEMMA FacetsFollow == IInv => FacetsCountTheList
<1> SUFFICES ASSUME IInv PROVE FacetsCountTheList
  OBVIOUS
<1>1. \A status \in Status, severity \in Severity \cup {NoFilter} :
        runs # <<>> => ApiList(status, severity) = List(runs[Len(runs)].platform, status, severity)
  BY ApiListIs
<1>2. ASSUME NEW view \in Analysed, NEW status \in OpenStatus, NEW severity
      PROVE  /\ SeverityFacet(List(view, NoFilter, NoFilter), status, severity)
                   = Cardinality(List(view, status, severity))
             /\ StatusFacet(List(view, NoFilter, NoFilter), severity, status)
                   = Cardinality(List(view, status, severity))
  <2>1. view \in Platform
    BY DEF Analysed
  <2>2. \A s, v : List(view, s, v) = ListOf(view, s, v)
    BY <2>1 DEF List
  <2>3. {x \in ListOf(view, NoFilter, NoFilter) : Matches(x[2], status, severity)} = ListOf(view, status, severity)
    BY PlatformFacets
  <2>4. {x \in ListOf(view, NoFilter, NoFilter) : x[2].status = status
            /\ severity \in {NoFilter, SeverityOf[x[2].warning]}} = ListOf(view, status, severity)
    <3>1. \A x : Matches(x[2], status, severity) <=>
                   x[2].status = status /\ severity \in {NoFilter, SeverityOf[x[2].warning]}
      BY MatchesIs
    <3> QED
      BY <2>3, <3>1
  <2> QED
    BY <2>2, <2>3, <2>4 DEF SeverityFacet, StatusFacet
<1>3. ASSUME NEW status \in OpenStatus, NEW severity
      PROVE  /\ SeverityFacet(List("common", NoFilter, NoFilter), status, severity)
                   <= Cardinality(List("common", status, severity))
             /\ StatusFacet(List("common", NoFilter, NoFilter), severity, status)
                   <= Cardinality(List("common", status, severity))
  <2>1. \A s, v : List("common", s, v) = ListOfCommon(s, v)
    BY DEF List, Platform
  <2>2. {x \in ListOfCommon(NoFilter, NoFilter) : x[2].status = status
            /\ severity \in {NoFilter, SeverityOf[x[2].warning]}}
        = {x \in ListOfCommon(NoFilter, NoFilter) : Matches(x[2], status, severity)}
    <3>1. \A x : Matches(x[2], status, severity) <=>
                   x[2].status = status /\ severity \in {NoFilter, SeverityOf[x[2].warning]}
      BY MatchesIs
    <3> QED
      BY <3>1
  <2> QED
    BY <2>1, <2>2, CommonFacets DEF SeverityFacet, StatusFacet
<1>4. "common" \notin Analysed
  BY DEF Analysed, Platform
<1>5. runs # <<>> =>
        Exported = UNION {{x[2] : x \in List(runs[Len(runs)].platform, status, NoFilter)} : status \in Status}
  BY ExportIs
<1> QED
  BY <1>1, <1>2, <1>3, <1>4, <1>5 DEF FacetsCountTheList

\* The count beside a facet is the length of the list it leads to.
THEOREM FacetsAreCounts == Spec => []FacetsCountTheList
<1> QED
  BY Invariance, FacetsFollow, PTL

-----------------------------------------------------------------------------
(* The pages of a list. *)

\* Where the fragment k begins.
Begin(k) == FirstPage + (k - 2) * NextPage

LEMMA BeginIs ==
  ASSUME NEW k \in Nat, k >= 2
  PROVE  /\ Begin(k) \in Nat /\ Begin(2) = FirstPage /\ FirstPage <= Begin(k)
         /\ Begin(k + 1) = Begin(k) + NextPage
         /\ \A j \in Nat : k < j => Begin(k) + NextPage <= Begin(j)
         /\ k <= Begin(k + 1)
<1>1. FirstPage \in Nat /\ NextPage \in Nat /\ FirstPage >= 1 /\ NextPage >= 1
  BY DashboardsAssumption
<1>2. \A a, b \in Nat : a <= b => a * NextPage <= b * NextPage
  <2> SUFFICES ASSUME NEW a \in Nat, NEW b \in Nat, a <= b PROVE a * NextPage <= b * NextPage
    OBVIOUS
  <2>1. b - a \in Nat /\ (b - a) * NextPage >= 0
    BY <1>1
  <2>2. b * NextPage = a * NextPage + (b - a) * NextPage
    BY <1>1
  <2> QED
    BY <1>1, <2>1, <2>2
<1>3. \A a \in Nat : a * NextPage \in Nat /\ (a + 1) * NextPage = a * NextPage + NextPage /\ a <= a * NextPage
  <2> SUFFICES ASSUME NEW a \in Nat
               PROVE  a * NextPage \in Nat /\ (a + 1) * NextPage = a * NextPage + NextPage /\ a <= a * NextPage
    OBVIOUS
  <2>1. a * NextPage = a + a * (NextPage - 1) /\ a * (NextPage - 1) >= 0
    BY <1>1
  <2>2. (a + 1) * NextPage = a * NextPage + NextPage /\ a * NextPage \in Nat
    BY <1>1
  <2>3. a <= a * NextPage
    <3> DEFINE b == a * (NextPage - 1)
    <3>1. a * NextPage = a + b /\ b >= 0 /\ b \in Int
      BY <1>1, <2>1
    <3> HIDE DEF b
    <3> QED
      BY <2>2, <3>1
  <2> QED
    BY <2>2, <2>3
<1> DEFINE a == k - 2
<1>4. a \in Nat /\ (k + 1) - 2 = a + 1 /\ 2 - 2 = 0
  OBVIOUS
<1>5. Begin(k) = FirstPage + a * NextPage /\ Begin(k + 1) = FirstPage + (a * NextPage + NextPage)
  BY <1>3, <1>4 DEF Begin
<1>6. Begin(2) = FirstPage
  BY <1>1, <1>4 DEF Begin
<1>7. ASSUME NEW j \in Nat, k < j PROVE Begin(k) + NextPage <= Begin(j)
  <2>1. j - 2 \in Nat /\ a + 1 <= j - 2 /\ a + 1 \in Nat
    BY <1>4, <1>7
  <2>2. a * NextPage + NextPage <= (j - 2) * NextPage /\ (j - 2) * NextPage \in Nat
    BY <1>2, <1>3, <1>4, <2>1
  <2>3. Begin(j) = FirstPage + (j - 2) * NextPage
    BY DEF Begin
  <2> HIDE DEF a
  <2> QED
    BY <1>1, <1>3, <1>4, <1>5, <2>2, <2>3
<1>8. k <= Begin(k + 1)
  <2>1. a <= a * NextPage /\ a * NextPage \in Nat /\ k = a + 2
    BY <1>3, <1>4
  <2> HIDE DEF a
  <2> QED
    BY <1>1, <1>4, <1>5, <2>1
<1>9. a * NextPage \in Nat
  BY <1>3, <1>4
<1> HIDE DEF a
<1> QED
  BY <1>1, <1>5, <1>6, <1>7, <1>8, <1>9

\* What the page j of a list shows, and whether the reader is asked for another one after it.
Shows(n, place, j) == place \in OnPage(n, j # 1, j)
GoesOn(n, j) == HasNext(n, j # 1, j)

LEMMA FirstPageIs ==
  ASSUME NEW n \in Nat, NEW place \in 1..n
  PROVE  /\ Shows(n, place, 1) <=> place <= FirstPage
         /\ GoesOn(n, 1) <=> FirstPage < n
<1>1. FirstPage \in Nat /\ NextPage \in Nat /\ (1 - 1) * FirstPage = 0
  BY DashboardsAssumption
<1> QED
  BY <1>1 DEF Shows, GoesOn, OnPage, HasNext, Offset, Size

LEMMA FragmentIs ==
  ASSUME NEW n \in Nat, NEW place \in 1..n, NEW j \in Nat, j >= 2
  PROVE  /\ Shows(n, place, j) <=> Begin(j) < place /\ place <= Begin(j) + NextPage
         /\ GoesOn(n, j) <=> Begin(j) + NextPage < n
<1>1. Begin(j) \in Nat /\ NextPage \in Nat
  BY BeginIs, DashboardsAssumption
<1>2. j # 1 /\ (IF j > 2 THEN j - 2 ELSE 0) = j - 2
  OBVIOUS
<1>3. FirstPage + (IF j > 2 THEN j - 2 ELSE 0) * NextPage = Begin(j)
  BY <1>2 DEF Begin
<1> QED
  BY <1>1, <1>2, <1>3 DEF Shows, GoesOn, OnPage, HasNext, Offset, Size

LEMMA ScrolledIs ==
  ASSUME NEW n \in Nat
  PROVE  Scrolled(n) = {1} \cup {k \in 2..n : \A j \in 1..(k - 1) : GoesOn(n, j)}
BY Zenon DEF Scrolled, GoesOn

\* A place beyond the first page is on the first fragment that ends at or after it.
LEMMA OneFragment ==
  ASSUME NEW n \in Nat, NEW place \in 1..n, FirstPage < place
  PROVE  \E k \in Scrolled(n) : /\ k >= 2 /\ k \in Nat
                                /\ Begin(k) < place /\ place <= Begin(k) + NextPage
<1>1. FirstPage \in Nat /\ NextPage \in Nat /\ FirstPage >= 1 /\ NextPage >= 1 /\ n >= 2 /\ place \in Nat
  BY DashboardsAssumption
<1> DEFINE T == {k \in 2..n : place <= Begin(k) + NextPage}
<1>2. n \in T
  <2>1. n <= Begin(n + 1) /\ Begin(n + 1) = Begin(n) + NextPage /\ Begin(n) \in Nat
    BY <1>1, BeginIs
  <2> QED
    BY <1>1, <2>1
<1>3. PICK k \in T : \A x \in T : k <= x
  <2>1. T \subseteq 1..n
    OBVIOUS
  <2> HIDE DEF T
  <2> QED
    BY <1>2, <2>1, LeastOf
<1>4. k \in Nat /\ k >= 2 /\ k <= n /\ place <= Begin(k) + NextPage
  BY <1>3
<1>5. \A j \in 2..(k - 1) : Begin(j) + NextPage < place
  <2> SUFFICES ASSUME NEW j \in 2..(k - 1) PROVE Begin(j) + NextPage < place
    OBVIOUS
  <2>1. ~(k <= j) /\ j \in 2..n /\ j \in Nat /\ j >= 2
    BY <1>1, <1>4
  <2>2. j \notin T
    BY <1>3, <2>1
  <2>3. Begin(j) \in Nat
    BY <2>1, BeginIs
  <2> QED
    BY <1>1, <2>1, <2>2, <2>3
<1>6. Begin(k) < place
  <2>1. CASE k = 2
    BY <1>1, <1>4, <2>1, BeginIs
  <2>2. CASE k # 2
    <3>1. k - 1 \in 2..(k - 1) /\ k - 1 \in Nat /\ k - 1 >= 2 /\ (k - 1) + 1 = k
      BY <1>4, <2>2
    <3>2. Begin(k) = Begin(k - 1) + NextPage
      BY <3>1, BeginIs
    <3> QED
      BY <1>5, <3>1, <3>2
  <2> QED
    BY <2>1, <2>2
<1>7. k \in Scrolled(n)
  <2>1. \A j \in 1..(k - 1) : GoesOn(n, j)
    <3> SUFFICES ASSUME NEW j \in 1..(k - 1) PROVE GoesOn(n, j)
      OBVIOUS
    <3>1. CASE j = 1
      BY <1>1, <3>1, FirstPageIs
    <3>2. CASE j # 1
      <4>1. j \in 2..(k - 1) /\ j \in Nat /\ j >= 2
        BY <1>4, <3>2
      <4>2. Begin(j) + NextPage < place /\ place <= n /\ Begin(j) \in Nat
        BY <1>5, <4>1, BeginIs
      <4> QED
        BY <1>1, <4>1, <4>2, FragmentIs
    <3> QED
      BY <3>1, <3>2
  <2> QED
    BY <1>4, <2>1, ScrolledIs
<1> QED
  BY <1>4, <1>6, <1>7

LEMMA OnePage ==
  ASSUME NEW n \in Nat, NEW place \in 1..n
  PROVE  \E k \in Scrolled(n) : \A j \in Scrolled(n) : Shows(n, place, j) <=> j = k
<1>1. FirstPage \in Nat /\ NextPage \in Nat /\ FirstPage >= 1 /\ NextPage >= 1 /\ place \in Nat /\ place <= n
  BY DashboardsAssumption
<1>2. 1 \in Scrolled(n) /\ \A j \in Scrolled(n) : j = 1 \/ (j \in Nat /\ j >= 2)
  BY ScrolledIs
<1>3. Shows(n, place, 1) <=> place <= FirstPage
  BY FirstPageIs
<1>4. CASE place <= FirstPage
  <2>1. ASSUME NEW j \in Scrolled(n), Shows(n, place, j), j # 1 PROVE FALSE
    <3>1. j \in Nat /\ j >= 2
      BY <1>2, <2>1
    <3>2. Begin(j) \in Nat /\ FirstPage <= Begin(j) /\ Begin(j) < place
      BY <2>1, <3>1, BeginIs, FragmentIs
    <3> QED
      BY <1>1, <1>4, <3>2
  <2> QED
    BY <1>2, <1>3, <1>4, <2>1
<1>5. CASE FirstPage < place
  <2>1. PICK k \in Scrolled(n) : k >= 2 /\ k \in Nat /\ Begin(k) < place /\ place <= Begin(k) + NextPage
    BY <1>5, OneFragment
  <2>2. Shows(n, place, k)
    BY <2>1, FragmentIs
  <2>3. ASSUME NEW j \in Scrolled(n), Shows(n, place, j), j # k PROVE FALSE
    <3>1. j # 1
      BY <1>1, <1>3, <1>5, <2>3
    <3>2. j \in Nat /\ j >= 2
      BY <1>2, <3>1
    <3>3. Begin(j) < place /\ place <= Begin(j) + NextPage
      BY <2>3, <3>2, FragmentIs
    <3>4. (j < k => Begin(j) + NextPage <= Begin(k)) /\ Begin(j) \in Nat
      BY <2>1, <3>2, BeginIs
    <3>5. (k < j => Begin(k) + NextPage <= Begin(j)) /\ Begin(k) \in Nat
      BY <2>1, <3>2, BeginIs
    <3> QED
      BY <1>1, <2>1, <2>3, <3>2, <3>3, <3>4, <3>5
  <2> QED
    BY <2>1, <2>2, <2>3
<1> QED
  BY <1>1, <1>4, <1>5

LEMMA ScrollFollows == IInv => ScrollShowsAll
<1> SUFFICES ASSUME IInv, NEW view \in Views,
                    NEW n, n = Cardinality(List(view, NoFilter, NoFilter)), NEW place \in 1..n
             PROVE  Cardinality({k \in Scrolled(n) : place \in OnPage(n, k # 1, k)}) = 1
  BY DEF ScrollShowsAll
<1>1. n \in Nat
  BY ListsFinite, FS_CardinalityType
<1>2. PICK k \in Scrolled(n) : \A j \in Scrolled(n) : Shows(n, place, j) <=> j = k
  BY <1>1, OnePage
<1>3. {j \in Scrolled(n) : Shows(n, place, j)} = {k}
  BY <1>2
<1>4. {j \in Scrolled(n) : place \in OnPage(n, j # 1, j)} = {j \in Scrolled(n) : Shows(n, place, j)}
  BY Zenon DEF Shows
<1> QED
  BY <1>3, <1>4, FS_Singleton

\* Scrolling to the end of a list shows every row of it once, whatever its pages hold.
THEOREM ScrollingShowsAll == Spec => []ScrollShowsAll
<1> QED
  BY Invariance, ScrollFollows, PTL

-----------------------------------------------------------------------------
(* The totals of the dashboards. *)

LEMMA WindowIs ==
  ASSUME TypeOK, NEW p, NEW r \in Window(p)
  PROVE  /\ r \in RunsOf(p) /\ r \in 1..Len(runs) /\ runs[r].platform = p /\ Age(r) < Limit
         /\ \A s \in RunsOf(p) : r <= s => s \in Window(p)
<1>1. r \in RunsOf(p) /\ r \in 1..Len(runs) /\ runs[r].platform = p /\ Age(r) < Limit
  BY DEF Window, RunsOf
<1>2. ASSUME NEW s \in RunsOf(p), r <= s PROVE s \in Window(p)
  <2>1. Age(s) <= Age(r) /\ Age(s) \in Nat /\ Age(r) \in Nat
    BY <1>1, <1>2, AgeIs
  <2>2. Age(s) < Limit
    BY <1>1, <2>1, DashboardsAssumption
  <2> QED
    BY <2>2 DEF Window
<1> QED
  BY <1>1, <1>2

\* The last run of the window that had the warning open is the latest one: the run after it
\* would have marked it fixed.
LEMMA CountedIsOpen ==
  ASSUME IInv, NEW p \in Analysed,
         \A r \in Window(p) \ {Min(Window(p))} : runs[r].compared
  PROVE  Counted(p) \subseteq Warnings(Open(Latest(p)))
<1> SUFFICES ASSUME NEW w \in Counted(p) PROVE w \in Warnings(Open(Latest(p)))
  OBVIOUS
<1>0. TypeOK /\ Len(runs) \in Nat
  BY RunsAre DEF IInv
<1> DEFINE T == {r \in Window(p) : w \in Warnings(Open(r))}
<1>1. T # {} /\ \A r \in Window(p) : w \notin Warnings(Fixed(r))
  BY DEF Counted
<1>2. \A r \in Window(p) : r \in RunsOf(p) /\ r \in 1..Len(runs)
  BY <1>0, WindowIs
<1>3. PICK r \in T : \A x \in T : x <= r
  <2>1. T \subseteq 1..Len(runs)
    BY <1>2
  <2> HIDE DEF T
  <2> QED
    BY <1>0, <1>1, <2>1, GreatestOf
<1>4. Latest(p) \in RunsOf(p) /\ r <= Latest(p) /\ Latest(p) \in 1..Len(runs)
  BY <1>0, <1>2, LatestIs, RunsAre
<1>5. CASE r = Latest(p)
  BY <1>5
<1>6. CASE r # Latest(p)
  <2> DEFINE U == {s \in RunsOf(p) : r < s}
  <2>1. U # {} /\ U \subseteq 1..Len(runs)
    BY <1>2, <1>4, <1>6 DEF RunsOf
  <2>2. PICK s \in U : \A x \in U : s <= x
    <3> HIDE DEF U
    <3> QED
      BY <1>0, <2>1, LeastOf
  <2>3. /\ s \in RunsOf(p) /\ s \in 1..Len(runs) /\ r \in 1..Len(runs) /\ r < s
        /\ runs[s].platform = p
    BY <1>2 DEF RunsOf
  <2>4. s \in Window(p)
    BY <1>0, <2>3, WindowIs
  <2>5. Before(s) # {} /\ Max(Before(s)) = r
    <3>1. r \in Before(s)
      BY <1>2, <2>3 DEF Before
    <3>2. \A x \in Before(s) : x <= r
      <4> SUFFICES ASSUME NEW x \in Before(s) PROVE x <= r
        OBVIOUS
      <4>1. x \in RunsOf(p) /\ x < s /\ x \in 1..Len(runs)
        BY <2>3 DEF Before, RunsOf
      <4>2. x \notin U
        BY <2>2, <2>3, <4>1
      <4> QED
        BY <2>3, <4>1, <4>2
    <3>3. Max(Before(s)) \in Before(s) /\ r <= Max(Before(s)) /\ Max(Before(s)) <= r
      BY <1>0, <2>3, <3>1, <3>2, PreviousIs
    <3>4. Max(Before(s)) \in 1..Len(runs)
      BY <3>3 DEF Before, RunsOf
    <3> QED
      BY <2>3, <3>1, <3>3, <3>4
  <2>6. runs[s].compared
    <3>1. Window(p) \subseteq 1..Len(runs) /\ r \in Window(p)
      BY <1>2
    <3>2. Min(Window(p)) <= r /\ Min(Window(p)) \in 1..Len(runs)
      BY <1>0, <3>1, MinIs
    <3>3. s # Min(Window(p))
      BY <2>3, <3>2
    <3> QED
      BY <2>4, <3>3
  <2>7. PICK j \in Open(r) : j.warning = w
    BY DEF Warnings
  <2>8. PICK i \in runs[s].rows : i.warning = w /\ i.status \in {"existing", "fixed"}
    BY <2>3, <2>5, <2>6, <2>7 DEF IInv, ComparedInv
  <2>9. i.status # "fixed"
    BY <1>1, <2>4, <2>8 DEF Fixed, Warnings
  <2>10. s \in T
    BY <2>4, <2>8, <2>9 DEF Open, Warnings, OpenStatus
  <2> QED
    BY <1>3, <2>3, <2>10
<1> QED
  BY <1>5, <1>6

LEMMA CountedFinite ==
  ASSUME IInv, NEW p
  PROVE  IsFiniteSet(Counted(p)) /\ Cardinality(Counted(p)) \in Nat
         /\ (p \in Platform /\ p \notin Analysed => Counted(p) = {})
<1>1. Counted(p) \subseteq Warning
  <2> SUFFICES ASSUME NEW w \in Counted(p) PROVE w \in Warning
    OBVIOUS
  <2>1. PICK r \in Window(p) : w \in Warnings(Open(r))
    BY DEF Counted
  <2>2. runs[r] \in RunRow
    BY <2>1, WindowIs, RunsAre DEF IInv
  <2> QED
    BY <2>1, <2>2 DEF Warnings, Open, RunRow, Row
<1>2. IsFiniteSet(Warning)
  BY DashboardsAssumption
<1>3. IsFiniteSet(Counted(p))
  BY <1>1, <1>2, FS_Subset
<1>4. ASSUME p \in Platform, p \notin Analysed PROVE Counted(p) = {}
  <2>1. Window(p) = {}
    BY <1>4 DEF Window, Analysed
  <2> QED
    BY <2>1 DEF Counted
<1> QED
  BY <1>3, <1>4, FS_CardinalityType

LEMMA TotalIsListed ==
  ASSUME IInv, NEW p \in Platform,
         p \in Analysed => Counted(p) \subseteq Warnings(Open(Latest(p)))
  PROVE  /\ Cardinality(Counted(p)) <= Cardinality(ListOf(p, NoFilter, NoFilter))
         /\ Cardinality(ListOf(p, NoFilter, NoFilter)) \in Nat
<1> DEFINE listed == ListOf(p, NoFilter, NoFilter)
           f == [x \in listed |-> x[2].warning]
<1>1. IsFiniteSet(listed)
  BY ListFinite
<1>2. \A w \in Counted(p) : \E x \in listed : f[x] = w
  <2> SUFFICES ASSUME NEW w \in Counted(p) PROVE \E x \in listed : f[x] = w
    OBVIOUS
  <2>1. p \in Analysed /\ w \in Warnings(Open(Latest(p)))
    BY CountedFinite
  <2>2. PICK i \in Open(Latest(p)) : i.warning = w
    BY <2>1 DEF Warnings
  <2>3. i \in runs[Latest(p)].rows /\ Matches(i, NoFilter, NoFilter)
    BY <2>2 DEF Open, Matches
  <2>4. <<Latest(p), i>> \in listed /\ <<Latest(p), i>>[2] = i
    BY <2>1, <2>3 DEF ListOf
  <2> HIDE DEF listed
  <2> QED
    BY <2>2, <2>4
<1> HIDE DEF f
<1> QED
  BY <1>1, <1>2, NoMoreThan, FS_CardinalityType

LEMMA SumOfThree ==
  ASSUME NEW A, NEW B, NEW C, IsFiniteSet(A), IsFiniteSet(B), IsFiniteSet(C),
         A \cap B = {}, A \cap C = {}, B \cap C = {}
  PROVE  Cardinality((A \cup B) \cup C) = Cardinality(A) + Cardinality(B) + Cardinality(C)
<1>1. Cardinality(A) \in Nat /\ Cardinality(B) \in Nat /\ Cardinality(C) \in Nat
  BY FS_CardinalityType
<1>2. \A S, T : IsFiniteSet(S) /\ IsFiniteSet(T) /\ S \cap T = {} =>
        IsFiniteSet(S \cup T) /\ Cardinality(S \cup T) = Cardinality(S) + Cardinality(T)
  <2> SUFFICES ASSUME NEW S, NEW T, IsFiniteSet(S), IsFiniteSet(T), S \cap T = {}
               PROVE  IsFiniteSet(S \cup T) /\ Cardinality(S \cup T) = Cardinality(S) + Cardinality(T)
    OBVIOUS
  <2>1. Cardinality(S \cap T) = 0 /\ Cardinality(S) \in Nat /\ Cardinality(T) \in Nat
    BY FS_EmptySet, FS_CardinalityType
  <2>2. /\ IsFiniteSet(S \cup T)
        /\ Cardinality(S \cup T) = Cardinality(S) + Cardinality(T) - Cardinality(S \cap T)
    BY FS_Union
  <2> QED
    BY <2>1, <2>2
<1>3. IsFiniteSet(A \cup B) /\ Cardinality(A \cup B) = Cardinality(A) + Cardinality(B)
  BY <1>2
<1>4. (A \cup B) \cap C = {}
  OBVIOUS
<1> DEFINE D == A \cup B
<1>5. IsFiniteSet(D) /\ D \cap C = {}
  BY <1>3, <1>4
<1>6. Cardinality(D \cup C) = Cardinality(D) + Cardinality(C)
  <2> HIDE DEF D
  <2> QED
    BY <1>2, <1>5
<1> QED
  BY <1>3, <1>6

LEMMA AllIsTheSum ==
  ASSUME IInv
  PROVE  Cardinality(ListOfAll(NoFilter, NoFilter)) =
           Cardinality(ListOf("windows", NoFilter, NoFilter)) + Cardinality(ListOf("linux", NoFilter, NoFilter))
             + Cardinality(ListOf("macos", NoFilter, NoFilter))
<1> DEFINE L(p) == ListOf(p, NoFilter, NoFilter)
<1>1. \A p \in Platform : IsFiniteSet(L(p))
  BY ListFinite
<1>2. \A p, q \in Platform : p # q => L(p) \cap L(q) = {}
  <2> SUFFICES ASSUME NEW p \in Platform, NEW q \in Platform, NEW x \in L(p), x \in L(q) PROVE p = q
    OBVIOUS
  <2>1. p \in Analysed /\ x[1] = Latest(p)
    BY DEF ListOf
  <2>2. q \in Analysed /\ x[1] = Latest(q)
    BY DEF ListOf
  <2> QED
    BY <2>1, <2>2, LatestDiffers DEF IInv
<1>3. /\ "windows" \in Platform /\ "linux" \in Platform /\ "macos" \in Platform
      /\ "windows" # "linux" /\ "windows" # "macos" /\ "linux" # "macos"
  BY DEF Platform
<1>4. ListOfAll(NoFilter, NoFilter) = (L("windows") \cup L("linux")) \cup L("macos")
  BY ListOfAllIs
<1> HIDE DEF L
<1>5. Cardinality(ListOfAll(NoFilter, NoFilter)) =
        Cardinality(L("windows")) + Cardinality(L("linux")) + Cardinality(L("macos"))
  BY <1>1, <1>2, <1>3, <1>4, SumOfThree
<1> QED
  BY <1>5 DEF L

\* While no run is older than the histories reach, the window of a platform is all its runs.
LEMMA WholeWindow ==
  ASSUME TypeOK, Len(runs) <= Limit, NEW p \in Platform
  PROVE  Window(p) = RunsOf(p)
<1>1. Len(runs) \in Nat /\ Limit \in Nat /\ RunsOf(p) \subseteq 1..Len(runs)
  BY RunsAre, DashboardsAssumption
<1>2. ASSUME NEW r \in RunsOf(p) PROVE Age(r) < Limit
  <2> DEFINE Later == {n \in RunsOf(p) : n > r}
  <2>1. r \in 1..Len(runs) /\ Later \in SUBSET ((r + 1)..Len(runs))
    BY <1>1
  <2>2. Age(r) = Cardinality(Later) /\ Age(r) \in Nat
    BY AgeIs
  <2>3. IsFiniteSet((r + 1)..Len(runs)) /\ Cardinality((r + 1)..Len(runs)) = Len(runs) - r
    <3>1. r + 1 \in Int /\ Len(runs) \in Int
      BY <1>1, <2>1
    <3>2. /\ IsFiniteSet((r + 1)..Len(runs))
          /\ Cardinality((r + 1)..Len(runs)) = IF r + 1 > Len(runs) THEN 0 ELSE Len(runs) - (r + 1) + 1
      BY <3>1, FS_Interval
    <3> QED
      BY <1>1, <2>1, <3>2
  <2> HIDE DEF Later
  <2>4. Cardinality(Later) <= Len(runs) - r
    BY <2>1, <2>3, FS_Subset
  <2> QED
    BY <1>1, <2>1, <2>2, <2>4
<1> QED
  BY <1>2 DEF Window

LEMMA JsonIs ==
  ASSUME IInv, Len(runs) <= Limit
  PROVE  Cardinality(CountedInJson) = TotalOfAll
<1> DEFINE P(p) == {<<p, w>> : w \in Counted(p)}
<1>0. TypeOK /\ Len(runs) \in Nat /\ Limit \in Nat
  BY RunsAre, DashboardsAssumption DEF IInv
<1>1. FirstRuns = 1..Len(runs)
  BY <1>0 DEF FirstRuns
<1>2. ASSUME NEW x \in CountedInJson
      PROVE  \E p \in Platform : x \in P(p)
  <2>1. PICK r \in 1..Len(runs) : x \in InJson(r, Open(r))
    BY <1>1 DEF CountedInJson
  <2>2. PICK w \in Warnings(Open(r)) : x = <<runs[r].platform, w>>
    BY <2>1 DEF InJson
  <2>3. PICK p \in Platform : p = runs[r].platform
    BY <1>0, RunsAre DEF RunRow
  <2>4. r \in Window(p)
    BY <1>0, <2>3, WholeWindow DEF RunsOf
  <2>5. ASSUME NEW s \in Window(p), w \in Warnings(Fixed(s)) PROVE FALSE
    <3>1. s \in 1..Len(runs) /\ runs[s].platform = p
      BY <1>0, WindowIs
    <3>2. x \in InJson(s, Fixed(s))
      BY <2>2, <2>3, <2>5, <3>1 DEF InJson
    <3> QED
      BY <1>1, <3>1, <3>2 DEF CountedInJson
  <2>6. w \in Counted(p)
    BY <2>2, <2>4, <2>5 DEF Counted
  <2> QED
    BY <2>2, <2>3, <2>6
<1>3. ASSUME NEW p \in Platform, NEW w \in Counted(p)
      PROVE  <<p, w>> \in CountedInJson
  <2>1. PICK r \in Window(p) : w \in Warnings(Open(r))
    BY DEF Counted
  <2>2. r \in 1..Len(runs) /\ runs[r].platform = p
    BY <1>0, WindowIs
  <2>3. <<p, w>> \in InJson(r, Open(r))
    BY <2>1, <2>2 DEF InJson
  <2>4. ASSUME NEW s \in 1..Len(runs), <<p, w>> \in InJson(s, Fixed(s)) PROVE FALSE
    <3>1. runs[s].platform = p /\ w \in Warnings(Fixed(s))
      BY <2>4 DEF InJson
    <3>2. s \in Window(p)
      BY <1>0, <3>1, WholeWindow DEF RunsOf
    <3> QED
      BY <3>1, <3>2 DEF Counted
  <2> QED
    BY <1>1, <2>2, <2>3, <2>4 DEF CountedInJson
<1>4. \A p \in Platform : IsFiniteSet(P(p)) /\ Cardinality(P(p)) = Cardinality(Counted(p))
  <2> SUFFICES ASSUME NEW p \in Platform
               PROVE  IsFiniteSet(P(p)) /\ Cardinality(P(p)) = Cardinality(Counted(p))
    OBVIOUS
  <2> DEFINE f == [w \in Counted(p) |-> <<p, w>>]
             T == P(p)
  <2>1. IsFiniteSet(Counted(p)) /\ Cardinality(Counted(p)) \in Nat
    BY CountedFinite
  <2>2. \A x \in T : \E w \in Counted(p) : f[w] = x
    OBVIOUS
  <2>3. \A w \in Counted(p) : f[w] \in T
    OBVIOUS
  <2>4. \A v, w \in Counted(p) : f[v] = f[w] => v = w
    OBVIOUS
  <2> HIDE DEF T, f
  <2>5. IsFiniteSet(T) /\ Cardinality(T) <= Cardinality(Counted(p))
    BY <2>1, <2>2, NoMoreThan
  <2>6. Cardinality(Counted(p)) <= Cardinality(T)
    BY <2>3, <2>4, <2>5, NoMoreBy
  <2>7. Cardinality(T) \in Nat
    BY <2>5, FS_CardinalityType
  <2>8. IsFiniteSet(T) /\ Cardinality(T) = Cardinality(Counted(p))
    BY <2>1, <2>5, <2>6, <2>7
  <2> QED
    BY <2>8 DEF T
<1>5. \A p, q \in Platform : p # q => P(p) \cap P(q) = {}
  OBVIOUS
<1>6. /\ "windows" \in Platform /\ "linux" \in Platform /\ "macos" \in Platform
      /\ "windows" # "linux" /\ "windows" # "macos" /\ "linux" # "macos"
      /\ \A p \in Platform : p = "windows" \/ p = "linux" \/ p = "macos"
  BY DEF Platform
<1>7. CountedInJson = (P("windows") \cup P("linux")) \cup P("macos")
  <2>1. \A p \in Platform : P(p) \subseteq CountedInJson
    BY <1>3
  <2> HIDE DEF P
  <2> QED
    BY <1>2, <1>6, <2>1
<1> HIDE DEF P
<1>8. Cardinality(CountedInJson) =
        Cardinality(P("windows")) + Cardinality(P("linux")) + Cardinality(P("macos"))
  BY <1>4, <1>5, <1>6, <1>7, SumOfThree
<1> QED
  BY <1>4, <1>6, <1>8 DEF TotalOfAll

LEMMA KpiFollows == IInv => KpiCountsOpenOnly
<1> SUFFICES ASSUME IInv PROVE KpiCountsOpenOnly
  OBVIOUS
<1> DEFINE InFull(p) == \A r \in Window(p) \ {Min(Window(p))} : runs[r].compared
           Of(view) == IF view = "all" THEN Analysed ELSE {view} \cap Analysed
<1>0. TypeOK /\ Len(runs) \in Nat
  BY RunsAre DEF IInv
<1>1. \A p \in Analysed : InFull(p) => Counted(p) \subseteq Warnings(Open(Latest(p)))
  BY CountedIsOpen
<1>2. ASSUME NEW view \in Platform \cup {"all"}, \A p \in Of(view) : InFull(p)
      PROVE  Total(view) <= Badge(view)
  <2>1. CASE view \in Platform
    <3>0. view # "all"
      BY <2>1 DEF Platform
    <3>1. view \in Analysed => Counted(view) \subseteq Warnings(Open(Latest(view)))
      BY <1>1, <1>2, <3>0
    <3>2. /\ Cardinality(Counted(view)) <= Cardinality(ListOf(view, NoFilter, NoFilter))
          /\ Cardinality(ListOf(view, NoFilter, NoFilter)) \in Nat
      BY <2>1, <3>1, TotalIsListed
    <3>3. Badge(view) = Cardinality(ListOf(view, NoFilter, NoFilter))
      BY <2>1 DEF Badge, List
    <3>4. Total(view) = IF view \in Analysed THEN Cardinality(Counted(view)) ELSE 0
      BY <2>1 DEF Total
    <3> QED
      BY <3>2, <3>3, <3>4
  <2>2. CASE view = "all"
    <3>1. \A p \in Platform : p \in Analysed => Counted(p) \subseteq Warnings(Open(Latest(p)))
      BY <1>1, <1>2, <2>2
    <3>2. \A p \in Platform : /\ Cardinality(Counted(p)) <= Cardinality(ListOf(p, NoFilter, NoFilter))
                             /\ Cardinality(ListOf(p, NoFilter, NoFilter)) \in Nat
                             /\ Cardinality(Counted(p)) \in Nat
      BY <3>1, TotalIsListed, CountedFinite
    <3>3. "windows" \in Platform /\ "linux" \in Platform /\ "macos" \in Platform /\ "all" \notin Platform
      BY DEF Platform
    <3>4. Badge(view) = Cardinality(ListOfAll(NoFilter, NoFilter)) /\ Total(view) = TotalOfAll
      BY <2>2, <3>3 DEF Badge, List, Total
    <3>5. Badge(view) = Cardinality(ListOf("windows", NoFilter, NoFilter))
                          + Cardinality(ListOf("linux", NoFilter, NoFilter))
                          + Cardinality(ListOf("macos", NoFilter, NoFilter))
      BY <3>4, AllIsTheSum
    <3> QED
      BY <3>2, <3>3, <3>4, <3>5 DEF TotalOfAll
  <2> QED
    BY <2>1, <2>2
<1>3. ASSUME NEW view \in Platform \cup {"all"}, NEW r \in GateRun(view)
      PROVE  \E p \in Of(view) : r \in Window(p)
  <2>1. CASE view \in Platform
    <3>1. view \in Analysed /\ r = Latest(view) /\ view # "all"
      BY <2>1 DEF GateRun, Platform
    <3>2. r \in Window(view)
      BY <1>0, <3>1, LatestInWindow
    <3> QED
      BY <3>1, <3>2
  <2>2. CASE view = "all"
    <3>1. "all" \notin Platform
      BY DEF Platform
    <3>2. r = Len(runs) /\ Cardinality(Analysed) >= 1
      BY <2>2, <3>1 DEF GateRun
    <3>3. Analysed # {}
      <4>1. ASSUME Analysed = {}
            PROVE  Cardinality(Analysed) = 0
        <5>1. Cardinality({}) = 0
          BY FS_EmptySet
        <5> QED
          BY <4>1, <5>1
      <4>2. Cardinality(Analysed) # 0
        <5> DEFINE c == Cardinality(Analysed)
        <5>1. c >= 1
          BY <3>2
        <5> HIDE DEF c
        <5>2. c # 0
          BY <5>1
        <5> QED
          BY <5>2 DEF c
      <4> QED
        BY <4>1, <4>2
    <3>4. 1..Len(runs) # {}
      BY <1>0, <3>3, RunsAre DEF Analysed
    <3>5. r \in 1..Len(runs) /\ runs[r] \in RunRow
      BY <1>0, <3>2, <3>4, RunsAre
    <3> DEFINE p == runs[r].platform
    <3>6. r \in RunsOf(p) /\ p \in Analysed
      BY <3>5 DEF RunsOf, Analysed, RunRow
    <3>7. Latest(p) = r
      <4>1. Latest(p) \in RunsOf(p) /\ r <= Latest(p) /\ Latest(p) \in 1..Len(runs)
        BY <1>0, <3>6, LatestIs, RunsAre
      <4> HIDE DEF p
      <4> QED
        BY <1>0, <3>2, <4>1
    <3> HIDE DEF p
    <3>8. r \in Window(p)
      BY <1>0, <3>6, <3>7, LatestInWindow
    <3> QED
      BY <2>2, <3>6, <3>8
  <2> QED
    BY <2>1, <2>2
<1>4. Len(runs) <= Limit => Cardinality(CountedInJson) = TotalOfAll
  BY JsonIs
<1>5. \A view : Overview(view).total = Total(view) /\ Overview(view).badge = Badge(view)
                /\ Overview(view).gate = GateRun(view)
  BY DEF Overview
<1>6. \A view \in Platform \cup {"all"} :
        /\ (\A p \in Of(view) : InFull(p)) => Overview(view).total <= Overview(view).badge
        /\ \A r \in Overview(view).gate : \E p \in Of(view) : r \in Window(p)
  <2> HIDE DEF InFull, Of
  <2> QED
    BY <1>2, <1>3, <1>5
<1> QED
  BY <1>1, <1>4, <1>6 DEF KpiCountsOpenOnly

\* The total of a dashboard counts only what the latest run has open.
THEOREM TotalsCountOpenOnly == Spec => []KpiCountsOpenOnly
<1> QED
  BY Invariance, KpiFollows, PTL

-----------------------------------------------------------------------------
(* The ledger of a platform. *)

\* The rows a platform is seen through, and the entry each of them stands for.
Held(p) == IF p \in Analysed THEN runs[Latest(p)].rows ELSE {}
EntryOf(i) == [warning |-> i.warning, standing |-> i.status, who |-> i.author]

LEMMA EntriesAre == \A p : /\ Entries(p) = {EntryOf(i) : i \in Held(p)}
                           /\ Entries(p)' = {EntryOf(i) : i \in Held(p)'}
BY DEF Entries, Held, EntryOf

LEMMA EntryIs ==
  /\ \A i : /\ EntryOf(i).warning = i.warning /\ EntryOf(i).standing = i.status
            /\ EntryOf(i).who = i.author
  /\ \A i \in Row : EntryOf(i) \in Promise!Entry
  /\ \A i : \A st : [EntryOf(i) EXCEPT !.standing = st]
                      = [warning |-> i.warning, standing |-> st, who |-> i.author]
  /\ \A i : \A a : [EntryOf(i) EXCEPT !.who = a]
                      = [warning |-> i.warning, standing |-> i.status, who |-> a]
<1>1. \A i \in Row : EntryOf(i) \in Promise!Entry
  BY DEF EntryOf, Row, Status, Promise!Entry, NoAuthor
<1> QED
  BY <1>1 DEF EntryOf

LEMMA HeldIs ==
  ASSUME IInv, NEW p
  PROVE  /\ Held(p) \subseteq Row
         /\ \A i, j \in Held(p) : i.warning = j.warning => i = j
<1>1. TypeOK /\ UniqueInv
  BY DEF IInv
<1>2. CASE p \in Analysed
  <2>1. Latest(p) \in 1..Len(runs) /\ runs[Latest(p)] \in RunRow
    BY <1>1, <1>2, LatestIs, RunsAre
  <2> QED
    BY <1>1, <1>2, <2>1 DEF Held, UniqueInv, RunRow
<1>3. CASE p \notin Analysed
  BY <1>3 DEF Held
<1> QED
  BY <1>2, <1>3

LEMMA OpenEntries ==
  ASSUME NEW p \in Platform
  PROVE  Promise!Open(p) = {EntryOf(i) : i \in {j \in Held(p) : j.status \in OpenStatus}}
BY EntriesAre, EntryIs DEF Promise!Open, OpenStatus

\* A platform none of whose runs moved is seen through the same run.
LEMMA LatestKept ==
  ASSUME NEW p, RunsOf(p)' = RunsOf(p)
  PROVE  (p \in Analysed' <=> p \in Analysed) /\ Latest(p)' = Latest(p)
BY DEF Analysed, Latest

LEMMA InitKeeps == Init => Promise!Init
<1> SUFFICES ASSUME Init PROVE Promise!Init
  OBVIOUS
<1>1. \A p : RunsOf(p) = {}
  BY DEF Init, RunsOf
<1>2. Analysed = {}
  BY <1>1 DEF Analysed
<1>3. \A p : Entries(p) = {}
  BY <1>2 DEF Entries
<1> QED
  BY <1>2, <1>3 DEF Promise!Init

LEMMA UploadKeeps ==
  ASSUME IInv, NEW p \in Platform, NEW full \in BOOLEAN, NEW report \in SUBSET Warning,
         Upload(p, full, report)
  PROVE  \E a \in 1..MaxRuns \cup {NoAuthor} : Promise!Analysis(p, full, a)
<1> DEFINE k == Len(runs) + 1
           new == Classified(p, full, report)
           x == [platform |-> p, compared |-> full /\ p \in Analysed, rows |-> new]
           a == NamedBy(k)
<1>1. TypeOK /\ UniqueInv
  BY DEF IInv
<1>2. Len(runs) < MaxRuns /\ runs' = Append(runs, x)
  BY <1>1, RunsAre, LeftAre, DashboardsAssumption DEF Upload
<1>3. /\ Len(runs) \in Nat /\ Len(runs') = k /\ runs'[k] = x
      /\ \A r \in 1..Len(runs) : runs'[r] = runs[r]
      /\ \A q : RunsOf(q)' = RunsOf(q) \cup (IF q = p THEN {k} ELSE {})
  <2> HIDE DEF new
  <2> QED
    BY <1>1, <1>2, Added, RunsAre
<1>4. /\ \A i \in new : i \in Row /\ Comes(p, full, i)
      /\ \A i, j \in new : i.warning = j.warning => i = j
      /\ full /\ p \in Analysed =>
           \A j \in Open(Latest(p)) : \E i \in new :
             i.warning = j.warning /\ i.status \in {"existing", "fixed"}
  BY <1>1, <1>2, NewRows
<1>5. a \in 1..MaxRuns \cup {NoAuthor}
  BY <1>1, <1>2, NamedByType DEF NoAuthor
<1> HIDE DEF new, a
<1>6. Analysed' = Analysed \cup {p}
  BY <1>3 DEF Analysed
<1>8. Held(p)' = new
  <2>1. Latest(p)' = k
    <3> PICK T : T = RunsOf(p)'
      OBVIOUS
    <3>1. k \in T /\ T \subseteq 1..k /\ k \in Nat
      BY <1>3 DEF RunsOf
    <3>2. Max(T) \in T /\ \A r \in T : r <= Max(T)
      BY <3>1, MaxIs
    <3>3. Latest(p)' = Max(T)
      BY DEF Latest
    <3> QED
      BY <3>1, <3>2, <3>3
  <2> QED
    BY <1>3, <1>6, <2>1 DEF Held
<1>9. \A q \in Platform \ {p} : Held(q)' = Held(q)
  <2> SUFFICES ASSUME NEW q \in Platform \ {p} PROVE Held(q)' = Held(q)
    OBVIOUS
  <2>1. RunsOf(q)' = RunsOf(q)
    BY <1>3
  <2>2. (q \in Analysed' <=> q \in Analysed) /\ Latest(q)' = Latest(q)
    BY <2>1, LatestKept
  <2>3. q \in Analysed => Latest(q) \in 1..Len(runs)
    BY <1>1, LatestIs, RunsAre
  <2> PICK l : l = Latest(q)
    OBVIOUS
  <2>4. q \in Analysed => runs'[l] = runs[l]
    BY <1>3, <2>3
  <2>5. Held(q)' = IF q \in Analysed THEN runs'[l].rows ELSE {}
    BY <2>2 DEF Held
  <2> QED
    BY <2>4, <2>5 DEF Held
<1>10. Entries(p)' = {EntryOf(i) : i \in new} /\ \A q \in Platform \ {p} : Entries(q)' = Entries(q)
  BY <1>8, <1>9, EntriesAre
<1>11. ASSUME NEW i \in new
       PROVE  Promise!Continues(p, EntryOf(i), full) \/ Promise!Begins(p, EntryOf(i), a)
  <2>1. i \in Row /\ Comes(p, full, i)
    BY <1>4
  <2>2. Promise!Listed(Promise!Open(p)) = IF p \in Analysed THEN Warnings(Open(Latest(p))) ELSE {}
    <3>1. Promise!Listed(Promise!Open(p)) = {j.warning : j \in {h \in Held(p) : h.status \in OpenStatus}}
      BY OpenEntries, EntryIs DEF Promise!Listed
    <3> QED
      BY <3>1 DEF Held, Warnings, Open
  <2>3. CASE i.status = "new" /\ i.author = NamedBy(k) /\ p \in Analysed
             /\ i.warning \notin Warnings(Open(Latest(p)))
    BY <2>2, <2>3, EntryIs DEF Promise!Begins, a
  <2>4. CASE i.status = "existing" /\ i.author = NamedBy(k) /\ p \notin Analysed
    BY <2>2, <2>4, EntryIs DEF Promise!Begins, a
  <2>5. CASE /\ i.status = "existing" \/ (i.status = "fixed" /\ full)
             /\ p \in Analysed /\ i.warning \in Warnings(Open(Latest(p)))
             /\ i.author = RowIn(runs[Latest(p)].rows, i.warning).author
    <3>1. PICK j \in Open(Latest(p)) : j.warning = i.warning
      BY <2>5 DEF Warnings
    <3>2. Latest(p) \in 1..Len(runs) /\ j \in runs[Latest(p)].rows /\ j.status \in OpenStatus
      BY <1>1, <2>5, LatestIs, RunsAre DEF Open
    <3>3. i.author = j.author
      BY <1>1, <2>5, <3>1, <3>2, OnlyRow
    <3>4. EntryOf(j) \in Promise!Open(p)
      BY <2>5, <3>2, OpenEntries DEF Held
    <3>5. EntryOf(i) = [EntryOf(j) EXCEPT !.standing = i.status]
      BY <3>1, <3>3, EntryIs DEF EntryOf
    <3> QED
      BY <2>5, <3>4, <3>5 DEF Promise!Continues
  <2> QED
    BY <2>1, <2>3, <2>4, <2>5 DEF Comes
<1>12. ASSUME full PROVE Promise!Listed(Promise!Open(p)) \subseteq {EntryOf(i).warning : i \in new}
  <2> SUFFICES ASSUME NEW w \in Promise!Listed(Promise!Open(p))
               PROVE  w \in {EntryOf(i).warning : i \in new}
    OBVIOUS
  <2>1. PICK j \in Held(p) : j.status \in OpenStatus /\ w = j.warning
    BY OpenEntries, EntryIs DEF Promise!Listed
  <2>2. p \in Analysed /\ j \in Open(Latest(p))
    BY <2>1 DEF Held, Open
  <2>3. PICK i \in new : i.warning = w
    BY <1>4, <1>12, <2>1, <2>2
  <2> QED
    BY <2>3, EntryIs
<1>13. Promise!Turns(p)
  <2>1. Entries(p)' \subseteq Promise!Entry
    BY <1>4, <1>10, EntryIs
  <2>2. \A e, f \in Entries(p)' : e.warning = f.warning => e = f
    BY <1>4, <1>10, EntryIs
  <2>3. [q \in Platform |-> Entries(q)]'
          = [[q \in Platform |-> Entries(q)] EXCEPT ![p] = [q \in Platform |-> Entries(q)]'[p]]
    BY <1>10
  <2> QED
    BY <2>1, <2>2, <2>3 DEF Promise!Turns
<1>14. Promise!Analysis(p, full, a)
  <2>1. \A e \in Entries(p)' : Promise!Continues(p, e, full) \/ Promise!Begins(p, e, a)
    BY <1>10, <1>11
  <2>2. full => Promise!Listed(Promise!Open(p)) \subseteq Promise!Listed(Entries(p)')
    BY <1>10, <1>12 DEF Promise!Listed
  <2> QED
    BY <1>6, <1>13, <2>1, <2>2 DEF Promise!Analysis
<1> QED
  BY <1>5, <1>14

LEMMA IgnoreKeeps ==
  ASSUME IInv, NEW p \in Platform, NEW w \in Warning, Ignore(p, w)
  PROVE  Promise!Ignore(p, w) \/ UNCHANGED Promise!ledger
<1> DEFINE Off(i) == IF i.warning = w THEN [i EXCEPT !.status = "ignored"] ELSE i
           OffEntry(e) == IF e.warning = w THEN [e EXCEPT !.standing = "ignored"] ELSE e
<1>1. TypeOK
  BY DEF IInv
<1>2. runs' = [r \in 1..Len(runs) |->
            IF runs[r].platform = p
            THEN [runs[r] EXCEPT !.rows = {Off(i) : i \in @}]
            ELSE runs[r]]
  BY DEF Ignore, WithIgnored
<1>3. \A i \in Row : EntryOf(Off(i)) = OffEntry(EntryOf(i))
  BY EntryIs DEF EntryOf, Row
<1> HIDE DEF Off
<1>4. \A r \in 1..Len(runs) :
        /\ runs'[r].platform = runs[r].platform
        /\ runs[r].platform = p => runs'[r].rows = {Off(i) : i \in runs[r].rows}
        /\ runs[r].platform # p => runs'[r] = runs[r]
  <2> SUFFICES ASSUME NEW r \in 1..Len(runs)
               PROVE  /\ runs'[r].platform = runs[r].platform
                      /\ runs[r].platform = p => runs'[r].rows = {Off(i) : i \in runs[r].rows}
                      /\ runs[r].platform # p => runs'[r] = runs[r]
    OBVIOUS
  <2>1. runs[r] \in RunRow
    BY <1>1, RunsAre
  <2>2. CASE runs[r].platform = p
    <3>1. runs'[r] = [runs[r] EXCEPT !.rows = {Off(i) : i \in runs[r].rows}]
      BY <1>2, <2>2
    <3> QED
      BY <2>1, <2>2, <3>1 DEF RunRow
  <2>3. CASE runs[r].platform # p
    BY <1>2, <2>1, <2>3
  <2> QED
    BY <2>2, <2>3
<1>5. Len(runs') = Len(runs)
  BY <1>1, <1>2, RunsAre
<1>6. \A q : RunsOf(q)' = RunsOf(q)
  BY <1>1, <1>4, <1>5, Unmoved
<1>7. Analysed' = Analysed
  BY <1>6 DEF Analysed
<1>8. Held(p)' = {Off(i) : i \in Held(p)} /\ \A q \in Platform \ {p} : Held(q)' = Held(q)
  <2> SUFFICES ASSUME NEW q \in Platform
               PROVE  Held(q)' = IF q = p THEN {Off(i) : i \in Held(q)} ELSE Held(q)
    OBVIOUS
  <2> PICK l : l = Latest(q)
    OBVIOUS
  <2>1. Held(q)' = IF q \in Analysed THEN runs'[l].rows ELSE {}
    <3>1. RunsOf(q)' = RunsOf(q)
      BY <1>6
    <3> QED
      BY <1>7, <3>1, LatestKept DEF Held
  <2>2. Held(q) = IF q \in Analysed THEN runs[l].rows ELSE {}
    BY DEF Held
  <2>3. q \in Analysed => l \in 1..Len(runs) /\ runs[l].platform = q
    BY <1>1, LatestIs, RunsAre DEF RunsOf
  <2> QED
    BY <1>4, <2>1, <2>2, <2>3
<1>9. \A q \in Platform : Held(q) \subseteq Row
  BY HeldIs
<1>10. Entries(p)' = {OffEntry(e) : e \in Entries(p)}
  <2>1. Entries(p)' = {EntryOf(i) : i \in {Off(j) : j \in Held(p)}}
    BY <1>8, EntriesAre
  <2>2. Entries(p)' = {EntryOf(Off(j)) : j \in Held(p)}
    BY <2>1
  <2>3. Entries(p)' = {OffEntry(EntryOf(j)) : j \in Held(p)}
    BY <1>3, <1>9, <2>2
  <2> QED
    BY <2>3, EntriesAre
<1>11. \A q \in Platform \ {p} : Entries(q)' = Entries(q)
  BY <1>8, EntriesAre
<1>12. CASE w \in Promise!Listed(Entries(p))
  <2>1. [q \in Platform |-> Entries(q)]'
          = [[q \in Platform |-> Entries(q)] EXCEPT ![p] = {OffEntry(e) : e \in Entries(p)}]
    BY <1>10, <1>11
  <2> QED
    BY <1>7, <1>12, <2>1 DEF Promise!Ignore
<1>13. CASE w \notin Promise!Listed(Entries(p))
  <2>1. Entries(p)' = Entries(p)
    BY <1>10, <1>13 DEF Promise!Listed
  <2> QED
    BY <1>7, <1>11, <2>1 DEF Promise!ledger
<1> QED
  BY <1>12, <1>13

LEMMA BackfillKeeps ==
  ASSUME IInv, Backfill
  PROVE  Promise!Naming
<1>1. TypeOK /\ FollowsInv /\ AuthorBroughtItIn
  BY DEF IInv
<1>2. runs' = [r \in 1..Len(runs) |-> [runs[r] EXCEPT !.rows = Backfilled[r]]]
  BY DEF Backfill
<1>3. \A r \in 1..Len(runs) :
        /\ runs'[r].platform = runs[r].platform
        /\ runs'[r].rows = {Filled(r, i) : i \in runs[r].rows}
  <2> SUFFICES ASSUME NEW r \in 1..Len(runs)
               PROVE  /\ runs'[r].platform = runs[r].platform
                      /\ runs'[r].rows = {Filled(r, i) : i \in runs[r].rows}
    OBVIOUS
  <2>1. runs[r] \in RunRow
    BY <1>1, RunsAre
  <2>2. runs'[r] = [runs[r] EXCEPT !.rows = Backfilled[r]]
    BY <1>2
  <2>3. Backfilled[r] = {Filled(r, i) : i \in runs[r].rows}
    BY <1>1, BackfilledIs
  <2> QED
    BY <2>1, <2>2, <2>3 DEF RunRow
<1>4. Len(runs') = Len(runs)
  BY <1>1, <1>2, RunsAre
<1>5. \A q : RunsOf(q)' = RunsOf(q)
  BY <1>1, <1>3, <1>4, Unmoved
<1>6. Analysed' = Analysed
  BY <1>5 DEF Analysed
<1>7. ASSUME NEW q \in Platform
      PROVE  /\ Entries(q)' \subseteq Promise!Entry
             /\ \A e \in Entries(q) : \E f \in Entries(q)' : Promise!Names(e, f)
             /\ \A f \in Entries(q)' : \E e \in Entries(q) : Promise!Names(e, f)
             /\ \A e, f \in Entries(q)' : e.warning = f.warning => e = f
  <2> PICK l : l = Latest(q)
    OBVIOUS
  <2>1. Held(q)' = {Filled(l, i) : i \in Held(q)}
    <3>1. Held(q)' = IF q \in Analysed THEN runs'[l].rows ELSE {}
      <4>1. RunsOf(q)' = RunsOf(q)
        BY <1>5
      <4> QED
        BY <1>6, <4>1, LatestKept DEF Held
    <3>2. q \in Analysed => l \in 1..Len(runs)
      BY <1>1, LatestIs, RunsAre
    <3> QED
      BY <1>3, <3>1, <3>2 DEF Held
  <2>2. ASSUME NEW i \in Held(q)
        PROVE  /\ EntryOf(Filled(l, i)) \in Promise!Entry
               /\ EntryOf(Filled(l, i)).warning = i.warning
               /\ Promise!Names(EntryOf(i), EntryOf(Filled(l, i)))
    <3>1. i \in Row /\ l \in 1..Len(runs) /\ i \in runs[l].rows
      BY <1>1, HeldIs, LatestIs, RunsAre DEF Held
    <3>2. Filled(l, i) \in Row
      BY <1>1, <3>1, FilledRows
    <3>3. /\ Filled(l, i).warning = i.warning /\ Filled(l, i).status = i.status
          /\ i.author # NoAuthor => Filled(l, i) = i
      BY <3>1, FilledIs
    <3>4. i.author = NoAuthor =>
            EntryOf(Filled(l, i)) = [EntryOf(i) EXCEPT !.who = EntryOf(Filled(l, i)).who]
      BY <3>3, EntryIs DEF EntryOf
    <3> QED
      BY <3>2, <3>3, <3>4, EntryIs DEF Promise!Names
  <2>3. Entries(q)' = {EntryOf(Filled(l, i)) : i \in Held(q)}
    <3>1. Entries(q)' = {EntryOf(i) : i \in {Filled(l, j) : j \in Held(q)}}
      BY <2>1, EntriesAre
    <3> QED
      BY <3>1
  <2>4. \A i, j \in Held(q) : i.warning = j.warning => i = j
    BY HeldIs
  <2>5. Entries(q) = {EntryOf(i) : i \in Held(q)}
    BY EntriesAre
  <2> QED
    BY <2>2, <2>3, <2>4, <2>5
<1>8. [q \in Platform |-> Entries(q)]' \in [Platform -> SUBSET Promise!Entry]
  BY <1>7
<1> QED
  BY <1>6, <1>7, <1>8 DEF Promise!Naming

LEMMA ElsewhereKeeps ==
  ASSUME UNCHANGED runs
  PROVE  UNCHANGED Promise!ledger
<1>1. Analysed' = Analysed /\ \A p : Latest(p)' = Latest(p)
  BY DEF Analysed, Latest, RunsOf
<1>2. \A p : Entries(p)' = Entries(p)
  BY <1>1 DEF Entries
<1> QED
  BY <1>1, <1>2 DEF Promise!ledger

LEMMA NextKeeps ==
  ASSUME IInv, [Next]_vars
  PROVE  [Promise!Next]_Promise!ledger
<1>1. ASSUME NEW p \in Platform, NEW full \in BOOLEAN, NEW report \in SUBSET Warning,
             Upload(p, full, report)
      PROVE  Promise!Next
  BY <1>1, UploadKeeps DEF Promise!Next
<1>2. ASSUME NEW p \in Platform, NEW w \in Warning, Ignore(p, w)
      PROVE  Promise!Next \/ UNCHANGED Promise!ledger
  BY <1>2, IgnoreKeeps DEF Promise!Next
<1>3. ASSUME Backfill PROVE Promise!Next
  BY <1>3, BackfillKeeps DEF Promise!Next
<1>4. ASSUME UNCHANGED runs PROVE UNCHANGED Promise!ledger
  BY <1>4, ElsewhereKeeps
<1>5. \/ \E p \in Platform, full \in BOOLEAN, report \in SUBSET Warning : Upload(p, full, report)
      \/ \E p \in Platform, w \in Warning : Ignore(p, w)
      \/ Backfill
      \/ UNCHANGED runs
  BY DEF Next, Abandon, NameRoots, OpenSettings, vars
<1> QED
  BY <1>1, <1>2, <1>3, <1>4, <1>5

\* The rows of the latest runs are a ledger: whatever is uploaded, ignored and filled in,
\* each platform's warnings move as the abstract specification allows.
THEOREM Implements == Spec => KeepsTheLedger
<1> QED
  BY InitKeeps, NextKeeps, Invariance, PTL DEF Spec, KeepsTheLedger, Promise!Spec
=================================================================================
