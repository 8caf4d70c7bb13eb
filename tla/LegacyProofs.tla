------------------------------ MODULE LegacyProofs ------------------------------
(***************************************************************************)
(* The two halves of the legacy service, which share no state.             *)
(*                                                                         *)
(* From a push to a build: no change is lost, for every number of tasks,   *)
(* pushes, projects, faults and manual actions, although tasks act on rows *)
(* read long ago, which may be other projects' rows by then, and forms     *)
(* write back what they were opened with.                                  *)
(*                                                                         *)
(* From SonarQube to Jira, what the cache costs: whatever is analysed,     *)
(* closed, reopened, lost or switched off, for any number of issues,       *)
(* analyses and faults, a stale answer is never staler than the time to    *)
(* live.                                                                   *)
(***************************************************************************)
EXTENDS LegacyBuilds, SonarIssues, FiniteSetTheorems, WellFoundedInduction, TLAPS

-----------------------------------------------------------------------------
(* From a push to a build: the inductive invariant, part by part.          *)

PushRow == [branch : Branch, kind : {"C", "other"}]
Row == [alive : BOOLEAN, name : Name, branch : Branch, last : Nat, disabled : BOOLEAN]

TypedInv ==
  /\ cvs \in {"Git", "TFVC"}
  /\ pushes \in Seq(PushRow)
  /\ rows \in Seq(Row)
  /\ asked \in [Name -> SUBSET Nat] /\ refused \in [Name -> SUBSET Nat]
  /\ skipped \in [Name -> SUBSET Nat]

\* What builds of a project looked at, or would have, and what TFVC kept from them.
Built(n) == asked[n] \cup refused[n]
Seen(n) == Built(n) \cup skipped[n]

\* A push that may be the last changeset of a project: of its branch, with nothing behind
\* it that no build was asked for, after a first scan; or the project has another's id.
Good(n, i) ==
  /\ i \in DOMAIN pushes
  /\ n \in Branch =>
       \/ n \in confused
       \/ pushes[i].branch = n /\ OfC(UpTo(i)) \subseteq Seen(n) /\ n \in scanned

RowOk(row) ==
  /\ row.name \in Branch => row.branch = row.name
  /\ row.last # 0 => Good(row.name, row.last)

\* What a task knows is right, and stays so.
Found(k) ==
  /\ k.push \in DOMAIN pushes /\ k.name \in Name
  /\ k.files \in SUBSET Nat /\ k.missed \in SUBSET Nat
  /\ k.name \in Branch =>
       \/ k.name \in confused
       \/ /\ pushes[k.push].branch = k.name
          /\ OfC(UpTo(k.push)) \subseteq k.files \cup k.missed \cup Seen(k.name)
          /\ k.first \/ k.name \in scanned
TaskOk(k) ==
  /\ k.pc \in {"create", "created"} => k.push \in DOMAIN pushes /\ pushes[k.push].branch = "release"
  /\ k.pc = "examined" => Found(k)
  /\ k.pc = "triggered" => Good(k.name, k.push)
BuildOk(b) == b.name \in Name /\ Good(b.name, b.commit)
FormOk(f) ==
  f.open => f.name \in Name /\ f.branch \in Branch /\ f.last \in Nat /\ RowOk(f)

RowInv   == \A r \in DOMAIN rows : RowOk(rows[r])
TaskInv  == task = [t \in Task |-> task[t]] /\ \A t \in Task : TaskOk(task[t])
BuildInv == \A b \in builds : BuildOk(b)
FormInv  == FormOk(form)

IInv == TypedInv /\ RowInv /\ TaskInv /\ BuildInv /\ FormInv /\ FirstScanFirst

-----------------------------------------------------------------------------
(* The first and the last of a set of numbers. *)

\* A set of numbers up to n has a least element: the smallest of its initial segments ends
\* there.
LEMMA LeastOf ==
  ASSUME NEW n \in Nat, NEW T, T \subseteq 1..n, T # {}
  PROVE  \E k \in T : \A x \in T : k <= x
<1> DEFINE UpToIn(k) == {x \in T : x <= k}
           Heads == {UpToIn(k) : k \in T}
<1>1. Heads # {} /\ Heads \subseteq FiniteSubsetsOf(T)
  <2>1. IsFiniteSet(1..n)
    BY FS_Interval
  <2>2. IsFiniteSet(T)
    BY <2>1, FS_Subset
  <2>3. \A k \in T : UpToIn(k) \in FiniteSubsetsOf(T)
    BY <2>2, FS_Subset DEF FiniteSubsetsOf
  <2>4. PICK k \in T : TRUE
    OBVIOUS
  <2>5. UpToIn(k) \in Heads
    OBVIOUS
  <2> QED
    BY <2>3, <2>5
<1>2. PICK U \in Heads : \A V \in Heads : ~(<<V, U>> \in StrictSubsetOrdering(T))
  <2> HIDE DEF Heads
  <2> QED
    BY <1>1, FS_StrictSubsetOrderingWellFounded, WFMin, Zenon
<1>3. PICK k \in T : U = UpToIn(k)
  OBVIOUS
<1>4. ASSUME NEW x \in T, x < k PROVE FALSE
  <2>1. UpToIn(x) \in Heads
    OBVIOUS
  <2>2. k \in Int /\ x \in Int /\ \A y \in T : y \in Int
    OBVIOUS
  <2>3. UpToIn(x) \subseteq UpToIn(k) /\ k \in UpToIn(k) /\ k \notin UpToIn(x)
    <3>1. \A y \in T : y <= x => y <= k
      BY <1>4, <2>2
    <3>2. k <= k /\ ~(k <= x)
      BY <1>4, <2>2
    <3> QED
      BY <3>1, <3>2
  <2>4. <<UpToIn(x), U>> \in StrictSubsetOrdering(T)
    BY <1>3, <2>3 DEF StrictSubsetOrdering
  <2> QED
    BY <1>2, <2>1, <2>4
<1> QED
  BY <1>4

\* The greatest one is the least one counted from behind.
LEMMA GreatestOf ==
  ASSUME NEW n \in Nat, NEW T, T \subseteq 0..n, T # {}
  PROVE  \E k \in T : \A x \in T : x <= k
<1> DEFINE Mirror == {n + 1 - x : x \in T}
<1>1. Mirror \subseteq 1..(n + 1) /\ Mirror # {} /\ n + 1 \in Nat
  <2>1. \A x \in T : x \in Int /\ 0 <= x /\ x <= n
    OBVIOUS
  <2>2. \A x \in T : n + 1 - x \in 1..(n + 1)
    BY <2>1
  <2>3. PICK x \in T : TRUE
    BY Zenon
  <2>4. n + 1 - x \in Mirror
    OBVIOUS
  <2>5. n + 1 \in Nat
    OBVIOUS
  <2>6. Mirror \subseteq 1..(n + 1)
    BY <2>2
  <2> QED
    BY <2>4, <2>5, <2>6, Zenon
<1>2. PICK m \in Mirror : \A y \in Mirror : m <= y
  <2> HIDE DEF Mirror
  <2> QED
    BY <1>1, LeastOf
<1>3. PICK k \in T : m = n + 1 - k
  OBVIOUS
<1>4. ASSUME NEW x \in T PROVE x <= k
  <2>1. n + 1 - x \in Mirror
    OBVIOUS
  <2>2. n + 1 - k <= n + 1 - x
    BY <1>2, <1>3, <2>1
  <2> QED
    BY <2>2
<1> QED
  BY <1>4

\* First finds a project among those there are.
LEMMA FirstIn ==
  ASSUME TypedInv, NEW s, s \subseteq DOMAIN rows, s # {}
  PROVE  First(s) \in s
<1>1. DOMAIN rows = 1..Len(rows) /\ Len(rows) \in Nat
  BY DEF TypedInv
<1>2. \E r \in s : \A q \in s : r <= q
  BY <1>1, LeastOf
<1> QED
  BY <1>2 DEF First

\* The head of a branch is a push to it.
LEMMA HeadIn ==
  ASSUME TypedInv, NEW b, On(b) # {}
  PROVE  HeadOf(b) \in On(b)
<1>1. On(b) \subseteq 0..Len(pushes) /\ Len(pushes) \in Nat
  BY DEF TypedInv, On
<1>2. \E i \in On(b) : \A j \in On(b) : j <= i
  BY <1>1, GreatestOf
<1> QED
  BY <1>2 DEF HeadOf

-----------------------------------------------------------------------------
(* Nothing that was right becomes wrong. *)

Grows ==
  /\ \/ pushes' = pushes
     \/ \E x \in PushRow : pushes' = Append(pushes, x)
  /\ \A n \in Name : Seen(n) \subseteq Seen(n)'
  /\ scanned \subseteq scanned'
  /\ confused \subseteq confused'

LEMMA PushesGrow ==
  ASSUME TypedInv, Grows
  PROVE  \A i \in DOMAIN pushes :
            /\ i \in DOMAIN pushes' /\ pushes'[i] = pushes[i]
            /\ OfC(UpTo(i))' = OfC(UpTo(i))
<1>1. CASE pushes' = pushes
  BY <1>1 DEF OfC, UpTo, On
<1>2. ASSUME NEW x \in PushRow, pushes' = Append(pushes, x)
      PROVE  \A i \in DOMAIN pushes :
                /\ i \in DOMAIN pushes' /\ pushes'[i] = pushes[i]
                /\ OfC(UpTo(i))' = OfC(UpTo(i))
  <2>1. /\ DOMAIN pushes = 1..Len(pushes) /\ DOMAIN pushes' = 1..(Len(pushes) + 1)
        /\ Len(pushes) \in Nat /\ \A i \in DOMAIN pushes : pushes'[i] = pushes[i]
    BY <1>2 DEF TypedInv
  <2>2. SUFFICES ASSUME NEW i \in DOMAIN pushes PROVE OfC(UpTo(i))' = OfC(UpTo(i))
    BY <2>1
  <2>3. \A j \in DOMAIN pushes' : j <= i => j \in DOMAIN pushes
    BY <2>1
  <2>4. UpTo(i)' = UpTo(i)
    BY <2>1, <2>3 DEF UpTo, On
  <2>5. UpTo(i) \subseteq DOMAIN pushes
    BY DEF UpTo, On
  <2> QED
    BY <2>1, <2>4, <2>5 DEF OfC
<1> QED
  BY <1>1, <1>2 DEF Grows

LEMMA GoodStays ==
  ASSUME TypedInv, Grows, NEW n, NEW i, Good(n, i)
  PROVE  Good(n, i)'
<1>1. i \in DOMAIN pushes' /\ pushes'[i] = pushes[i] /\ OfC(UpTo(i))' = OfC(UpTo(i))
  BY PushesGrow DEF Good
<1>2. /\ n \in Branch => Seen(n) \subseteq Seen(n)' /\ scanned \subseteq scanned'
      /\ n \in confused => n \in confused'
  BY DEF Grows, Name
<1> QED
  BY <1>1, <1>2 DEF Good

LEMMA AllStays ==
  ASSUME TypedInv, Grows
  PROVE  /\ \A row : RowOk(row) => RowOk(row)'
         /\ \A k : TaskOk(k) => TaskOk(k)'
         /\ \A b : BuildOk(b) => BuildOk(b)'
         /\ \A f : FormOk(f) => FormOk(f)'
<1>1. \A n, i : Good(n, i) => Good(n, i)'
  BY GoodStays
<1>3. ASSUME NEW k, Found(k) PROVE Found(k)'
  <2>1. /\ k.push \in DOMAIN pushes' /\ pushes'[k.push] = pushes[k.push]
        /\ OfC(UpTo(k.push))' = OfC(UpTo(k.push))
    BY <1>3, PushesGrow DEF Found
  <2>2. /\ k.name \in Branch => Seen(k.name) \subseteq Seen(k.name)' /\ scanned \subseteq scanned'
        /\ k.name \in confused => k.name \in confused'
    BY DEF Grows, Name
  <2> QED
    BY <1>3, <2>1, <2>2 DEF Found
<1>4. \A k : TaskOk(k) => TaskOk(k)'
  <2> SUFFICES ASSUME NEW k, TaskOk(k) PROVE TaskOk(k)'
    OBVIOUS
  <2>1. k.pc \in {"create", "created"} => (k.push \in DOMAIN pushes /\ pushes[k.push].branch = "release")'
    BY PushesGrow DEF TaskOk
  <2>2. k.pc = "triggered" => Good(k.name, k.push)'
    BY <1>1 DEF TaskOk
  <2> QED
    BY <1>3, <2>1, <2>2 DEF TaskOk
<1>5. \A row : RowOk(row) => RowOk(row)'
  BY <1>1 DEF RowOk
<1>6. \A b : BuildOk(b) => BuildOk(b)'
  BY <1>1 DEF BuildOk
<1>7. \A f : FormOk(f) => FormOk(f)'
  BY <1>5 DEF FormOk
<1> QED
  BY <1>4, <1>5, <1>6, <1>7

\* A step is right if what it writes is.
LEMMA Step ==
  ASSUME IInv, Grows, TypedInv', FirstScanFirst',
         \A r \in DOMAIN rows' : (r \in DOMAIN rows /\ rows'[r] = rows[r]) \/ RowOk(rows[r])',
         task' = [t \in Task |-> task'[t]],
         \A t \in Task : task'[t] = task[t] \/ TaskOk(task[t])',
         \A b \in builds' : b \in builds \/ BuildOk(b)',
         form' = form \/ FormOk(form)'
  PROVE  IInv'
<1>1. /\ \A row : RowOk(row) => RowOk(row)'
      /\ \A k : TaskOk(k) => TaskOk(k)'
      /\ \A b : BuildOk(b) => BuildOk(b)'
      /\ \A f : FormOk(f) => FormOk(f)'
  BY AllStays DEF IInv
<1>2. RowInv'
  BY <1>1 DEF IInv, RowInv
<1>3. TaskInv'
  BY <1>1 DEF IInv, TaskInv
<1>4. BuildInv'
  BY <1>1 DEF IInv, BuildInv
<1>5. FormInv'
  BY <1>1 DEF IInv, FormInv
<1> QED
  BY <1>2, <1>3, <1>4, <1>5 DEF IInv

\* A step that only counts.
LEMMA Unmoved ==
  ASSUME IInv, UNCHANGED <<cvs, pushes, rows, task, builds, form, history>>
  PROVE  IInv'
<1>1. Grows /\ TypedInv' /\ FirstScanFirst'
  BY DEF Grows, Seen, Built, history, IInv, TypedInv, FirstScanFirst
<1>2. task' = [u \in Task |-> task'[u]]
  BY DEF IInv, TaskInv
<1> QED
  BY <1>1, <1>2, Step

\* A step of one task that touches nothing else.
LEMMA TaskStep ==
  ASSUME IInv, NEW t \in Task, NEW k, task' = [task EXCEPT ![t] = k], TaskOk(k),
         UNCHANGED <<cvs, pushes, rows, builds, form, history>>
  PROVE  IInv'
<1>1. Grows
  BY DEF Grows, Seen, Built, history
<1>2. TypedInv' /\ FirstScanFirst'
  BY DEF IInv, TypedInv, FirstScanFirst, history
<1>3. TaskOk(k)'
  BY <1>1, AllStays DEF IInv
<1>4. task' = [u \in Task |-> task'[u]] /\ \A u \in Task : task'[u] = task[u] \/ task'[u] = k
  BY DEF IInv, TaskInv
<1> QED
  BY <1>1, <1>2, <1>3, <1>4, Step

\* A row is changed, by nobody or by a task that is done with it.
LEMMA RowStep ==
  ASSUME IInv, NEW r \in DOMAIN rows, NEW row \in Row, rows' = [rows EXCEPT ![r] = row],
         RowOk(row)', UNCHANGED <<cvs, pushes, builds, asked, refused, skipped, scanned>>,
         confused \subseteq confused',
         \/ UNCHANGED task
         \/ \E t \in Task : task' = [task EXCEPT ![t] = Idle],
         form' = form \/ form' = Closed
  PROVE  IInv'
<1>1. /\ rows' \in Seq(Row) /\ DOMAIN rows' = DOMAIN rows /\ rows'[r] = row
      /\ \A q \in DOMAIN rows : q # r => rows'[q] = rows[q]
  BY DEF IInv, TypedInv
<1>2. Grows
  BY DEF Grows, Seen, Built
<1>3. TypedInv' /\ FirstScanFirst'
  BY <1>1 DEF IInv, TypedInv, FirstScanFirst
<1>6. \A q \in DOMAIN rows' : (q \in DOMAIN rows /\ rows'[q] = rows[q]) \/ RowOk(rows[q])'
  BY <1>1
<1>7. TaskOk(Idle)' /\ FormOk(Closed)'
  BY DEF TaskOk, FormOk, Idle, Closed
<1>8. task' = [u \in Task |-> task'[u]] /\ \A u \in Task : task'[u] = task[u] \/ TaskOk(task[u])'
  BY <1>7 DEF IInv, TaskInv
<1>9. form' = form \/ FormOk(form)'
  BY <1>7
<1>10. \A b \in builds' : b \in builds
  OBVIOUS
<1> QED
  BY <1>2, <1>3, <1>6, <1>8, <1>9, <1>10, Step

-----------------------------------------------------------------------------
(* The actions, one by one. *)

LEMMA InitInv == Init => IInv
<1> SUFFICES ASSUME Init PROVE IInv
  OBVIOUS
<1>1. rows \in Seq(Row) /\ \A r \in DOMAIN rows : rows[r].name = "main" /\ rows[r].branch = "main" /\ rows[r].last = 0
  BY DEF Init, Row, Name, Branch
<1>2. TypedInv
  BY <1>1 DEF Init, TypedInv
<1>3. RowInv
  BY <1>1 DEF RowInv, RowOk
<1>4. TaskInv
  BY DEF Init, TaskInv, TaskOk, Idle
<1>5. BuildInv /\ FormInv /\ FirstScanFirst
  BY DEF Init, BuildInv, FormInv, FormOk, Closed, FirstScanFirst, Name, Branch
<1> QED
  BY <1>2, <1>3, <1>4, <1>5 DEF IInv

\* Behind a push there is what is behind another one of the branch, and what is between.
LEMMA Bridged ==
  ASSUME TypedInv, NEW a \in DOMAIN pushes, NEW b \in DOMAIN pushes, pushes[a].branch = pushes[b].branch
  PROVE  /\ OfC(UpTo(b)) \subseteq OfC(UpTo(a)) \cup OfC(Between(a, b))
         /\ OfC(UpTo(b)) \subseteq OfC(UpTo(a)) \cup OfC(FromTo(a, b))
<1>1. \A j \in UpTo(b) : j \in DOMAIN pushes /\ j \in Nat
  BY DEF UpTo, On, TypedInv
<1>2. \A j \in UpTo(b) : j \in UpTo(a) \/ j \in Between(a, b)
  BY DEF Between
<1>3. \A j \in UpTo(b) : j \in UpTo(a) \/ j \in FromTo(a, b)
  <2>1. a \in Nat /\ b \in Nat
    BY DEF TypedInv
  <2> QED
    BY <1>1, <2>1 DEF UpTo, On, FromTo
<1> QED
  BY <1>2, <1>3 DEF OfC

LEMMA ExamineInv ==
  ASSUME IInv, NEW t \in Task, Examine(t)
  PROVE  IInv'
<1>1. PICK push \in DOMAIN pushes, fails \in BOOLEAN, missed \in SUBSET DOMAIN pushes :
        LET b == pushes[push].branch
            found == Concerned(b)
            r == First(found)
            ex == Examined(rows[r].last, push)
            files == ex.files \ missed
            ended == \/ found = {}
                     \/ cvs = "Git" /\ rows[r].disabled
                     \/ fails /\ rows[r].last # 0
                     \/ files = {}
                     \/ cvs = "Git" /\ rows[r].branch # b /\ b # "release"
        IN  task' = [task EXCEPT ![t] =
                    IF ended THEN Idle
                    ELSE [pc |-> IF rows[r].branch = b THEN "examined" ELSE "create",
                          push |-> push, row |-> r, name |-> rows[r].name, off |-> rows[r].disabled,
                          files |-> files, missed |-> missed, first |-> ex.first]]
  BY DEF Examine
<1> DEFINE b == pushes[push].branch
           found == Concerned(b)
           r == First(found)
           last == rows[r].last
           ex == Examined(last, push)
           files == ex.files \ missed
           ended == \/ found = {}
                    \/ cvs = "Git" /\ rows[r].disabled
                    \/ fails /\ rows[r].last # 0
                    \/ files = {}
                    \/ cvs = "Git" /\ rows[r].branch # b /\ b # "release"
           k == [pc |-> IF rows[r].branch = b THEN "examined" ELSE "create",
                 push |-> push, row |-> r, name |-> rows[r].name, off |-> rows[r].disabled,
                 files |-> files, missed |-> missed, first |-> ex.first]
<1>2. UNCHANGED <<cvs, pushes, rows, builds, form, history>>
  BY DEF Examine
<1>3. CASE ended
  <2>1. task' = [task EXCEPT ![t] = Idle]
    BY <1>1, <1>3
  <2>2. TaskOk(Idle)
    BY DEF TaskOk, Idle
  <2> QED
    BY <1>2, <2>1, <2>2, TaskStep
<1>4. CASE ~ended
  <2>1. task' = [task EXCEPT ![t] = k]
    BY <1>1, <1>4
  <2>2. r \in found /\ r \in DOMAIN rows
    <3>1. found \subseteq DOMAIN rows /\ found # {}
      BY <1>4 DEF Concerned, Named, Alive
    <3> HIDE DEF found
    <3> QED
      BY <3>1, FirstIn DEF IInv
  <2>3. rows[r] \in Row /\ RowOk(rows[r]) /\ b \in Branch
    <3> HIDE DEF r, found
    <3>1. rows[r] \in Row /\ RowOk(rows[r])
      BY <2>2 DEF IInv, TypedInv, RowInv
    <3>2. pushes[push] \in PushRow
      BY DEF IInv, TypedInv
    <3> QED
      BY <3>1, <3>2 DEF PushRow
  <2>4. cvs = "TFVC" => rows[r].branch = b
    <3> HIDE DEF r
    <3> QED
      BY <2>2 DEF Concerned
  <2>5. cvs \in {"Git", "TFVC"} /\ TypedInv
    BY DEF IInv, TypedInv
  <2> HIDE DEF r, found
  <2>6. CASE rows[r].branch = b
    <3>1. k.files \in SUBSET Nat /\ k.missed \in SUBSET Nat
      <4>1. ex.files \subseteq DOMAIN pushes \/ ex.files \in SUBSET Nat
        BY <2>3 DEF Examined, OfC, UpTo, On, Between, FromTo, Row
      <4>2. DOMAIN pushes \subseteq Nat
        BY <2>5 DEF TypedInv
      <4> QED
        BY <4>1, <4>2
    <3>2. ASSUME k.name \in Branch, k.name \notin confused
          PROVE  /\ pushes[push].branch = k.name
                 /\ OfC(UpTo(push)) \subseteq k.files \cup k.missed \cup Seen(k.name)
                 /\ k.first \/ k.name \in scanned
      <4>1. b = rows[r].name
        BY <2>3, <2>6, <3>2 DEF RowOk
      <4>2. CASE last = 0
        BY <4>1, <4>2 DEF Examined, OfC
      <4>3. CASE last # 0
        <5>1. Good(rows[r].name, last) /\ rows[r].name \in Branch
          BY <2>3, <4>3, <3>2 DEF RowOk
        <5>2. /\ last \in DOMAIN pushes /\ pushes[last].branch = b
              /\ OfC(UpTo(last)) \subseteq Seen(rows[r].name) /\ rows[r].name \in scanned
          BY <5>1, <4>1, <3>2 DEF Good
        <5>3. ex.files \in {OfC(Between(last, push)), OfC(FromTo(last, push))}
          BY <4>3 DEF Examined
        <5>4. OfC(UpTo(push)) \subseteq OfC(UpTo(last)) \cup ex.files
          BY <2>5, <5>2, <5>3, Bridged
        <5> QED
          BY <4>1, <5>2, <5>4
      <4> QED
        BY <4>2, <4>3
    <3>3. Found(k)
      BY <2>3, <3>1, <3>2 DEF Found, Row
    <3>4. k.pc = "examined"
      BY <2>6
    <3>5. TaskOk(k)
      BY <3>3, <3>4 DEF TaskOk
    <3> QED
      BY <1>2, <2>1, <3>5, TaskStep
  <2>7. CASE rows[r].branch # b
    <3>1. b = "release"
      BY <1>4, <2>4, <2>5, <2>7
    <3>2. k.pc = "create" /\ k.push = push
      BY <2>7
    <3>3. TaskOk(k)
      BY <3>1, <3>2 DEF TaskOk
    <3> QED
      BY <1>2, <2>1, <3>3, TaskStep
  <2> QED
    BY <2>6, <2>7
<1> QED
  BY <1>3, <1>4

LEMMA CreateInv ==
  ASSUME IInv, NEW t \in Task, Create(t)
  PROVE  IInv'
<1>a. PICK row : row = NewRow(task[t].row)
  OBVIOUS
<1> DEFINE push == task[t].push
<1>b. PICK k : k = [pc |-> "created", push |-> push]
  OBVIOUS
<1>1. /\ task[t].pc = "create" /\ rows' = Append(rows, row) /\ task' = [task EXCEPT ![t] = k]
      /\ UNCHANGED <<cvs, pushes, builds, form, history>>
  BY <1>a, <1>b DEF Create
<1>2. row \in Row /\ row.name = "release" /\ row.branch = "release" /\ row.last = 0
  BY <1>a DEF NewRow, Row, Name, Branch
<1>3. /\ rows' \in Seq(Row)
      /\ \A q \in DOMAIN rows : q \in DOMAIN rows' /\ rows'[q] = rows[q]
      /\ \A q \in DOMAIN rows' : q \in DOMAIN rows \/ rows'[q] = row
  BY <1>1, <1>2 DEF IInv, TypedInv
<1>4. Grows
  BY <1>1, <1>3 DEF Grows, Seen, Built, history
<1>5. TypedInv' /\ FirstScanFirst'
  BY <1>1, <1>3 DEF IInv, TypedInv, FirstScanFirst, history
<1>6. RowOk(row)'
  BY <1>2 DEF RowOk
<1>7. TaskOk(k)
  BY <1>1, <1>b DEF IInv, TaskInv, TaskOk
<1>8. TaskOk(k)'
  BY <1>4, <1>7, AllStays DEF IInv
<1>9. task' = [u \in Task |-> task'[u]] /\ \A u \in Task : task'[u] = task[u] \/ task'[u] = k
  BY <1>1 DEF IInv, TaskInv
<1>10. \A u \in Task : task'[u] = task[u] \/ TaskOk(task[u])'
  BY <1>8, <1>9
<1>11. \A q \in DOMAIN rows' : (q \in DOMAIN rows /\ rows'[q] = rows[q]) \/ RowOk(rows[q])'
  BY <1>3, <1>6
<1> QED
  BY <1>1, <1>4, <1>5, <1>9, <1>10, <1>11, Step

LEMMA FetchInv ==
  ASSUME IInv, NEW t \in Task, Fetch(t)
  PROVE  IInv'
<1> DEFINE r == First(Named("release"))
           push == task[t].push
           k == [pc |-> "examined", push |-> push, row |-> r, name |-> "release",
                 off |-> rows[r].disabled, files |-> UpTo(push), missed |-> {}, first |-> TRUE]
<1>1. task[t].pc = "created" /\ UNCHANGED <<cvs, pushes, rows, builds, form, history>>
  BY DEF Fetch
<1>2. push \in DOMAIN pushes /\ pushes[push].branch = "release"
  BY <1>1 DEF IInv, TaskInv, TaskOk
<1>3. CASE Named("release") = {}
  <2>1. task' = [task EXCEPT ![t] = Idle] /\ TaskOk(Idle)
    BY <1>3 DEF Fetch, TaskOk, Idle
  <2> QED
    BY <1>1, <2>1, TaskStep
<1>4. CASE Named("release") # {}
  <2>1. task' = [task EXCEPT ![t] = k]
    BY <1>4 DEF Fetch
  <2>4. UpTo(push) \in SUBSET Nat /\ OfC(UpTo(push)) \subseteq UpTo(push)
    BY DEF IInv, TypedInv, UpTo, On, OfC
  <2> HIDE DEF r, push
  <2>5. Found(k)
    BY <1>2, <2>4 DEF Found, Name, Branch
  <2>6. TaskOk(k)
    BY <2>5 DEF TaskOk
  <2> QED
    BY <1>1, <2>1, <2>6, TaskStep
<1> QED
  BY <1>3, <1>4

\* What asking for a build of the files up to a push amounts to.
LEMMA Asked ==
  ASSUME IInv, NEW n \in Name, NEW c \in DOMAIN pushes, NEW F \in SUBSET Nat, NEW first, NEW off,
         NEW M \in SUBSET Nat,
         Ask(n, c, F, first, off), skipped' = [skipped EXCEPT ![n] = @ \cup M],
         UNCHANGED <<pushes, confused>>,
         n \in Branch => \/ n \in confused
                         \/ /\ pushes[c].branch = n /\ OfC(UpTo(c)) \subseteq F \cup M \cup Seen(n)
                            /\ first \/ n \in scanned
  PROVE  /\ Grows /\ FirstScanFirst' /\ Good(n, c)'
         /\ asked' \in [Name -> SUBSET Nat] /\ refused' \in [Name -> SUBSET Nat]
         /\ skipped' \in [Name -> SUBSET Nat]
         /\ \A b \in builds' : b \in builds \/ BuildOk(b)'
<1>1. /\ asked \in [Name -> SUBSET Nat] /\ refused \in [Name -> SUBSET Nat]
      /\ skipped \in [Name -> SUBSET Nat]
  BY DEF IInv, TypedInv
<1>2. scanned' = IF first THEN scanned \cup {n} ELSE scanned
  BY DEF Ask
<1>3. /\ asked' \in [Name -> SUBSET Nat] /\ refused' \in [Name -> SUBSET Nat]
      /\ Built(n)' = Built(n) \cup F /\ \A m \in Name : m # n => Built(m)' = Built(m)
  <2>1. CASE refused' = [refused EXCEPT ![n] = @ \cup F] /\ UNCHANGED <<asked, builds>>
    BY <1>1, <2>1 DEF Built
  <2>2. CASE asked' = [asked EXCEPT ![n] = @ \cup F] /\ UNCHANGED refused
    BY <1>1, <2>2 DEF Built
  <2> QED
    BY <2>1, <2>2 DEF Ask
<1>4. /\ skipped' \in [Name -> SUBSET Nat]
      /\ Seen(n)' = Seen(n) \cup F \cup M /\ \A m \in Name : m # n => Seen(m)' = Seen(m)
  BY <1>1, <1>3 DEF Seen
<1>5. Grows
  BY <1>2, <1>4 DEF Grows
<1>6. OfC(UpTo(c))' = OfC(UpTo(c))
  BY DEF OfC, UpTo, On
<1>7. n \in Branch /\ n \notin confused => n \in scanned'
  BY <1>2
<1>8. Good(n, c)'
  BY <1>4, <1>6, <1>7 DEF Good
<1>9. FirstScanFirst'
  <2>1. SUFFICES ASSUME NEW m \in Branch \ confused, Built(m)' # {} PROVE m \in scanned'
    BY DEF FirstScanFirst, Built
  <2>2. CASE m = n
    BY <1>7, <2>2
  <2>3. CASE m # n
    <3>1. Built(m) # {} /\ m \in scanned
      BY <1>3, <2>1, <2>3 DEF IInv, FirstScanFirst, Built, Name
    <3> QED
      BY <1>2, <3>1
  <2> QED
    BY <2>2, <2>3
<1>10. \A b \in builds' : b \in builds \/ BuildOk(b)'
  <2>1. \A b \in builds' : b \in builds \/ b = BuildOf(n, c)
    BY DEF Ask
  <2>2. BuildOk(BuildOf(n, c))'
    BY <1>8 DEF BuildOk, BuildOf
  <2> QED
    BY <2>1, <2>2
<1> QED
  BY <1>3, <1>4, <1>5, <1>8, <1>9, <1>10

LEMMA TriggerInv ==
  ASSUME IInv, NEW t \in Task, Trigger(t)
  PROVE  IInv'
<1>a. PICK k : k = task[t]
  OBVIOUS
<1>b. PICK done : done = [pc |-> "triggered", push |-> k.push, row |-> k.row, name |-> k.name]
  OBVIOUS
<1>1. /\ k.pc = "examined" /\ task' = [task EXCEPT ![t] = done]
      /\ Ask(k.name, k.push, k.files, k.first, k.off)
      /\ skipped' = [skipped EXCEPT ![k.name] = @ \cup k.missed]
      /\ UNCHANGED <<cvs, pushes, rows, form, confused>>
  BY <1>a, <1>b DEF Trigger
<1>2. Found(k)
  BY <1>1, <1>a DEF IInv, TaskInv, TaskOk
<1>3. /\ Grows /\ FirstScanFirst' /\ Good(k.name, k.push)'
      /\ asked' \in [Name -> SUBSET Nat] /\ refused' \in [Name -> SUBSET Nat]
      /\ skipped' \in [Name -> SUBSET Nat]
      /\ \A b \in builds' : b \in builds \/ BuildOk(b)'
  BY <1>1, <1>2, Asked DEF Found
<1>4. TypedInv'
  BY <1>1, <1>3 DEF IInv, TypedInv
<1>5. TaskOk(done)'
  BY <1>3, <1>b DEF TaskOk
<1>6. task' = [u \in Task |-> task'[u]] /\ \A u \in Task : task'[u] = task[u] \/ task'[u] = done
  BY <1>1 DEF IInv, TaskInv
<1>7. \A u \in Task : task'[u] = task[u] \/ TaskOk(task[u])'
  BY <1>5, <1>6
<1>8. \A r \in DOMAIN rows' : r \in DOMAIN rows /\ rows'[r] = rows[r]
  BY <1>1
<1> QED
  BY <1>1, <1>3, <1>4, <1>6, <1>7, <1>8, Step

\* The row has the name that the task knows, or is another project's, which is noted.
LEMMA UpdateInv ==
  ASSUME IInv, NEW t \in Task, Update(t)
  PROVE  IInv'
<1>a. PICK k : k = task[t]
  OBVIOUS
<1>b. PICK r : r = k.row
  OBVIOUS
<1>1. /\ k.pc = "triggered" /\ task' = [task EXCEPT ![t] = Idle]
      /\ UNCHANGED <<cvs, pushes, builds, form, asked, refused, skipped, scanned>>
      /\ IF r \in Alive
         THEN /\ rows' = [rows EXCEPT ![r].last = k.push]
              /\ confused' = confused \cup ({rows[r].name} \ {k.name})
         ELSE UNCHANGED <<rows, confused>>
  BY <1>a, <1>b DEF Update
<1>2. TaskOk(k)
  BY <1>a DEF IInv, TaskInv
<1>3. Good(k.name, k.push) /\ k.push \in Nat
  <2>1. Good(k.name, k.push)
    BY <1>1, <1>2 DEF TaskOk
  <2> QED
    BY <2>1 DEF Good, IInv, TypedInv
<1>4. CASE r \in Alive
  <2>1. r \in DOMAIN rows /\ rows[r] \in Row /\ RowOk(rows[r])
    BY <1>4 DEF Alive, IInv, TypedInv, RowInv
  <2>2. PICK n : n = rows[r].name
    OBVIOUS
  <2>3. PICK row : row = [rows[r] EXCEPT !.last = k.push]
    OBVIOUS
  <2>4. rows' = [rows EXCEPT ![r] = row] /\ confused' = confused \cup ({n} \ {k.name})
    BY <1>1, <1>4, <2>2, <2>3
  <2>5. row \in Row /\ row.name = n /\ row.branch = rows[r].branch /\ row.last = k.push
    BY <1>3, <2>1, <2>2, <2>3 DEF Row
  <2>6. Grows
    BY <1>1, <2>4 DEF Grows, Seen, Built
  <2>7. Good(n, k.push)'
    <3>1. CASE n = k.name
      <4>1. Good(n, k.push)
        BY <1>3, <3>1
      <4> QED
        BY <2>6, <4>1, GoodStays DEF IInv
    <3>2. CASE n # k.name
      BY <1>1, <1>3, <2>4, <3>2 DEF Good
    <3> QED
      BY <3>1, <3>2
  <2>8. RowOk(row)'
    BY <2>1, <2>2, <2>5, <2>7 DEF RowOk
  <2> QED
    BY <1>1, <2>1, <2>4, <2>5, <2>8, RowStep
<1>5. CASE r \notin Alive
  <2>1. TaskOk(Idle) /\ UNCHANGED <<rows, confused>>
    BY <1>1, <1>5 DEF TaskOk, Idle
  <2> QED
    BY <1>1, <2>1, TaskStep DEF history
<1> QED
  BY <1>4, <1>5

\* One row changes, to one that is right already.
LEMMA RowSet ==
  ASSUME IInv, NEW r \in DOMAIN rows, NEW row \in Row, rows' = [rows EXCEPT ![r] = row],
         RowOk(row), UNCHANGED <<cvs, pushes, task, builds, history>>,
         form' = form \/ form' = Closed
  PROVE  IInv'
<1>1. Grows
  BY DEF Grows, Seen, Built, history
<1>2. RowOk(row)'
  BY <1>1, AllStays DEF IInv
<1> QED
  BY <1>2, RowStep DEF history

LEMMA CallbackInv ==
  ASSUME IInv, NEW b \in builds, Callback(b)
  PROVE  IInv'
<1>1. UNCHANGED <<cvs, pushes, task, builds, form, history>>
  BY DEF Callback
<1>2. CASE Named(b.name) = {}
  <2>1. UNCHANGED rows
    BY <1>2 DEF Callback
  <2> QED
    BY <1>1, <2>1, Unmoved
<1>3. CASE Named(b.name) # {}
  <2> DEFINE r == First(Named(b.name))
             row == [rows[r] EXCEPT !.last = b.commit]
  <2>1. rows' = [rows EXCEPT ![r] = row]
    BY <1>3 DEF Callback, Reported
  <2>2. r \in Named(b.name) /\ Named(b.name) \subseteq DOMAIN rows
    BY <1>3, FirstIn DEF IInv, Named, Alive
  <2>3. r \in DOMAIN rows /\ rows[r].name = b.name
    BY <2>2 DEF Named
  <2>4. /\ rows[r] \in Row /\ RowOk(rows[r])
        /\ Good(b.name, b.commit) /\ b.commit \in Nat
    BY <2>3 DEF IInv, TypedInv, RowInv, BuildInv, BuildOk, Good
  <2> HIDE DEF r
  <2>5. row \in Row /\ row.name = rows[r].name /\ row.branch = rows[r].branch /\ row.last = b.commit
    BY <2>4 DEF Row
  <2> HIDE DEF row
  <2>6. RowOk(row)
    BY <2>3, <2>4, <2>5 DEF RowOk
  <2> QED
    BY <1>1, <2>1, <2>3, <2>5, <2>6, RowSet
<1> QED
  BY <1>2, <1>3

LEMMA StartAnalyzeInv ==
  ASSUME IInv, NEW r \in Alive, StartAnalyze(r)
  PROVE  IInv'
<1> DEFINE last == rows[r].last
           commit == IF last # 0 THEN last ELSE HeadOf(rows[r].branch)
<1>1. /\ last = 0 => On(rows[r].branch) # {}
      /\ Ask(rows[r].name, commit, UpTo(commit), last = 0, rows[r].disabled)
      /\ UNCHANGED <<cvs, pushes, rows, task, form, skipped, confused>>
  BY DEF StartAnalyze
<1>2. r \in DOMAIN rows /\ rows[r] \in Row /\ RowOk(rows[r])
  BY DEF Alive, IInv, TypedInv, RowInv
<1>3. /\ commit \in DOMAIN pushes
      /\ rows[r].name \in Branch =>
           \/ rows[r].name \in confused
           \/ /\ pushes[commit].branch = rows[r].name
              /\ last = 0 \/ rows[r].name \in scanned
  <2>1. CASE last = 0
    <3>1. commit = HeadOf(rows[r].branch) /\ commit \in On(rows[r].branch)
      BY <1>1, <2>1, HeadIn DEF IInv
    <3> QED
      BY <1>2, <2>1, <3>1 DEF On, RowOk
  <2>2. CASE last # 0
    BY <1>2, <2>2 DEF RowOk, Good
  <2> QED
    BY <2>1, <2>2
<1>4. UpTo(commit) \in SUBSET Nat /\ OfC(UpTo(commit)) \subseteq UpTo(commit)
  BY DEF IInv, TypedInv, UpTo, On, OfC
<1>5. rows[r].name \in Name
  BY <1>2 DEF Row
<1> HIDE DEF commit
<1>a. skipped' = [skipped EXCEPT ![rows[r].name] = @ \cup {}] /\ {} \in SUBSET Nat
  BY <1>1 DEF IInv, TypedInv
<1>6. /\ Grows /\ FirstScanFirst'
      /\ asked' \in [Name -> SUBSET Nat] /\ refused' \in [Name -> SUBSET Nat]
      /\ skipped' \in [Name -> SUBSET Nat]
      /\ \A b \in builds' : b \in builds \/ BuildOk(b)'
  BY <1>1, <1>3, <1>4, <1>5, <1>a, Asked
<1>7. TypedInv'
  BY <1>1, <1>6 DEF IInv, TypedInv
<1>8. task' = [u \in Task |-> task'[u]] /\ \A u \in Task : task'[u] = task[u]
  BY <1>1 DEF IInv, TaskInv
<1>9. \A q \in DOMAIN rows' : q \in DOMAIN rows /\ rows'[q] = rows[q]
  BY <1>1
<1> QED
  BY <1>1, <1>6, <1>7, <1>8, <1>9, Step

LEMMA OpenFormInv ==
  ASSUME IInv, NEW r \in Alive, OpenForm(r)
  PROVE  IInv'
<1>1. /\ form' = [open |-> TRUE, row |-> r, name |-> rows[r].name, branch |-> rows[r].branch,
                   last |-> rows[r].last]
      /\ UNCHANGED <<cvs, pushes, rows, task, builds, history>>
  BY DEF OpenForm
<1>2. r \in DOMAIN rows /\ rows[r] \in Row /\ RowOk(rows[r])
  BY DEF Alive, IInv, TypedInv, RowInv
<1>3. FormOk(form')
  BY <1>1, <1>2 DEF FormOk, Row, RowOk
<1>4. Grows /\ TypedInv' /\ FirstScanFirst'
  BY <1>1 DEF Grows, Seen, Built, history, IInv, TypedInv, FirstScanFirst
<1>5. FormOk(form)'
  BY <1>1, <1>3 DEF FormOk, RowOk, Good, OfC, UpTo, On, Seen, Built, history
<1>6. task' = [u \in Task |-> task'[u]] /\ \A u \in Task : task'[u] = task[u]
  BY <1>1 DEF IInv, TaskInv
<1>7. \A q \in DOMAIN rows' : q \in DOMAIN rows /\ rows'[q] = rows[q]
  BY <1>1
<1> QED
  BY <1>1, <1>4, <1>5, <1>6, <1>7, Step

\* The form writes back what was read, which was right and still is, in whatever row.
LEMMA SaveFormInv ==
  ASSUME IInv, SaveForm
  PROVE  IInv'
<1>1. form.open /\ form' = Closed /\ UNCHANGED <<cvs, pushes, task, builds, history>>
  BY DEF SaveForm
<1>2. PICK disabled \in BOOLEAN :
        rows' = IF form.row \in Alive
                THEN [rows EXCEPT ![form.row] =
                        [alive |-> TRUE, name |-> form.name, branch |-> form.branch,
                         last |-> form.last, disabled |-> disabled]]
                ELSE rows
  BY DEF SaveForm
<1> DEFINE row == [alive |-> TRUE, name |-> form.name, branch |-> form.branch,
                   last |-> form.last, disabled |-> disabled]
<1>3. row \in Row /\ RowOk(row)
  BY <1>1 DEF IInv, FormInv, FormOk, RowOk, Row
<1> HIDE DEF row
<1>4. CASE form.row \in Alive
  <2>1. form.row \in DOMAIN rows /\ rows' = [rows EXCEPT ![form.row] = row]
    BY <1>2, <1>4 DEF Alive, row
  <2> QED
    BY <1>1, <1>3, <2>1, RowSet
<1>5. CASE form.row \notin Alive
  <2>1. UNCHANGED rows
    BY <1>2, <1>5
  <2>2. Grows /\ TypedInv' /\ FirstScanFirst' /\ FormOk(Closed)'
    BY <1>1, <2>1 DEF Grows, Seen, Built, history, IInv, TypedInv, FirstScanFirst, FormOk, Closed
  <2>3. task' = [u \in Task |-> task'[u]] /\ \A u \in Task : task'[u] = task[u]
    BY <1>1 DEF IInv, TaskInv
  <2>4. /\ \A q \in DOMAIN rows' : q \in DOMAIN rows /\ rows'[q] = rows[q]
        /\ \A b \in builds' : b \in builds
    BY <1>1, <2>1
  <2>5. FormOk(form)'
    BY <1>1, <2>2
  <2> QED
    BY <2>2, <2>3, <2>4, <2>5, Step
<1> QED
  BY <1>4, <1>5

\* A copy is nobody's project.
LEMMA CloneInv ==
  ASSUME IInv, NEW r \in Alive, Clone(r)
  PROVE  IInv'
<1>a. PICK row : row = [rows[r] EXCEPT !.name = "clone", !.disabled = FALSE]
  OBVIOUS
<1>1. rows' = Append(rows, row) /\ UNCHANGED <<cvs, pushes, task, builds, form, history>>
  BY <1>a DEF Clone
<1>2. r \in DOMAIN rows /\ rows[r] \in Row /\ RowOk(rows[r])
  BY DEF Alive, IInv, TypedInv, RowInv
<1>3. row \in Row /\ row.name = "clone" /\ row.last = rows[r].last
  BY <1>2, <1>a DEF Row, Name
<1>4. RowOk(row)
  BY <1>2, <1>3 DEF RowOk, Good, Branch
<1>5. /\ rows' \in Seq(Row)
      /\ \A q \in DOMAIN rows : q \in DOMAIN rows' /\ rows'[q] = rows[q]
      /\ \A q \in DOMAIN rows' : q \in DOMAIN rows \/ rows'[q] = row
  BY <1>1, <1>3 DEF IInv, TypedInv
<1>6. Grows
  BY <1>1, <1>5 DEF Grows, Seen, Built, history
<1>7. TypedInv' /\ FirstScanFirst'
  BY <1>1, <1>5 DEF IInv, TypedInv, FirstScanFirst, history
<1>8. RowOk(row)'
  BY <1>4, <1>6, AllStays DEF IInv
<1>9. task' = [u \in Task |-> task'[u]] /\ \A u \in Task : task'[u] = task[u]
  BY <1>1 DEF IInv, TaskInv
<1>10. \A q \in DOMAIN rows' : (q \in DOMAIN rows /\ rows'[q] = rows[q]) \/ RowOk(rows[q])'
  BY <1>5, <1>8
<1> QED
  BY <1>1, <1>6, <1>7, <1>9, <1>10, Step

LEMMA SwitchOffInv ==
  ASSUME IInv, NEW r \in Alive, SwitchOff(r)
  PROVE  IInv'
<1> DEFINE row == [rows[r] EXCEPT !.disabled = ~rows[r].disabled]
<1>1. r \in DOMAIN rows /\ rows[r] \in Row /\ RowOk(rows[r])
  BY DEF Alive, IInv, TypedInv, RowInv
<1>2. rows' = [rows EXCEPT ![r] = row] /\ UNCHANGED <<cvs, pushes, task, builds, form, history>>
  BY DEF SwitchOff
<1>3. row \in Row /\ RowOk(row)
  BY <1>1 DEF Row, RowOk
<1> HIDE DEF row
<1> QED
  BY <1>1, <1>2, <1>3, RowSet

\* The rows that stay are as they were.
LEMMA DeleteInv ==
  ASSUME IInv, NEW r \in Alive, Delete(r)
  PROVE  IInv'
<1> DEFINE T == (Alive \ {r}) \cup {0}
<1>1. r \in DOMAIN rows /\ rows[r] \in Row /\ RowOk(rows[r])
  BY DEF Alive, IInv, TypedInv, RowInv
<1>a. PICK row : row = [rows[r] EXCEPT !.alive = FALSE]
  OBVIOUS
<1>b. PICK gone : gone = [rows EXCEPT ![r] = row]
  OBVIOUS
<1>2. PICK n : n = Greatest(T)
  OBVIOUS
<1>3. rows' = SubSeq(gone, 1, n) /\ UNCHANGED <<cvs, pushes, task, builds, form, history>>
  BY <1>2, <1>a, <1>b DEF Delete
<1>4. n \in 0..Len(rows)
  <2>1. T \subseteq 0..Len(rows) /\ T # {} /\ Len(rows) \in Nat
    BY DEF Alive, IInv, TypedInv
  <2> HIDE DEF T
  <2>2. \E k \in T : \A x \in T : x <= k
    BY <2>1, GreatestOf
  <2> QED
    BY <1>2, <2>1, <2>2 DEF Greatest
<1>5. /\ row \in Row /\ RowOk(row)
      /\ gone \in Seq(Row) /\ Len(gone) = Len(rows)
      /\ \A q \in DOMAIN rows : gone[q] = IF q = r THEN row ELSE rows[q]
  <2>1. row \in Row /\ RowOk(row)
    BY <1>1, <1>a DEF Row, RowOk
  <2> QED
    BY <1>1, <1>b, <2>1 DEF IInv, TypedInv
<1>6. /\ rows' \in Seq(Row)
      /\ \A q \in DOMAIN rows' : q \in DOMAIN rows /\ rows'[q] = gone[q]
  BY <1>3, <1>4, <1>5 DEF IInv, TypedInv
<1>7. Grows
  BY <1>3 DEF Grows, Seen, Built, history
<1>8. TypedInv' /\ FirstScanFirst'
  BY <1>3, <1>6 DEF IInv, TypedInv, FirstScanFirst, history
<1>9. RowOk(row)'
  BY <1>5, <1>7, AllStays DEF IInv
<1>10. \A q \in DOMAIN rows' : (q \in DOMAIN rows /\ rows'[q] = rows[q]) \/ RowOk(rows[q])'
  BY <1>5, <1>6, <1>9
<1>11. task' = [u \in Task |-> task'[u]] /\ \A u \in Task : task'[u] = task[u]
  BY <1>3 DEF IInv, TaskInv
<1> QED
  BY <1>3, <1>7, <1>8, <1>10, <1>11, Step

LEMMA PushInv ==
  ASSUME IInv, NEW b \in Branch, NEW k \in {"C", "other"}, Push(b, k)
  PROVE  IInv'
<1>1. /\ pushes' = Append(pushes, [branch |-> b, kind |-> k])
      /\ UNCHANGED <<cvs, rows, task, builds, form, history>>
  BY DEF Push
<1>2. [branch |-> b, kind |-> k] \in PushRow
  BY DEF PushRow
<1>3. Grows
  BY <1>1, <1>2 DEF Grows, Seen, Built, history
<1>4. TypedInv'
  BY <1>1, <1>2 DEF IInv, TypedInv, history
<1>5. FirstScanFirst'
  BY <1>1 DEF IInv, FirstScanFirst, history
<1>6. task' = [u \in Task |-> task'[u]] /\ \A u \in Task : task'[u] = task[u]
  BY <1>1 DEF IInv, TaskInv
<1>7. \A q \in DOMAIN rows' : q \in DOMAIN rows /\ rows'[q] = rows[q]
  BY <1>1
<1> QED
  BY <1>1, <1>3, <1>4, <1>5, <1>6, <1>7, Step

LEMMA RestartInv ==
  ASSUME IInv, Restart
  PROVE  IInv'
<1>1. task' = [t \in Task |-> Idle] /\ UNCHANGED <<cvs, pushes, rows, builds, form, history>>
  BY DEF Restart
<1>2. Grows /\ TypedInv' /\ FirstScanFirst'
  BY <1>1 DEF Grows, Seen, Built, history, IInv, TypedInv, FirstScanFirst
<1>3. task' = [u \in Task |-> task'[u]] /\ \A u \in Task : TaskOk(task[u])'
  BY <1>1 DEF TaskOk, Idle
<1>4. \A q \in DOMAIN rows' : q \in DOMAIN rows /\ rows'[q] = rows[q]
  BY <1>1
<1> QED
  BY <1>1, <1>2, <1>3, <1>4, Step

LEMMA NextInv ==
  ASSUME IInv, [Next]_vars
  PROVE  IInv'
<1>1. CASE UNCHANGED vars
  BY <1>1, Unmoved DEF vars, history
<1>2. ASSUME NEW b \in Branch, NEW k \in {"C", "other"}, Push(b, k) PROVE IInv'
  BY <1>2, PushInv
<1>3. ASSUME NEW t \in Task, Examine(t) \/ Create(t) \/ Fetch(t) \/ Trigger(t) \/ Update(t)
      PROVE  IInv'
  BY <1>3, ExamineInv, CreateInv, FetchInv, TriggerInv, UpdateInv
<1>4. ASSUME NEW b \in builds, Callback(b) PROVE IInv'
  BY <1>4, CallbackInv
<1>5. ASSUME NEW r \in Alive,
             StartAnalyze(r) \/ OpenForm(r) \/ Clone(r) \/ SwitchOff(r) \/ Delete(r)
      PROVE  IInv'
  BY <1>5, StartAnalyzeInv, OpenFormInv, CloneInv, SwitchOffInv, DeleteInv
<1> QED
  BY <1>1, <1>2, <1>3, <1>4, <1>5, SaveFormInv, RestartInv DEF Next

LEMMA Invariance == Spec => []IInv
  BY InitInv, NextInv, PTL DEF Spec

-----------------------------------------------------------------------------
(* The properties of the service. *)

\* LastIsCovered: in whatever order tasks, callbacks, forms and restarts come, what lies
\* behind the last changeset of a project was in a build, or in one that was refused, or was
\* asked of TFVC in vain, unless the project was given the changeset of another one.
THEOREM NoGap == Spec => []LastIsCovered
<1>1. IInv => LastIsCovered
  <2> SUFFICES ASSUME IInv, NEW r \in Alive, rows[r].name \notin confused \cup {"clone"}, rows[r].last # 0
               PROVE  OfC(UpTo(rows[r].last)) \subseteq Seen(rows[r].name)
    BY DEF LastIsCovered, Seen, Built
  <2>1. rows[r] \in Row /\ RowOk(rows[r])
    BY DEF Alive, IInv, TypedInv, RowInv
  <2> QED
    BY <2>1 DEF RowOk, Good, Row, Name
<1> QED
  BY Invariance, <1>1, PTL

\* FirstScanFirst: a project is never built from differences before its first scan, unless it
\* was given the changeset of another one.
THEOREM WholeFirst == Spec => []FirstScanFirst
<1>1. IInv => FirstScanFirst
  BY DEF IInv
<1> QED
  BY Invariance, <1>1, PTL

-----------------------------------------------------------------------------
(* From SonarQube to Jira: the inductive invariant. *)

\* What is open, or fixed, is so now.
NowInv ==
  /\ \A i \in open : openAt[i] = clock
  /\ \A c \in closed : closedAt[c.issue] = clock

\* A cached list of open issues: each was open when it was fetched, and an issue it
\* lacks opened since, or the list is a full page.
OpenEntry(p, e) ==
  e # None =>
    /\ e.at \in 0..clock
    /\ \A i \in Issue : i \in ToSet(e.value) => e.at <= openAt[i]
    /\ \/ Len(e.value) >= PageSize
       \/ \A i \in open \cap Of(p) : i \in ToSet(e.value) \/ e.at <= since[i]

\* A cached list of fixed issues: each was fixed when it was fetched.
FixedEntry(e) ==
  e # None =>
    /\ e.at \in 0..clock
    /\ \A c \in e.value : c.issue \in Issue /\ e.at <= closedAt[c.issue]

OpenKey(p)  == MakeKey("issues:search", p)
FixedKey(p) == MakeKey("issues:search:fixed", p)

\* A cache whose entries are right.
CacheOk(c) ==
  /\ DOMAIN c = Key
  /\ \A p \in Project : OpenEntry(p, c[OpenKey(p)]) /\ FixedEntry(c[FixedKey(p)])

SonarInv == TypeOK /\ NowInv /\ CacheOk(cache) /\ NoTwinBugs /\ OverlooksOnlyNewIssues

-----------------------------------------------------------------------------
(* The answers to a request. *)

LEMMA Keys ==
  /\ \A p \in Project : OpenKey(p) \in Key /\ FixedKey(p) \in Key
  /\ \A p, q \in Project : OpenKey(p) # FixedKey(q)
  /\ \A p, q \in Project : OpenKey(p) = OpenKey(q) => p = q
  /\ \A p, q \in Project : FixedKey(p) = FixedKey(q) => p = q
  /\ \A k \in Key : \E p \in Project : k = OpenKey(p) \/ k = FixedKey(p)
BY DEF OpenKey, FixedKey, MakeKey, Key, Endpoint

\* A page of a set has all of it, or is as long as a page can be.
LEMMA Listed ==
  ASSUME NEW S, NEW l \in SeqOf(S, PageSize), ToSet(l) \in Pages(S)
  PROVE  ToSet(l) \subseteq S /\ (ToSet(l) = S \/ Len(l) >= PageSize)
<1>1. PageSize \in Nat
  BY SonarAssumption DEF SonarAssumption
<1>2. PICK n \in 0..PageSize : l \in [1..n -> S]
  BY DEF SeqOf
<1>3. n \in Nat /\ Len(l) = n
  BY <1>1, <1>2
<1>4. ASSUME Cardinality(ToSet(l)) = PageSize PROVE Len(l) >= PageSize
  <2>1. l \in Surjection(1..n, ToSet(l))
    BY <1>2, <1>3 DEF Surjection, ToSet
  <2>2. IsFiniteSet(1..n) /\ Cardinality(1..n) = n
    BY <1>3, FS_Interval
  <2>3. Cardinality(ToSet(l)) <= n
    BY <2>1, <2>2, FS_Surjection
  <2> QED
    BY <1>3, <1>4, <2>3
<1> QED
  BY <1>4 DEF Pages

\* invalidate_project drops entries, or none.
LEMMA InvalidatedOk ==
  ASSUME NEW p \in Project, CacheOk(cache)
  PROVE  CacheOk(Invalidated(p))
<1>1. DOMAIN Invalidated(p) = Key
  BY DEF Invalidated
<1>2. \A k \in Key : Invalidated(p)[k] \in {None, cache[k]}
  BY DEF Invalidated
<1> QED
  BY <1>1, <1>2, Keys DEF CacheOk, OpenEntry, FixedEntry

\* The open issues, as answered: none was closed for longer than the time to live,
\* and none is missing for longer but behind a full page; the cache stays right.
LEMMA OpenAnswer ==
  ASSUME TypeOK, NowInv, NEW p \in Project, NEW c, CacheOk(c), NEW fails \in BOOLEAN,
         NEW list \in Answers(c, OpenKey(p), OpenAnswers(p), <<>>, fails)
  PROVE  /\ CacheOk(After(c, OpenKey(p), list, fails))
         /\ \A i \in Issue : i \in ToSet(list) => clock <= openAt[i] + TTL
         /\ ~fails => \/ Len(list) >= PageSize
                      \/ \A i \in open \cap Of(p) : i \in ToSet(list) \/ clock <= since[i] + TTL
<1> DEFINE k == OpenKey(p)
           after == After(c, k, list, fails)
<1>0. /\ clock \in Nat /\ TTL \in Nat /\ openAt \in [Issue -> 0..clock]
      /\ since \in [Issue -> 0..clock] /\ open \subseteq Issue /\ k \in Key
  BY SonarAssumption, Keys DEF TypeOK, SonarAssumption
<1>1. CASE Served(c, k)
  <2>1. list = c[k].value /\ after = c
    BY <1>1 DEF Answers, After
  <2>2. c[k] # None /\ clock <= c[k].at + TTL
    BY <1>1 DEF Served
  <2>3. OpenEntry(p, c[k])
    BY DEF CacheOk
  <2>4. c[k].at \in 0..clock
    BY <2>2, <2>3 DEF OpenEntry
  <2>5. \A i \in Issue : i \in ToSet(list) => clock <= openAt[i] + TTL
    BY <1>0, <2>1, <2>2, <2>3, <2>4 DEF OpenEntry
  <2>6. \/ Len(list) >= PageSize
        \/ \A i \in open \cap Of(p) : i \in ToSet(list) \/ clock <= since[i] + TTL
    BY <1>0, <2>1, <2>2, <2>3, <2>4 DEF OpenEntry
  <2> QED
    BY <2>1, <2>5, <2>6
<1>2. CASE ~Served(c, k) /\ fails
  <2>1. list = <<>> /\ after = c
    BY <1>2 DEF Answers, After
  <2>2. ToSet(list) = {}
    BY <2>1 DEF ToSet
  <2>3. CacheOk(after)
    BY <2>1
  <2> QED
    BY <1>2, <2>2, <2>3
<1>3. CASE ~Served(c, k) /\ ~fails
  <2>1. PICK e : e = [value |-> list, at |-> clock]
    OBVIOUS
  <2>2. list \in OpenAnswers(p) /\ after = [c EXCEPT ![k] = e]
    BY <1>3, <2>1 DEF Answers, After
  <2>3. ToSet(list) \subseteq open \cap Of(p) /\ (ToSet(list) = open \cap Of(p) \/ Len(list) >= PageSize)
    BY <2>2, Listed DEF OpenAnswers
  <2>4. \A i \in open : openAt[i] = clock
    BY DEF NowInv
  <2>5. OpenEntry(p, e)
    BY <1>0, <2>1, <2>3, <2>4 DEF OpenEntry
  <2>6. CacheOk(after)
    BY <2>2, <2>5, Keys DEF CacheOk
  <2> QED
    BY <1>0, <2>3, <2>4, <2>6
<1> QED
  BY <1>1, <1>2, <1>3

\* The fixed issues, as answered.
LEMMA FixedAnswerOk ==
  ASSUME TypeOK, NowInv, NEW p \in Project, NEW c, CacheOk(c), NEW fails \in BOOLEAN,
         NEW fixed \in Answers(c, FixedKey(p), FixedAnswers(p), {}, fails)
  PROVE  /\ CacheOk(After(c, FixedKey(p), fixed, fails))
         /\ \A x \in fixed : x.issue \in Issue /\ clock <= closedAt[x.issue] + TTL
<1> DEFINE k == FixedKey(p)
           after == After(c, k, fixed, fails)
<1>0. /\ clock \in Nat /\ TTL \in Nat /\ closedAt \in [Issue -> 0..clock] /\ k \in Key
      /\ \A x \in closed : x.issue \in Issue
  BY SonarAssumption, Keys DEF TypeOK, SonarAssumption
<1>1. CASE Served(c, k)
  <2>1. fixed = c[k].value /\ after = c
    BY <1>1 DEF Answers, After
  <2>2. c[k] # None /\ clock <= c[k].at + TTL
    BY <1>1 DEF Served
  <2>3. FixedEntry(c[k])
    BY DEF CacheOk
  <2>4. c[k].at \in 0..clock
    BY <2>2, <2>3 DEF FixedEntry
  <2> QED
    BY <1>0, <2>1, <2>2, <2>3, <2>4 DEF FixedEntry
<1>2. CASE ~Served(c, k) /\ fails
  BY <1>2 DEF Answers, After
<1>3. CASE ~Served(c, k) /\ ~fails
  <2>1. PICK e : e = [value |-> fixed, at |-> clock]
    OBVIOUS
  <2>2. fixed \in FixedAnswers(p) /\ after = [c EXCEPT ![k] = e]
    BY <1>3, <2>1 DEF Answers, After
  <2>3. \A x \in fixed : x.issue \in Issue /\ closedAt[x.issue] = clock
    BY <1>0, <2>2 DEF FixedAnswers, Pages, NowInv
  <2>4. FixedEntry(e)
    BY <1>0, <2>1, <2>3 DEF FixedEntry
  <2>5. CacheOk(after)
    BY <2>2, <2>4, Keys DEF CacheOk
  <2> QED
    BY <1>0, <2>3, <2>5
<1> QED
  BY <1>1, <1>2, <1>3

-----------------------------------------------------------------------------
(* The steps. *)

\* The bugs and comments of a step are about what was open, or fixed, within the time to live.
Recent ==
  \A i \in Issue :
    /\ bugs'[i] > bugs[i] => clock <= openAt[i] + TTL
    /\ comments'[i] > comments[i] => clock <= closedAt[i] + TTL

LEMMA SonarInitInv == IssuesInit => SonarInv
<1> SUFFICES ASSUME IssuesInit PROVE SonarInv
  OBVIOUS
<1>1. TypeOK
  <2>1. 0 \in 0..MaxClock /\ 0 \in 0..MaxAnalyses /\ 0 \in 0..MaxWebHooks /\ 0 \in 0..MaxOutages
    BY SonarAssumption DEF SonarAssumption
  <2>2. paged \in BOOLEAN
    BY DEF IssuesInit
  <2> QED
    BY <2>1, <2>2 DEF IssuesInit, TypeOK
<1>2. NowInv
  BY DEF IssuesInit, NowInv
<1>3. CacheOk(cache)
  BY Keys DEF IssuesInit, CacheOk, OpenEntry, FixedEntry
<1>4. NoTwinBugs /\ OverlooksOnlyNewIssues
  BY DEF IssuesInit, NoTwinBugs, OverlooksOnlyNewIssues
<1> QED
  BY <1>1, <1>2, <1>3, <1>4 DEF SonarInv

\* A right cache has typed entries.
LEMMA CacheTyped ==
  ASSUME NEW c, CacheOk(c)
  PROVE  \A k \in Key : c[k] = None \/ c[k].at \in 0..clock
BY Keys DEF CacheOk, OpenEntry, FixedEntry

LEMMA ReleaseInv ==
  ASSUME SonarInv, NEW p \in Project, ProcessRelease(p), hooks' \in [Project -> 0..MaxWebHooks],
         UNCHANGED <<clock, sonar, issueHistory>>
  PROVE  SonarInv' /\ Recent
<1>0. /\ cache' = Invalidated(p) /\ disableJira' = [disableJira EXCEPT ![p] = FALSE]
      /\ overlooked' = {} /\ paged' = FALSE /\ UNCHANGED <<bugs, comments, blind, repeated, faults>>
      /\ UNCHANGED <<clock, open, closed, analyses, openAt, closedAt, since>>
  BY DEF ProcessRelease, Unanswered, jira, sonar, issueHistory
<1>1. CacheOk(cache')
  BY <1>0, InvalidatedOk DEF SonarInv
<1>2. CacheOk(cache)'
  BY <1>0, <1>1 DEF CacheOk, OpenEntry, FixedEntry
<1>3. TypeOK'
  BY <1>0, <1>1, CacheTyped DEF SonarInv, TypeOK, CacheOk
<1>4. NowInv' /\ NoTwinBugs' /\ OverlooksOnlyNewIssues'
  BY <1>0 DEF SonarInv, NowInv, NoTwinBugs, OverlooksOnlyNewIssues
<1>5. Recent
  BY <1>0 DEF SonarInv, TypeOK, Recent
<1> QED
  BY <1>2, <1>3, <1>4, <1>5 DEF SonarInv

LEMMA IssuesInv ==
  ASSUME SonarInv, NEW p \in Project, ProcessIssues(p), hooks' \in [Project -> 0..MaxWebHooks],
         UNCHANGED <<clock, sonar, issueHistory>>
  PROVE  SonarInv' /\ Recent
<1>0. /\ disableJira' = disableJira
      /\ UNCHANGED <<clock, open, closed, analyses, openAt, closedAt, since>>
  BY DEF ProcessIssues, sonar, issueHistory
<1> DEFINE c == Invalidated(p)
<1>1. CacheOk(c)
  BY InvalidatedOk DEF SonarInv
<1> HIDE DEF c
<1>2. PICK f \in Failures(p), requests \in 1..2, taken \in 0..2 :
        /\ faults + (IF f = NoFailure THEN 0 ELSE 1) <= MaxOutages
        /\ faults' = faults + (IF f = NoFailure THEN 0 ELSE 1)
        /\ taken <= requests
        /\ \E list \in Answers(c, OpenKey(p), OpenAnswers(p), <<>>, f.list) :
            LET handled == Handled(p, list, f)
                created == Created(handled, f)
                known == After(c, OpenKey(p), list, f.list)
            IN  /\ Opens(created, f, requests, taken)
                /\ blind' = [i \in Issue |-> blind[i] + (IF i \in created \cap f.search THEN 1 ELSE 0)]
                /\ overlooked' = IF f = NoFailure THEN (open \cap Of(p)) \ ToSet(list) ELSE {}
                /\ paged' = (f = NoFailure /\ Len(list) >= PageSize)
                /\ \/ /\ handled # ToSet(list)
                      /\ cache' = known
                      /\ UNCHANGED comments
                   \/ /\ handled = ToSet(list)
                      /\ \E fixed \in Answers(known, FixedKey(p), FixedAnswers(p), {}, f.fixed) :
                            /\ cache' = After(known, FixedKey(p), fixed, f.fixed)
                            /\ comments' = [i \in Issue |-> comments[i] +
                                   (IF i \in Commented(fixed, f) THEN 1 ELSE 0)]
  BY DEF ProcessIssues, c, OpenKey, FixedKey
<1>3. PICK list \in Answers(c, OpenKey(p), OpenAnswers(p), <<>>, f.list) :
        LET created == Created(Handled(p, list, f), f)
            known == After(c, OpenKey(p), list, f.list)
        IN  /\ Opens(created, f, requests, taken)
            /\ blind' = [i \in Issue |-> blind[i] + (IF i \in created \cap f.search THEN 1 ELSE 0)]
            /\ overlooked' = IF f = NoFailure THEN (open \cap Of(p)) \ ToSet(list) ELSE {}
            /\ paged' = (f = NoFailure /\ Len(list) >= PageSize)
            /\ \/ cache' = known /\ UNCHANGED comments
               \/ \E fixed \in Answers(known, FixedKey(p), FixedAnswers(p), {}, f.fixed) :
                        /\ cache' = After(known, FixedKey(p), fixed, f.fixed)
                        /\ comments' = [i \in Issue |-> comments[i] +
                               (IF i \in Commented(fixed, f) THEN 1 ELSE 0)]
  BY <1>2
<1> DEFINE created == Created(Handled(p, list, f), f)
           known == After(c, OpenKey(p), list, f.list)
<1>4. f.list \in BOOLEAN /\ f.fixed \in BOOLEAN /\ (f = NoFailure => f.list = FALSE)
  <2>1. \/ f \in {NoFailure, [NoFailure EXCEPT !.list = TRUE], [NoFailure EXCEPT !.fixed = TRUE]}
        \/ \E i \in Of(p) : f \in {[NoFailure EXCEPT !.snippet = {i}],
                                  [NoFailure EXCEPT !.search = {i}],
                                  [NoFailure EXCEPT !.create = {i}]}
    BY <1>2 DEF Failures
  <2>2. NoFailure.list = FALSE
    BY DEF NoFailure
  <2>3. CASE f \in {NoFailure, [NoFailure EXCEPT !.list = TRUE], [NoFailure EXCEPT !.fixed = TRUE]}
    <3>1. CASE f = NoFailure
      BY <3>1 DEF NoFailure
    <3>2. CASE f = [NoFailure EXCEPT !.list = TRUE]
      <4>1. f.list = TRUE /\ f.fixed = FALSE
        BY <3>2 DEF NoFailure
      <4> QED
        BY <2>2, <4>1
    <3>3. CASE f = [NoFailure EXCEPT !.fixed = TRUE]
      <4>1. f.list = FALSE /\ f.fixed = TRUE
        BY <3>3 DEF NoFailure
      <4> QED
        BY <4>1
    <3> QED
      BY <2>3, <3>1, <3>2, <3>3
  <2>4. ASSUME NEW i \in Of(p), f \in {[NoFailure EXCEPT !.snippet = {i}],
                                      [NoFailure EXCEPT !.search = {i}],
                                      [NoFailure EXCEPT !.create = {i}]}
        PROVE  f.list = FALSE /\ f.fixed = FALSE
    BY <2>4 DEF NoFailure
  <2> QED
    BY <2>1, <2>2, <2>3, <2>4
<1>5. /\ CacheOk(known)
      /\ \A i \in Issue : i \in ToSet(list) => clock <= openAt[i] + TTL
      /\ ~f.list => \/ Len(list) >= PageSize
                    \/ \A i \in open \cap Of(p) : i \in ToSet(list) \/ clock <= since[i] + TTL
  BY <1>1, <1>4, OpenAnswer DEF SonarInv
<1>a. \/ cache' = known /\ UNCHANGED comments
      \/ \E fixed \in Answers(known, FixedKey(p), FixedAnswers(p), {}, f.fixed) :
               /\ cache' = After(known, FixedKey(p), fixed, f.fixed)
               /\ comments' = [i \in Issue |-> comments[i] +
                      (IF i \in Commented(fixed, f) THEN 1 ELSE 0)]
  BY <1>3
<1>b. /\ Opens(created, f, requests, taken)
      /\ blind' = [i \in Issue |-> blind[i] + (IF i \in created \cap f.search THEN 1 ELSE 0)]
      /\ overlooked' = IF f = NoFailure THEN (open \cap Of(p)) \ ToSet(list) ELSE {}
      /\ paged' = (f = NoFailure /\ Len(list) >= PageSize)
  BY <1>3
<1> HIDE DEF known
<1>6. /\ CacheOk(cache')
      /\ comments' \in [Issue -> Nat]
      /\ \A i \in Issue : comments'[i] > comments[i] => clock <= closedAt[i] + TTL
  <2>0. comments \in [Issue -> Nat]
    BY DEF SonarInv, TypeOK
  <2>1. CASE cache' = known /\ UNCHANGED comments
    BY <1>5, <2>0, <2>1
  <2>2. ASSUME NEW fixed \in Answers(known, FixedKey(p), FixedAnswers(p), {}, f.fixed),
               cache' = After(known, FixedKey(p), fixed, f.fixed),
               comments' = [i \in Issue |-> comments[i] +
                               (IF i \in Commented(fixed, f) THEN 1 ELSE 0)]
        PROVE  /\ CacheOk(cache')
               /\ comments' \in [Issue -> Nat]
               /\ \A i \in Issue : comments'[i] > comments[i] => clock <= closedAt[i] + TTL
    <3>1. /\ CacheOk(After(known, FixedKey(p), fixed, f.fixed))
          /\ \A x \in fixed : x.issue \in Issue /\ clock <= closedAt[x.issue] + TTL
      BY <1>4, <1>5, FixedAnswerOk DEF SonarInv
    <3>2. \A i \in Issue : i \in Commented(fixed, f) => clock <= closedAt[i] + TTL
      BY <3>1 DEF Commented
    <3>a. PICK C : C = Commented(fixed, f)
      OBVIOUS
    <3>3. \A i \in Issue : comments'[i] > comments[i] => i \in C
      BY <2>0, <2>2, <3>a
    <3>4. comments' \in [Issue -> Nat]
      BY <2>0, <2>2, <3>a
    <3> QED
      BY <2>2, <3>1, <3>2, <3>3, <3>4, <3>a
  <2> QED
    BY <1>a, <2>1, <2>2
<1>8. \A i \in created : i \in ToSet(list) /\ (bugs[i] > 0 => i \in f.search)
  BY DEF Created, Handled, ToSet, Exists
<1> HIDE DEF created
<1>9. bugs \in [Issue -> Nat] /\ blind \in [Issue -> Nat] /\ repeated \in [Issue -> Nat]
  BY DEF SonarInv, TypeOK
<1>c. /\ requests \in 1..2 /\ taken \in 0..2 /\ taken <= requests
      /\ bugs' = [i \in Issue |-> bugs[i] + (IF i \notin created THEN 0
                                             ELSE IF i \in f.create THEN taken ELSE 1)]
      /\ repeated' = [i \in Issue |-> repeated[i] + (IF i \in created \cap f.create
                                                     THEN requests - 1 ELSE 0)]
  BY <1>2, <1>b DEF Opens
<1>10. bugs' \in [Issue -> Nat] /\ blind' \in [Issue -> Nat] /\ repeated' \in [Issue -> Nat]
  BY <1>b, <1>c, <1>9
<1>11. \A i \in Issue : bugs'[i] > bugs[i] => clock <= openAt[i] + TTL
  BY <1>5, <1>8, <1>9, <1>c
<1>12. NoTwinBugs'
  <2> SUFFICES ASSUME NEW i \in Issue PROVE bugs'[i] <= 1 + blind'[i] + repeated'[i]
    BY DEF NoTwinBugs
  <2>1. bugs[i] <= 1 + blind[i] + repeated[i]
    BY DEF SonarInv, NoTwinBugs
  <2>2. CASE i \notin created
    BY <1>b, <1>c, <1>9, <2>1, <2>2
  <2>3. CASE i \in created /\ bugs[i] > 0
    BY <1>8, <1>b, <1>c, <1>9, <2>1, <2>3
  <2>4. CASE i \in created /\ ~(bugs[i] > 0)
    BY <1>b, <1>c, <1>9, <2>4
  <2> QED
    BY <2>2, <2>3, <2>4
<1>13. OverlooksOnlyNewIssues'
  <2>1. paged' \/ \A i \in overlooked' : clock <= since[i] + TTL
    BY <1>4, <1>5, <1>b
  <2> QED
    BY <1>0, <2>1 DEF OverlooksOnlyNewIssues
<1>d. paged' \in BOOLEAN
  BY <1>b
<1>14. CacheOk(cache)'
  BY <1>0, <1>6 DEF CacheOk, OpenEntry, FixedEntry
<1>15. faults' \in 0..MaxOutages
  BY <1>2, SonarAssumption DEF SonarInv, TypeOK, SonarAssumption
<1>16. TypeOK'
  BY <1>0, <1>6, <1>10, <1>15, <1>d, CacheTyped DEF SonarInv, TypeOK, CacheOk
<1>17. NowInv'
  BY <1>0 DEF SonarInv, NowInv
<1> QED
  BY <1>6, <1>11, <1>12, <1>13, <1>14, <1>16, <1>17 DEF SonarInv, Recent

LEMMA ProcessInv == ASSUME SonarInv, NEW p \in Project, Process(p) PROVE SonarInv' /\ Recent
<1>1. UNCHANGED <<clock, sonar, issueHistory>>
  BY DEF Process
<1>2. hooks' \in [Project -> 0..MaxWebHooks]
  BY SonarAssumption DEF Process, SonarInv, TypeOK, SonarAssumption
<1> QED
  BY <1>1, <1>2, ReleaseInv, IssuesInv DEF Process

\* An analysis: what it finds is open as of now, what is fixed is so as of now, so that
\* the cached answers, which are older, stay right.
LEMMA AnalysisInv ==
  ASSUME SonarInv, NEW p \in Project, NEW found \in SUBSET Of(p), NEW arrives \in BOOLEAN,
         NEW fixed \in SUBSET {i \in Of(p) \ found : ~IsClosed(i)},
         Analysis(p, found, fixed, arrives)
  PROVE  SonarInv' /\ Recent
<1>1. /\ clock \in Nat /\ open \subseteq Issue /\ closed \subseteq [issue : Issue, at : 0..MaxClock]
      /\ openAt \in [Issue -> 0..clock] /\ closedAt \in [Issue -> 0..clock]
      /\ since \in [Issue -> 0..clock] /\ clock \in 0..MaxClock
      /\ bugs \in [Issue -> Nat] /\ comments \in [Issue -> Nat]
  BY SonarAssumption DEF SonarInv, TypeOK, SonarAssumption
<1>2. /\ UNCHANGED <<clock, cache, disableJira, bugs, comments, blind, repeated, faults>>
      /\ overlooked' = {} /\ paged' = FALSE /\ found \subseteq Issue /\ fixed \subseteq Issue
  BY DEF Analysis, Unanswered, jira, Of
<1>3. /\ open' = (open \ Of(p)) \cup found
      /\ \A i \in open' : i \in open \/ i \in found
      /\ openAt' = [i \in Issue |-> IF i \in open \cup found THEN clock ELSE openAt[i]]
      /\ since' = [i \in Issue |-> IF i \in found \ open THEN clock ELSE since[i]]
  BY DEF Analysis
<1>4. \A c \in closed' : \/ c \in closed
                         \/ /\ c.issue \in fixed
                            /\ c \in [issue : Issue, at : 0..MaxClock]
  BY <1>1, <1>2 DEF Analysis
<1>5. closedAt' = [i \in Issue |-> IF i \in fixed \/ IsClosed(i)
                                   THEN clock ELSE closedAt[i]]
  BY DEF Analysis
<1>6. \A c \in closed' : c.issue \in Issue /\ closedAt'[c.issue] = clock
  BY <1>1, <1>4, <1>5 DEF IsClosed, ClosedRows
<1>7. /\ \A i \in Issue : openAt[i] <= openAt'[i] /\ closedAt[i] <= closedAt'[i]
      /\ openAt' \in [Issue -> 0..clock] /\ closedAt' \in [Issue -> 0..clock]
      /\ since' \in [Issue -> 0..clock]
  BY <1>1, <1>3, <1>5
<1>8. \A i \in open' : openAt'[i] = clock /\ since'[i] = IF i \in open THEN since[i] ELSE clock
  BY <1>1, <1>2, <1>3
<1>9. CacheOk(cache)'
  <2>1. DOMAIN cache = Key
    BY DEF SonarInv, CacheOk
  <2>2. ASSUME NEW q \in Project PROVE OpenEntry(q, cache[OpenKey(q)])'
    <3>1. PICK e : e = cache[OpenKey(q)]
      OBVIOUS
    <3>2. OpenEntry(q, e)
      BY <3>1 DEF SonarInv, CacheOk
    <3>3. CASE e = None
      BY <1>2, <3>1, <3>3 DEF OpenEntry, OpenKey, MakeKey
    <3>4. CASE e # None
      <4>1. /\ e.at \in 0..clock
            /\ \A i \in Issue : i \in ToSet(e.value) => e.at <= openAt[i]
            /\ \/ Len(e.value) >= PageSize
               \/ \A i \in open \cap Of(q) : i \in ToSet(e.value) \/ e.at <= since[i]
        BY <3>2, <3>4 DEF OpenEntry
      <4>2. \A i \in Issue : i \in ToSet(e.value) => e.at <= openAt'[i]
        BY <1>1, <1>7, <4>1
      <4>3. \/ Len(e.value) >= PageSize
            \/ \A i \in open' \cap Of(q) : i \in ToSet(e.value) \/ e.at <= since'[i]
        <5>1. CASE Len(e.value) >= PageSize
          BY <5>1
        <5>2. CASE \A i \in open \cap Of(q) : i \in ToSet(e.value) \/ e.at <= since[i]
          <6>1. ASSUME NEW i \in open' \cap Of(q), i \notin ToSet(e.value)
                PROVE  e.at <= since'[i]
            <7>1. CASE i \in open
              BY <1>8, <5>2, <6>1, <7>1
            <7>2. CASE i \notin open
              <8>1. since'[i] = clock
                BY <1>8, <7>2
              <8> QED
                BY <1>1, <4>1, <8>1
            <7> QED
              BY <7>1, <7>2
          <6> QED
            BY <6>1
        <5> QED
          BY <4>1, <5>1, <5>2
      <4>4. cache'[OpenKey(q)] = e /\ clock' = clock
        BY <1>2, <3>1
      <4> QED
        BY <4>1, <4>2, <4>3, <4>4 DEF OpenEntry, OpenKey, MakeKey, Of
    <3> QED
      BY <3>3, <3>4
  <2>3. ASSUME NEW q \in Project PROVE FixedEntry(cache[FixedKey(q)])'
    <3>1. PICK e : e = cache[FixedKey(q)]
      OBVIOUS
    <3>2. FixedEntry(e)
      BY <3>1 DEF SonarInv, CacheOk
    <3>3. e # None => e.at \in 0..clock /\ \A c \in e.value : c.issue \in Issue /\ e.at <= closedAt[c.issue]
      BY <3>2 DEF FixedEntry
    <3>4. e # None => \A c \in e.value : e.at <= closedAt'[c.issue]
      BY <1>1, <1>7, <3>3
    <3> QED
      BY <1>2, <3>1, <3>3, <3>4 DEF FixedEntry, FixedKey, MakeKey
  <2> QED
    BY <1>2, <2>1, <2>2, <2>3 DEF CacheOk, Key, OpenKey, FixedKey, MakeKey
<1>10. TypeOK'
  <2>1. hooks' \in [Project -> 0..MaxWebHooks]
    BY SonarAssumption DEF Analysis, Accept, SonarInv, TypeOK, SonarAssumption
  <2>2. analyses' \in 0..MaxAnalyses
    BY SonarAssumption DEF Analysis, SonarInv, TypeOK, SonarAssumption
  <2>3. closed' \subseteq [issue : Issue, at : 0..MaxClock]
    BY <1>1, <1>4
  <2>4. open' \subseteq Issue
    BY <1>1, <1>2, <1>3
  <2> QED
    BY <1>2, <1>7, <2>1, <2>2, <2>3, <2>4 DEF SonarInv, TypeOK
<1>11. NowInv'
  BY <1>2, <1>6, <1>8 DEF NowInv
<1>12. NoTwinBugs' /\ OverlooksOnlyNewIssues'
  BY <1>2 DEF SonarInv, NoTwinBugs, OverlooksOnlyNewIssues
<1>13. Recent
  BY <1>1, <1>2 DEF Recent
<1> QED
  BY <1>9, <1>10, <1>11, <1>12, <1>13 DEF SonarInv

LEMMA TickInv == ASSUME SonarInv, Tick PROVE SonarInv' /\ Recent
<1>1. /\ clock \in Nat /\ open \subseteq Issue /\ closed \subseteq [issue : Issue, at : 0..MaxClock]
      /\ openAt \in [Issue -> 0..clock] /\ closedAt \in [Issue -> 0..clock]
      /\ since \in [Issue -> 0..clock] /\ MaxClock \in Nat
      /\ bugs \in [Issue -> Nat] /\ comments \in [Issue -> Nat]
  BY SonarAssumption DEF SonarInv, TypeOK, SonarAssumption
<1>2. /\ clock' = clock + 1 /\ clock < MaxClock /\ overlooked' = {} /\ paged' = FALSE
      /\ UNCHANGED <<open, closed, analyses, hooks, cache, disableJira, bugs, comments, blind,
                     repeated, faults, since>>
      /\ openAt' = [i \in Issue |-> IF i \in open THEN clock + 1 ELSE openAt[i]]
      /\ closedAt' = [i \in Issue |-> IF IsClosed(i) THEN clock + 1 ELSE closedAt[i]]
  BY DEF Tick, Unanswered, sonar, jira
<1>3. /\ \A i \in Issue : openAt[i] <= openAt'[i] /\ closedAt[i] <= closedAt'[i]
      /\ openAt' \in [Issue -> 0..clock'] /\ closedAt' \in [Issue -> 0..clock']
      /\ since' \in [Issue -> 0..clock']
  BY <1>1, <1>2
<1>4. NowInv'
  BY <1>1, <1>2 DEF NowInv, IsClosed, ClosedRows
<1>5. CacheOk(cache)'
  <2>1. DOMAIN cache = Key
    BY DEF SonarInv, CacheOk
  <2>2. ASSUME NEW q \in Project PROVE OpenEntry(q, cache[OpenKey(q)])'
    <3>1. PICK e : e = cache[OpenKey(q)]
      OBVIOUS
    <3>2. OpenEntry(q, e)
      BY <3>1 DEF SonarInv, CacheOk
    <3>3. e # None => /\ e.at \in 0..clock'
                     /\ \A i \in Issue : i \in ToSet(e.value) => e.at <= openAt'[i]
      BY <1>1, <1>2, <1>3, <3>2 DEF OpenEntry
    <3> QED
      BY <1>2, <3>1, <3>2, <3>3 DEF OpenEntry, OpenKey, MakeKey, Of
  <2>3. ASSUME NEW q \in Project PROVE FixedEntry(cache[FixedKey(q)])'
    <3>1. PICK e : e = cache[FixedKey(q)]
      OBVIOUS
    <3>2. e # None => e.at \in 0..clock /\ \A c \in e.value : c.issue \in Issue /\ e.at <= closedAt[c.issue]
      BY <3>1 DEF SonarInv, CacheOk, FixedEntry
    <3>3. e # None => e.at \in 0..clock' /\ \A c \in e.value : e.at <= closedAt'[c.issue]
      BY <1>1, <1>2, <1>3, <3>2
    <3> QED
      BY <1>2, <3>1, <3>2, <3>3 DEF FixedEntry, FixedKey, MakeKey
  <2> QED
    BY <1>2, <2>1, <2>2, <2>3 DEF CacheOk, Key, OpenKey, FixedKey, MakeKey
<1>6. TypeOK'
  <2>1. \A k \in Key : cache'[k] = None \/ cache'[k].at \in 0..clock'
    BY <1>1, <1>2 DEF SonarInv, TypeOK
  <2>2. paged' \in BOOLEAN
    BY <1>2
  <2>3. clock' \in 0..MaxClock
    BY <1>1, <1>2
  <2> QED
    BY <1>2, <1>3, <2>1, <2>2, <2>3 DEF SonarInv, TypeOK
<1>7. NoTwinBugs' /\ OverlooksOnlyNewIssues'
  BY <1>2 DEF SonarInv, NoTwinBugs, OverlooksOnlyNewIssues
<1>8. Recent
  BY <1>1, <1>2 DEF Recent
<1> QED
  BY <1>4, <1>5, <1>6, <1>7, <1>8 DEF SonarInv

LEMMA SwitchJiraInv == ASSUME SonarInv, NEW p \in Project, SwitchJira(p) PROVE SonarInv' /\ Recent
<1>1. /\ disableJira' = [disableJira EXCEPT ![p] = ~@] /\ overlooked' = {} /\ paged' = FALSE
      /\ UNCHANGED <<clock, open, closed, analyses, hooks, cache, bugs, comments, blind, repeated,
                     faults, openAt, closedAt, since>>
  BY DEF SwitchJira, Unanswered, sonar, jira, issueHistory
<1>2. TypeOK' /\ NowInv' /\ CacheOk(cache)'
  BY <1>1 DEF SonarInv, TypeOK, NowInv, CacheOk, OpenEntry, FixedEntry
<1>3. NoTwinBugs' /\ OverlooksOnlyNewIssues'
  BY <1>1 DEF SonarInv, NoTwinBugs, OverlooksOnlyNewIssues
<1>4. Recent
  BY <1>1 DEF Recent, SonarInv, TypeOK
<1> QED
  BY <1>2, <1>3, <1>4 DEF SonarInv

LEMMA RestartServiceInv == ASSUME SonarInv, RestartService PROVE SonarInv' /\ Recent
<1>1. /\ hooks' = [p \in Project |-> 0] /\ cache' = [k \in Key |-> None]
      /\ overlooked' = {} /\ paged' = FALSE
      /\ UNCHANGED <<clock, open, closed, analyses, disableJira, bugs, comments, blind, repeated,
                     faults, openAt, closedAt, since>>
  BY DEF RestartService, Unanswered, sonar, jira, issueHistory
<1>2. TypeOK'
  <2>1. hooks' \in [Project -> 0..MaxWebHooks]
    BY <1>1, SonarAssumption DEF SonarAssumption
  <2>2. paged' \in BOOLEAN
    BY <1>1
  <2> QED
    BY <1>1, <2>1, <2>2 DEF SonarInv, TypeOK
<1>3. CacheOk(cache')
  BY <1>1, Keys DEF CacheOk, OpenEntry, FixedEntry
<1>4. CacheOk(cache)'
  BY <1>1, <1>3 DEF CacheOk, OpenEntry, FixedEntry
<1>5. NowInv' /\ NoTwinBugs' /\ OverlooksOnlyNewIssues'
  BY <1>1 DEF SonarInv, NowInv, NoTwinBugs, OverlooksOnlyNewIssues
<1>6. Recent
  BY <1>1 DEF Recent, SonarInv, TypeOK
<1> QED
  BY <1>2, <1>4, <1>5, <1>6 DEF SonarInv

LEMMA SonarNextInv == SonarInv /\ [IssuesNext]_issueVars => SonarInv' /\ Recent
<1> SUFFICES ASSUME SonarInv, [IssuesNext]_issueVars PROVE SonarInv' /\ Recent
  OBVIOUS
<1>1. CASE IssuesNext
  BY <1>1, ProcessInv, AnalysisInv, TickInv, SwitchJiraInv, RestartServiceInv DEF IssuesNext
<1>2. CASE UNCHANGED issueVars
  <2>1. UNCHANGED <<clock, open, closed, analyses, hooks, cache, disableJira, bugs, comments,
                    blind, repeated, faults, openAt, closedAt, since, overlooked, paged>>
    BY <1>2 DEF issueVars, sonar, jira, answered, issueHistory
  <2>2. TypeOK' /\ NowInv' /\ CacheOk(cache)'
    BY <2>1 DEF SonarInv, TypeOK, NowInv, CacheOk, OpenEntry, FixedEntry
  <2>3. NoTwinBugs' /\ OverlooksOnlyNewIssues'
    BY <2>1 DEF SonarInv, NoTwinBugs, OverlooksOnlyNewIssues
  <2>4. Recent
    BY <2>1 DEF Recent, SonarInv, TypeOK
  <2> QED
    BY <2>2, <2>3, <2>4 DEF SonarInv
<1> QED
  BY <1>1, <1>2

-----------------------------------------------------------------------------
LEMMA Inductive == IssuesSpec => []SonarInv
<1>1. SonarInv /\ [IssuesNext]_issueVars => SonarInv'
  BY SonarNextInv
<1> QED
  BY <1>1, SonarInitInv, PTL DEF IssuesSpec

\* The state is well formed.
THEOREM TypeCorrect == IssuesSpec => []TypeOK
<1>1. SonarInv => TypeOK
  BY DEF SonarInv
<1> QED
  BY <1>1, Inductive, PTL

\* NoTwinBugs: one bug per issue, and one for each failed search and each request sent twice.
THEOREM OneBug == IssuesSpec => []NoTwinBugs
<1>1. SonarInv => NoTwinBugs
  BY DEF SonarInv
<1> QED
  BY <1>1, Inductive, PTL

\* OverlooksOnlyNewIssues: the cache hides an issue for the time to live at most, unless the
\* answer was a full page.
THEOREM OverlooksOnlyNew == IssuesSpec => []OverlooksOnlyNewIssues
<1>1. SonarInv => OverlooksOnlyNewIssues
  BY DEF SonarInv
<1> QED
  BY <1>1, Inductive, PTL

\* ActsOnRecentAnswers: no bug for what was fixed, and no comment for what was reopened,
\* longer ago than the time to live.
THEOREM RecentAnswers == IssuesSpec => ActsOnRecentAnswers
<1>1. SonarInv /\ [IssuesNext]_issueVars => [Recent]_issueVars
  BY SonarNextInv
<1>2. [][Recent]_issueVars => ActsOnRecentAnswers
  BY PTL DEF ActsOnRecentAnswers, Recent
<1> QED
  BY <1>1, <1>2, Inductive, PTL DEF IssuesSpec
===============================================================================
