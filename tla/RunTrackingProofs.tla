-------------------------- MODULE RunTrackingProofs --------------------------
(***************************************************************************)
(* The safety of uploads for every number of uploads, builds, platforms,   *)
(* warnings, runs, comments and faults. IInv holds in every deployment,    *)
(* SInv where a single process handles the uploads.                        *)
(***************************************************************************)
EXTENDS RunTracking, FiniteSetTheorems, FunctionTheorems, TLAPS

-----------------------------------------------------------------------------
(* The inductive invariants, part by part.                                 *)

\* An upload has a request and a run from its first commit on.
TargetInv ==
  \A u \in Upload :
    /\ pc[u] = "idle" => target[u] = NoRun /\ ~fresh[u]
    /\ pc[u] \notin {"idle", "aborted"} => target[u] # NoRun /\ req[u] \in Request
    /\ target[u] # NoRun => status[target[u]] # "absent"
    /\ fresh[u] => target[u] # NoRun

\* A baseline is another run of the same platform.
BaseInv ==
  \A u \in Upload :
    /\ pc[u] \in {"idle", "accepted"} => base[u] = NoRun
    /\ base[u] # NoRun =>
         /\ target[u] # NoRun /\ base[u] # target[u]
         /\ status[base[u]] # "absent"
         /\ platform[base[u]] = platform[target[u]]

\* A row was written by an upload that works on its run and has stored it.
HasStored(u) == pc[u] \notin {"idle", "accepted", "diffed", "refused"}
RowInv ==
  \A i \in issues :
    /\ HasStored(i.by) /\ target[i.by] = i.run
    /\ i.fp = FpOf[i.entry]
    /\ i.status \in {"new", "existing"} => i.fp \in Fps(req[i.by].report)
    /\ i.status = "new" => base[i.by] # NoRun
    /\ i.status = "fixed" => i.fp \in prev[i.by]

\* What the baseline showed was in the report of some upload for it.
PrevInv ==
  \A u \in Upload : \A f \in prev[u] :
    /\ base[u] # NoRun
    /\ \E w \in Upload : HasStored(w) /\ target[w] = base[u] /\ f \in Fps(req[w].report)

\* Between Diff and Store an upload holds rows of its own run.
OldInv == \A u \in Upload : pc[u] = "diffed" => \A j \in old[u] : j.run = target[u]

\* Another full report has replaced, or may have replaced, the rows of a run.
Replacer(u, v) == v # u /\ target[v] = target[u] /\ HasStored(v) /\ req[v].full
Listed(u, f) == \E i \in issues : i.run = target[u] /\ i.fp = f
Shown(u) == Fps(req[u].report)

\* Until then the rows an upload has read, and those it has written, stay.
Kept(u) ==
  /\ pc[u] = "diffed" => \A j \in old[u] : Listed(u, j.fp)
  /\ pc[u] \in {"stored", "measured", "finished", "done"} =>
       \A f \in Shown(u) : Listed(u, f)
Using == {"diffed", "stored", "measured", "finished", "done"}
KeptInv ==
  \A u \in Upload :
    pc[u] \in Using => (\E v \in Upload : Replacer(u, v)) \/ Kept(u)

IInv ==
  /\ TypeOK
  /\ TargetInv
  /\ BaseInv
  /\ RowInv
  /\ PrevInv
  /\ OldInv
  /\ KeptInv

\* One handler at a time is between two awaits.
LoopInv == \A u, v \in Upload : pc[u] \in Sync /\ pc[v] \in Sync => u = v

\* Hence the rows it has read are still those of its run and of its baseline.
CurrentInv ==
  \A u \in Upload :
    pc[u] = "diffed" => old[u] = Rows(target[u]) /\ prev[u] = Active(base[u])

\* And a full report lists all that its baseline showed, until another one does.
PrevKept(u) ==
  req[u].full /\ pc[u] \in {"stored", "measured", "finished", "done"} =>
    (\E v \in Upload : Replacer(u, v)) \/ \A f \in prev[u] : Listed(u, f)
PrevKeptInv == \A u \in Upload : PrevKept(u)

\* A run is registered by one upload and nobody finishes it but that upload.
FreshInv ==
  /\ \A u, v \in Upload : fresh[u] /\ fresh[v] /\ target[u] = target[v] => u = v
  /\ \A u \in Upload :
       fresh[u] /\ pc[u] \in {"accepted", "diffed", "stored", "measured"} =>
         status[target[u]] = "processing"

\* The run of an upload that may still fail is nobody's baseline.
SettledInv ==
  \A u, v \in Upload :
    fresh[v] /\ pc[v] \in {"accepted"} \union Sync /\ base[u] # NoRun =>
      base[u] # target[v]

SInv ==
  /\ LoopInv
  /\ CurrentInv
  /\ PrevKeptInv
  /\ OneReportPerFingerprint
  /\ FreshInv
  /\ SettledInv
  /\ BaselineStaysDone

-----------------------------------------------------------------------------
(* Lemmas on the operators.                                                *)

\* Latest picks the greatest run id, the newest run.
LEMMA LatestIsMax ==
  ASSUME NEW S \in SUBSET Run
  PROVE  IF S = {} THEN Latest(S) = NoRun
         ELSE Latest(S) \in S /\ \A q \in S : q <= Latest(S)
<1>1. CASE S = {} BY <1>1 DEF Latest
<1>2. CASE S # {}
  <2> DEFINE From(r) == {q \in S : r <= q}
             Tails == {U \in SUBSET S : \E r \in S : U = From(r)}
  <2>1. IsFiniteSet(S) /\ S \in SUBSET Int
    <3>1. IsFiniteSet(1..MaxRuns) BY TrackingAssumption, FS_Interval
    <3>2. IsFiniteSet(S) BY <3>1, FS_Subset DEF Run
    <3>3. S \in SUBSET Int BY TrackingAssumption DEF Run
    <3> QED BY <3>2, <3>3
  <2>2. Tails # {} /\ Tails \subseteq FiniteSubsetsOf(S)
    <3>1. Tails \subseteq FiniteSubsetsOf(S)
      BY <2>1, FS_Subset DEF FiniteSubsetsOf
    <3>2. PICK r \in S : TRUE BY <1>2
    <3>3. From(r) \in Tails OBVIOUS
    <3> QED BY <3>1, <3>3
  <2>3. PICK U \in Tails : \A V \in Tails : ~(<<V, U>> \in StrictSubsetOrdering(S))
    <3> HIDE DEF Tails
    <3> QED BY <2>2, FS_StrictSubsetOrderingWellFounded, WFMin, Zenon
  <2>4. PICK r \in S : U = From(r) OBVIOUS
  <2>5. ASSUME NEW q \in S, r < q PROVE FALSE
    <3>1. From(q) \in Tails OBVIOUS
    <3>2. r \in From(r) \ From(q) BY <2>1, <2>5
    <3>3. ASSUME NEW y \in S, q <= y PROVE r <= y
      BY <2>1, <2>5, <3>3
    <3>4. From(q) \subseteq U /\ From(q) # U BY <2>4, <3>2, <3>3, Zenon
    <3> QED BY <2>3, <3>1, <3>4 DEF StrictSubsetOrdering
  <2>6. \E m \in S : \A q \in S : q <= m BY <2>1, <2>5
  <2> QED BY <2>6, <1>2 DEF Latest
<1> QED BY <1>1, <1>2

\* The table is finite.
LEMMA FiniteRows == ASSUME TypeOK PROVE IsFiniteSet(issues)
<1> DEFINE Left == Upload \X Run
           Lines == Entry \X Fp
           Right == Lines \X IssueStatus
           f == [x \in Left \X Right |->
                   [by |-> x[1][1], run |-> x[1][2], entry |-> x[2][1][1],
                    fp |-> x[2][1][2], status |-> x[2][2]]]
<1>1. IsFiniteSet(Upload) /\ IsFiniteSet(Entry) /\ IsFiniteSet(Fp) /\ IsFiniteSet(Run) /\ IsFiniteSet(IssueStatus)
  <2>1. IsFiniteSet(Run) BY TrackingAssumption, FS_Interval DEF Run
  <2>2. IsFiniteSet(IssueStatus)
    <3>1. IsFiniteSet({"new"}) /\ IsFiniteSet({"existing"}) /\ IsFiniteSet({"fixed"})
          /\ IsFiniteSet({"ignored"})
      BY FS_Singleton
    <3>2. IsFiniteSet({"new"} \union {"existing"}) BY <3>1, FS_Union
    <3>3. IsFiniteSet({"new"} \union {"existing"} \union {"fixed"}) BY <3>1, <3>2, FS_Union
    <3>4. IsFiniteSet({"new"} \union {"existing"} \union {"fixed"} \union {"ignored"})
      BY <3>1, <3>3, FS_Union
    <3>5. IssueStatus = {"new"} \union {"existing"} \union {"fixed"} \union {"ignored"}
      BY DEF IssueStatus
    <3> QED BY <3>4, <3>5
  <2> QED BY <2>1, <2>2, TrackingAssumption
<1>2. IsFiniteSet(Left \X Right)
  <2>0. IsFiniteSet(Lines) BY <1>1, FS_Product
  <2>1. IsFiniteSet(Left) /\ IsFiniteSet(Right) BY <2>0, <1>1, FS_Product
  <2> QED BY <2>1, FS_Product
<1>3. f \in Surjection(Left \X Right, Issue)
  <2>1. f \in [Left \X Right -> Issue] BY DEF Issue
  <2>2. ASSUME NEW i \in Issue PROVE \E x \in Left \X Right : f[x] = i
    <3>1. <<<<i.by, i.run>>, <<<<i.entry, i.fp>>, i.status>>>> \in Left \X Right BY DEF Issue
    <3>2. i = [by |-> i.by, run |-> i.run, entry |-> i.entry, fp |-> i.fp, status |-> i.status]
      BY DEF Issue
    <3>3. f[<<<<i.by, i.run>>, <<<<i.entry, i.fp>>, i.status>>>>] = i BY <3>1, <3>2
    <3> QED BY <3>1, <3>3
  <2> QED BY <2>1, <2>2, Fun_IsSurj
<1> HIDE DEF f, Left, Lines, Right
<1>4. IsFiniteSet(Issue) BY <1>2, <1>3, FS_Surjection
<1> QED BY <1>4, FS_Subset DEF TypeOK

\* There are finitely many rows, so they can be counted.
LEMMA CountsAreNat ==
  ASSUME TypeOK, NEW R \in SUBSET issues
  PROVE  /\ Cardinality(R) \in Nat
         /\ \A s : Cardinality(Of(R, s)) \in Nat
<1>1. IsFiniteSet(R) BY FiniteRows, FS_Subset
<1>2. \A s : IsFiniteSet(Of(R, s)) BY <1>1, FS_Subset DEF Of
<1> QED BY <1>1, <1>2, FS_CardinalityType

-----------------------------------------------------------------------------
(* IInv is inductive.                                                      *)

\* The system starts within the invariant.
LEMMA InitIInv == Init => IInv
<1> SUFFICES ASSUME Init PROVE IInv
  OBVIOUS
<1> USE DEF Init
<1>1. TypeOK
  BY TrackingAssumption DEF TypeOK, RunStatus, Pc, NoCount, NoRun
<1>2. TargetInv BY DEF TargetInv
<1>3. BaseInv BY DEF BaseInv
<1>4. RowInv BY DEF RowInv
<1>5. PrevInv BY DEF PrevInv
<1>6. OldInv BY DEF OldInv
<1>7. KeptInv BY DEF KeptInv, Using
<1> QED BY <1>1, <1>2, <1>3, <1>4, <1>5, <1>6, <1>7 DEF IInv

\* An upload that gets its run, a new one or a finished one, disturbs no row.
LEMMA ReceiveInv ==
  ASSUME IInv, NEW u \in Upload, NEW b \in Build, NEW p \in Platform,
         NEW full \in BOOLEAN, NEW report \in SUBSET Entry,
         Register(u, b, p, full, report) \/ Reuse(u, b, p, full, report)
  PROVE  IInv'
<1> USE DEF IInv
<1>0. /\ Receive(u, b, p, full, report)
      /\ pc[u] = "idle" /\ target[u] = NoRun /\ base[u] = NoRun /\ ~fresh[u]
  BY DEF Register, Reuse, Receive, TargetInv, BaseInv
<1>1. PICK r \in Run :
        /\ r # NoRun /\ target' = [target EXCEPT ![u] = r]
        /\ status'[r] # "absent"
        /\ \A q \in Run : status[q] # "absent" =>
             status'[q] = status[q] /\ platform'[q] = platform[q]
  <2>0. NoRun \notin Run BY TrackingAssumption DEF Run, NoRun
  <2>1. CASE Register(u, b, p, full, report)
    <3>1. PICK r \in Run :
            /\ status[r] = "absent"
            /\ status' = [status EXCEPT ![r] = "processing"]
            /\ platform' = [platform EXCEPT ![r] = p]
            /\ target' = [target EXCEPT ![u] = r]
      BY <2>1 DEF Register
    <3> QED BY <3>1, <2>0 DEF TypeOK
  <2>2. CASE Reuse(u, b, p, full, report)
    <3>0. FinishedOf(b, p) \in SUBSET Run /\ FinishedOf(b, p) # {}
      BY <2>2 DEF Reuse, FinishedOf
    <3>1. Latest(FinishedOf(b, p)) \in FinishedOf(b, p)
      BY <3>0, LatestIsMax
    <3>2. Latest(FinishedOf(b, p)) \in Run /\ status[Latest(FinishedOf(b, p))] = "done"
      BY <3>1 DEF FinishedOf
    <3>3. /\ target' = [target EXCEPT ![u] = Latest(FinishedOf(b, p))]
          /\ status' = status /\ platform' = platform
      BY <2>2 DEF Reuse
    <3> QED BY <3>2, <3>3, <2>0
  <2> QED BY <2>1, <2>2
<1>2. /\ pc' = [pc EXCEPT ![u] = "accepted"]
      /\ req' = [req EXCEPT ![u] = [build |-> b, platform |-> p, full |-> full,
                                    report |-> report]]
      /\ UNCHANGED <<issues, base, prev, old>>
  BY <1>0 DEF Receive, Goto, rows
<1>3. TypeOK'
  <2>1. /\ status' \in [Run -> RunStatus]
        /\ build' \in [Run -> Build \union {None}]
        /\ platform' \in [Run -> Platform \union {None}]
        /\ fresh' \in [Upload -> BOOLEAN]
    <3>1. CASE Register(u, b, p, full, report)
      BY <3>1 DEF Register, TypeOK, RunStatus
    <3>2. CASE Reuse(u, b, p, full, report)
      BY <3>2 DEF Reuse, TypeOK
    <3> QED BY <3>1, <3>2
  <2> QED BY <2>1, <1>0, <1>1, <1>2 DEF TypeOK, Receive, Pc, Request, rows
<1>4. TargetInv'
  <2>1. \A v \in Upload : v # u => fresh'[v] = fresh[v]
    BY DEF Register, Reuse, TypeOK
  <2>2. req'[u] \in Request BY <1>2 DEF Request, TypeOK
  <2> QED BY <2>1, <2>2, <1>1, <1>2 DEF TargetInv, TypeOK
<1>5. BaseInv'
  BY <1>0, <1>1, <1>2 DEF BaseInv, TargetInv, TypeOK, NoRun
<1>6. \A v \in Upload : HasStored(v) => v # u /\ HasStored(v)'
  BY <1>0, <1>2 DEF HasStored, TypeOK
<1>7. RowInv'
  BY <1>1, <1>2, <1>6 DEF RowInv, TypeOK, Issue
<1>8. PrevInv'
  BY <1>1, <1>2, <1>6 DEF PrevInv, TypeOK
<1>9. OldInv'
  BY <1>1, <1>2 DEF OldInv, TypeOK
<1>10. KeptInv'
  <2> SUFFICES ASSUME NEW x \in Upload, pc'[x] \in Using,
                      ~ \E v \in Upload : Replacer(x, v)'
               PROVE  Kept(x)'
    BY DEF KeptInv
  <2> USE DEF Kept, Using
  <2>1. /\ x # u /\ pc'[x] = pc[x] /\ target'[x] = target[x] /\ req'[x] = req[x]
    BY <1>1, <1>2 DEF TypeOK
  <2>2. ~ \E v \in Upload : Replacer(x, v)
    BY <2>1, <1>1, <1>2, <1>6 DEF Replacer, TypeOK
  <2> QED BY <2>1, <2>2, <1>2 DEF KeptInv, Listed, Shown
<1> QED BY <1>3, <1>4, <1>5, <1>7, <1>8, <1>9, <1>10

\* An upload that is rejected before its diff leaves no trace in the rows.
LEMMA DismissInv ==
  ASSUME IInv, NEW u \in Upload, Dismiss(u), Fail(u) \/ UNCHANGED status
  PROVE  IInv'
<1> USE DEF IInv
<1>0. pc[u] = "accepted" /\ base[u] = NoRun /\ target[u] # NoRun /\ target[u] \in Run
  BY DEF Dismiss, BaseInv, TargetInv, TypeOK
<1>1. /\ pc' = [pc EXCEPT ![u] = "aborted"]
      /\ req' = [req EXCEPT ![u] = None]
      /\ target' = [target EXCEPT ![u] = NoRun]
      /\ fresh' = [fresh EXCEPT ![u] = FALSE]
      /\ UNCHANGED <<build, platform, counters, issues, comments, base, prev,
                     old, measured, faults>>
  BY DEF Dismiss, Goto, rows
<1>2. /\ status' \in [Run -> RunStatus]
      /\ \A r \in Run : status[r] # "absent" => status'[r] # "absent"
  <2>1. CASE UNCHANGED status BY <2>1 DEF TypeOK
  <2>2. CASE Fail(u)
    <3>1. status' = [status EXCEPT ![target[u]] = "failed"] \/ status' = status
      BY <2>2, Zenon DEF Fail
    <3> QED BY <3>1, <1>0 DEF TypeOK, RunStatus
  <2> QED BY <2>1, <2>2
<1>3. TypeOK' BY <1>1, <1>2 DEF TypeOK, Pc
<1>4. TargetInv' BY <1>1, <1>2 DEF TargetInv, TypeOK
<1>5. BaseInv' BY <1>0, <1>1, <1>2 DEF BaseInv, TypeOK
<1>6. \A v \in Upload : v # u => (HasStored(v)' <=> HasStored(v))
  BY <1>1 DEF HasStored, TypeOK
<1>7. RowInv' BY <1>0, <1>1, <1>6 DEF RowInv, HasStored, TypeOK
<1>8. PrevInv' BY <1>0, <1>1, <1>6 DEF PrevInv, HasStored, TypeOK
<1>9. OldInv' BY <1>1 DEF OldInv, TypeOK
<1>10. KeptInv'
  <2> SUFFICES ASSUME NEW x \in Upload, pc'[x] \in Using,
                      ~ \E v \in Upload : Replacer(x, v)'
               PROVE  Kept(x)'
    BY DEF KeptInv
  <2> USE DEF Kept, Using
  <2>1. /\ x # u /\ pc'[x] = pc[x] /\ target'[x] = target[x] /\ req'[x] = req[x]
    BY <1>1 DEF TypeOK
  <2>2. ~ \E v \in Upload : Replacer(x, v)
    BY <2>1, <1>0, <1>1, <1>6 DEF Replacer, HasStored, TypeOK
  <2> QED BY <2>1, <2>2, <1>1 DEF KeptInv, Listed, Shown
<1> QED BY <1>3, <1>4, <1>5, <1>7, <1>8, <1>9, <1>10
\* The baseline is a finished run of the platform, and its warnings were reported.
LEMMA DiffInv ==
  ASSUME IInv, NEW u \in Upload, Diff(u)
  PROVE  IInv'
<1> USE DEF IInv
<1>0. /\ pc[u] = "accepted" /\ target[u] # NoRun /\ status[target[u]] # "absent"
      /\ NoRun \notin Run
  BY TrackingAssumption DEF Diff, TargetInv, Run, NoRun
<1>1. PICK b :
        /\ b = Latest(Baselines(u))
        /\ base' = [base EXCEPT ![u] = b]
        /\ prev' = [prev EXCEPT ![u] = Active(b)]
        /\ old' = [old EXCEPT ![u] = Rows(target[u])]
        /\ pc' = [pc EXCEPT ![u] = "diffed"]
        /\ UNCHANGED <<runs, issues, comments, req, target, fresh, measured, faults>>
  BY DEF Diff, Goto, rows
<1>2. b # NoRun => b \in Baselines(u)
  <2>1. Baselines(u) \in SUBSET Run BY DEF Baselines
  <2> QED BY <2>1, <1>1, LatestIsMax
<1>3. b \in Run \union {NoRun} BY <1>2 DEF Baselines
<1>4. \A i \in issues : HasStored(i.by) /\ i.by # u /\ i.run \in Run
  BY <1>0 DEF RowInv, HasStored, TypeOK, Issue
<1>5. TypeOK'
  <2>1. Active(b) \in SUBSET Fp /\ Rows(target[u]) \in SUBSET issues
    BY DEF Active, Of, Rows, TypeOK, Issue
  <2> QED BY <2>1, <1>1, <1>3 DEF TypeOK, Pc, runs
<1>6. TargetInv' BY <1>0, <1>1 DEF TargetInv, TypeOK, runs
<1>7. BaseInv'
  <2>1. b # NoRun => /\ b # target[u] /\ status[b] # "absent"
                     /\ platform[b] = platform[target[u]]
    BY <1>2 DEF Baselines
  <2> QED BY <2>1, <1>0, <1>1 DEF BaseInv, TypeOK, runs
<1>8. \A v \in Upload : v # u => (HasStored(v)' <=> HasStored(v))
  BY <1>1 DEF HasStored, TypeOK
<1>9. ~HasStored(u) /\ ~HasStored(u)' BY <1>0, <1>1 DEF HasStored, TypeOK
<1>10. RowInv'
  BY <1>1, <1>4, <1>8 DEF RowInv, TypeOK, Issue
<1>11. PrevInv'
  <2>1. ASSUME NEW f \in Active(b)
        PROVE  /\ b # NoRun
               /\ \E w \in Upload : HasStored(w) /\ target[w] = b /\ f \in Fps(req[w].report)
    <3>1. PICK i \in issues : i.run = b /\ i.status \in {"new", "existing"} /\ i.fp = f
      BY DEF Active, Of, Rows
    <3>2. i.by \in Upload BY DEF TypeOK, Issue
    <3> QED BY <3>1, <3>2, <1>0, <1>4 DEF RowInv
  <2>2. \A w \in Upload : HasStored(w) => HasStored(w)' /\ req'[w] = req[w] /\ target'[w] = target[w]
    BY <1>1, <1>8, <1>9
  <2>3. ASSUME NEW v \in Upload, NEW f \in prev'[v]
        PROVE  /\ base'[v] # NoRun
               /\ \E w \in Upload : HasStored(w) /\ target[w] = base'[v] /\ f \in Fps(req[w].report)
    <3>1. CASE v = u BY <3>1, <2>1, <2>3, <1>1 DEF TypeOK
    <3>2. CASE v # u BY <3>2, <2>3, <1>1 DEF PrevInv, TypeOK
    <3> QED BY <3>1, <3>2
  <2> QED BY <2>2, <2>3 DEF PrevInv
<1>12. OldInv' BY <1>1 DEF OldInv, Rows, TypeOK
<1>13. KeptInv'
  <2> SUFFICES ASSUME NEW x \in Upload, pc'[x] \in Using,
                      ~ \E v \in Upload : Replacer(x, v)'
               PROVE  Kept(x)'
    BY DEF KeptInv
  <2> USE DEF Kept, Using
  <2>1. ~ \E v \in Upload : Replacer(x, v)
    BY <1>1, <1>8, <1>9 DEF Replacer
  <2>2. CASE x = u
    BY <2>2, <1>1 DEF Listed, Rows, TypeOK
  <2>3. CASE x # u
    <3>1. pc'[x] = pc[x] /\ old'[x] = old[x] /\ prev'[x] = prev[x]
      BY <2>3, <1>1 DEF TypeOK
    <3> QED BY <3>1, <2>1, <1>1 DEF KeptInv, Listed, Shown
  <2> QED BY <2>2, <2>3
<1> QED BY <1>5, <1>6, <1>7, <1>10, <1>11, <1>12, <1>13

\* The rows an upload stores are its own, and only a full report drops others.
LEMMA StoreInv ==
  ASSUME IInv, NEW u \in Upload, Store(u)
  PROVE  IInv'
<1> USE DEF IInv
<1> DEFINE Shows == {Row(u, e, Class(u, FpOf[e])) : e \in Added(u)}
<1>0. /\ pc[u] = "diffed" /\ target[u] # NoRun /\ req[u] \in Request
      /\ target[u] \in Run
  BY DEF Store, TargetInv, TypeOK
<1>1. PICK C \in Copies(u) :
      /\ issues' = (issues \ Replaced(u)) \union Shows
                     \union {Row(u, i.entry, "fixed") : i \in C}
      /\ old' = [old EXCEPT ![u] = {}]
      /\ pc' = [pc EXCEPT ![u] = "stored"]
      /\ UNCHANGED <<runs, comments, req, target, fresh, base, prev, measured, faults>>
  BY DEF Store, Goto
<1> DEFINE Fixed == {Row(u, i.entry, "fixed") : i \in C}
<1>15. issues' = (issues \ Replaced(u)) \union Shows \union Fixed BY <1>1
<1>2. \A i \in Shows :
        /\ i \in Issue /\ i.fp = FpOf[i.entry]
        /\ i.by = u /\ i.run = target[u] /\ i.fp \in Fps(req[u].report)
        /\ i.status = "new" \/ i.status = "existing"
        /\ i.status = "new" => base[u] # NoRun
  <2> TAKE i \in Shows
  <2>1. PICK e \in Added(u) : i = Row(u, e, Class(u, FpOf[e])) OBVIOUS
  <2>2. e \in req[u].report /\ e \in Entry /\ FpOf[e] \in Fp
    BY <2>1, <1>0, TrackingAssumption DEF Added, Request
  <2>3. FpOf[e] \in Fps(req[u].report) BY <2>2 DEF Fps
  <2>4. /\ Class(u, FpOf[e]) \in IssueStatus
        /\ Class(u, FpOf[e]) = "new" \/ Class(u, FpOf[e]) = "existing"
        /\ Class(u, FpOf[e]) = "new" => base[u] # NoRun
    BY DEF Class, IssueStatus
  <2> QED BY <2>1, <2>2, <2>3, <2>4, <1>0 DEF Row, Issue
<1>3. \A i \in Fixed :
        /\ i \in Issue /\ i.fp = FpOf[i.entry]
        /\ i.by = u /\ i.run = target[u] /\ i.fp \in prev[u] /\ i.status = "fixed"
  <2> TAKE i \in Fixed
  <2>1. PICK j \in C : i = Row(u, j.entry, "fixed") OBVIOUS
  <2>2. j \in issues /\ j.fp \in prev[u] BY <2>1 DEF Copies, Rows, Gone
  <2>3. j.entry \in Entry /\ FpOf[j.entry] = j.fp /\ j.fp \in Fp
    BY <2>2 DEF TypeOK, Issue, RowInv
  <2>4. "fixed" \in IssueStatus BY DEF IssueStatus
  <2> QED BY <2>1, <2>2, <2>3, <2>4, <1>0 DEF Row, Issue
<1>4. \A i \in Replaced(u) : req[u].full /\ i.run = target[u]
  BY <1>0 DEF Replaced, Replaces, OldInv
<1>5. \A f \in Fps(req[u].report) :
        f \notin Known(u) => \E i \in Shows : i.fp = f /\ i.run = target[u]
  <2> TAKE f \in Fps(req[u].report)
  <2> HAVE f \notin Known(u)
  <2>1. PICK e \in req[u].report : f = FpOf[e] BY DEF Fps
  <2>2. Row(u, e, Class(u, FpOf[e])) \in Shows BY <2>1 DEF Added
  <2>3. Row(u, e, Class(u, FpOf[e])).fp = f /\ Row(u, e, Class(u, FpOf[e])).run = target[u]
    BY <2>1 DEF Row
  <2> QED BY <2>2, <2>3
<1> HIDE DEF Shows, Fixed
<1>7. TypeOK'
  <2>1. issues' \subseteq Issue
    BY <1>15, <1>2, <1>3 DEF TypeOK
  <2> QED BY <2>1, <1>1 DEF TypeOK, Pc, runs
<1>8. TargetInv' BY <1>0, <1>1 DEF TargetInv, TypeOK, runs
<1>9. BaseInv' BY <1>0, <1>1 DEF BaseInv, TypeOK, runs
<1>10. /\ \A v \in Upload : HasStored(v) => HasStored(v)'
       /\ HasStored(u)'
       /\ \A v \in Upload : v # u => pc'[v] = pc[v]
       /\ pc'[u] = "stored"
  BY <1>1 DEF HasStored, TypeOK
<1>11. RowInv'
  BY <1>1, <1>15, <1>2, <1>3, <1>10 DEF RowInv, TypeOK, Issue
<1>12. PrevInv' BY <1>1, <1>10 DEF PrevInv
<1>13. OldInv' BY <1>1, <1>10 DEF OldInv, TypeOK
<1>14. KeptInv'
  <2> SUFFICES ASSUME NEW x \in Upload, pc'[x] \in Using,
                      ~ \E v \in Upload : Replacer(x, v)'
               PROVE  Kept(x)'
    BY DEF KeptInv
  <2> USE DEF Kept, Using
  <2>1. ~ \E v \in Upload : Replacer(x, v)
    BY <1>1, <1>10 DEF Replacer
  <2>2. CASE x = u
    <3>1. \A f \in Known(u) : f \in Fps(req[u].report) => \E i \in issues' : i.fp = f /\ i.run = target[u]
      <4>1. CASE req[u].full BY <4>1 DEF Known, Replaces
      <4>2. CASE ~req[u].full
        <5>1. Replaced(u) = {} BY <4>2, <1>4
        <5>2. \A f \in Known(u) : Listed(u, f)
          BY <2>1, <2>2, <4>2, <1>0 DEF Known, KeptInv
        <5> QED BY <5>1, <5>2, <1>15 DEF Listed
      <4> QED BY <4>1, <4>2
    <3>2. \A f \in Fps(req[u].report) : \E i \in issues' : i.fp = f /\ i.run = target[u]
      BY <3>1, <1>15, <1>5
    <3>3. Shown(x)' = Fps(req[u].report) BY <2>2, <1>1 DEF Shown
    <3> QED BY <3>2, <3>3, <2>2, <1>1, <1>10 DEF Listed
  <2>3. CASE x # u
    <3>1. pc'[x] = pc[x] /\ old'[x] = old[x] /\ Shown(x)' = Shown(x)
      BY <2>3, <1>1, <1>10 DEF Shown, TypeOK
    <3>2. \A i \in Replaced(u) : i.run # target[x]
      BY <2>3, <1>1, <1>4, <1>10 DEF Replacer
    <3>3. \A f : Listed(x, f) => Listed(x, f)'
      BY <3>2, <1>1, <1>15 DEF Listed
    <3> QED BY <3>1, <3>3, <2>1, <1>10 DEF KeptInv
  <2> QED BY <2>2, <2>3
<1> QED BY <1>7, <1>8, <1>9, <1>11, <1>12, <1>13, <1>14
\* What the other steps do to the control of an upload: it goes on, or ends.
Onward(p, q) ==
  \/ q = p
  \/ p = "accepted" /\ q = "aborted"
  \/ p = "diffed" /\ q \in {"refused", "aborted"}
  \/ p = "stored" /\ q \in {"measured", "torn"}
  \/ p = "measured" /\ q \in {"finished", "torn"}
  \/ p = "finished" /\ q \in {"done", "aborted"}

\* A step that only moves uploads onward and sets statuses keeps IInv.
LEMMA OnwardInv ==
  ASSUME IInv, TypeOK',
         UNCHANGED <<platform, issues, req, target, fresh, base, prev, old>>,
         \A r \in Run : status[r] # "absent" => status'[r] # "absent",
         \A u \in Upload : Onward(pc[u], pc'[u])
  PROVE  IInv'
<1> USE DEF IInv
<1>1. TargetInv' BY DEF TargetInv, Onward, TypeOK
<1>2. BaseInv' BY DEF BaseInv, Onward, TypeOK
<1>3. \A u \in Upload : HasStored(u) => HasStored(u)' BY DEF HasStored, Onward
<1>4. RowInv' BY <1>3 DEF RowInv, TypeOK, Issue
<1>5. PrevInv' BY <1>3 DEF PrevInv
<1>6. OldInv' BY DEF OldInv, Onward
<1>7. KeptInv'
  <2> SUFFICES ASSUME NEW x \in Upload, pc'[x] \in Using,
                      ~ \E v \in Upload : Replacer(x, v)'
               PROVE  Kept(x)'
    BY DEF KeptInv
  <2> USE DEF Kept, Using
  <2>1. ~ \E v \in Upload : Replacer(x, v) BY <1>3 DEF Replacer
  <2>2. /\ pc[x] = pc'[x] \/ pc[x] \in {"stored", "measured", "finished"}
        /\ pc'[x] = "diffed" => pc[x] = "diffed"
    BY DEF Onward
  <2> QED BY <2>1, <2>2 DEF KeptInv, Listed, Shown
<1> QED BY <1>1, <1>2, <1>4, <1>5, <1>6, <1>7

\* An upload that ends in an exception, as far as its run is concerned.
LEMMA FailType ==
  ASSUME IInv, NEW u \in Upload, Fail(u) \/ UNCHANGED status,
         target[u] # NoRun
  PROVE  /\ status' \in [Run -> RunStatus]
         /\ \A r \in Run : status[r] # "absent" => status'[r] # "absent"
<1>1. target[u] \in Run BY DEF IInv, TypeOK
<1>2. status' = [status EXCEPT ![target[u]] = "failed"] \/ status' = status
  BY Zenon DEF Fail
<1> QED BY <1>1, <1>2 DEF IInv, TypeOK, RunStatus

\* A refused re-upload leaves the rows alone.
LEMMA StoreRefusedInv ==
  ASSUME IInv, NEW u \in Upload, StoreRefused(u)
  PROVE  IInv'
<1>1. /\ pc[u] = "diffed" /\ pc' = [pc EXCEPT ![u] = "refused"]
      /\ UNCHANGED <<runs, rows, req, target, fresh, base, prev, old, measured, faults>>
  BY DEF StoreRefused, Goto
<1>2. TypeOK' BY <1>1 DEF IInv, TypeOK, Pc, runs, rows
<1>3. \A v \in Upload : Onward(pc[v], pc'[v]) BY <1>1 DEF IInv, TypeOK, Onward
<1> QED BY <1>1, <1>2, <1>3, OnwardInv DEF runs, rows

\* Counting the rows of a run gives natural numbers.
LEMMA MeasureInv ==
  ASSUME IInv, NEW u \in Upload, Measure(u)
  PROVE  IInv'
<1> DEFINE R == Counted(u)
           n == [total |-> Cardinality(R), new |-> Cardinality(Of(R, "new")),
                 fixed |-> Cardinality(Of(R, "fixed"))]
<1>1. /\ pc[u] = "stored" /\ pc' = [pc EXCEPT ![u] = "measured"]
      /\ measured' = [measured EXCEPT ![u] = n]
      /\ UNCHANGED <<runs, rows, req, target, fresh, base, prev, old, faults>>
  BY DEF Measure, Goto
<1>2. n \in [total : Nat, new : Nat, fixed : Nat]
  <2>1. R \in SUBSET issues BY DEF Counted, Rows
  <2> HIDE DEF R
  <2> QED BY <2>1, CountsAreNat DEF IInv
<1> HIDE DEF n
<1>3. TypeOK' BY <1>1, <1>2 DEF IInv, TypeOK, Pc, runs, rows
<1>4. \A v \in Upload : Onward(pc[v], pc'[v]) BY <1>1 DEF IInv, TypeOK, Onward
<1> QED BY <1>1, <1>3, <1>4, OnwardInv DEF runs, rows

\* Finishing a run writes its counters and its status only.
LEMMA FinishInv ==
  ASSUME IInv, NEW u \in Upload, Finish(u)
  PROVE  IInv'
<1>1. /\ pc[u] = "measured" /\ pc' = [pc EXCEPT ![u] = "finished"]
      /\ counters' = [counters EXCEPT ![target[u]] = measured[u]]
      /\ measured' = [measured EXCEPT ![u] = NoCount]
      /\ UNCHANGED <<build, platform, rows, req, target, fresh, base, prev, old, faults>>
  BY DEF Finish, Goto
<1>2. /\ status' \in [Run -> RunStatus]
      /\ \A r \in Run : status[r] # "absent" => status'[r] # "absent"
  <2>1. status' = [status EXCEPT ![target[u]] = "done"] \/ status' = status
    BY Zenon DEF Finish
  <2> QED BY <2>1 DEF IInv, TypeOK, RunStatus
<1>3. TypeOK' BY <1>1, <1>2 DEF IInv, TypeOK, Pc, NoCount, rows
<1>4. \A v \in Upload : Onward(pc[v], pc'[v]) BY <1>1 DEF IInv, TypeOK, Onward
<1> QED BY <1>1, <1>2, <1>3, <1>4, OnwardInv DEF rows

\* What follows the commit of "done" changes no run.
LEMMA AnnounceInv ==
  ASSUME IInv, NEW u \in Upload, Announce(u)
  PROVE  IInv'
<1>1. /\ pc[u] = "finished" /\ pc' = [pc EXCEPT ![u] = "done"]
      /\ UNCHANGED <<runs, rows, req, target, fresh, base, prev, old, measured, faults>>
  BY DEF Announce, Goto
<1>2. TypeOK' BY <1>1 DEF IInv, TypeOK, Pc, runs, rows
<1>3. \A v \in Upload : Onward(pc[v], pc'[v]) BY <1>1 DEF IInv, TypeOK, Onward
<1> QED BY <1>1, <1>2, <1>3, OnwardInv DEF runs, rows

\* An exception ends an upload and may fail the run it registered.
LEMMA DbRaisesInv ==
  ASSUME IInv, NEW u \in Upload, DbRaises(u)
  PROVE  IInv'
<1>1. /\ pc[u] \in Sync /\ pc' = [pc EXCEPT ![u] = Cut(u)]
      /\ faults < MaxFaults /\ faults' = faults + 1
      /\ Fail(u) \/ UNCHANGED status
      /\ UNCHANGED <<build, platform, counters, rows, req, target, fresh, base,
                     prev, old, measured>>
  BY DEF DbRaises, Fault, Goto
<1>2. /\ status' \in [Run -> RunStatus]
      /\ \A r \in Run : status[r] # "absent" => status'[r] # "absent"
  BY <1>1, FailType DEF IInv, TargetInv, Sync
<1>3. TypeOK'
  BY <1>1, <1>2, TrackingAssumption DEF IInv, TypeOK, Pc, Cut, rows
<1>4. \A v \in Upload : Onward(pc[v], pc'[v])
  BY <1>1 DEF IInv, TypeOK, Onward, Cut, Sync
<1> QED BY <1>1, <1>2, <1>3, <1>4, OnwardInv DEF rows

\* A crash ends uploads and changes no row.
LEMMA CrashInv ==
  ASSUME IInv, NEW U \in SUBSET Under, Crash(U)
  PROVE  IInv'
<1>1. /\ pc' = [u \in Upload |-> IF u \in U THEN Cut(u) ELSE pc[u]]
      /\ faults < MaxFaults /\ faults' = faults + 1
      /\ UNCHANGED <<runs, rows, req, target, fresh, base, prev, old, measured>>
  BY DEF Crash, Fault
<1>2. \A v \in Upload : Onward(pc[v], pc'[v]) /\ pc'[v] \in Pc
  BY <1>1 DEF IInv, TypeOK, Onward, Cut, Under, Sync, Pc
<1>3. pc' \in [Upload -> Pc]
  BY <1>1, <1>2
<1>4. TypeOK'
  BY <1>1, <1>3, TrackingAssumption DEF IInv, TypeOK, runs, rows
<1> QED BY <1>1, <1>2, <1>4, OnwardInv DEF runs, rows

\* A comment changes no row.
LEMMA CommentInv ==
  ASSUME IInv, NEW i \in issues, Comment(i)
  PROVE  IInv'
<1>1. /\ comments' = comments \union {Id(i)}
      /\ UNCHANGED <<runs, issues, control, faults>>
  BY DEF Comment
<1>2. Id(i) \in Upload \X Entry BY DEF Id, IInv, TypeOK, Issue
<1>3. TypeOK' BY <1>1, <1>2 DEF IInv, TypeOK, runs, control
<1>4. \A v \in Upload : Onward(pc[v], pc'[v]) BY <1>1 DEF Onward, control
<1> QED BY <1>1, <1>3, <1>4, OnwardInv DEF runs, control

\* A row that is ignored keeps its run and its warning.
LEMMA IgnoredRows ==
  ASSUME IInv, NEW f \in Fp, Ignore(f)
  PROVE  /\ \A i \in issues' : \E j \in issues :
              /\ i.by = j.by /\ i.run = j.run /\ i.entry = j.entry /\ i.fp = j.fp
              /\ i.status = "ignored" \/ i.status = j.status
              /\ i = IF j.fp = f THEN [j EXCEPT !.status = "ignored"] ELSE j
              /\ i \in Issue
         /\ \A j \in issues : \E i \in issues' : i.run = j.run /\ i.fp = j.fp
         /\ UNCHANGED <<runs, comments, control, faults>>
<1>1. /\ issues' = {IF i.fp = f THEN [i EXCEPT !.status = "ignored"] ELSE i : i \in issues}
      /\ UNCHANGED <<runs, comments, control, faults>>
  BY DEF Ignore
<1>2. ASSUME NEW j \in issues
      PROVE  LET i == IF j.fp = f THEN [j EXCEPT !.status = "ignored"] ELSE j
             IN /\ i.by = j.by /\ i.run = j.run /\ i.entry = j.entry /\ i.fp = j.fp
                /\ i.status = "ignored" \/ i.status = j.status
                /\ i \in Issue
  <2>1. j \in Issue
    BY DEF IInv, TypeOK
  <2> QED BY <2>1 DEF Issue, IssueStatus
<1> QED BY <1>1, <1>2

\* Ignoring a warning drops no row.
LEMMA IgnoreInv ==
  ASSUME IInv, NEW f \in Fp, Ignore(f)
  PROVE  IInv'
<1> USE DEF IInv
<1>1. UNCHANGED <<runs, comments, control, faults>> BY IgnoredRows
<1> USE DEF runs, control
<1>2. TypeOK'
  <2>1. issues' \subseteq Issue
    BY IgnoredRows
  <2> QED BY <2>1, <1>1 DEF TypeOK
<1>3. TargetInv' BY <1>1 DEF TargetInv
<1>4. BaseInv' BY <1>1 DEF BaseInv
<1>5. RowInv'
  <2> SUFFICES ASSUME NEW i \in issues'
               PROVE  /\ HasStored(i.by) /\ target[i.by] = i.run
                      /\ i.fp = FpOf[i.entry]
                      /\ i.status \in {"new", "existing"} => i.fp \in Fps(req[i.by].report)
                      /\ i.status = "new" => base[i.by] # NoRun
                      /\ i.status = "fixed" => i.fp \in prev[i.by]
    BY <1>1 DEF RowInv, HasStored
  <2>1. PICK j \in issues : /\ i.by = j.by /\ i.run = j.run /\ i.fp = j.fp
                            /\ i.entry = j.entry
                            /\ i.status = "ignored" \/ i.status = j.status
    BY IgnoredRows
  <2> QED BY <2>1 DEF RowInv
<1>6. PrevInv' BY <1>1 DEF PrevInv, HasStored
<1>7. OldInv' BY <1>1 DEF OldInv
<1>8. KeptInv'
  <2>1. \A u \in Upload : \A g : Listed(u, g) => Listed(u, g)'
    BY <1>1, IgnoredRows DEF Listed
  <2>2. \A u, v \in Upload : Replacer(u, v) => Replacer(u, v)'
    BY <1>1 DEF Replacer, HasStored
  <2>3. \A u \in Upload : Shown(u)' = Shown(u) BY <1>1 DEF Shown
  <2> QED BY <2>1, <2>2, <2>3, <1>1 DEF KeptInv, Kept, Using
<1> QED BY <1>2, <1>3, <1>4, <1>5, <1>6, <1>7, <1>8
\* Every step keeps the invariant.
LEMMA NextIInv == IInv /\ [Next]_vars => IInv'
<1> SUFFICES ASSUME IInv, [Next]_vars PROVE IInv'
  OBVIOUS
<1>1. ASSUME NEW u \in Upload, NEW b \in Build, NEW p \in Platform,
             NEW full \in BOOLEAN, NEW report \in SUBSET Entry,
             Register(u, b, p, full, report) \/ Reuse(u, b, p, full, report)
      PROVE  IInv'
  BY <1>1, ReceiveInv
<1>2. ASSUME NEW u \in Upload, Handle(u) PROVE IInv'
  <2>1. CASE SnapshotRejected(u) BY <2>1, DismissInv DEF SnapshotRejected
  <2>2. CASE ReportRejected(u) BY <2>2, DismissInv DEF ReportRejected
  <2>3. CASE Diff(u) BY <2>3, DiffInv
  <2>4. CASE Store(u) BY <2>4, StoreInv
  <2>5. CASE StoreRefused(u) BY <2>5, StoreRefusedInv
  <2>6. CASE Measure(u) BY <2>6, MeasureInv
  <2>7. CASE Finish(u) BY <2>7, FinishInv
  <2>8. CASE Announce(u) BY <2>8, AnnounceInv
  <2>9. CASE DbRaises(u) BY <2>9, DbRaisesInv
  <2> QED
    BY <1>2, <2>1, <2>2, <2>3, <2>4, <2>5, <2>6, <2>7, <2>8, <2>9 DEF Handle
<1>3. CASE IF OneProcess THEN Under # {} /\ Crash(Under) ELSE \E u \in Under : Crash({u})
  <2>1. CASE Crash(Under) BY <2>1, CrashInv
  <2>2. ASSUME NEW u \in Under, Crash({u}) PROVE IInv' BY <2>2, CrashInv
  <2> QED BY <1>3, <2>1, <2>2
<1>4. ASSUME NEW f \in Fp, Ignore(f) PROVE IInv' BY <1>4, IgnoreInv
<1>5. ASSUME NEW i \in issues, Comment(i) PROVE IInv' BY <1>5, CommentInv
<1>6. CASE UNCHANGED vars
  <2>1. TypeOK' BY <1>6 DEF IInv, TypeOK, vars, runs, rows, control
  <2>2. \A v \in Upload : Onward(pc[v], pc'[v])
    BY <1>6 DEF Onward, vars, control
  <2> QED BY <2>1, <2>2, <1>6, OnwardInv DEF vars, runs, rows, control
<1> QED BY <1>1, <1>2, <1>3, <1>4, <1>5, <1>6 DEF Next

\* IInv holds in every deployment, whatever fails.
THEOREM Invariance == Spec => []IInv
BY InitIInv, NextIInv, PTL DEF Spec

-----------------------------------------------------------------------------
(* SInv is inductive where one process handles the uploads.                *)

\* The system starts within the sequential invariant.
LEMMA InitSInv == Init => SInv
BY DEF Init, SInv, LoopInv, CurrentInv, PrevKeptInv, PrevKept, OneReportPerFingerprint, FreshInv,
       SettledInv, BaselineStaysDone, Sync

\* What a report keeps listed stays so over a step that only moves uploads on.
LEMMA PrevKeptStays ==
  ASSUME PrevKeptInv, UNCHANGED <<issues, prev>>,
         \A u \in Upload :
           \/ pc'[u] \notin {"stored", "measured", "finished", "done"} /\ ~HasStored(u)
           \/ /\ target'[u] = target[u] /\ req'[u] = req[u]
              /\ pc'[u] \in {"stored", "measured", "finished", "done"} =>
                   pc[u] \in {"stored", "measured", "finished", "done"}
              /\ HasStored(u) => HasStored(u)'
  PROVE  PrevKeptInv'
<1> SUFFICES ASSUME NEW u \in Upload, req'[u].full,
                    pc'[u] \in {"stored", "measured", "finished", "done"},
                    ~ \E v \in Upload : Replacer(u, v)'
             PROVE  \A f \in prev[u] : Listed(u, f)'
  BY DEF PrevKeptInv, PrevKept
<1>1. /\ target'[u] = target[u] /\ req[u].full
      /\ pc[u] \in {"stored", "measured", "finished", "done"}
  OBVIOUS
<1>2. ~ \E v \in Upload : Replacer(u, v) BY <1>1 DEF Replacer
<1>3. \A f \in prev[u] : Listed(u, f) BY <1>1, <1>2 DEF PrevKeptInv, PrevKept
<1> QED BY <1>1, <1>3 DEF Listed

\* A registered run is new: it is nobody's baseline and nobody else's run.
LEMMA ReceiveSInv ==
  ASSUME OneProcess, IInv, SInv, NEW u \in Upload, NEW b \in Build,
         NEW p \in Platform, NEW full \in BOOLEAN, NEW report \in SUBSET Entry,
         Register(u, b, p, full, report) \/ Reuse(u, b, p, full, report)
  PROVE  SInv'
<1> USE DEF IInv, SInv
<1>0. /\ pc[u] = "idle" /\ target[u] = NoRun /\ base[u] = NoRun /\ ~fresh[u]
      /\ pc' = [pc EXCEPT ![u] = "accepted"]
      /\ UNCHANGED <<issues, base, prev, old>>
      /\ \A v \in Upload : pc[v] \notin Sync
  BY DEF Register, Reuse, Receive, LoopFree, Goto, rows, TargetInv, BaseInv
<1>1. LoopInv' BY <1>0 DEF LoopInv, TypeOK, Sync
<1>2. CurrentInv' BY <1>0 DEF CurrentInv, TypeOK, Sync
<1>5. PrevKeptInv'
  <2>1. \A v \in Upload : v # u => target'[v] = target[v] /\ req'[v] = req[v]
    BY DEF Register, Reuse, Receive, TypeOK
  <2> QED BY <2>1, <1>0, PrevKeptStays DEF TypeOK, HasStored
<1>3. OneReportPerFingerprint' BY <1>0 DEF OneReportPerFingerprint
<1>4. FreshInv' /\ SettledInv' /\ BaselineStaysDone'
  <2>1. CASE Register(u, b, p, full, report)
    <3>1. PICK r \in Run :
            /\ status[r] = "absent"
            /\ status' = [status EXCEPT ![r] = "processing"]
            /\ target' = [target EXCEPT ![u] = r]
      BY <2>1 DEF Register
    <3>2. fresh' = [fresh EXCEPT ![u] = TRUE] BY <2>1 DEF Register
    <3>3. \A v \in Upload : v # u /\ fresh[v] => target[v] # r /\ target[v] \in Run
      BY <3>1 DEF TargetInv, TypeOK
    <3>4. FreshInv' BY <1>0, <3>1, <3>2, <3>3 DEF FreshInv, TypeOK
    <3>5. \A v \in Upload : base[v] # NoRun => base[v] \in Run /\ base[v] # r
      BY <3>1 DEF BaseInv, TypeOK
    <3>6. SettledInv' BY <1>0, <3>1, <3>2, <3>5 DEF SettledInv, TypeOK
    <3>7. BaselineStaysDone' BY <1>0, <3>1, <3>5 DEF BaselineStaysDone, TypeOK
    <3> QED BY <3>4, <3>6, <3>7
  <2>2. CASE Reuse(u, b, p, full, report)
    <3>1. /\ UNCHANGED <<status, fresh>>
          /\ \A v \in Upload : v # u => target'[v] = target[v]
      BY <2>2 DEF Reuse, TypeOK
    <3>2. FreshInv' BY <1>0, <3>1 DEF FreshInv, TypeOK
    <3>3. SettledInv' BY <1>0, <3>1 DEF SettledInv, TypeOK
    <3>4. BaselineStaysDone' BY <1>0, <3>1 DEF BaselineStaysDone
    <3> QED BY <3>2, <3>3, <3>4
  <2> QED BY <2>1, <2>2
<1> QED BY <1>1, <1>2, <1>3, <1>4, <1>5

\* A run that fails before its diff was never finished, so nobody's baseline.
LEMMA DismissSInv ==
  ASSUME IInv, SInv, NEW u \in Upload, Dismiss(u), Fail(u) \/ UNCHANGED status
  PROVE  SInv'
<1> USE DEF IInv, SInv
<1>0. /\ pc[u] = "accepted" /\ target[u] \in Run
      /\ pc' = [pc EXCEPT ![u] = "aborted"]
      /\ target' = [target EXCEPT ![u] = NoRun]
      /\ fresh' = [fresh EXCEPT ![u] = FALSE]
      /\ req' = [req EXCEPT ![u] = None]
      /\ UNCHANGED <<issues, base, prev, old>>
  BY DEF Dismiss, Goto, rows, TargetInv, TypeOK
<1>1. \A r \in Run : status'[r] = status[r] \/ (r = target[u] /\ fresh[u])
  <2>1. CASE UNCHANGED status BY <2>1, Zenon
  <2>2. CASE Fail(u) /\ fresh[u]
    <3>1. status' = [status EXCEPT ![target[u]] = "failed"] BY <2>2, Zenon DEF Fail
    <3> QED BY <3>1, <2>2, <1>0 DEF TypeOK
  <2>3. CASE Fail(u) /\ ~fresh[u]
    <3>1. status' = status BY <2>3, Zenon DEF Fail
    <3> QED BY <3>1, Zenon
  <2> QED BY <2>1, <2>2, <2>3
<1>2. LoopInv' BY <1>0 DEF LoopInv, TypeOK, Sync
<1>3. CurrentInv' BY <1>0 DEF CurrentInv, Active, Rows, TypeOK
<1>8. PrevKeptInv' BY <1>0, PrevKeptStays DEF TypeOK, HasStored
<1>4. OneReportPerFingerprint' BY <1>0 DEF OneReportPerFingerprint
<1>5. FreshInv'
  <2>1. \A v \in Upload : fresh'[v] => v # u /\ fresh[v] /\ target'[v] = target[v]
                                      /\ pc'[v] = pc[v] /\ target[v] # NoRun
    BY <1>0 DEF TypeOK, TargetInv
  <2>2. \A v \in Upload : fresh'[v] => status'[target[v]] = status[target[v]]
    BY <2>1, <1>1 DEF FreshInv, TypeOK
  <2> QED BY <2>1, <2>2 DEF FreshInv
<1>6. SettledInv' BY <1>0 DEF SettledInv, TypeOK
<1>7. BaselineStaysDone'
  <2>1. \A v \in Upload : base[v] # NoRun => base[v] \in Run /\ ~(base[v] = target[u] /\ fresh[u])
    BY <1>0 DEF SettledInv, TypeOK
  <2> QED BY <2>1, <1>0, <1>1 DEF BaselineStaysDone
<1> QED BY <1>2, <1>3, <1>4, <1>5, <1>6, <1>7, <1>8

\* No handler is between its diff and its end while another one diffs.
LEMMA DiffSInv ==
  ASSUME OneProcess, IInv, SInv, NEW u \in Upload, Diff(u)
  PROVE  SInv'
<1> USE DEF IInv, SInv
<1>0. PICK b :
        /\ b = Latest(Baselines(u))
        /\ base' = [base EXCEPT ![u] = b]
        /\ prev' = [prev EXCEPT ![u] = Active(b)]
        /\ old' = [old EXCEPT ![u] = Rows(target[u])]
        /\ pc[u] = "accepted" /\ pc' = [pc EXCEPT ![u] = "diffed"]
        /\ UNCHANGED <<status, issues, target, fresh, req>>
        /\ \A v \in Upload : pc[v] \notin Sync
  BY DEF Diff, Goto, LoopFree, rows, runs
<1>1. b # NoRun => status[b] = "done" /\ b # target[u]
  <2>1. Baselines(u) \in SUBSET Run BY DEF Baselines
  <2>2. b # NoRun => b \in Baselines(u) BY <2>1, <1>0, LatestIsMax
  <2> QED BY <2>2 DEF Baselines
<1>2. LoopInv' BY <1>0 DEF LoopInv, TypeOK
<1>3. CurrentInv' BY <1>0 DEF CurrentInv, Active, Rows, TypeOK, Sync
<1>8. PrevKeptInv'
  <2> SUFFICES ASSUME NEW v \in Upload PROVE PrevKept(v)'
    BY DEF PrevKeptInv
  <2>1. CASE v = u BY <2>1, <1>0 DEF PrevKept, TypeOK
  <2>2. CASE v # u
    <3>1. prev'[v] = prev[v] /\ pc'[v] = pc[v] BY <2>2, <1>0 DEF TypeOK
    <3>2. \A w \in Upload : Replacer(v, w) => Replacer(v, w)'
      BY <1>0 DEF Replacer, HasStored, TypeOK
    <3> QED BY <3>1, <3>2, <1>0 DEF PrevKeptInv, PrevKept, Listed
  <2> QED BY <2>1, <2>2
<1>4. OneReportPerFingerprint' BY <1>0 DEF OneReportPerFingerprint
<1>5. FreshInv'
  <2>1. pc[u] = "accepted" BY DEF Diff
  <2> QED BY <2>1, <1>0 DEF FreshInv, TypeOK
<1>6. SettledInv'
  <2>1. pc[u] = "accepted" BY DEF Diff
  <2> SUFFICES ASSUME NEW x \in Upload, NEW v \in Upload, fresh[v],
                      pc'[v] \in {"accepted"} \union Sync, base'[x] # NoRun
               PROVE  base'[x] # target[v]
    BY <1>0 DEF SettledInv
  <2>2. pc[v] = "accepted" BY <2>1, <1>0 DEF TypeOK
  <2>3. status[target[v]] = "processing" BY <2>2 DEF FreshInv
  <2>4. CASE x = u BY <2>3, <2>4, <1>0, <1>1 DEF TypeOK
  <2>5. CASE x # u BY <2>2, <2>5, <1>0 DEF SettledInv, TypeOK
  <2> QED BY <2>4, <2>5
<1>7. BaselineStaysDone' BY <1>0, <1>1 DEF BaselineStaysDone, TypeOK
<1> QED BY <1>2, <1>3, <1>4, <1>5, <1>6, <1>7, <1>8

\* An upload that stores knows all the rows of its run.
LEMMA StoreSInv ==
  ASSUME IInv, SInv, NEW u \in Upload, Store(u)
  PROVE  SInv'
<1> USE DEF IInv, SInv
<1> DEFINE Shows == {Row(u, e, Class(u, FpOf[e])) : e \in Added(u)}
<1>0. PICK C \in Copies(u) :
      /\ pc[u] = "diffed" /\ old[u] = Rows(target[u]) /\ prev[u] = Active(base[u])
      /\ issues' = (issues \ Replaced(u)) \union Shows
                     \union {Row(u, i.entry, "fixed") : i \in C}
      /\ pc' = [pc EXCEPT ![u] = "stored"]
      /\ UNCHANGED <<status, target, req, fresh, base, prev>>
  BY DEF Store, Goto, runs, CurrentInv
<1> DEFINE Fixed == {Row(u, i.entry, "fixed") : i \in C}
<1>7. issues' = (issues \ Replaced(u)) \union Shows \union Fixed BY <1>0
<1>8. \A i \in C : i \in issues /\ i.fp = FpOf[i.entry] /\ i.fp \in Gone(u)
  BY DEF Copies, Rows, RowInv
<1>1. LoopInv' BY <1>0 DEF LoopInv, TypeOK, Sync
<1>2. CurrentInv'
  <2>1. \A v \in Upload : pc'[v] # "diffed" BY <1>0 DEF LoopInv, TypeOK, Sync
  <2> QED BY <2>1 DEF CurrentInv
<1>3. OneReportPerFingerprint'
  <2>1. ASSUME NEW i \in Shows
        PROVE  /\ i.run = target[u] /\ i.by = u /\ i.status = Class(u, i.fp)
               /\ i.fp \in Fps(req[u].report) /\ i.fp \notin Known(u)
    BY DEF Row, Added, Fps
  <2>2. ASSUME NEW i \in Fixed
        PROVE  /\ i.run = target[u] /\ i.by = u /\ i.status = "fixed" /\ i.fp \in Gone(u)
    BY <1>8 DEF Row
  <2>3. ASSUME NEW i \in Shows, NEW j \in Fixed PROVE i.fp # j.fp
    BY <2>1, <2>2 DEF Gone
  <2>4. ASSUME NEW i \in issues \ Replaced(u), i.run = target[u]
        PROVE  \A j \in Shows \union Fixed : i.fp # j.fp
    <3>1. i \in old[u] BY <2>4, <1>0 DEF Rows
    <3>2. ~req[u].full BY <3>1, <2>4 DEF Replaced, Replaces
    <3>3. i.fp \in Known(u) BY <3>1, <3>2 DEF Known, Replaces
    <3>4. Gone(u) = {} BY <3>2 DEF Gone
    <3> QED BY <3>3, <3>4, <2>1, <2>2
  <2> HIDE DEF Shows, Fixed
  <2> QED BY <2>1, <2>2, <2>3, <2>4, <1>7 DEF OneReportPerFingerprint
<1>9. PrevKeptInv'
  <2> SUFFICES ASSUME NEW v \in Upload, req[v].full,
                      pc'[v] \in {"stored", "measured", "finished", "done"},
                      ~ \E w \in Upload : Replacer(v, w)',
                      NEW f \in prev[v]
               PROVE  \E i \in issues' : i.run = target[v] /\ i.fp = f
    BY <1>0 DEF PrevKeptInv, PrevKept, Listed
  <2>1. \A w \in Upload : HasStored(w) => HasStored(w)' BY <1>0 DEF HasStored, TypeOK
  <2>2. CASE v = u /\ f \in Fps(req[u].report)
    <3>1. PICK e \in req[u].report : f = FpOf[e] BY <2>2 DEF Fps
    <3>2. e \in Added(u) BY <2>2, <3>1 DEF Added, Known, Replaces
    <3>3. Row(u, e, Class(u, FpOf[e])) \in issues' BY <3>2, <1>0
    <3>4. /\ Row(u, e, Class(u, FpOf[e])).fp = f
          /\ Row(u, e, Class(u, FpOf[e])).run = target[u]
      BY <3>1 DEF Row
    <3> QED BY <3>3, <3>4, <2>2
  <2>3. CASE v = u /\ f \notin Fps(req[u].report)
    <3>1. f \in Gone(u) BY <2>3 DEF Gone
    <3>2. PICK i \in Rows(base[u]) : i.fp = f /\ i.status \in {"new", "existing"}
      BY <2>3, <1>0 DEF Active, Of
    <3>3. PICK j \in Rows(base[u]) : j.fp = f /\ (j \in C \/ ~IsActive(j))
      BY <3>1, <3>2, <1>0 DEF Copies
    <3>4. j.status = i.status BY <3>2, <3>3 DEF OneReportPerFingerprint, Rows
    <3>5. j \in C BY <3>2, <3>3, <3>4 DEF IsActive
    <3>6. Row(u, j.entry, "fixed") \in issues' BY <3>5, <1>0
    <3>7. Row(u, j.entry, "fixed").fp = f /\ Row(u, j.entry, "fixed").run = target[u]
      BY <3>3, <3>5, <1>8 DEF Row
    <3> QED BY <3>6, <3>7, <2>3
  <2>4. CASE v # u
    <3>1. pc'[v] = pc[v] /\ ~ \E w \in Upload : Replacer(v, w)
      BY <2>1, <2>4, <1>0 DEF Replacer, TypeOK
    <3>2. PICK i \in issues : i.run = target[v] /\ i.fp = f
      BY <3>1 DEF PrevKeptInv, PrevKept, Listed
    <3>3. i \notin Replaced(u)
      <4> SUFFICES ASSUME i \in Replaced(u) PROVE FALSE OBVIOUS
      <4>1. req[u].full /\ i.run = target[u] BY <1>0 DEF Replaced, Replaces, OldInv
      <4>2. HasStored(u)' BY <1>0 DEF HasStored, TypeOK
      <4>3. Replacer(v, u)' BY <4>1, <4>2, <3>2, <2>4, <1>0 DEF Replacer
      <4> QED BY <4>3
    <3> QED BY <3>2, <3>3, <1>7
  <2> QED BY <2>2, <2>3, <2>4
<1>4. FreshInv' BY <1>0 DEF FreshInv, TypeOK
<1>5. SettledInv' BY <1>0 DEF SettledInv, TypeOK, Sync
<1>6. BaselineStaysDone' BY <1>0 DEF BaselineStaysDone
<1> QED BY <1>1, <1>2, <1>3, <1>4, <1>5, <1>6, <1>9

\* Only the upload that registered a run changes its status.
LEMMA OnwardSInv ==
  ASSUME IInv, SInv, UNCHANGED <<issues, req, target, fresh, base, prev, old>>,
         \A u \in Upload : Onward(pc[u], pc'[u]),
         \A r \in Run :
           \/ status'[r] = status[r]
           \/ \E u \in Upload :
                /\ fresh[u] /\ target[u] = r /\ pc[u] \in Sync
                /\ pc'[u] \notin {"accepted", "diffed", "stored", "measured"}
  PROVE  SInv'
<1> USE DEF IInv, SInv
<1>1. \A u \in Upload :
        /\ pc'[u] \in Sync => pc[u] \in Sync
        /\ pc'[u] = "accepted" => pc[u] = "accepted"
        /\ pc'[u] = "diffed" => pc[u] = "diffed"
        /\ pc'[u] \in {"accepted", "diffed", "stored", "measured"} =>
             pc[u] \in {"accepted", "diffed", "stored", "measured"}
  BY DEF Onward, Sync
<1>2. LoopInv' BY <1>1 DEF LoopInv
<1>3. CurrentInv' BY <1>1 DEF CurrentInv, Active, Rows
<1>8. PrevKeptInv' BY PrevKeptStays DEF Onward, HasStored
<1>4. OneReportPerFingerprint' BY DEF OneReportPerFingerprint
<1>5. FreshInv'
  <2> SUFFICES ASSUME NEW u \in Upload, fresh[u],
                      pc'[u] \in {"accepted", "diffed", "stored", "measured"}
               PROVE  status'[target[u]] = "processing"
    BY DEF FreshInv
  <2>1. status[target[u]] = "processing" BY <1>1 DEF FreshInv
  <2>2. target[u] \in Run BY DEF TargetInv, TypeOK
  <2> QED BY <2>1, <2>2 DEF FreshInv
<1>6. SettledInv' BY <1>1 DEF SettledInv
<1>7. BaselineStaysDone'
  <2> SUFFICES ASSUME NEW u \in Upload, base[u] # NoRun
               PROVE  status'[base[u]] = status[base[u]]
    BY DEF BaselineStaysDone
  <2>1. base[u] \in Run BY DEF TypeOK
  <2> QED BY <2>1 DEF SettledInv
<1> QED BY <1>2, <1>3, <1>4, <1>5, <1>6, <1>7, <1>8

\* Ignoring a warning changes all its rows alike.
LEMMA IgnoreSInv ==
  ASSUME OneProcess, IInv, SInv, NEW f \in Fp, Ignore(f)
  PROVE  SInv'
<1> USE DEF IInv, SInv
<1>1. /\ UNCHANGED <<status, pc, req, target, fresh, base, prev, old>>
      /\ \A v \in Upload : pc[v] \notin Sync
  BY DEF Ignore, LoopFree, runs, control
<1>2. LoopInv' BY <1>1 DEF LoopInv
<1>3. CurrentInv' BY <1>1 DEF CurrentInv, Sync
<1>4. OneReportPerFingerprint'
  <2> SUFFICES ASSUME NEW i \in issues', NEW j \in issues', i.run = j.run, i.fp = j.fp
               PROVE  i.by = j.by /\ i.status = j.status
    BY DEF OneReportPerFingerprint
  <2>1. PICK k \in issues :
          /\ i.by = k.by /\ i.run = k.run /\ i.fp = k.fp
          /\ i = IF k.fp = f THEN [k EXCEPT !.status = "ignored"] ELSE k
    BY IgnoredRows
  <2>2. PICK l \in issues :
          /\ j.by = l.by /\ j.run = l.run /\ j.fp = l.fp
          /\ j = IF l.fp = f THEN [l EXCEPT !.status = "ignored"] ELSE l
    BY IgnoredRows
  <2>3. k.by = l.by /\ k.status = l.status BY <2>1, <2>2 DEF OneReportPerFingerprint
  <2>4. k \in Issue /\ l \in Issue BY DEF TypeOK
  <2> QED BY <2>1, <2>2, <2>3, <2>4 DEF Issue
<1>8. PrevKeptInv'
  <2>1. \A u \in Upload : \A g : Listed(u, g) => Listed(u, g)'
    BY <1>1, IgnoredRows DEF Listed
  <2>2. \A u, v \in Upload : Replacer(u, v) => Replacer(u, v)'
    BY <1>1 DEF Replacer, HasStored
  <2> QED BY <2>1, <2>2, <1>1 DEF PrevKeptInv, PrevKept
<1>5. FreshInv' BY <1>1 DEF FreshInv
<1>6. SettledInv' BY <1>1 DEF SettledInv
<1>7. BaselineStaysDone' BY <1>1 DEF BaselineStaysDone
<1> QED BY <1>2, <1>3, <1>4, <1>5, <1>6, <1>7, <1>8

\* The steps that only move the control of uploads forward, and set statuses.
LEMMA AdvanceSInv ==
  ASSUME IInv, SInv, NEW u \in Upload,
         StoreRefused(u) \/ Measure(u) \/ Finish(u) \/ Announce(u) \/ DbRaises(u)
  PROVE  SInv'
<1>1. /\ UNCHANGED <<issues, req, target, fresh, base, prev, old>>
      /\ \/ pc[u] = "diffed" /\ pc' = [pc EXCEPT ![u] = "refused"] /\ status' = status
         \/ pc[u] = "stored" /\ pc' = [pc EXCEPT ![u] = "measured"] /\ status' = status
         \/ pc[u] = "finished" /\ pc' = [pc EXCEPT ![u] = "done"] /\ status' = status
         \/ pc[u] = "measured" /\ pc' = [pc EXCEPT ![u] = "finished"] /\ Finish(u)
         \/ pc[u] \in Sync /\ pc' = [pc EXCEPT ![u] = Cut(u)] /\ DbRaises(u)
  BY DEF StoreRefused, Measure, Finish, Announce, DbRaises, Goto, runs, rows
<1>2. \A v \in Upload : Onward(pc[v], pc'[v])
  BY <1>1 DEF IInv, TypeOK, Onward, Cut, Sync
<1>3. \/ status' = status
      \/ /\ fresh[u] /\ pc[u] \in Sync
         /\ pc'[u] \notin {"accepted", "diffed", "stored", "measured"}
         /\ \/ status' = [status EXCEPT ![target[u]] = "done"]
            \/ status' = [status EXCEPT ![target[u]] = "failed"]
  <2>1. CASE /\ pc[u] = "measured" /\ pc' = [pc EXCEPT ![u] = "finished"] /\ Finish(u)
    <3>1. \/ status' = status
          \/ fresh[u] /\ status' = [status EXCEPT ![target[u]] = "done"]
      BY <2>1, Zenon DEF Finish
    <3>2. pc[u] \in Sync /\ pc'[u] = "finished" BY <2>1 DEF IInv, TypeOK, Sync
    <3> QED BY <3>1, <3>2
  <2>2. CASE pc[u] \in Sync /\ pc' = [pc EXCEPT ![u] = Cut(u)] /\ DbRaises(u)
    <3>1. \/ status' = status
          \/ fresh[u] /\ status' = [status EXCEPT ![target[u]] = "failed"]
      BY <2>2, Zenon DEF DbRaises, Fail
    <3>2. pc'[u] \in {"torn", "aborted"} BY <2>2 DEF IInv, TypeOK, Cut
    <3> QED BY <3>1, <3>2, <2>2
  <2> QED BY <1>1, <2>1, <2>2
<1>4. \A r \in Run :
        \/ status'[r] = status[r]
        \/ \E v \in Upload :
             /\ fresh[v] /\ target[v] = r /\ pc[v] \in Sync
             /\ pc'[v] \notin {"accepted", "diffed", "stored", "measured"}
  BY <1>3 DEF IInv, TypeOK
<1> QED BY <1>1, <1>2, <1>4, OnwardSInv

\* With one process every step keeps the sequential invariant.
LEMMA NextSInv == OneProcess /\ IInv /\ SInv /\ [Next]_vars => SInv'
<1> SUFFICES ASSUME OneProcess, IInv, SInv, [Next]_vars PROVE SInv'
  OBVIOUS
<1>1. ASSUME NEW u \in Upload, NEW b \in Build, NEW p \in Platform,
             NEW full \in BOOLEAN, NEW report \in SUBSET Entry,
             Register(u, b, p, full, report) \/ Reuse(u, b, p, full, report)
      PROVE  SInv'
  BY <1>1, ReceiveSInv
<1>2. ASSUME NEW u \in Upload, Handle(u) PROVE SInv'
  <2>1. CASE SnapshotRejected(u) BY <2>1, DismissSInv DEF SnapshotRejected
  <2>2. CASE ReportRejected(u) BY <2>2, DismissSInv DEF ReportRejected
  <2>3. CASE Diff(u) BY <2>3, DiffSInv
  <2>4. CASE Store(u) BY <2>4, StoreSInv
  <2>5. CASE StoreRefused(u) \/ Measure(u) \/ Finish(u) \/ Announce(u) \/ DbRaises(u)
    BY <2>5, AdvanceSInv
  <2> QED BY <1>2, <2>1, <2>2, <2>3, <2>4, <2>5 DEF Handle
<1>3. CASE Under # {} /\ Crash(Under)
  <2>1. /\ UNCHANGED <<status, issues, req, target, fresh, base, prev, old>>
        /\ pc' = [u \in Upload |-> IF u \in Under THEN Cut(u) ELSE pc[u]]
    BY <1>3 DEF Crash, runs, rows
  <2>2. \A v \in Upload : Onward(pc[v], pc'[v])
    BY <2>1 DEF Onward, Cut, Under, Sync
  <2> QED BY <2>1, <2>2, OnwardSInv
<1>4. ASSUME NEW f \in Fp, Ignore(f) PROVE SInv' BY <1>4, IgnoreSInv
<1>5. CASE UNCHANGED vars \/ \E i \in issues : Comment(i)
  <2>1. UNCHANGED <<status, issues, pc, req, target, fresh, base, prev, old>>
    BY <1>5 DEF Comment, vars, runs, rows, control
  <2>2. \A v \in Upload : Onward(pc[v], pc'[v]) BY <2>1 DEF Onward
  <2> QED BY <2>1, <2>2, OnwardSInv
<1> QED BY <1>1, <1>2, <1>3, <1>4, <1>5 DEF Next

\* SInv holds where one process handles the uploads.
THEOREM SequentialInvariance == ASSUME OneProcess PROVE Spec => []SInv
<1>1. Init => SInv BY InitSInv
<1>2. IInv /\ SInv /\ [Next]_vars => SInv' BY NextSInv
<1> QED BY <1>1, <1>2, Invariance, PTL DEF Spec

-----------------------------------------------------------------------------
(* CInv: the counters. It is inductive beside IInv and SInv.               *)

\* What may be said of the counters of a run whose warnings were ignored since.
Tally(c, R) ==
  /\ c.total = Cardinality(R)
  /\ c.new >= Cardinality(Of(R, "new")) /\ c.fixed >= Cardinality(Of(R, "fixed"))
  /\ c.new - Cardinality(Of(R, "new")) + c.fixed - Cardinality(Of(R, "fixed"))
       <= Cardinality(Of(R, "ignored"))
Updating(r) == \E u \in Upload : target[u] = r /\ pc[u] \in {"stored", "measured", "torn"}

\* A count that was taken and not yet written is right.
MeasuredInv == \A u \in Upload : pc[u] = "measured" => Tally(measured[u], Rows(target[u]))
CInv == MeasuredInv /\ CountersMatch

\* CountersMatch in terms of Tally.
LEMMA MatchIsTally ==
  CountersMatch <=> \A r \in Run : status[r] = "done" /\ ~Updating(r) => Tally(counters[r], Rows(r))
BY Zenon DEF CountersMatch, Tally, Updating

\* The rows of a run are finite, and so are those of one status.
LEMMA FiniteRun ==
  ASSUME TypeOK, NEW r, NEW s
  PROVE  /\ IsFiniteSet(Rows(r)) /\ IsFiniteSet(Of(Rows(r), s))
         /\ Cardinality(Rows(r)) \in Nat /\ Cardinality(Of(Rows(r), s)) \in Nat
<1>1. Rows(r) \in SUBSET issues /\ Of(Rows(r), s) \in SUBSET issues BY DEF Rows, Of
<1>2. IsFiniteSet(Rows(r)) /\ IsFiniteSet(Of(Rows(r), s)) BY <1>1, FiniteRows, FS_Subset
<1> QED BY <1>2, FS_CardinalityType

\* The counters start at nothing, and there is no run.
LEMMA InitCInv == Init => CInv
BY MatchIsTally DEF Init, CInv, MeasuredInv

\* A step that changes neither rows nor counters keeps them right if an upload that was
\* about to write stays so, or dies there, and no run becomes finished.
LEMMA SameRowsCInv ==
  ASSUME CInv, UNCHANGED <<issues, counters>>,
         \A r \in Run : status'[r] = "done" => status[r] = "done",
         \A u \in Upload : pc[u] \in {"stored", "measured", "torn"} =>
           target'[u] = target[u] /\ pc'[u] \in {"stored", "measured", "torn"},
         \A u \in Upload : pc'[u] = "measured" =>
           pc[u] = "measured" /\ target'[u] = target[u] /\ measured'[u] = measured[u]
  PROVE  CInv'
<1>1. \A r : Rows(r)' = Rows(r) BY DEF Rows
<1>2. MeasuredInv'
  <2> SUFFICES ASSUME NEW u \in Upload, pc'[u] = "measured"
               PROVE  Tally(measured[u], Rows(target[u]))
    BY <1>1 DEF MeasuredInv, Tally, Of
  <2> QED BY DEF CInv, MeasuredInv
<1>3. CountersMatch'
  <2>1. \A r \in Run : ~Updating(r)' => ~Updating(r) BY DEF Updating
  <2>2. ASSUME NEW r \in Run, status'[r] = "done", ~Updating(r)'
        PROVE  Tally(counters[r], Rows(r))
    BY <2>1, <2>2, MatchIsTally DEF CInv
  <2>3. ASSUME NEW r \in Run, status'[r] = "done", ~Updating(r)'
        PROVE  Tally(counters[r], Rows(r))'
    BY <2>2, <2>3, <1>1 DEF Tally, Of
  <2>4. (CountersMatch <=> \A r \in Run : status[r] = "done" /\ ~Updating(r) => Tally(counters[r], Rows(r)))'
    BY MatchIsTally, PTL
  <2> QED BY <2>3, <2>4
<1> QED BY <1>2, <1>3 DEF CInv

\* A count is right when it is taken.
LEMMA MeasureCInv ==
  ASSUME IInv, CInv, NEW u \in Upload, Measure(u)
  PROVE  CInv'
<1> DEFINE R == Rows(target[u])
           count == [total |-> Cardinality(R), new |-> Cardinality(Of(R, "new")),
                     fixed |-> Cardinality(Of(R, "fixed"))]
<1>1. /\ pc[u] = "stored" /\ pc' = [pc EXCEPT ![u] = "measured"]
      /\ measured' = [measured EXCEPT ![u] = count]
      /\ UNCHANGED <<status, counters, issues, target>>
  BY DEF Measure, Counted, Goto, runs, rows
<1>2. Tally(count, R)
  BY FiniteRun DEF IInv, Tally
<1>3. \A r : Rows(r)' = Rows(r) BY <1>1 DEF Rows
<1>4. MeasuredInv'
  <2> SUFFICES ASSUME NEW v \in Upload, pc'[v] = "measured"
               PROVE  Tally(measured'[v], Rows(target[v]))
    BY <1>1, <1>3 DEF MeasuredInv, Tally, Of
  <2>1. CASE v = u
    <3>1. measured'[u] = count BY <1>1 DEF IInv, TypeOK
    <3> QED BY <2>1, <3>1, <1>2
  <2>2. CASE v # u BY <2>2, <1>1 DEF CInv, MeasuredInv, IInv, TypeOK
  <2> QED BY <2>1, <2>2
<1>5. CountersMatch'
  <2>1. \A r \in Run : Updating(r)' <=> Updating(r)
    BY <1>1 DEF Updating, IInv, TypeOK
  <2>2. (CountersMatch <=> \A r \in Run : status[r] = "done" /\ ~Updating(r) => Tally(counters[r], Rows(r)))'
    BY MatchIsTally, PTL
  <2>3. ASSUME NEW r \in Run, status[r] = "done", ~Updating(r)
        PROVE  Tally(counters[r], Rows(r))
    BY <2>3, MatchIsTally DEF CInv
  <2> QED BY <2>1, <2>2, <2>3, <1>1, <1>3 DEF Tally, Of
<1> QED BY <1>4, <1>5 DEF CInv

\* The count is written while the rows are still those that were counted.
LEMMA FinishCInv ==
  ASSUME IInv, CInv, NEW u \in Upload, Finish(u)
  PROVE  CInv'
<1>1. /\ pc[u] = "measured" /\ pc' = [pc EXCEPT ![u] = "finished"]
      /\ counters' = [counters EXCEPT ![target[u]] = measured[u]]
      /\ measured' = [measured EXCEPT ![u] = NoCount]
      /\ status' = [status EXCEPT ![target[u]] = "done"] \/ status' = status
      /\ UNCHANGED <<issues, target>>
      /\ target[u] \in Run
  <2>1. status' = [status EXCEPT ![target[u]] = "done"] \/ status' = status
    BY Zenon DEF Finish
  <2> QED BY <2>1 DEF Finish, Goto, rows, IInv, TargetInv, TypeOK
<1>2. \A r : Rows(r)' = Rows(r) BY <1>1 DEF Rows
<1>3. MeasuredInv'
  <2> SUFFICES ASSUME NEW v \in Upload, pc'[v] = "measured"
               PROVE  Tally(measured'[v], Rows(target[v]))
    BY <1>1, <1>2 DEF MeasuredInv, Tally, Of
  <2>1. v # u /\ pc[v] = "measured" /\ measured'[v] = measured[v]
    BY <1>1 DEF IInv, TypeOK
  <2> QED BY <2>1 DEF CInv, MeasuredInv
<1>4. CountersMatch'
  <2>1. (CountersMatch <=> \A r \in Run : status[r] = "done" /\ ~Updating(r) => Tally(counters[r], Rows(r)))'
    BY MatchIsTally, PTL
  <2>2. ASSUME NEW r \in Run, status'[r] = "done", ~Updating(r)'
        PROVE  Tally(counters'[r], Rows(r))
    <3>1. CASE r = target[u]
      <4>1. counters'[r] = measured[u] BY <3>1, <1>1 DEF IInv, TypeOK
      <4> QED BY <4>1, <3>1, <1>1 DEF CInv, MeasuredInv
    <3>2. CASE r # target[u]
      <4>1. counters'[r] = counters[r] /\ status[r] = "done"
        BY <3>2, <2>2, <1>1 DEF IInv, TypeOK
      <4>2. ~Updating(r) BY <3>2, <2>2, <1>1 DEF Updating, IInv, TypeOK
      <4> QED BY <4>1, <4>2, MatchIsTally DEF CInv
    <3> QED BY <3>1, <3>2
  <2> QED BY <2>1, <2>2, <1>2 DEF Tally, Of
<1> QED BY <1>3, <1>4 DEF CInv

\* Whoever stores rows is about to count them, and nobody else is.
LEMMA StoreCInv ==
  ASSUME IInv, SInv, CInv, NEW u \in Upload, Store(u)
  PROVE  CInv'
<1>1. /\ pc[u] = "diffed" /\ pc' = [pc EXCEPT ![u] = "stored"]
      /\ \E C : issues' = (issues \ Replaced(u))
                            \union {Row(u, e, Class(u, FpOf[e])) : e \in Added(u)}
                            \union {Row(u, i.entry, "fixed") : i \in C}
      /\ UNCHANGED <<status, counters, target>>
  BY DEF Store, Goto, runs
<1>2. \A v \in Upload : pc'[v] # "measured"
  BY <1>1 DEF SInv, LoopInv, Sync, IInv, TypeOK
<1>3. ASSUME NEW r \in Run, r # target[u] PROVE Rows(r)' = Rows(r)
  <2>1. \A i \in Replaced(u) : i.run = target[u]
    BY <1>1 DEF Replaced, IInv, OldInv
  <2>2. \A f, s : Row(u, f, s).run = target[u] BY DEF Row
  <2> QED BY <2>1, <2>2, <1>1, <1>3 DEF Rows
<1>4. MeasuredInv' BY <1>2 DEF MeasuredInv
<1>5. CountersMatch'
  <2>1. (CountersMatch <=> \A r \in Run : status[r] = "done" /\ ~Updating(r) => Tally(counters[r], Rows(r)))'
    BY MatchIsTally, PTL
  <2>2. ASSUME NEW r \in Run, status[r] = "done", ~Updating(r)'
        PROVE  Tally(counters[r], Rows(r)')
    <3>1. pc'[u] = "stored" BY <1>1 DEF IInv, TypeOK
    <3>2. r # target[u] BY <2>2, <3>1, <1>1 DEF Updating
    <3>3. ~Updating(r) BY <2>2, <3>2, <1>1 DEF Updating, IInv, TypeOK
    <3>4. Tally(counters[r], Rows(r)) BY <2>2, <3>3, MatchIsTally DEF CInv
    <3> QED BY <3>2, <3>4, <1>3
  <2> QED BY <2>1, <2>2, <1>1 DEF Tally, Of
<1> QED BY <1>4, <1>5 DEF CInv

\* Rows of one status become ignored: the counters owe as many more.
LEMMA SomeIgnored ==
  ASSUME NEW R, NEW H \in SUBSET R, NEW K, NEW s \in IssueStatus \ {"ignored"},
         NEW c \in [total : Nat, new : Nat, fixed : Nat],
         IsFiniteSet(R), IsFiniteSet(K), Cardinality(K) = Cardinality(H), K \intersect R = {},
         \A i \in H : i.status = s, \A k \in K : k.status = "ignored", Tally(c, R)
  PROVE  Tally(c, (R \ H) \union K)
<1> DEFINE S == (R \ H) \union K
           h == Cardinality(H)
           Size(t) == Cardinality(Of(R, t))
<1>0. IsFiniteSet(H) /\ h \in Nat /\ Cardinality(R) \in Nat
  BY FS_Subset, FS_CardinalityType
<1>1. \A t : IsFiniteSet(Of(R, t)) /\ Size(t) \in Nat
  BY FS_Subset, FS_CardinalityType DEF Of
<1>2. Cardinality(S) = Cardinality(R)
  <2>1. IsFiniteSet(R \ H) /\ Cardinality(R \ H) = Cardinality(R) - Cardinality(R \intersect H)
    BY FS_Difference
  <2>2. R \intersect H = H /\ (R \ H) \intersect K = {} OBVIOUS
  <2>3. Cardinality(S) = Cardinality(R \ H) + Cardinality(K) - Cardinality((R \ H) \intersect K)
    BY <2>1, FS_Union
  <2>4. Cardinality({}) = 0 BY FS_EmptySet
  <2>5. Cardinality((R \ H) \intersect K) = 0 BY <2>2, <2>4
  <2>6. Cardinality(R \ H) = Cardinality(R) - h BY <2>1, <2>2
  <2>7. Cardinality(K) = h OBVIOUS
  <2> HIDE DEF S, h
  <2> QED BY <2>3, <2>5, <2>6, <2>7, <1>0
<1>3. ASSUME NEW t \in {"new", "fixed"}
      PROVE  Cardinality(Of(S, t)) = IF s = t THEN Size(t) - h ELSE Size(t)
  <2>1. CASE s = t
    <3>1. Of(S, t) = Of(R, t) \ H BY DEF Of
    <3>2. Of(R, t) \intersect H = H BY <2>1 DEF Of
    <3> QED BY <2>1, <3>1, <3>2, <1>1, FS_Difference
  <2>2. CASE s # t
    <3>1. Of(S, t) = Of(R, t) BY <2>2 DEF Of
    <3> QED BY <2>2, <3>1
  <2> QED BY <2>1, <2>2
<1>4. Cardinality(Of(S, "ignored")) = Size("ignored") + h
  <2>1. Of(S, "ignored") = Of(R, "ignored") \union K BY DEF Of
  <2>2. Of(R, "ignored") \intersect K = {} BY DEF Of
  <2>3. Cardinality(Of(R, "ignored") \union K)
          = Size("ignored") + Cardinality(K) - Cardinality(Of(R, "ignored") \intersect K)
    BY <1>1, FS_Union
  <2>4. Cardinality({}) = 0 BY FS_EmptySet
  <2>5. Cardinality(Of(R, "ignored") \intersect K) = 0 BY <2>2, <2>4
  <2>6. Cardinality(K) = h /\ Cardinality(Of(S, "ignored")) = Cardinality(Of(R, "ignored") \union K)
    BY <2>1
  <2>7. Size("ignored") \in Nat BY <1>1
  <2> HIDE DEF S, h, Size
  <2> QED BY <2>3, <2>5, <2>6, <2>7, <1>0
<1>5. Size("new") \in Nat /\ Size("fixed") \in Nat /\ Size("ignored") \in Nat
  BY <1>1
<1>6. Cardinality(Of(S, "new")) = IF s = "new" THEN Size("new") - h ELSE Size("new")
  BY <1>3
<1>7. Cardinality(Of(S, "fixed")) = IF s = "fixed" THEN Size("fixed") - h ELSE Size("fixed")
  BY <1>3
<1>8. /\ c.total = Cardinality(R) /\ c.new >= Size("new") /\ c.fixed >= Size("fixed")
      /\ c.new - Size("new") + c.fixed - Size("fixed") <= Size("ignored")
      /\ c.new \in Nat /\ c.fixed \in Nat
  BY DEF Tally
<1> HIDE DEF S, Size, h
<1>9. Tally(c, S)
  BY <1>0, <1>2, <1>4, <1>5, <1>6, <1>7, <1>8 DEF Tally
<1> QED BY <1>9 DEF S

\* Ignoring a warning takes no more rows of a run out of the counters than it makes ignored.
LEMMA IgnoreCInv ==
  ASSUME OneProcess, IInv, SInv, CInv, NEW f \in Fp, Ignore(f)
  PROVE  CInv'
<1> DEFINE New(j) == IF j.fp = f THEN [j EXCEPT !.status = "ignored"] ELSE j
<1>1. /\ issues' = {New(j) : j \in issues}
      /\ UNCHANGED <<status, counters, pc, target>>
      /\ \A v \in Upload : pc[v] \notin Sync
      /\ issues \subseteq Issue
  BY DEF Ignore, LoopFree, runs, control, IInv, TypeOK
<1>2. MeasuredInv' BY <1>1 DEF MeasuredInv, Sync
<1>3. ASSUME NEW j \in issues
      PROVE  /\ New(j).by = j.by /\ New(j).run = j.run /\ New(j).entry = j.entry
             /\ New(j).fp = j.fp /\ j \in Issue
             /\ j.fp = f => New(j).status = "ignored"
             /\ j.fp # f \/ j.status = "ignored" => New(j) = j
  BY <1>1 DEF Issue
<1>4. ASSUME NEW r \in Run, NEW c \in [total : Nat, new : Nat, fixed : Nat], Tally(c, Rows(r))
      PROVE  Tally(c, Rows(r)')
  <2> DEFINE H == {i \in Rows(r) : i.fp = f}
             K == {New(i) : i \in H}
  <2>0. \A j \in Rows(r) : j \in issues /\ j.run = r BY DEF Rows
  <2>1. Rows(r)' = {New(j) : j \in Rows(r)}
    <3> HIDE DEF New
    <3> QED BY <1>1, <1>3 DEF Rows
  <2>2. CASE \A j \in H : j.status = "ignored"
    <3>1. \A j \in Rows(r) : New(j) = j BY <2>0, <2>2, <1>3
    <3>2. Rows(r)' = Rows(r)
      <4> HIDE DEF New
      <4> QED BY <2>1, <3>1
    <3> QED BY <3>2, <1>4
  <2>3. ASSUME NEW i \in H, i.status # "ignored" PROVE Tally(c, Rows(r)')
    <3>1. \A j \in H : j.status = i.status /\ j.by = i.by
      BY <2>0 DEF SInv, OneReportPerFingerprint
    <3>2. i.status \in IssueStatus \ {"ignored"} BY <2>0, <2>3, <1>3 DEF Issue
    <3>3. \A k \in K : k.status = "ignored" /\ k.fp = f
      <4> TAKE k \in K
      <4>1. PICK j \in H : k = New(j) OBVIOUS
      <4> HIDE DEF New
      <4> QED BY <4>1, <2>0, <1>3
    <3>4. K \intersect Rows(r) = {} BY <2>3, <3>1, <3>3
    <3>5. Rows(r)' = (Rows(r) \ H) \union K
      <4>1. \A j \in Rows(r) \ H : New(j) = j BY <2>0, <1>3
      <4> HIDE DEF New
      <4> QED BY <4>1, <2>1
    <3>6. IsFiniteSet(Rows(r)) BY FiniteRun DEF IInv
    <3>7. IsFiniteSet(K) /\ Cardinality(K) = Cardinality(H)
      <4>1. IsFiniteSet(H) BY <3>6, FS_Subset
      <4> DEFINE g == [j \in H |-> New(j)]
      <4>2. g \in [H -> K] OBVIOUS
      <4>3. ASSUME NEW j \in H, NEW k \in H, g[j] = g[k] PROVE j = k
        <5>1. New(j) = New(k) BY <4>3
        <5>2. j.by = k.by /\ j.run = k.run /\ j.entry = k.entry /\ j.fp = k.fp
          <6> HIDE DEF New
          <6> QED BY <5>1, <2>0, <1>3
        <5>3. j.status = k.status /\ j \in Issue /\ k \in Issue BY <3>1, <2>0, <1>3
        <5> QED BY <5>2, <5>3 DEF Issue
      <4>4. \A k \in K : \E j \in H : g[j] = k OBVIOUS
      <4> HIDE DEF g, H, K
      <4>5. g \in Bijection(H, K)
        <5>1. g \in Injection(H, K) BY <4>2, <4>3, Fun_IsInj
        <5>2. g \in Surjection(H, K) BY <4>2, <4>4 DEF Surjection
        <5> QED BY <5>1, <5>2 DEF Bijection
      <4> QED BY <4>1, <4>5, FS_Bijection DEF ExistsBijection
    <3> HIDE DEF New, K
    <3>8. Tally(c, (Rows(r) \ H) \union K)
      BY <1>4, <3>1, <3>2, <3>3, <3>4, <3>6, <3>7, SomeIgnored
    <3> QED BY <3>8, <3>5
  <2> QED BY <2>2, <2>3
<1>5. CountersMatch'
  <2>1. (CountersMatch <=> \A r \in Run : status[r] = "done" /\ ~Updating(r) => Tally(counters[r], Rows(r)))'
    BY MatchIsTally, PTL
  <2>2. \A r \in Run : Updating(r)' <=> Updating(r) BY <1>1 DEF Updating
  <2>3. ASSUME NEW r \in Run, status[r] = "done", ~Updating(r)
        PROVE  Tally(counters[r], Rows(r)')
    <3>1. Tally(counters[r], Rows(r)) BY <2>3, MatchIsTally DEF CInv
    <3>2. counters[r] \in [total : Nat, new : Nat, fixed : Nat] BY DEF IInv, TypeOK
    <3> QED BY <3>1, <3>2, <1>4
  <2> QED BY <2>1, <2>2, <2>3, <1>1 DEF Tally, Of
<1> QED BY <1>2, <1>5 DEF CInv

\* With one process every step keeps the counters right.
LEMMA NextCInv == OneProcess /\ IInv /\ SInv /\ CInv /\ [Next]_vars => CInv'
<1> SUFFICES ASSUME OneProcess, IInv, SInv, CInv, [Next]_vars PROVE CInv'
  OBVIOUS
<1>1. ASSUME NEW u \in Upload, NEW b \in Build, NEW p \in Platform,
             NEW full \in BOOLEAN, NEW report \in SUBSET Entry,
             Register(u, b, p, full, report) \/ Reuse(u, b, p, full, report)
      PROVE  CInv'
  <2>1. /\ pc[u] = "idle" /\ pc' = [pc EXCEPT ![u] = "accepted"]
        /\ UNCHANGED <<issues, counters, measured>>
    BY <1>1 DEF Register, Reuse, Receive, Goto, rows
  <2>2. \E r \in Run : target' = [target EXCEPT ![u] = r]
    <3>1. CASE Register(u, b, p, full, report) BY <3>1 DEF Register
    <3>2. CASE Reuse(u, b, p, full, report)
      <4>1. FinishedOf(b, p) \in SUBSET Run BY DEF FinishedOf
      <4>2. Latest(FinishedOf(b, p)) \in Run BY <4>1, <3>2, LatestIsMax DEF Reuse
      <4> QED BY <3>2, <4>2 DEF Reuse
    <3> QED BY <1>1, <3>1, <3>2
  <2>3. \A r \in Run : status'[r] = "done" => status[r] = "done"
    BY <1>1 DEF Register, Reuse, IInv, TypeOK
  <2> QED BY <2>1, <2>2, <2>3, SameRowsCInv DEF IInv, TypeOK
<1>2. ASSUME NEW u \in Upload, Handle(u) PROVE CInv'
  <2>1. CASE SnapshotRejected(u) \/ ReportRejected(u)
    <3>1. /\ pc[u] = "accepted" /\ pc' = [pc EXCEPT ![u] = "aborted"]
          /\ target' = [target EXCEPT ![u] = NoRun]
          /\ UNCHANGED <<issues, counters, measured>>
          /\ Fail(u) \/ UNCHANGED status
      BY <2>1 DEF SnapshotRejected, ReportRejected, Dismiss, Goto, rows
    <3>2. \A r \in Run : status'[r] = "done" => status[r] = "done"
      <4>1. UNCHANGED status \/ status' = [status EXCEPT ![target[u]] = "failed"]
        BY <3>1, Zenon DEF Fail
      <4> QED BY <4>1 DEF IInv, TypeOK
    <3> QED BY <3>1, <3>2, SameRowsCInv DEF IInv, TypeOK
  <2>2. CASE Diff(u) \/ StoreRefused(u) \/ Announce(u)
    <3>1. /\ pc[u] \in {"accepted", "diffed", "finished"}
          /\ \/ pc' = [pc EXCEPT ![u] = "diffed"]
             \/ pc' = [pc EXCEPT ![u] = "refused"]
             \/ pc' = [pc EXCEPT ![u] = "done"]
          /\ UNCHANGED <<status, target, issues, counters, measured>>
      BY <2>2 DEF Diff, StoreRefused, Announce, Goto, rows, runs
    <3> QED BY <3>1, SameRowsCInv DEF IInv, TypeOK
  <2>3. CASE DbRaises(u)
    <3>1. /\ pc[u] \in Sync /\ pc' = [pc EXCEPT ![u] = Cut(u)]
          /\ UNCHANGED <<target, issues, counters, measured>>
          /\ Fail(u) \/ UNCHANGED status
      BY <2>3 DEF DbRaises, Goto, rows
    <3>2. \A r \in Run : status'[r] = "done" => status[r] = "done"
      <4>1. UNCHANGED status \/ status' = [status EXCEPT ![target[u]] = "failed"]
        BY <3>1, Zenon DEF Fail
      <4> QED BY <4>1 DEF IInv, TypeOK
    <3> QED BY <3>1, <3>2, SameRowsCInv DEF IInv, TypeOK, Cut, Sync
  <2>4. CASE Store(u) BY <2>4, StoreCInv
  <2>5. CASE Measure(u) BY <2>5, MeasureCInv
  <2>6. CASE Finish(u) BY <2>6, FinishCInv
  <2> QED BY <1>2, <2>1, <2>2, <2>3, <2>4, <2>5, <2>6 DEF Handle
<1>3. CASE Under # {} /\ Crash(Under)
  <2>1. /\ UNCHANGED <<status, target, issues, counters, measured>>
        /\ pc' = [u \in Upload |-> IF u \in Under THEN Cut(u) ELSE pc[u]]
    BY <1>3 DEF Crash, runs, rows
  <2> QED BY <2>1, SameRowsCInv DEF Cut, Under, Sync
<1>4. ASSUME NEW f \in Fp, Ignore(f) PROVE CInv' BY <1>4, IgnoreCInv
<1>5. CASE UNCHANGED vars \/ \E i \in issues : Comment(i)
  <2>1. UNCHANGED <<status, issues, pc, target, counters, measured>>
    BY <1>5 DEF Comment, vars, runs, rows, control
  <2> QED BY <2>1, SameRowsCInv
<1> QED BY <1>1, <1>2, <1>3, <1>4, <1>5 DEF Next

\* With one process the counters of a finished run are those of its rows, however uploads
\* overlap, fail or repeat, but for what was ignored since.
THEOREM CountersRight == ASSUME OneProcess PROVE Spec => []CountersMatch
<1>1. Init => CInv BY InitCInv
<1>2. IInv /\ SInv /\ CInv /\ [Next]_vars => CInv' BY NextCInv
<1>3. CInv => CountersMatch BY DEF CInv
<1> QED BY <1>1, <1>2, <1>3, Invariance, SequentialInvariance, PTL DEF Spec

-----------------------------------------------------------------------------
(* The properties of uploads.                                              *)

\* Every variable keeps its type.
THEOREM TypeCorrect == Spec => []TypeOK
<1>1. IInv => TypeOK BY DEF IInv
<1> QED BY <1>1, Invariance, PTL

\* Nothing a successful upload has shown is dropped, except by another full
\* report of the build, in every deployment and whatever fails; with one
\* process that includes what a full report no longer shows.
THEOREM NothingLost == Spec => []NothingVanishes
<1>1. IInv /\ (OneProcess => SInv) => NothingVanishes
  <2> SUFFICES ASSUME IInv, OneProcess => SInv, NEW u \in Upload, pc[u] = "done",
                      ~ \E v \in Upload \ {u} :
                          /\ target[v] = target[u] /\ req[v].full
                          /\ pc[v] \notin {"accepted", "refused"}
               PROVE  \A f \in Fps(req[u].report)
                              \union (IF req[u].full /\ OneProcess THEN prev[u] ELSE {}) :
                        \E i \in Rows(target[u]) : i.fp = f
    BY Zenon DEF NothingVanishes
  <2>1. ~ \E v \in Upload : Replacer(u, v)
    BY DEF Replacer, HasStored
  <2>2. \A f \in Fps(req[u].report) : Listed(u, f)
    BY <2>1 DEF IInv, KeptInv, Kept, Using, Shown
  <2>3. req[u].full /\ OneProcess => \A f \in prev[u] : Listed(u, f)
    BY <2>1 DEF SInv, PrevKeptInv, PrevKept
  <2> QED BY <2>2, <2>3 DEF Listed, Rows
<1>2. CASE OneProcess
  <2>1. Spec => []SInv BY <1>2, SequentialInvariance
  <2>2. IInv /\ SInv => NothingVanishes BY <1>1
  <2> QED BY <2>1, <2>2, Invariance, PTL
<1>3. CASE ~OneProcess
  <2>1. IInv => NothingVanishes BY <1>1, <1>3
  <2> QED BY <2>1, Invariance, PTL
<1> QED BY <1>2, <1>3

\* With one process the rows of a warning in a run come from one report and
\* have one status, however often the build is uploaded again.
THEOREM OneReport == ASSUME OneProcess PROVE Spec => []OneReportPerFingerprint
<1>1. SInv => OneReportPerFingerprint BY DEF SInv
<1> QED BY <1>1, SequentialInvariance, PTL

\* With one process a run another one was compared with stays finished,
\* although an upload may still fail after it has finished its run.
THEOREM BaselineKept == ASSUME OneProcess PROVE Spec => []BaselineStaysDone
<1>1. SInv => BaselineStaysDone BY DEF SInv
<1> QED BY <1>1, SequentialInvariance, PTL

\* With one process the diff never crosses platforms: what is "fixed" or "new"
\* is so with respect to another finished run of the same platform.
THEOREM PlatformsApart == ASSUME OneProcess PROVE Spec => []DiffIsPerPlatform
<1>1. IInv /\ SInv => DiffIsPerPlatform
  <2> SUFFICES ASSUME IInv, SInv PROVE DiffIsPerPlatform
    OBVIOUS
  <2> DEFINE Other(i, r) == /\ r # i.run /\ status[r] = "done"
                            /\ platform[r] = platform[i.run]
  <2>1. ASSUME NEW i \in issues, base[i.by] # NoRun
        PROVE  base[i.by] \in Run /\ Other(i, base[i.by])
    BY <2>1 DEF IInv, SInv, TypeOK, Issue, RowInv, BaseInv, BaselineStaysDone
  <2>2. ASSUME NEW i \in issues, i.status = "fixed"
        PROVE  \E u \in Upload :
                 target[u] # NoRun /\ Other(i, target[u]) /\ i.fp \in Fps(req[u].report)
    <3>1. i.by \in Upload BY DEF IInv, TypeOK, Issue
    <3>2. /\ base[i.by] # NoRun
          /\ \E w \in Upload : target[w] = base[i.by] /\ i.fp \in Fps(req[w].report)
      BY <2>2, <3>1 DEF IInv, RowInv, PrevInv
    <3> QED BY <3>2, <2>1
  <2>3. ASSUME NEW i \in issues, i.status = "new" PROVE \E r \in Run : Other(i, r)
    BY <2>1, <2>3 DEF IInv, RowInv
  <2> QED BY <2>2, <2>3 DEF DiffIsPerPlatform
<1> QED BY <1>1, Invariance, SequentialInvariance, PTL
=============================================================================
