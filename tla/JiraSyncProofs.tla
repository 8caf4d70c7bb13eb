----------------------------- MODULE JiraSyncProofs -----------------------------
(***************************************************************************)
(* No second bug for a warning, for any number of warnings, uploads,       *)
(* attempts and faults.                                                    *)
(***************************************************************************)
EXTENDS JiraSync, FiniteSetTheorems, TLAPS

-----------------------------------------------------------------------------
(* The inductive invariant, part by part.                                  *)

\* What the thread and the table hold are rows of warnings and jobs.
TypedInv ==
    /\ rows \subseteq Row /\ todo \subseteq Row /\ answer \subseteq Row /\ dirty \subseteq Row
    /\ jobs \in Seq(Job)
    /\ bugs \in [Fp -> Nat] /\ blind \in [Fp -> Nat] /\ repeated \in [Fp -> Nat]
    /\ misplaced \subseteq Entry \X (1..MaxUploads)

\* At most one lookup waits for its bug to be opened.
SingleInv == \A i, k \in answer : i = k

\* Whoever is about to open a bug has found none, or has a failed lookup or a repeated
\* request to account for those there are.
AnswerInv ==
    \A i \in answer : bugs[Fingerprint(i)] <= blind[Fingerprint(i)] + repeated[Fingerprint(i)]

IInv == TypedInv /\ SingleInv /\ AnswerInv /\ NoTwinBugs

-----------------------------------------------------------------------------
LEMMA RowFp == \A i \in Row : Fingerprint(i) \in Fp
  BY JiraAssumption DEF Row, Fingerprint

LEMMA InitInv == Init => IInv
  BY DEF Init, IInv, TypedInv, SingleInv, AnswerInv, NoTwinBugs, None

\* What an upload stores are rows of warnings.
LEMMA UploadInv ==
  ASSUME IInv, Uploads < MaxUploads,
         NEW full \in BOOLEAN, NEW report \in SUBSET Entry,
         NEW status \in [report -> {"new", "existing", "fixed"}],
         Upload(full, Rows(Uploads + 1, report, status))
  PROVE  IInv'
<1> DEFINE new == Rows(Uploads + 1, report, status)
<1>1. Uploads \in Nat /\ Uploads + 1 \in 1..MaxUploads
  BY JiraAssumption DEF IInv, TypedInv, Uploads
<1>2. new \subseteq Row
  <2>1. SUFFICES ASSUME NEW e \in report
                 PROVE  [entry |-> e, status |-> status[e], upload |-> Uploads + 1, keyed |-> FALSE] \in Row
    BY DEF Rows
  <2>2. e \in Entry /\ status[e] \in {"new", "existing", "fixed"}
    OBVIOUS
  <2> QED
    BY <1>1, <2>2 DEF Row
<1>3. rows' \subseteq rows \cup new
  BY DEF Upload, Stored
<1>4. jobs' \in Seq(Job)
  <2>1. [status |-> "pending", attempts |-> 0] \in Job
    BY JiraAssumption DEF Job
  <2> QED
    BY <2>1 DEF Upload, IInv, TypedInv
<1>5. TypedInv'
  BY <1>2, <1>3, <1>4 DEF Upload, IInv, TypedInv, thread, history, Uploads
<1> QED
  BY <1>5 DEF Upload, IInv, SingleInv, AnswerInv, NoTwinBugs, thread, history

\* The lookup of one row: an answer other than a key leaves room for one bug.
LEMMA LookUpInv ==
  ASSUME IInv, NEW i \in todo, LookUpNext(i)
  PROVE  IInv'
<1>1. Fingerprint(i) \in Fp /\ answer = {} /\ UNCHANGED <<bugs, rows, repeated, misplaced>>
  BY RowFp DEF LookUpNext, Lookup, IInv, TypedInv, None
<1>2. CASE bugs[Fingerprint(i)] > 0 /\ dirty' = dirty \cup {i} /\ UNCHANGED <<answer, blind, trouble>>
  BY <1>1, <1>2 DEF LookUpNext, IInv, TypedInv, SingleInv, AnswerInv, NoTwinBugs
<1>3. CASE bugs[Fingerprint(i)] = 0 /\ answer' = {i} /\ UNCHANGED <<dirty, blind, trouble>>
  BY <1>1, <1>3 DEF LookUpNext, IInv, TypedInv, SingleInv, AnswerInv, NoTwinBugs
<1>4. CASE Trouble /\ answer' = {i} /\ blind' = [blind EXCEPT ![Fingerprint(i)] = @ + 1] /\ UNCHANGED dirty
  <2>1. blind' \in [Fp -> Nat] /\ blind'[Fingerprint(i)] = blind[Fingerprint(i)] + 1
    BY <1>1, <1>4 DEF IInv, TypedInv
  <2>2. \A f \in Fp : blind[f] <= blind'[f]
    BY <1>1, <1>4 DEF IInv, TypedInv
  <2>3. TypedInv' /\ SingleInv'
    BY <1>1, <1>4, <2>1 DEF LookUpNext, IInv, TypedInv, SingleInv
  <2>4. bugs[Fingerprint(i)] <= blind'[Fingerprint(i)] + repeated[Fingerprint(i)]
    BY <1>1, <2>1 DEF IInv, TypedInv, NoTwinBugs
  <2>5. AnswerInv'
    BY <1>1, <1>4, <2>4 DEF AnswerInv
  <2>6. NoTwinBugs'
    BY <1>1, <2>1, <2>2 DEF IInv, TypedInv, NoTwinBugs
  <2> QED
    BY <2>3, <2>5, <2>6 DEF IInv
<1> QED
  BY <1>2, <1>3, <1>4 DEF LookUpNext, Lookup

\* A bug is opened, or two by a repeated request, perhaps without the thread hearing of it:
\* no other one is on its way.
LEMMA CreateInv ==
  ASSUME IInv, NEW i \in answer, Create(i)
  PROVE  IInv'
<1> DEFINE f0 == Fingerprint(i)
<1>1. f0 \in Fp /\ answer' = {} /\ UNCHANGED <<rows, todo, jobs, blind, misplaced>>
  BY RowFp DEF Create, IInv, TypedInv, None
<1>2. PICK requests \in 1..2, taken \in 0..2 :
        /\ taken <= requests
        /\ bugs' = [bugs EXCEPT ![f0] = @ + taken]
        /\ repeated' = [repeated EXCEPT ![f0] = @ + (requests - 1)]
        /\ dirty' \subseteq dirty \cup {i}
  BY DEF Create
<1> HIDE DEF f0
<1>3. bugs' \in [Fp -> Nat] /\ \A f \in Fp : f # f0 => bugs'[f] = bugs[f]
  BY <1>1, <1>2 DEF IInv, TypedInv
<1>4. repeated' \in [Fp -> Nat] /\ \A f \in Fp : f # f0 => repeated'[f] = repeated[f]
  BY <1>1, <1>2 DEF IInv, TypedInv
<1>5. /\ bugs[f0] \in Nat /\ repeated[f0] \in Nat /\ blind[f0] \in Nat
      /\ bugs'[f0] = bugs[f0] + taken /\ repeated'[f0] = repeated[f0] + (requests - 1)
  BY <1>1, <1>2 DEF IInv, TypedInv
<1>6. bugs[f0] <= blind[f0] + repeated[f0]
  BY DEF f0, IInv, AnswerInv
<1>7. NoTwinBugs'
  <2>1. SUFFICES ASSUME NEW f \in Fp PROVE bugs'[f] <= 1 + blind[f] + repeated'[f]
    BY <1>1 DEF NoTwinBugs
  <2>2. CASE f = f0
    <3>1. bugs'[f0] <= 1 + blind[f0] + repeated'[f0]
      BY <1>2, <1>5, <1>6
    <3> QED
      BY <3>1, <2>2
  <2>3. CASE f # f0
    BY <1>3, <1>4, <2>3 DEF IInv, NoTwinBugs
  <2> QED
    BY <2>2, <2>3
<1>8. TypedInv'
  <2>1. dirty' \subseteq Row
    BY <1>2 DEF IInv, TypedInv
  <2> QED
    BY <1>1, <1>3, <1>4, <2>1 DEF IInv, TypedInv
<1> QED
  BY <1>1, <1>7, <1>8 DEF IInv, SingleInv, AnswerInv

\* Every other step leaves Jira alone and at most forgets what the thread has.
LEMMA QuietInv ==
  ASSUME IInv, UNCHANGED <<bugs, blind, repeated>>,
         misplaced' \subseteq Entry \X (1..MaxUploads),
         rows' \subseteq Row, jobs' \in Seq(Job), todo' \subseteq Row, dirty' \subseteq Row,
         answer' \in {answer, {}}
  PROVE  IInv'
  BY DEF IInv, TypedInv, SingleInv, AnswerInv, NoTwinBugs

\* A job that changes its status is a job.
LEMMA EndsTyped ==
  ASSUME IInv, NEW j \in DOMAIN jobs,
         NEW status \in {"pending", "processing", "done", "failed"}, Ends(j, status)
  PROVE  jobs' \in Seq(Job)
<1>1. jobs[j] \in Job
  BY DEF IInv, TypedInv
<1>2. [jobs[j] EXCEPT !.status = status] \in Job
  BY <1>1 DEF Job
<1> QED
  BY <1>2 DEF Ends, IInv, TypedInv

LEMMA FailTyped ==
  ASSUME IInv, NEW j \in DOMAIN jobs, Fail(j)
  PROVE  jobs' \in Seq(Job)
  BY EndsTyped DEF Fail

LEMMA ClaimTyped ==
  ASSUME IInv, NEW j \in DOMAIN jobs, Claim(j)
  PROVE  jobs' \in Seq(Job)
<1>1. jobs[j] \in Job
  BY DEF IInv, TypedInv
<1> QED
  BY <1>1 DEF Claim, IInv, TypedInv, Job

-----------------------------------------------------------------------------
\* One step per action.
LEMMA NextInv ==
  ASSUME IInv, [Next]_vars
  PROVE  IInv'
<1>1. CASE UNCHANGED vars
  BY <1>1, QuietInv DEF vars, thread, history, IInv, TypedInv
<1>2. ASSUME Uploads < MaxUploads,
             NEW full \in BOOLEAN, NEW report \in SUBSET Entry,
             NEW status \in [report -> {"new", "existing", "fixed"}],
             Upload(full, Rows(Uploads + 1, report, status))
      PROVE  IInv'
  BY <1>2, UploadInv
<1>3. ASSUME NEW j \in DOMAIN jobs, Begin(j)
      PROVE  IInv'
  <2>1. jobs' \in Seq(Job)
    BY <1>3, ClaimTyped DEF Begin
  <2>2. todo' \subseteq Row
    BY <1>3 DEF Begin, IInv, TypedInv
  <2> QED
    BY <1>3, <2>1, <2>2, QuietInv DEF Begin, history, IInv, TypedInv
<1>4. ASSUME NEW j \in DOMAIN jobs, Skip(j)
      PROVE  IInv'
  <2>1. jobs' \in Seq(Job)
    BY <1>4, ClaimTyped DEF Skip
  <2> QED
    BY <1>4, <2>1, QuietInv DEF Skip, history, IInv, TypedInv
<1>5. ASSUME NEW i \in todo, LookUpNext(i)
      PROVE  IInv'
  BY <1>5, LookUpInv
<1>6. ASSUME NEW i \in answer, Create(i)
      PROVE  IInv'
  BY <1>6, CreateInv
<1>7. CASE Flush
  <2>1. jobs' \in Seq(Job)
    BY <1>7, FailTyped DEF Flush, Mine, IInv, TypedInv
  <2> QED
    BY <1>7, <2>1, QuietInv DEF Flush, Idle, None, history, IInv, TypedInv
<1>8. CASE Commit
  <2>1. \A i \in rows : [i EXCEPT !.keyed = TRUE] \in Row /\ <<i.entry, i.upload>> \in Entry \X (1..MaxUploads)
    BY DEF IInv, TypedInv, Row
  <2>2. PICK hit \in SUBSET rows : \E on \in [hit -> dirty] :
          /\ rows' = (rows \ hit) \cup {[i EXCEPT !.keyed = TRUE] : i \in hit}
          /\ misplaced' = misplaced \cup
               {<<i.entry, i.upload>> : i \in {k \in hit : Fingerprint(k) # Fingerprint(on[k])}}
    BY <1>8 DEF Commit
  <2>3. rows' \subseteq Row
    BY <2>1, <2>2 DEF IInv, TypedInv
  <2>4. misplaced' \subseteq Entry \X (1..MaxUploads)
    BY <2>1, <2>2 DEF IInv, TypedInv
  <2> QED
    BY <1>8, <2>3, <2>4, QuietInv DEF Commit, IInv, TypedInv
<1>9. CASE Complete
  <2>1. jobs' \in Seq(Job)
    BY <1>9, EndsTyped DEF Complete, Mine, IInv, TypedInv
  <2> QED
    BY <1>9, <2>1, QuietInv DEF Complete, Idle, None, history, IInv, TypedInv
<1>10. CASE Raise
  <2>1. jobs' \in Seq(Job)
    BY <1>10, FailTyped DEF Raise, Mine, IInv, TypedInv
  <2> QED
    BY <1>10, <2>1, QuietInv DEF Raise, Idle, None, history, IInv, TypedInv
<1>11. CASE Die
  <2>1. jobs' \in Seq(Job)
    BY <1>11, EndsTyped DEF Die, Mine, IInv, TypedInv
  <2> QED
    BY <1>11, <2>1, QuietInv DEF Die, Idle, None, history, IInv, TypedInv
<1> QED
  BY <1>1, <1>2, <1>3, <1>4, <1>5, <1>6, <1>7, <1>8, <1>9, <1>10, <1>11 DEF Next

-----------------------------------------------------------------------------
(* Nothing is overlooked: a second invariant, inductive beside IInv.       *)

\* The thread has a job exactly while it works, and one only.
ThreadInv ==
    /\ pc \in {"idle", "syncing", "commenting", "returned"}
    /\ dbErrors \in Nat /\ trouble \in Nat
    /\ pc = "idle" => Mine = {} /\ todo = {} /\ answer = {} /\ dirty = {}
    /\ pc # "idle" => \E j \in DOMAIN jobs : Mine = {j}
    /\ pc \in {"commenting", "returned"} => todo = {} /\ answer = {}

\* A key is that of a bug, of the warning itself unless it was misplaced.
Misplaced(i) == Sqlite /\ <<i.entry, i.upload>> \in misplaced
KeyInv ==
    /\ \A i \in dirty : bugs[Fingerprint(i)] > 0
    /\ \A i \in rows : i.keyed => bugs[Fingerprint(i)] > 0 \/ Misplaced(i)

\* The rows the thread works on are in the table, or all of them are of a later upload
\* than its job is.
LoadedInv ==
    /\ pc = "commenting" => dirty \subseteq rows \/ Sqlite
    /\ pc = "syncing" => \/ todo \cup answer \cup dirty \subseteq rows
                         \/ \A i \in rows, m \in Mine : i.upload > m

\* The job an upload queued accounts for its rows: it has attempts left but for those the
\* database cost it, has a row in hand, or has stored its key.
Accounted(i, j) ==
    /\ j.status = "pending" => j.attempts <= dbErrors
    /\ j.status = "processing" =>
         /\ j.attempts <= dbErrors + 1
         /\ i.keyed \/ (pc # "returned" /\ i \in todo \cup answer \cup dirty)
    /\ j.status = "failed" => MaxAttempts <= dbErrors
    /\ j.status = "done" => i.keyed
RowInv ==
    \A i \in rows : /\ i.upload \in DOMAIN jobs
                    /\ trouble = 0 /\ i.status = "new" => Accounted(i, jobs[i.upload])

BlindInv == trouble = 0 => \A f \in Fp : blind[f] = 0 /\ repeated[f] = 0

QInv == ThreadInv /\ KeyInv /\ LoadedInv /\ RowInv /\ BlindInv

-----------------------------------------------------------------------------
LEMMA InitQInv == Init => QInv
  BY DEF Init, QInv, ThreadInv, KeyInv, Misplaced, LoadedInv, RowInv, BlindInv, Mine, None

\* A job that ends is the only one that changes.
LEMMA EndsJobs ==
  ASSUME IInv, NEW j \in DOMAIN jobs,
         NEW status \in {"pending", "processing", "done", "failed"}, Ends(j, status)
  PROVE  /\ DOMAIN jobs' = DOMAIN jobs
         /\ jobs'[j].status = status /\ jobs'[j].attempts = jobs[j].attempts
         /\ \A k \in DOMAIN jobs : k # j => jobs'[k] = jobs[k]
         /\ Mine' = IF status = "processing" THEN Mine \cup {j} ELSE Mine \ {j}
<1>1. jobs \in Seq(Job) /\ jobs' \in Seq(Job)
  BY EndsTyped DEF IInv, TypedInv
<1>2. /\ DOMAIN jobs' = DOMAIN jobs
      /\ jobs'[j].status = status /\ jobs'[j].attempts = jobs[j].attempts
      /\ \A k \in DOMAIN jobs : k # j => jobs'[k] = jobs[k]
  <2>1. jobs[j] \in Job
    BY <1>1
  <2> QED
    BY <1>1, <2>1 DEF Ends, Job
<1>3. 1..Len(jobs) = DOMAIN jobs /\ 1..Len(jobs') = DOMAIN jobs'
  BY <1>1
<1> QED
  BY <1>2, <1>3 DEF Mine

\* A claimed job is the only one in processing, with one attempt more.
LEMMA ClaimJobs ==
  ASSUME IInv, ThreadInv, NEW j \in DOMAIN jobs, Claim(j)
  PROVE  /\ DOMAIN jobs' = DOMAIN jobs
         /\ jobs[j].status = "pending" /\ jobs[j].attempts \in Nat
         /\ jobs'[j].status = "processing" /\ jobs'[j].attempts = jobs[j].attempts + 1
         /\ \A k \in DOMAIN jobs : k # j => jobs'[k] = jobs[k]
         /\ Mine' = {j}
<1>1. jobs \in Seq(Job) /\ jobs' \in Seq(Job)
  BY ClaimTyped DEF IInv, TypedInv
<1>2. /\ DOMAIN jobs' = DOMAIN jobs
      /\ jobs[j].status = "pending" /\ jobs[j].attempts \in Nat
      /\ jobs'[j].status = "processing" /\ jobs'[j].attempts = jobs[j].attempts + 1
      /\ \A k \in DOMAIN jobs : k # j => jobs'[k] = jobs[k]
  <2>1. jobs[j] \in Job
    BY <1>1
  <2> QED
    <3>1. jobs[j].attempts \in Nat
      BY <2>1, JiraAssumption DEF Job
    <3>2. DOMAIN jobs' = DOMAIN jobs /\ jobs[j].status = "pending"
      BY DEF Claim
    <3>3. \A k \in DOMAIN jobs : k # j => jobs'[k] = jobs[k]
      BY <1>1 DEF Claim
    <3>4. jobs'[j] = [[jobs[j] EXCEPT !.status = "processing"] EXCEPT !.attempts = jobs[j].attempts + 1]
      BY <1>1, <2>1 DEF Claim, Job
    <3>5. jobs'[j].status = "processing" /\ jobs'[j].attempts = jobs[j].attempts + 1
      BY <2>1, <3>4 DEF Job
    <3> QED
      BY <3>1, <3>2, <3>3, <3>5
<1>3. 1..Len(jobs) = DOMAIN jobs /\ 1..Len(jobs') = DOMAIN jobs'
  BY <1>1
<1>4. Mine = {}
  BY DEF Claim, ThreadInv
<1> QED
  BY <1>2, <1>3, <1>4 DEF Mine

\* What an upload stores is accounted for by the job it queues, and the rows of the others
\* stay what they are or go.
LEMMA UploadQInv ==
  ASSUME IInv, QInv, Uploads < MaxUploads,
         NEW full \in BOOLEAN, NEW report \in SUBSET Entry,
         NEW status \in [report -> {"new", "existing", "fixed"}],
         Upload(full, Rows(Uploads + 1, report, status))
  PROVE  QInv'
<1> DEFINE new == Rows(Uploads + 1, report, status)
           n == Uploads + 1
<1>1. jobs \in Seq(Job) /\ n = Len(jobs) + 1
  BY DEF Uploads, IInv, TypedInv
<1>2. /\ DOMAIN jobs' = DOMAIN jobs \cup {n} /\ n \notin DOMAIN jobs
      /\ jobs'[n].status = "pending" /\ jobs'[n].attempts = 0
      /\ \A k \in DOMAIN jobs : jobs'[k] = jobs[k] /\ k < n
  <2>1. [status |-> "pending", attempts |-> 0] \in Job
    BY JiraAssumption DEF Job
  <2> QED
    BY <1>1, <2>1 DEF Upload
<1>3. Mine' = Mine
  <2>1. jobs' \in Seq(Job) /\ 1..Len(jobs) = DOMAIN jobs /\ 1..Len(jobs') = DOMAIN jobs'
    <3>1. [status |-> "pending", attempts |-> 0] \in Job
      BY JiraAssumption DEF Job
    <3> QED
      BY <1>1, <3>1 DEF Upload
  <2> QED
    BY <1>2, <2>1 DEF Mine
<1>4. \A i \in new : i.upload = n /\ ~i.keyed
  BY DEF Rows
<1>5. \A i \in rows' : i \in rows \/ i \in new
  BY DEF Upload, Stored
<1>6. full => rows' = new
  BY DEF Upload, Stored
<1>7. ~full => rows \subseteq rows'
  BY DEF Upload, Stored
<1>8. UNCHANGED <<pc, todo, answer, dirty, bugs, blind, repeated, misplaced, dbErrors, trouble>>
  BY DEF Upload, thread, history
<1>9. ThreadInv'
  BY <1>2, <1>3, <1>8 DEF QInv, ThreadInv
<1>10. KeyInv'
  BY <1>4, <1>5, <1>8 DEF QInv, KeyInv, Misplaced
<1>11. LoadedInv'
  <2>1. ASSUME pc = "commenting" PROVE dirty \subseteq rows'
    BY <2>1, <1>7 DEF Upload, Locked, QInv, LoadedInv
  <2>2. \A i \in new, m \in Mine : i.upload > m
    <3>1. Mine \subseteq DOMAIN jobs
      BY <1>1 DEF Mine
    <3> QED
      BY <1>1, <1>2, <1>4, <3>1
  <2>3. ASSUME pc = "syncing"
        PROVE  \/ todo \cup answer \cup dirty \subseteq rows'
               \/ \A i \in rows', m \in Mine : i.upload > m
    <3>1. CASE full
      BY <3>1, <1>6, <2>2
    <3>2. CASE ~full
      <4>1. CASE todo \cup answer \cup dirty \subseteq rows
        BY <3>2, <4>1, <1>7
      <4>2. CASE \A i \in rows, m \in Mine : i.upload > m
        BY <4>2, <1>5, <2>2
      <4> QED
        BY <2>3, <4>1, <4>2 DEF QInv, LoadedInv
    <3> QED
      BY <3>1, <3>2
  <2> QED
    BY <2>1, <2>3, <1>3, <1>8 DEF LoadedInv
<1>12. RowInv'
  <2>1. SUFFICES ASSUME NEW i \in rows'
                 PROVE  /\ i.upload \in DOMAIN jobs'
                        /\ (trouble = 0 /\ i.status = "new" => Accounted(i, jobs[i.upload]))'
    BY DEF RowInv
  <2>2. CASE i \in rows
    BY <2>2, <1>2, <1>8 DEF QInv, RowInv, Accounted
  <2>3. CASE i \in new
    BY <2>3, <1>2, <1>4, <1>8 DEF QInv, ThreadInv, Accounted
  <2> QED
    BY <2>2, <2>3, <1>5
<1>13. BlindInv'
  BY <1>8 DEF QInv, BlindInv
<1> QED
  BY <1>9, <1>10, <1>11, <1>12, <1>13 DEF QInv

LEMMA BeginQInv ==
  ASSUME IInv, QInv, NEW j \in DOMAIN jobs, Begin(j)
  PROVE  QInv'
<1>1. /\ DOMAIN jobs' = DOMAIN jobs
      /\ jobs[j].status = "pending" /\ jobs[j].attempts \in Nat
      /\ jobs'[j].status = "processing" /\ jobs'[j].attempts = jobs[j].attempts + 1
      /\ \A k \in DOMAIN jobs : k # j => jobs'[k] = jobs[k]
      /\ Mine' = {j}
  BY ClaimJobs DEF Begin, QInv
<1>2. pc = "idle" /\ pc' = "syncing"
  BY DEF Begin, Claim
<1>3. todo' = {i \in rows : i.status = "new" /\ ~i.keyed} /\ answer' = {} /\ dirty' = {}
  BY <1>2 DEF Begin, QInv, ThreadInv
<1>4. UNCHANGED <<rows, bugs, blind, repeated, misplaced, dbErrors, trouble>>
  BY DEF Begin, history
<1>5. ThreadInv' /\ KeyInv' /\ LoadedInv' /\ BlindInv'
  BY <1>1, <1>2, <1>3, <1>4 DEF QInv, ThreadInv, KeyInv, Misplaced, LoadedInv, BlindInv
<1>6. RowInv'
  <2>1. SUFFICES ASSUME NEW i \in rows, trouble = 0, i.status = "new"
                 PROVE  Accounted(i, jobs[i.upload])'
    BY <1>1, <1>4 DEF QInv, RowInv
  <2>2. i.upload \in DOMAIN jobs /\ Accounted(i, jobs[i.upload])
    BY <2>1 DEF QInv, RowInv
  <2>3. CASE i.upload = j
    BY <2>1, <2>2, <2>3, <1>1, <1>2, <1>3, <1>4 DEF Accounted, QInv, ThreadInv
  <2>4. CASE i.upload # j
    <3>1. jobs[i.upload].status # "processing"
      <4>1. Mine = {} /\ 1..Len(jobs) = DOMAIN jobs
        BY <1>2 DEF QInv, ThreadInv, IInv, TypedInv
      <4> QED
        BY <4>1, <2>2 DEF Mine
    <3> QED
      BY <2>2, <2>4, <3>1, <1>1, <1>4 DEF Accounted
  <2> QED
    BY <2>3, <2>4
<1> QED
  BY <1>5, <1>6 DEF QInv

\* A skipped run counts as trouble.
LEMMA SkipQInv ==
  ASSUME IInv, QInv, NEW j \in DOMAIN jobs, Skip(j)
  PROVE  QInv'
<1>1. DOMAIN jobs' = DOMAIN jobs /\ Mine' = {j}
  BY ClaimJobs DEF Skip, QInv
<1>2. todo = {} /\ answer = {}
  BY DEF Skip, Claim, QInv, ThreadInv
<1>3. pc' = "returned" /\ UNCHANGED <<rows, todo, answer, dirty, bugs, blind, repeated, misplaced, dbErrors>>
  BY DEF Skip, history
<1>4. trouble' \in Nat /\ trouble' # 0
  BY DEF Skip, Trouble, QInv, ThreadInv
<1> QED
  BY <1>1, <1>2, <1>3, <1>4 DEF QInv, ThreadInv, KeyInv, Misplaced, LoadedInv, RowInv, BlindInv

LEMMA LookUpQInv ==
  ASSUME IInv, QInv, NEW i \in todo, LookUpNext(i)
  PROVE  QInv'
<1>1. /\ pc = "syncing" /\ answer = {} /\ todo' = todo \ {i}
      /\ UNCHANGED <<rows, jobs, pc, dbErrors, bugs, repeated, misplaced>>
  BY DEF LookUpNext, Lookup, None
<1>2. \/ /\ bugs[Fingerprint(i)] > 0 /\ dirty' = dirty \cup {i} /\ UNCHANGED <<answer, blind, trouble>>
      \/ /\ answer' = {i} /\ UNCHANGED <<dirty, blind, trouble>>
      \/ /\ answer' = {i} /\ trouble' \in Nat /\ trouble' # 0 /\ UNCHANGED dirty
  BY DEF LookUpNext, Lookup, Trouble, QInv, ThreadInv
<1>3. todo' \cup answer' \cup dirty' = todo \cup answer \cup dirty
  BY <1>1, <1>2
<1>4. trouble' \in Nat /\ (trouble' = 0 => trouble = 0 /\ blind' = blind)
  BY <1>2 DEF QInv, ThreadInv
<1>5. Mine' = Mine
  BY <1>1 DEF Mine
<1>6. ThreadInv'
  BY <1>1, <1>4, <1>5 DEF QInv, ThreadInv
<1>7. KeyInv'
  BY <1>1, <1>2 DEF QInv, KeyInv, Misplaced
<1>8. LoadedInv'
  BY <1>1, <1>3, <1>5 DEF QInv, LoadedInv
<1>9. RowInv'
  BY <1>1, <1>3, <1>4 DEF QInv, RowInv, Accounted
<1>10. BlindInv'
  BY <1>1, <1>4 DEF QInv, BlindInv
<1> QED
  BY <1>6, <1>7, <1>8, <1>9, <1>10 DEF QInv

LEMMA CreateQInv ==
  ASSUME IInv, QInv, NEW i \in answer, Create(i)
  PROVE  QInv'
<1>1. /\ answer = {i} /\ answer' = {} /\ Fingerprint(i) \in Fp
      /\ UNCHANGED <<rows, jobs, pc, todo, blind, misplaced, dbErrors>>
  BY RowFp DEF Create, None, IInv, TypedInv
<1>2. pc = "syncing"
  BY DEF QInv, ThreadInv
<1>3. PICK requests \in 1..2, taken \in 0..2 :
        /\ bugs' = [bugs EXCEPT ![Fingerprint(i)] = @ + taken]
        /\ repeated' = [repeated EXCEPT ![Fingerprint(i)] = @ + (requests - 1)]
        /\ \/ /\ taken > 0 /\ dirty' = dirty \cup {i}
              /\ IF requests = 1 THEN UNCHANGED trouble ELSE Trouble
           \/ Trouble /\ UNCHANGED dirty
  BY DEF Create
<1>4. bugs \in [Fp -> Nat] /\ repeated \in [Fp -> Nat]
  BY DEF IInv, TypedInv
<1>5. \A f \in Fp : bugs'[f] >= bugs[f] /\ bugs'[f] \in Nat
  BY <1>1, <1>3, <1>4
<1>6. dirty' = dirty \cup {i} => bugs'[Fingerprint(i)] > 0 \/ i \in dirty
  BY <1>1, <1>3, <1>4
<1>7. todo' \cup answer' \cup dirty' \subseteq todo \cup answer \cup dirty
  BY <1>1, <1>3
<1>8. trouble' \in Nat /\ (trouble' = 0 => trouble = 0 /\ dirty' = dirty \cup {i} /\ requests = 1)
  BY <1>3 DEF Trouble, QInv, ThreadInv
<1>9. Mine' = Mine
  BY <1>1 DEF Mine
<1>10. ThreadInv'
  BY <1>1, <1>2, <1>8, <1>9 DEF QInv, ThreadInv
<1>11. KeyInv'
  <2>1. \A k \in dirty \cup rows : Fingerprint(k) \in Fp
    BY RowFp DEF IInv, TypedInv
  <2>2. \A k \in dirty \cup rows : bugs[Fingerprint(k)] > 0 => bugs'[Fingerprint(k)] > 0
    BY <2>1, <1>4, <1>5
  <2>3. \A k \in dirty' : bugs'[Fingerprint(k)] > 0
    BY <2>2, <1>3, <1>6 DEF QInv, KeyInv
  <2>4. \A k \in rows' : k.keyed => bugs'[Fingerprint(k)] > 0 \/ (Sqlite /\ <<k.entry, k.upload>> \in misplaced')
    BY <2>2, <1>1 DEF QInv, KeyInv, Misplaced
  <2> QED
    BY <2>3, <2>4 DEF KeyInv, Misplaced
<1>12. LoadedInv'
  BY <1>1, <1>2, <1>7, <1>9 DEF QInv, LoadedInv
<1>13. RowInv'
  BY <1>1, <1>8 DEF QInv, RowInv, Accounted
<1>14. BlindInv'
  <2>1. SUFFICES ASSUME trouble' = 0, NEW f \in Fp PROVE blind[f] = 0 /\ repeated'[f] = 0
    BY <1>1 DEF BlindInv
  <2>2. blind[f] = 0 /\ repeated[f] = 0 /\ requests = 1
    BY <1>8, <2>1 DEF QInv, BlindInv
  <2>3. repeated'[f] = repeated[f]
    BY <1>3, <1>4, <2>2
  <2> QED
    BY <2>2, <2>3
<1> QED
  BY <1>10, <1>11, <1>12, <1>13, <1>14 DEF QInv

\* The job in hand fails, and the thread forgets: either the database cost it the attempt,
\* or its rows are gone.
LEMMA FailQInv ==
  ASSUME IInv, QInv, NEW j \in Mine, Fail(j), Idle,
         UNCHANGED <<rows, bugs, history, trouble>>,
         \/ dbErrors' = dbErrors + 1
         \/ dbErrors' = dbErrors /\ \A i \in rows : i.upload # j
  PROVE  QInv'
<1>1. j \in DOMAIN jobs /\ Mine = {j} /\ jobs[j].status = "processing"
  <2>1. j \in 1..Len(jobs) /\ 1..Len(jobs) = DOMAIN jobs
    BY DEF Mine, IInv, TypedInv
  <2>2. Mine = {j}
    BY DEF QInv, ThreadInv
  <2> QED
    BY <2>1, <2>2 DEF Mine
<1> DEFINE status == IF jobs[j].attempts < MaxAttempts THEN "pending" ELSE "failed"
<1>2. /\ DOMAIN jobs' = DOMAIN jobs
      /\ jobs'[j].status = status /\ jobs'[j].attempts = jobs[j].attempts
      /\ \A k \in DOMAIN jobs : k # j => jobs'[k] = jobs[k]
      /\ Mine' = Mine \ {j}
  BY <1>1, EndsJobs DEF Fail
<1>3. pc' = "idle" /\ todo' = {} /\ answer' = {} /\ dirty' = {} /\ Mine' = {}
  BY <1>1, <1>2 DEF Idle, None
<1>4. dbErrors \in Nat /\ dbErrors' \in Nat /\ dbErrors' >= dbErrors
  BY DEF QInv, ThreadInv
<1>5. ThreadInv' /\ KeyInv' /\ LoadedInv' /\ BlindInv'
  BY <1>3, <1>4 DEF history, QInv, ThreadInv, KeyInv, Misplaced, LoadedInv, BlindInv
<1>6. RowInv'
  <2>1. SUFFICES ASSUME NEW i \in rows, trouble = 0, i.status = "new"
                 PROVE  Accounted(i, jobs[i.upload])'
    BY <1>2 DEF QInv, RowInv
  <2>2. i.upload \in DOMAIN jobs /\ Accounted(i, jobs[i.upload])
    BY <2>1 DEF QInv, RowInv
  <2>3. jobs[i.upload] \in Job /\ jobs[i.upload].attempts \in Nat
    <3>1. jobs[i.upload] \in Job
      BY <2>2 DEF IInv, TypedInv
    <3> QED
      BY <3>1, JiraAssumption DEF Job
  <2>4. CASE i.upload = j
    <3>1. dbErrors' = dbErrors + 1 /\ jobs[j].attempts <= dbErrors'
      BY <2>1, <2>2, <2>4, <1>1 DEF Accounted
    <3> QED
      BY <3>1, <2>3, <2>4, <1>2, <1>4, JiraAssumption DEF Accounted
  <2>5. CASE i.upload # j
    <3>1. jobs[i.upload].status # "processing"
      <4>1. 1..Len(jobs) = DOMAIN jobs
        BY DEF IInv, TypedInv
      <4> QED
        BY <4>1, <2>2, <2>5, <1>1 DEF Mine
    <3> QED
      BY <3>1, <2>2, <2>3, <2>5, <1>2, <1>4, JiraAssumption DEF Accounted
  <2> QED
    BY <2>4, <2>5
<1> QED
  BY <1>5, <1>6 DEF QInv

LEMMA FlushQInv ==
  ASSUME IInv, QInv, Flush
  PROVE  QInv'
<1>1. /\ pc = "syncing" /\ todo = {} /\ answer = {}
      /\ UNCHANGED <<rows, bugs, blind, repeated, misplaced, dbErrors, trouble>>
  BY DEF Flush, None, history
<1>2. CASE /\ dirty \subseteq rows \/ Sqlite
           /\ pc' = "commenting" /\ UNCHANGED <<jobs, todo, answer, dirty>>
  <2>1. Mine' = Mine
    BY <1>2 DEF Mine
  <2> QED
    BY <1>1, <1>2, <2>1 DEF QInv, ThreadInv, KeyInv, Misplaced, LoadedInv, RowInv, Accounted, BlindInv
<1>3. CASE ~(dirty \subseteq rows) /\ Idle /\ \E j \in Mine : Fail(j)
  <2>1. PICK j \in Mine : Fail(j)
    BY <1>3
  <2>2. \A i \in rows : i.upload > j
    BY <1>1, <1>3 DEF QInv, LoadedInv
  <2>3. \A i \in rows : i.upload # j
    BY <2>2 DEF Mine, IInv, TypedInv
  <2> QED
    BY <1>1, <1>3, <2>1, <2>3, FailQInv DEF history
<1> QED
  BY <1>2, <1>3 DEF Flush

\* A row the thread has in hand gets its own key; a row that took the id of another one may
\* get a wrong key, and is then misplaced.
LEMMA CommitQInv ==
  ASSUME IInv, QInv, Commit
  PROVE  QInv'
<1>1. /\ pc = "commenting" /\ pc' = "returned" /\ dirty' = {}
      /\ UNCHANGED <<jobs, todo, answer, bugs, blind, repeated, dbErrors, trouble>>
  BY DEF Commit
<1>2. PICK hit \in SUBSET rows : \E on \in [hit -> dirty] :
        /\ Landing(on)
        /\ rows' = (rows \ hit) \cup {[i EXCEPT !.keyed = TRUE] : i \in hit}
        /\ misplaced' = misplaced \cup
             {<<i.entry, i.upload>> : i \in {k \in hit : Fingerprint(k) # Fingerprint(on[k])}}
  BY DEF Commit
<1>3. PICK on \in [hit -> dirty] :
        /\ Landing(on)
        /\ rows' = (rows \ hit) \cup {[i EXCEPT !.keyed = TRUE] : i \in hit}
        /\ misplaced' = misplaced \cup
             {<<i.entry, i.upload>> : i \in {k \in hit : Fingerprint(k) # Fingerprint(on[k])}}
  BY <1>2
<1>4. todo = {} /\ answer = {} /\ (dirty \subseteq rows \/ Sqlite)
  BY <1>1 DEF QInv, ThreadInv, LoadedInv
<1>5. \A i \in rows : i \notin hit => i \notin dirty
  BY <1>3 DEF Landing
<1>6. Mine' = Mine
  BY <1>1 DEF Mine
<1>7. ASSUME NEW i \in rows'
      PROVE  \/ i \in rows /\ i \notin hit
             \/ \E k \in hit : /\ k \in rows /\ i.entry = k.entry /\ i.upload = k.upload
                               /\ i.status = k.status /\ i.keyed
  <2>1. CASE i \in rows \ hit
    BY <2>1
  <2>2. ASSUME NEW k \in hit, i = [k EXCEPT !.keyed = TRUE]
        PROVE  /\ k \in rows /\ i.entry = k.entry /\ i.upload = k.upload
               /\ i.status = k.status /\ i.keyed
    <3>1. k \in Row /\ k \in rows
      BY DEF IInv, TypedInv
    <3> QED
      BY <2>2, <3>1 DEF Row
  <2> QED
    BY <1>3, <2>1, <2>2
<1>8. ThreadInv' /\ LoadedInv' /\ BlindInv'
  BY <1>1, <1>6 DEF QInv, ThreadInv, LoadedInv, BlindInv
<1>9. ASSUME NEW k \in hit, ~(bugs[Fingerprint(k)] > 0)
      PROVE  Sqlite /\ <<k.entry, k.upload>> \in misplaced'
  <2>1. on[k] \in dirty /\ bugs[Fingerprint(on[k])] > 0
    BY DEF QInv, KeyInv
  <2>2. Fingerprint(k) # Fingerprint(on[k])
    BY <1>9, <2>1
  <2>3. <<k.entry, k.upload>> \in misplaced'
    BY <1>3, <2>2
  <2>4. CASE dirty \subseteq rows
    <3>1. on[k] \in hit /\ on[on[k]] = on[k] /\ k \in hit
      BY <1>3, <2>1, <2>4 DEF Landing
    <3>2. on[k] = k
      BY <1>3, <3>1 DEF Landing
    <3> QED
      BY <2>2, <3>2
  <2> QED
    BY <1>4, <2>3, <2>4
<1>10. KeyInv'
  <2>1. SUFFICES ASSUME NEW i \in rows', i.keyed
                 PROVE  bugs[Fingerprint(i)] > 0 \/ (Sqlite /\ <<i.entry, i.upload>> \in misplaced')
    BY <1>1 DEF KeyInv, Misplaced
  <2>2. CASE i \in rows /\ i \notin hit
    BY <2>1, <2>2, <1>3 DEF QInv, KeyInv, Misplaced
  <2>3. ASSUME NEW k \in hit, i.entry = k.entry, i.upload = k.upload
        PROVE  bugs[Fingerprint(i)] > 0 \/ (Sqlite /\ <<i.entry, i.upload>> \in misplaced')
    BY <2>3, <1>9 DEF Fingerprint
  <2> QED
    BY <1>7, <2>2, <2>3
<1>11. RowInv'
  <2>1. SUFFICES ASSUME NEW i \in rows'
                 PROVE  /\ i.upload \in DOMAIN jobs
                        /\ (trouble = 0 /\ i.status = "new" => Accounted(i, jobs[i.upload]))'
    BY <1>1 DEF RowInv
  <2>2. CASE i \in rows /\ i \notin hit
    <3>1. i \notin dirty
      BY <2>2, <1>5
    <3> QED
      BY <2>2, <3>1, <1>1, <1>4 DEF QInv, RowInv, Accounted
  <2>3. CASE \E k \in hit : /\ k \in rows /\ i.entry = k.entry /\ i.upload = k.upload
                            /\ i.status = k.status /\ i.keyed
    BY <2>3, <1>1 DEF QInv, RowInv, Accounted
  <2> QED
    BY <1>7, <2>2, <2>3
<1> QED
  BY <1>8, <1>10, <1>11 DEF QInv

LEMMA CompleteQInv ==
  ASSUME IInv, QInv, Complete
  PROVE  QInv'
<1>1. PICK j \in Mine : Ends(j, "done")
  BY DEF Complete
<1>2. j \in DOMAIN jobs /\ Mine = {j} /\ jobs[j].status = "processing"
  <2>1. j \in 1..Len(jobs) /\ 1..Len(jobs) = DOMAIN jobs
    BY DEF Mine, IInv, TypedInv
  <2>2. Mine = {j}
    BY DEF QInv, ThreadInv
  <2> QED
    BY <2>1, <2>2 DEF Mine
<1>3. /\ DOMAIN jobs' = DOMAIN jobs /\ jobs'[j].status = "done"
      /\ \A k \in DOMAIN jobs : k # j => jobs'[k] = jobs[k]
      /\ Mine' = Mine \ {j}
  BY <1>1, <1>2, EndsJobs
<1>4. pc = "returned" /\ UNCHANGED <<rows, bugs, blind, repeated, misplaced, dbErrors, trouble>>
  BY DEF Complete, history
<1>5. pc' = "idle" /\ todo' = {} /\ answer' = {} /\ dirty' = {} /\ Mine' = {}
  BY <1>2, <1>3 DEF Complete, Idle, None
<1>6. ThreadInv' /\ KeyInv' /\ LoadedInv' /\ BlindInv'
  BY <1>4, <1>5 DEF QInv, ThreadInv, KeyInv, Misplaced, LoadedInv, BlindInv
<1>7. RowInv'
  <2>1. SUFFICES ASSUME NEW i \in rows, trouble = 0, i.status = "new"
                 PROVE  Accounted(i, jobs[i.upload])'
    BY <1>3, <1>4 DEF QInv, RowInv
  <2>2. i.upload \in DOMAIN jobs /\ Accounted(i, jobs[i.upload])
    BY <2>1 DEF QInv, RowInv
  <2>3. CASE i.upload = j
    BY <2>2, <2>3, <1>2, <1>3, <1>4 DEF Accounted
  <2>4. CASE i.upload # j
    <3>1. jobs[i.upload].status # "processing"
      <4>1. 1..Len(jobs) = DOMAIN jobs
        BY DEF IInv, TypedInv
      <4> QED
        BY <4>1, <2>2, <2>4, <1>2 DEF Mine
    <3> QED
      BY <3>1, <2>2, <2>4, <1>3, <1>4 DEF Accounted
  <2> QED
    BY <2>3, <2>4
<1> QED
  BY <1>6, <1>7 DEF QInv

\* The end of the process counts as trouble.
LEMMA DieQInv ==
  ASSUME IInv, QInv, Die
  PROVE  QInv'
<1>1. PICK j \in Mine : Ends(j, "failed")
  BY DEF Die
<1>2. j \in DOMAIN jobs /\ Mine = {j}
  <2>1. j \in 1..Len(jobs) /\ 1..Len(jobs) = DOMAIN jobs
    BY DEF Mine, IInv, TypedInv
  <2> QED
    BY <2>1 DEF QInv, ThreadInv
<1>3. DOMAIN jobs' = DOMAIN jobs /\ Mine' = Mine \ {j}
  BY <1>1, <1>2, EndsJobs
<1>4. UNCHANGED <<rows, bugs, blind, repeated, misplaced, dbErrors>> /\ trouble' \in Nat /\ trouble' # 0
  BY DEF Die, Trouble, history, QInv, ThreadInv
<1>5. pc' = "idle" /\ todo' = {} /\ answer' = {} /\ dirty' = {} /\ Mine' = {}
  BY <1>2, <1>3 DEF Die, Idle, None
<1> QED
  BY <1>3, <1>4, <1>5 DEF QInv, ThreadInv, KeyInv, Misplaced, LoadedInv, RowInv, BlindInv

LEMMA NextQInv ==
  ASSUME IInv, QInv, [Next]_vars
  PROVE  QInv'
<1>1. CASE UNCHANGED vars
  BY <1>1 DEF vars, thread, history, QInv, ThreadInv, KeyInv, Misplaced, LoadedInv, RowInv, Accounted, BlindInv, Mine
<1>2. ASSUME Uploads < MaxUploads,
             NEW full \in BOOLEAN, NEW report \in SUBSET Entry,
             NEW status \in [report -> {"new", "existing", "fixed"}],
             Upload(full, Rows(Uploads + 1, report, status))
      PROVE  QInv'
  BY <1>2, UploadQInv
<1>3. ASSUME NEW j \in DOMAIN jobs, Begin(j) \/ Skip(j)
      PROVE  QInv'
  BY <1>3, BeginQInv, SkipQInv
<1>4. ASSUME NEW i \in todo, LookUpNext(i)
      PROVE  QInv'
  BY <1>4, LookUpQInv
<1>5. ASSUME NEW i \in answer, Create(i)
      PROVE  QInv'
  BY <1>5, CreateQInv
<1>6. CASE Raise
  BY <1>6, FailQInv DEF Raise
<1> QED
  BY <1>1, <1>2, <1>3, <1>4, <1>5, <1>6, FlushQInv, CommitQInv, CompleteQInv, DieQInv DEF Next

LEMMA Invariance == Spec => [](IInv /\ QInv)
  BY InitInv, InitQInv, NextInv, NextQInv, PTL DEF Spec

-----------------------------------------------------------------------------
(* The properties of the synchronisation. *)

\* The thread has one job exactly while it works, and what it holds is well formed.
THEOREM TypeCorrect == Spec => []TypeOK
<1>1. IInv /\ QInv => TypeOK
  <2> SUFFICES ASSUME IInv, QInv PROVE TypeOK
    OBVIOUS
  <2>1. Cardinality(answer) <= 1
    <3>1. CASE answer = {}
      BY <3>1, FS_EmptySet
    <3>2. ASSUME NEW i \in answer PROVE Cardinality(answer) <= 1
      <4>1. answer = {i}
        BY DEF IInv, SingleInv
      <4> QED
        BY <4>1, FS_Singleton
    <3> QED
      BY <3>1, <3>2
  <2>2. Cardinality(Mine) = IF pc = "idle" THEN 0 ELSE 1
    <3>1. CASE pc = "idle"
      BY <3>1, FS_EmptySet DEF QInv, ThreadInv
    <3>2. CASE pc # "idle"
      <4>1. PICK j \in DOMAIN jobs : Mine = {j}
        BY <3>2 DEF QInv, ThreadInv
      <4> QED
        BY <3>2, <4>1, FS_Singleton
    <3> QED
      BY <3>1, <3>2
  <2> QED
    BY <2>1, <2>2 DEF TypeOK, IInv, TypedInv, QInv, ThreadInv
<1> QED
  BY Invariance, <1>1, PTL

\* NoTwinBugs: repeated jobs, replaced rows, kills, unanswered calls and reports that list a
\* warning twice leave at most one bug more than lookups of the warning have failed and
\* requests for it were repeated, however many warnings, uploads and attempts.
THEOREM OneBug == Spec => []NoTwinBugs
<1>1. IInv /\ QInv => NoTwinBugs
  BY DEF IInv
<1> QED
  BY Invariance, <1>1, PTL

\* QuietMeansKeyed: whatever is uploaded again while jobs run and however the database
\* fails, once the queue is empty every new warning has its one bug, unless the attempts
\* were used up or something else than the database failed; on SQLite also unless its row
\* took the id of one replaced under a job.
THEOREM NothingOverlooked == Spec => []QuietMeansKeyed
<1>1. IInv /\ QInv => QuietMeansKeyed
  <2> SUFFICES ASSUME IInv, QInv, trouble = 0, dbErrors < MaxAttempts,
                      \A j \in DOMAIN jobs : jobs[j].status \in {"done", "failed"},
                      NEW i \in rows, i.status = "new"
               PROVE  i.keyed /\ (bugs[Fingerprint(i)] = 1 \/ Misplaced(i))
    BY DEF QuietMeansKeyed, Misplaced
  <2>1. i.upload \in DOMAIN jobs /\ Accounted(i, jobs[i.upload])
    BY DEF QInv, RowInv
  <2>2. jobs[i.upload].status = "done"
    BY <2>1, JiraAssumption DEF Accounted, QInv, ThreadInv
  <2>3. i.keyed
    BY <2>1, <2>2 DEF Accounted
  <2>4. Fingerprint(i) \in Fp
    BY RowFp DEF IInv, TypedInv
  <2>5. /\ bugs[Fingerprint(i)] \in Nat
        /\ blind[Fingerprint(i)] = 0 /\ repeated[Fingerprint(i)] = 0
    BY <2>4 DEF IInv, TypedInv, QInv, BlindInv
  <2>6. bugs[Fingerprint(i)] > 0 \/ Misplaced(i)
    BY <2>3 DEF QInv, KeyInv
  <2>7. bugs[Fingerprint(i)] <= 1
    BY <2>4, <2>5 DEF IInv, NoTwinBugs
  <2> QED
    BY <2>3, <2>5, <2>6, <2>7
<1> QED
  BY Invariance, <1>1, PTL

=================================================================================
