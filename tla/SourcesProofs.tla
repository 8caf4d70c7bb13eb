----------------------------- MODULE SourcesProofs -----------------------------
(***************************************************************************)
(* What a page shows when nobody else works in its clone, for any number   *)
(* of pages, origins of one directory, versions, time-outs and restarts.   *)
(***************************************************************************)
EXTENDS Sources, TLAPS

-----------------------------------------------------------------------------
(* The inductive invariant. *)

Run == {"clone", "fetch", "checkout", "pull", "fetch commit", "checkout commit"}
Active == {"update", "clone", "commit", "read"}

Dir == [there : BOOLEAN, cloned : BOOLEAN, branch : Revision \cup {None},
        work : Revision \cup {None}, has : SUBSET Revision, detached : BOOLEAN]

DirOk(d) ==
  /\ d \in Dir
  /\ d.cloned => d.there /\ d.work \in d.has /\ d.branch \in d.has
                /\ d.branch.at <= head[d.branch.of]

Source == {"snapshot", "git", "archive", "local", "none"}
Answer == [source : Source, version : Revision \cup {None}]

\* The commands a page has before it, and what it shows when it is answered.
Todo == {<<>>, Update, <<"checkout", "pull">>, <<"pull">>, <<"clone">>,
         <<"fetch commit", "checkout commit">>, <<"checkout commit">>}
Asked == [pc : {"begin"} \cup Active, todo : Todo, of : Origin, want : Revision \cup {None},
          since : Nat]
PageOk(pg) ==
  /\ pg.pc \in {"new", "begin", "done"} \cup Active
  /\ pg.pc # "new" => /\ pg.of \in Origin /\ pg.want \in Revision \cup {None}
                      /\ pg.since \in Nat /\ pg.since <= head[pg.of]
  /\ pg.pc \in {"begin"} \cup Active => pg \in Asked
  /\ pg.pc = "update" => pg.todo \in {Update, <<"checkout", "pull">>, <<"pull">>}
  /\ pg.pc = "clone" => pg.todo = <<"clone">>
  /\ pg.pc = "commit" =>
       /\ pg.want # None
       /\ pg.todo \in {<<"fetch commit", "checkout commit">>, <<"checkout commit">>}
  /\ pg.pc = "done" => pg.shown \in Answer

\* A process given up knows the commit it was started for.
LeftOk(s) ==
  /\ s.run \in Run /\ s.of \in Origin
  /\ s.run \in {"fetch commit", "checkout commit"} => s.commit \in Revision

\* A page that is alone finds the clone as it left it: of its repository, of its branch once
\* that could be checked out, and with the file it should show when it reads.
AloneOk(pg, d) ==
  /\ pg.pc = "update" /\ d.cloned =>
       /\ RepoOf[d.branch.of] = RepoOf[pg.of]
       /\ pg.todo = <<"pull">> => d.branch.of = pg.of
  /\ pg.pc = "read" => d.cloned /\ Wanted(pg, d.work)

AloneInv == \A p \in Page \ (disturbed \cup misled) : AloneOk(page[p], dir)

HeadOk == head \in [Origin -> Nat \ {0}]

TypeInv ==
  /\ HeadOk /\ DirOk(dir)
  /\ stamp \in {"none", "young", "old"}
  /\ DOMAIN page = Page /\ \A p \in Page : PageOk(page[p])
  /\ \A s \in left : LeftOk(s)
  /\ disturbed \subseteq Page /\ misled \subseteq Page

IInv == TypeInv /\ AloneInv /\ RightWhenAlone

-----------------------------------------------------------------------------
(* Git keeps a clone a clone. *)

LEMMA Tips ==
  ASSUME HeadOk, NEW o \in Origin, NEW first \in Nat \ {0}
  PROVE  /\ Tip(o) \in Revision /\ Tip(o).of = o /\ Tip(o).at = head[o] /\ Tip(o) # None
         /\ Pushed(o, first) \in SUBSET Revision
         /\ first <= head[o] => Tip(o) \in Pushed(o, first)
<1>1. head[o] \in Nat /\ head[o] > 0
  BY DEF HeadOk
<1>2. Tip(o) \in Revision /\ Tip(o).of = o /\ Tip(o).at = head[o]
  BY <1>1 DEF Tip, Revision
<1>3. Pushed(o, first) \in SUBSET Revision
  <2> SUFFICES ASSUME NEW n \in first..head[o] PROVE [of |-> o, at |-> n] \in Revision
    BY DEF Pushed
  <2>1. n \in Nat /\ n > 0
    BY <1>1
  <2> QED
    BY <2>1 DEF Revision
<1>4. first <= head[o] => head[o] \in first..head[o]
  BY <1>1
<1>5. first <= head[o] => Tip(o) \in Pushed(o, first)
  BY <1>4 DEF Pushed, Tip
<1> QED
  BY <1>2, <1>3, <1>5, SourcesAssumption DEF SourcesAssumption

EffectIs(run, o, c, d, e) ==
  /\ DirOk(e) /\ e.cloned
  /\ run = "clone" => e.work = Tip(o)
  /\ run # "clone" => d.cloned /\ d.branch \in Revision
  /\ run = "pull" => e.work = Tip(d.branch.of)
  /\ run \in {"fetch", "checkout"} => e.branch = d.branch
  /\ run = "checkout" => BranchOf[d.branch.of] = BranchOf[o]
  /\ run = "checkout commit" => e.work = c

LEMMA Reflexive == ASSUME NEW n \in Nat PROVE n <= n
OBVIOUS

LEMMA EffectOk ==
  ASSUME HeadOk, NEW run \in Run, NEW o \in Origin, NEW c, NEW d, DirOk(d), Works(run, o, c, d),
         run \in {"fetch commit", "checkout commit"} => c \in Revision
  PROVE  EffectIs(run, o, c, d, Effect(run, o, c, d))
<1>1. PICK e : e = Effect(run, o, c, d)
  OBVIOUS
<1>2. d \in Dir
  BY DEF DirOk
<1>3. CASE run = "clone"
  <2>1. e = [there |-> TRUE, cloned |-> TRUE, branch |-> Tip(o), work |-> Tip(o),
             has |-> {Tip(o)}, detached |-> FALSE]
    BY <1>1, <1>3 DEF Effect
  <2>2. Tip(o) \in Revision /\ Tip(o).of = o /\ Tip(o).at = head[o] /\ head[o] \in Nat
    BY Tips DEF HeadOk
  <2>3. PICK t : t = Tip(o)
    OBVIOUS
  <2>4. e = [there |-> TRUE, cloned |-> TRUE, branch |-> t, work |-> t, has |-> {t},
             detached |-> FALSE]
    BY <2>1, <2>3
  <2>5. e \in Dir
    <3>1. t \in Revision
      BY <2>2, <2>3
    <3> QED
      BY <2>4, <3>1 DEF Dir
  <2>6. e.there /\ e.cloned /\ e.work \in e.has /\ e.branch \in e.has /\ e.branch = t /\ e.work = t
    BY <2>4
  <2>7. t.at <= head[t.of]
    <3>1. t.of = o /\ t.at = head[o] /\ head[o] \in Nat
      BY <2>2, <2>3
    <3>2. PICK n : n = head[o]
      OBVIOUS
    <3>3. head[t.of] = n /\ t.at = n
      BY <3>1, <3>2
    <3>4. n <= n
      BY <3>1, <3>2, Reflexive
    <3> QED
      BY <3>3, <3>4, Zenon
  <2> QED
    BY <1>1, <1>3, <2>3, <2>5, <2>6, <2>7 DEF DirOk, EffectIs
<1>4. CASE run # "clone"
  <2>1. d.cloned /\ d.there /\ d.work \in d.has /\ d.branch \in d.has /\ d.has \in SUBSET Revision
        /\ d.branch.at <= head[d.branch.of]
    BY <1>2, <1>4 DEF Works, SameRepo, DirOk, Run, Dir
  <2>2. d.branch \in Revision /\ d.work \in Revision
    BY <2>1
  <2>3. d.branch.of \in Origin /\ d.branch.at \in Nat \ {0}
    BY <2>2 DEF Revision
  <2>4. PICK t, h : t = Tip(d.branch.of) /\ h = d.has \cup Pushed(d.branch.of, d.branch.at)
    OBVIOUS
  <2>5. t \in Revision /\ t.of = d.branch.of /\ t.at = head[d.branch.of] /\ h \in SUBSET Revision
        /\ t \in h /\ d.has \subseteq h /\ head[d.branch.of] \in Nat
    BY <2>1, <2>3, <2>4, Tips DEF HeadOk
  <2>6. CASE run = "fetch"
    <3>1. e = [d EXCEPT !.has = h]
      BY <1>1, <2>4, <2>6 DEF Effect
    <3>2. e \in Dir /\ e.cloned /\ e.there /\ e.work = d.work /\ e.branch = d.branch /\ e.has = h
      BY <1>2, <2>1, <2>5, <3>1 DEF Dir
    <3>3. DirOk(e)
      BY <2>1, <2>5, <3>2 DEF DirOk
    <3> QED
      BY <1>1, <2>1, <2>2, <2>6, <3>2, <3>3 DEF EffectIs
  <2>7. CASE run = "checkout"
    <3>1. e = [d EXCEPT !.work = d.branch, !.detached = FALSE]
      BY <1>1, <2>7 DEF Effect
    <3>2. e \in Dir /\ e.cloned /\ e.there /\ e.work = d.branch /\ e.branch = d.branch /\ e.has = d.has
      BY <1>2, <2>1, <2>2, <3>1 DEF Dir
    <3>3. DirOk(e)
      BY <2>1, <3>2 DEF DirOk
    <3>4. BranchOf[d.branch.of] = BranchOf[o]
      BY <2>7 DEF Works
    <3> QED
      BY <1>1, <2>1, <2>2, <2>7, <3>2, <3>3, <3>4 DEF EffectIs
  <2>8. CASE run = "pull"
    <3>1. e = [d EXCEPT !.branch = t, !.work = t, !.has = h]
      BY <1>1, <2>4, <2>8 DEF Effect
    <3>2. e \in Dir /\ e.cloned /\ e.there /\ e.work = t /\ e.branch = t /\ e.has = h
      BY <1>2, <2>1, <2>5, <3>1 DEF Dir
    <3>3. t.at <= head[t.of]
      <4>1. PICK n : n = head[d.branch.of]
        OBVIOUS
      <4>2. head[t.of] = n /\ t.at = n
        BY <2>5, <4>1
      <4>3. n <= n
        BY <2>5, <4>1, Reflexive
      <4> QED
        BY <4>2, <4>3, Zenon
    <3>4. DirOk(e)
      BY <2>5, <3>2, <3>3 DEF DirOk
    <3> QED
      BY <1>1, <2>1, <2>2, <2>4, <2>8, <3>2, <3>4 DEF EffectIs
  <2>9. CASE run = "fetch commit"
    <3>1. PICK k : k = d.has \cup {c}
      OBVIOUS
    <3>2. e = [d EXCEPT !.has = k] /\ k \in SUBSET Revision /\ d.has \subseteq k
      BY <1>1, <2>1, <2>9, <3>1 DEF Effect
    <3>3. e \in Dir /\ e.cloned /\ e.there /\ e.work = d.work /\ e.branch = d.branch /\ e.has = k
      BY <1>2, <2>1, <3>2 DEF Dir
    <3>4. DirOk(e)
      BY <2>1, <3>2, <3>3 DEF DirOk
    <3> QED
      BY <1>1, <2>1, <2>2, <2>9, <3>3, <3>4 DEF EffectIs
  <2>10. CASE run = "checkout commit"
    <3>1. e = [d EXCEPT !.work = c, !.detached = TRUE] /\ c \in d.has /\ c \in Revision
      BY <1>1, <2>10 DEF Effect, Works
    <3>2. e \in Dir /\ e.cloned /\ e.there /\ e.work = c /\ e.branch = d.branch /\ e.has = d.has
      BY <1>2, <2>1, <3>1 DEF Dir
    <3>3. DirOk(e)
      BY <2>1, <3>1, <3>2 DEF DirOk
    <3> QED
      BY <1>1, <2>1, <2>2, <2>10, <3>2, <3>3 DEF EffectIs
  <2> QED
    BY <1>4, <2>6, <2>7, <2>8, <2>9, <2>10 DEF Run
<1> QED
  BY <1>3, <1>4

\* One page moves; the others see the directory unchanged or are disturbed.
LEMMA Keep ==
  ASSUME IInv, head' = head, NEW p \in Page, NEW pg, page' = [page EXCEPT ![p] = pg],
         PageOk(pg), DirOk(dir'), stamp' \in {"none", "young", "old"},
         \A s \in left' : LeftOk(s),
         disturbed \subseteq disturbed', disturbed' \subseteq Page,
         misled \subseteq misled', misled' \subseteq Page,
         dir' # dir => Disturbs(p) \subseteq disturbed',
         p \notin disturbed' \cup misled' =>
           /\ AloneOk(pg, dir')
           /\ pg.pc = "done" /\ pg.shown.source # "snapshot" =>
                pg.shown.source = "git" /\ Wanted(pg, pg.shown.version)
  PROVE  IInv'
<1>1. /\ DOMAIN page' = Page /\ page'[p] = pg
      /\ \A q \in Page : q # p => page'[q] = page[q]
  BY DEF IInv, TypeInv
<1>2. TypeInv'
  <2>1. \A q \in Page : PageOk(page'[q])
    BY <1>1 DEF IInv, TypeInv
  <2> QED
    BY <1>1, <2>1 DEF IInv, TypeInv, HeadOk, DirOk, PageOk, LeftOk
<1>3. AloneInv'
  <2> SUFFICES ASSUME NEW q \in Page, q \notin disturbed' \cup misled'
               PROVE  AloneOk(page'[q], dir')
    BY DEF AloneInv, AloneOk, Wanted
  <2>1. CASE q = p
    BY <1>1, <2>1
  <2>2. CASE q # p
    <3>1. page'[q] = page[q] /\ q \notin disturbed \cup misled
      BY <1>1, <2>2
    <3>2. AloneOk(page[q], dir)
      BY <3>1 DEF IInv, AloneInv
    <3>3. CASE dir' = dir
      BY <3>1, <3>2, <3>3
    <3>4. CASE dir' # dir
      <4>1. page[q].pc \notin {"update", "read"}
        BY <2>2, <3>4 DEF Disturbs
      <4> QED
        BY <3>1, <4>1 DEF AloneOk
    <3> QED
      BY <3>3, <3>4
  <2> QED
    BY <2>1, <2>2
<1>4. RightWhenAlone'
  <2> SUFFICES ASSUME NEW q \in Page, q \notin disturbed' \cup misled', page'[q].pc = "done",
                      page'[q].shown.source # "snapshot"
               PROVE  page'[q].shown.source = "git" /\ Wanted(page'[q], page'[q].shown.version)
    BY DEF RightWhenAlone, Wanted
  <2>1. CASE q = p
    BY <1>1, <2>1
  <2>2. CASE q # p
    BY <1>1, <2>2 DEF IInv, RightWhenAlone
  <2> QED
    BY <2>1, <2>2
<1> QED
  BY <1>2, <1>3, <1>4 DEF IInv

-----------------------------------------------------------------------------
(* The steps of a page. *)

LEMMA FollowingOk ==
  ASSUME NEW pg, PageOk(pg), pg.pc \in {"update", "clone", "commit"}
  PROVE  /\ PageOk(Following(pg))
         /\ Following(pg).of = pg.of
         /\ Following(pg).want = pg.want /\ Following(pg).since = pg.since
         /\ Following(pg).pc \in {"commit", "read"}
         /\ Following(pg).pc = "read" => pg.pc = "commit" \/ pg.want = None
<1>1. pg \in Asked
  BY DEF PageOk, Active
<1>2. CASE pg.pc \in {"update", "clone"} /\ pg.want # None
  <2>1. Following(pg) = [pg EXCEPT !.pc = "commit",
                                   !.todo = <<"fetch commit", "checkout commit">>]
    BY <1>2 DEF Following, CheckoutCommit
  <2> QED
    BY <1>1, <1>2, <2>1 DEF PageOk, Asked, Active, Todo
<1>3. CASE ~(pg.pc \in {"update", "clone"} /\ pg.want # None)
  <2>1. Following(pg) = [pg EXCEPT !.pc = "read", !.todo = <<>>]
    BY <1>3 DEF Following
  <2> QED
    BY <1>1, <1>3, <2>1 DEF PageOk, Asked, Active, Todo
<1> QED
  BY <1>2, <1>3

LEMMA AskInv ==
  ASSUME IInv, NEW p \in Page, NEW o \in Origin, NEW c \in Pushed(o, 1) \cup {None},
         NEW run \in BOOLEAN, Ask(p, o, c, run)
  PROVE  IInv'
<1>1. PICK asked : asked = [pc |-> "begin", todo |-> <<>>, of |-> o, want |-> c, since |-> head[o]]
  OBVIOUS
<1>2. PICK pg : pg = IF InSnapshot(run) THEN Answered(asked, Shown("snapshot", None)) ELSE asked
  OBVIOUS
<1>3. page' = [page EXCEPT ![p] = pg]
      /\ UNCHANGED <<head, dir, stamp, left, crashes, disturbed, misled>>
  BY <1>1, <1>2 DEF Ask
<1>4. head[o] \in Nat /\ c \in Revision \cup {None}
  BY Tips DEF IInv, TypeInv, HeadOk
<1>5. CASE pg = asked
  <2>1. PageOk(pg) /\ pg.pc = "begin"
    BY <1>1, <1>4, <1>5 DEF PageOk, Asked, Active, Todo
  <2> QED
    BY <1>3, <2>1, Keep DEF IInv, TypeInv, AloneOk
<1>6. CASE pg = Answered(asked, Shown("snapshot", None))
  <2>1. pg = [pc |-> "done", of |-> o, want |-> c, since |-> head[o],
              shown |-> [source |-> "snapshot", version |-> None]]
    BY <1>1, <1>6 DEF Answered, Shown
  <2>2. PageOk(pg) /\ pg.pc = "done" /\ pg.shown.source = "snapshot"
    BY <1>4, <2>1 DEF PageOk, Active, Answer, Source
  <2> QED
    BY <1>3, <2>2, Keep DEF IInv, TypeInv, AloneOk
<1> QED
  BY <1>2, <1>5, <1>6

LEMMA UseCloneInv == ASSUME IInv, NEW p \in Page, UseClone(p) PROVE IInv'
<1>1. PICK pg : pg = [page[p] EXCEPT !.pc = "update", !.todo = Update]
  OBVIOUS
<1>2. /\ page' = [page EXCEPT ![p] = pg] /\ UNCHANGED <<head, dir, left, crashes, disturbed>>
      /\ stamp' = "young"
      /\ misled' = misled \cup (IF dir.cloned /\ ~SameRepo(page[p].of, dir) THEN {p} ELSE {})
  BY <1>1 DEF UseClone
<1>3. PageOk(page[p]) /\ page[p].pc = "begin"
  BY DEF UseClone, IInv, TypeInv
<1>4. PageOk(pg) /\ pg.pc = "update" /\ pg.of = page[p].of /\ pg.todo = Update
  BY <1>1, <1>3 DEF PageOk, Asked, Active, Todo
<1>5. p \notin misled' => AloneOk(pg, dir)
  <2>1. pg.todo # <<"pull">>
    BY <1>4 DEF Update
  <2> QED
    BY <1>2, <1>4, <2>1 DEF AloneOk, SameRepo
<1>6. misled \subseteq misled' /\ misled' \subseteq Page
  BY <1>2 DEF IInv, TypeInv
<1> QED
  BY <1>2, <1>4, <1>5, <1>6, Keep DEF IInv, TypeInv

LEMMA MakeCloneInv == ASSUME IInv, NEW p \in Page, MakeClone(p) PROVE IInv'
<1>1. PICK pg : pg = [page[p] EXCEPT !.pc = "clone", !.todo = <<"clone">>]
  OBVIOUS
<1>2. /\ page' = [page EXCEPT ![p] = pg] /\ UNCHANGED <<head, left, crashes, misled>>
      /\ dir' = EmptyDir /\ stamp' = IF dir.there THEN "old" ELSE stamp
      /\ disturbed' = disturbed \cup After(p, EmptyDir)
  BY <1>1 DEF MakeClone
<1>3. PageOk(page[p]) /\ page[p].pc = "begin"
  BY DEF MakeClone, IInv, TypeInv
<1>4. PageOk(pg) /\ pg.pc = "clone"
  BY <1>1, <1>3 DEF PageOk, Asked, Active, Todo
<1>5. DirOk(dir')
  BY <1>2 DEF DirOk, Dir, EmptyDir, NoDir
<1>6. dir' # dir => Disturbs(p) \subseteq disturbed'
  BY <1>2 DEF After
<1>7. disturbed' \subseteq Page /\ stamp' \in {"none", "young", "old"}
  BY <1>2 DEF After, Disturbs, IInv, TypeInv
<1>8. AloneOk(pg, dir')
  BY <1>4 DEF AloneOk
<1> QED
  BY <1>2, <1>4, <1>5, <1>6, <1>7, <1>8, Keep DEF IInv, TypeInv

LEMMA Steps ==
  /\ Head(<<"clone">>) = "clone" /\ Tail(<<"clone">>) = <<>>
  /\ Head(Update) = "fetch" /\ Tail(Update) = <<"checkout", "pull">>
  /\ Head(<<"checkout", "pull">>) = "checkout" /\ Tail(<<"checkout", "pull">>) = <<"pull">>
  /\ Head(<<"pull">>) = "pull" /\ Tail(<<"pull">>) = <<>>
  /\ Head(<<"fetch commit", "checkout commit">>) = "fetch commit"
  /\ Tail(<<"fetch commit", "checkout commit">>) = <<"checkout commit">>
  /\ Head(<<"checkout commit">>) = "checkout commit" /\ Tail(<<"checkout commit">>) = <<>>
  /\ <<>> # <<"checkout", "pull">> /\ <<>> # <<"pull">> /\ <<>> # <<"checkout commit">>
<1>1. Head(<<"clone">>) = "clone" /\ Tail(<<"clone">>) = <<>>
  OBVIOUS
<1>2. Head(Update) = "fetch" /\ Tail(Update) = <<"checkout", "pull">>
  BY DEF Update
<1>3. Head(<<"checkout", "pull">>) = "checkout" /\ Tail(<<"checkout", "pull">>) = <<"pull">>
  OBVIOUS
<1>4. Head(<<"pull">>) = "pull" /\ Tail(<<"pull">>) = <<>>
  OBVIOUS
<1>5. /\ Head(<<"fetch commit", "checkout commit">>) = "fetch commit"
      /\ Tail(<<"fetch commit", "checkout commit">>) = <<"checkout commit">>
  <2>1. \A x, y : Head(<<x, y>>) = x
    OBVIOUS
  <2>2. \A x, y : Tail(<<x, y>>) = <<y>>
    OBVIOUS
  <2> QED
    BY <2>1, <2>2
<1>6. Head(<<"checkout commit">>) = "checkout commit" /\ Tail(<<"checkout commit">>) = <<>>
  OBVIOUS
<1>7. ASSUME NEW x PROVE <<>> # <<x>>
  OBVIOUS
<1>8. ASSUME NEW x, NEW y PROVE <<>> # <<x, y>>
  OBVIOUS
<1> QED
  BY <1>1, <1>2, <1>3, <1>4, <1>5, <1>6, <1>7, <1>8

\* A command: what a page is at before and after it.
LEMMA SucceedInv == ASSUME IInv, NEW p \in Page, Succeed(p) PROVE IInv'
<1> DEFINE run == Command(p)
           rest == Tail(page[p].todo)
<1>1. PICK pg : pg = IF rest = <<>> THEN Following(page[p]) ELSE [page[p] EXCEPT !.todo = rest]
  OBVIOUS
<1>2. /\ page' = [page EXCEPT ![p] = pg] /\ UNCHANGED <<head, left, crashes, misled>>
      /\ Works(run, page[p].of, page[p].want, dir)
      /\ dir' = Effect(run, page[p].of, page[p].want, dir)
      /\ stamp' \in {"young", stamp}
      /\ disturbed' = disturbed \cup After(p, dir')
  BY <1>1 DEF Succeed
<1>3. PageOk(page[p]) /\ page[p].pc \in {"update", "clone", "commit"} /\ HeadOk /\ DirOk(dir)
  BY DEF Succeed, Running, IInv, TypeInv
<1>4. /\ run \in Run
      /\ run \in {"fetch commit", "checkout commit"} => page[p].want \in Revision
      /\ \/ page[p].pc = "update" /\ run = "fetch" /\ rest = <<"checkout", "pull">>
         \/ page[p].pc = "update" /\ run = "checkout" /\ rest = <<"pull">>
         \/ page[p].pc = "update" /\ run = "pull" /\ rest = <<>> /\ page[p].todo = <<"pull">>
         \/ page[p].pc = "clone" /\ run = "clone" /\ rest = <<>>
         \/ page[p].pc = "commit" /\ run = "fetch commit" /\ rest = <<"checkout commit">>
         \/ /\ page[p].pc = "commit" /\ run = "checkout commit" /\ rest = <<>>
            /\ page[p].want # None
  <2>1. page[p].want # None => page[p].want \in Revision
    BY <1>3 DEF PageOk
  <2>2. CASE page[p].pc = "clone"
    <3>1. run = "clone" /\ rest = <<>>
      BY <1>3, <2>2, Steps DEF PageOk, Command
    <3> QED
      BY <2>2, <3>1 DEF Run
  <2>3. CASE page[p].pc = "update"
    <3>1. \/ run = "fetch" /\ rest = <<"checkout", "pull">>
          \/ run = "checkout" /\ rest = <<"pull">>
          \/ run = "pull" /\ rest = <<>> /\ page[p].todo = <<"pull">>
      BY <1>3, <2>3, Steps DEF PageOk, Command
    <3> QED
      BY <2>3, <3>1 DEF Run
  <2>4. CASE page[p].pc = "commit"
    <3>1. \/ run = "fetch commit" /\ rest = <<"checkout commit">>
          \/ run = "checkout commit" /\ rest = <<>>
      BY <1>3, <2>4, Steps DEF PageOk, Command
    <3>2. page[p].want # None
      BY <1>3, <2>4 DEF PageOk
    <3> QED
      BY <2>1, <2>4, <3>1, <3>2 DEF Run
  <2> QED
    BY <1>3, <2>2, <2>3, <2>4
<1> HIDE DEF run, rest
<1>5. /\ page[p].of \in Origin /\ page[p].since \in Nat /\ page[p].since <= head[page[p].of]
      /\ page[p] \in Asked
  BY <1>3 DEF PageOk, Active
<1>6. /\ DirOk(dir') /\ dir'.cloned
      /\ run = "clone" => dir'.work = Tip(page[p].of)
      /\ run # "clone" => dir.cloned /\ dir.branch \in Revision
      /\ run = "pull" => dir'.work = Tip(dir.branch.of)
      /\ run \in {"fetch", "checkout"} => dir'.branch = dir.branch
      /\ run = "checkout" => BranchOf[dir.branch.of] = BranchOf[page[p].of]
      /\ run = "checkout commit" => dir'.work = page[p].want
  <2>1. PICK o, c : o = page[p].of /\ c = page[p].want
    OBVIOUS
  <2>2. /\ Works(run, o, c, dir) /\ dir' = Effect(run, o, c, dir) /\ o \in Origin
        /\ run \in {"fetch commit", "checkout commit"} => c \in Revision
    BY <1>2, <1>4, <1>5, <2>1
  <2>3. EffectIs(run, o, c, dir, Effect(run, o, c, dir))
    BY <1>3, <1>4, <2>2, EffectOk
  <2> QED
    BY <2>1, <2>2, <2>3 DEF EffectIs
<1>7. PageOk(pg) /\ pg.pc # "done" /\ (p \notin disturbed \cup misled => AloneOk(pg, dir'))
  <2>1. p \notin disturbed \cup misled => AloneOk(page[p], dir)
    BY DEF IInv, AloneInv
  <2>2. Tip(page[p].of).of = page[p].of /\ Tip(page[p].of).at = head[page[p].of]
        /\ head[page[p].of] \in Nat
    BY <1>3, <1>5, Tips DEF HeadOk
  <2>3. CASE page[p].pc = "update" /\ run = "fetch" /\ rest = <<"checkout", "pull">>
    <3>1. pg = [page[p] EXCEPT !.todo = <<"checkout", "pull">>]
      BY <1>1, <2>3, Steps
    <3>2. PageOk(pg) /\ pg.pc = "update" /\ pg.of = page[p].of /\ pg.todo = <<"checkout", "pull">>
      BY <1>3, <1>5, <2>3, <3>1 DEF PageOk, Asked, Active, Todo
    <3>3. pg.todo # <<"pull">>
      BY <3>2
    <3> QED
      BY <1>6, <2>1, <2>3, <3>2, <3>3 DEF AloneOk
  <2>4. CASE page[p].pc = "update" /\ run = "checkout" /\ rest = <<"pull">>
    <3>1. pg = [page[p] EXCEPT !.todo = <<"pull">>]
      BY <1>1, <2>4, Steps
    <3>2. PageOk(pg) /\ pg.pc = "update" /\ pg.of = page[p].of
      BY <1>3, <1>5, <2>4, <3>1 DEF PageOk, Asked, Active, Todo
    <3>3. p \notin disturbed \cup misled =>
            RepoOf[dir.branch.of] = RepoOf[page[p].of] /\ dir.branch.of = page[p].of
      <4>1. dir.branch.of \in Origin
        BY <1>6, <2>4 DEF Revision
      <4> QED
        BY <1>5, <1>6, <2>1, <2>4, <4>1, SourcesAssumption DEF AloneOk, SourcesAssumption
    <3> QED
      BY <1>6, <2>4, <3>2, <3>3 DEF AloneOk
  <2>5. CASE page[p].pc = "commit" /\ run = "fetch commit" /\ rest = <<"checkout commit">>
    <3>1. pg = [page[p] EXCEPT !.todo = <<"checkout commit">>]
      BY <1>1, <2>5, Steps
    <3>2. PageOk(pg) /\ pg.pc = "commit"
      BY <1>3, <1>5, <2>5, <3>1 DEF PageOk, Asked, Active, Todo
    <3> QED
      BY <3>2 DEF AloneOk
  <2>6. CASE rest = <<>>
    <3>1. pg = Following(page[p])
      BY <1>1, <2>6
    <3>2. /\ PageOk(pg) /\ pg.of = page[p].of /\ pg.want = page[p].want
          /\ pg.since = page[p].since /\ pg.pc \in {"commit", "read"}
          /\ pg.pc = "read" => page[p].pc = "commit" \/ page[p].want = None
      BY <1>3, <3>1, FollowingOk
    <3>3. CASE page[p].pc = "update" /\ run = "pull" /\ page[p].todo = <<"pull">>
      <4>1. p \notin disturbed \cup misled => dir'.work = Tip(page[p].of)
        BY <1>6, <2>1, <3>3 DEF AloneOk
      <4> QED
        BY <1>5, <1>6, <2>2, <3>2, <3>3, <4>1 DEF AloneOk, Wanted
    <3>4. CASE page[p].pc = "clone" /\ run = "clone"
      BY <1>5, <1>6, <2>2, <3>2, <3>4 DEF AloneOk, Wanted
    <3>5. CASE run = "checkout commit" /\ page[p].want # None
      BY <1>6, <3>2, <3>5 DEF AloneOk, Wanted
    <3> QED
      BY <1>4, <2>6, <3>3, <3>4, <3>5, Steps
  <2> QED
    BY <1>4, <2>3, <2>4, <2>5, <2>6
<1>8. dir' # dir => Disturbs(p) \subseteq disturbed'
  BY <1>2 DEF After
<1>9. disturbed \subseteq disturbed' /\ disturbed' \subseteq Page
      /\ stamp' \in {"none", "young", "old"}
  BY <1>2 DEF After, Disturbs, IInv, TypeInv
<1>10. p \notin disturbed' \cup misled' => AloneOk(pg, dir')
  BY <1>2, <1>7, <1>9
<1> QED
  BY <1>2, <1>6, <1>7, <1>8, <1>9, <1>10, Keep DEF IInv, TypeInv

LEMMA AnsweredOk ==
  ASSUME NEW pg, PageOk(pg), pg.pc \in {"begin"} \cup Active, NEW shown \in Answer
  PROVE  /\ PageOk(Answered(pg, shown)) /\ Answered(pg, shown).pc = "done"
         /\ Answered(pg, shown).shown = shown
         /\ \A v : Wanted(Answered(pg, shown), v) <=> Wanted(pg, v)
BY DEF PageOk, Answered, Active, Wanted

LEMMA FallbackOk == Fallback \in Answer /\ Shown("none", None) \in Answer
BY DEF Fallback, Shown, Answer, Source

LEMMA GiveUpInv ==
  ASSUME IInv, NEW p \in Page, Running(p), GiveUp(p), UNCHANGED <<head, crashes, misled>>,
         \A s \in left' : LeftOk(s)
  PROVE  IInv'
<1>0. PageOk(page[p]) /\ page[p].pc \in {"update", "clone", "commit"}
  BY DEF Running, IInv, TypeInv
<1>1. /\ disturbed' = disturbed \cup {p} \cup After(p, dir')
      /\ disturbed \subseteq disturbed' /\ disturbed' \subseteq Page /\ p \in disturbed'
      /\ dir' # dir => Disturbs(p) \subseteq disturbed'
  BY DEF GiveUp, After, Disturbs, IInv, TypeInv
<1>2. CASE page[p].pc = "clone"
  <2>1. PICK pg : pg = Answered(page[p], Fallback)
    OBVIOUS
  <2>2. page' = [page EXCEPT ![p] = pg] /\ dir' = NoDir /\ stamp' = stamp
    BY <1>2, <2>1 DEF GiveUp
  <2>3. PageOk(pg)
    BY <1>0, <2>1, AnsweredOk, FallbackOk DEF Active
  <2>4. DirOk(dir')
    BY <2>2 DEF DirOk, Dir, NoDir
  <2> QED
    BY <1>1, <2>2, <2>3, <2>4, Keep DEF IInv, TypeInv
<1>3. CASE page[p].pc # "clone"
  <2>1. PICK pg : pg = Following(page[p])
    OBVIOUS
  <2>2. page' = [page EXCEPT ![p] = pg] /\ dir' = dir /\ stamp' \in {"young", stamp}
    BY <1>3, <2>1 DEF GiveUp
  <2>3. PageOk(pg)
    BY <1>0, <2>1, FollowingOk
  <2>4. DirOk(dir')
    BY <2>2 DEF IInv, TypeInv
  <2> QED
    BY <1>1, <2>2, <2>3, <2>4, Keep DEF IInv, TypeInv
<1> QED
  BY <1>2, <1>3

LEMMA FailInv == ASSUME IInv, NEW p \in Page, Fail(p) PROVE IInv'
BY GiveUpInv DEF Fail, IInv, TypeInv

LEMMA TimesOutInv == ASSUME IInv, NEW p \in Page, TimesOut(p) PROVE IInv'
<1>1. PICK s : s = [run |-> Command(p), of |-> page[p].of, commit |-> page[p].want]
  OBVIOUS
<1>2. PageOk(page[p]) /\ page[p].pc \in {"update", "clone", "commit"} /\ page[p].of \in Origin
  BY DEF TimesOut, Running, IInv, TypeInv, PageOk
<1>3. LeftOk(s)
  <2>1. CASE page[p].pc # "commit"
    <3>1. Command(p) \in {"clone", "fetch", "checkout", "pull"}
      BY <1>2, <2>1, Steps DEF PageOk, Command
    <3> QED
      BY <1>1, <1>2, <3>1 DEF LeftOk, Run
  <2>2. CASE page[p].pc = "commit"
    <3>1. Command(p) \in {"fetch commit", "checkout commit"} /\ page[p].want \in Revision
      BY <1>2, <2>2, Steps DEF PageOk, Command
    <3> QED
      BY <1>1, <1>2, <3>1 DEF LeftOk, Run
  <2> QED
    BY <2>1, <2>2
<1>4. left' = left \cup {s}
  BY <1>1 DEF TimesOut
<1>5. \A r \in left' : LeftOk(r)
  BY <1>3, <1>4 DEF IInv, TypeInv
<1> QED
  BY <1>5, GiveUpInv DEF TimesOut

LEMMA ReadInv == ASSUME IInv, NEW p \in Page, Read(p) PROVE IInv'
<1>0. PageOk(page[p]) /\ page[p].pc = "read" /\ DirOk(dir)
  BY DEF Read, IInv, TypeInv
<1>1. PICK shown : shown = IF dir.cloned THEN Shown("git", dir.work) ELSE Fallback
  OBVIOUS
<1>2. PICK pg : pg = Answered(page[p], shown)
  OBVIOUS
<1>3. /\ page' = [page EXCEPT ![p] = pg]
      /\ UNCHANGED <<head, dir, stamp, left, crashes, disturbed, misled>>
  BY <1>1, <1>2 DEF Read
<1>4. shown \in Answer
  BY <1>0, <1>1, FallbackOk DEF Shown, Answer, Source, DirOk, Dir
<1>5. PageOk(pg) /\ pg.pc = "done" /\ pg.shown = shown
      /\ \A v : Wanted(pg, v) <=> Wanted(page[p], v)
  BY <1>0, <1>2, <1>4, AnsweredOk DEF Active
<1>6. p \notin disturbed \cup misled => pg.shown.source = "git" /\ Wanted(pg, pg.shown.version)
  <2> SUFFICES ASSUME p \notin disturbed \cup misled
               PROVE  pg.shown.source = "git" /\ Wanted(pg, pg.shown.version)
    OBVIOUS
  <2>1. dir.cloned /\ Wanted(page[p], dir.work)
    BY <1>0 DEF IInv, AloneInv, AloneOk
  <2> QED
    BY <1>1, <1>5, <2>1 DEF Shown
<1>7. AloneOk(pg, dir)
  BY <1>5 DEF AloneOk
<1> QED
  BY <1>3, <1>5, <1>6, <1>7, Keep DEF IInv, TypeInv

-----------------------------------------------------------------------------
(* The steps of the world. *)

LEMMA StraggleInv == ASSUME IInv, NEW s \in left, Straggle(s) PROVE IInv'
<1>1. /\ left' = left \ {s} /\ UNCHANGED <<head, stamp, page, crashes, misled>>
      /\ dir' = IF Works(s.run, s.of, s.commit, dir) THEN Effect(s.run, s.of, s.commit, dir) ELSE dir
      /\ disturbed' = disturbed \cup (IF dir' # dir THEN Disturbs(None) ELSE {})
  BY DEF Straggle
<1>2. DirOk(dir')
  <2>1. LeftOk(s) /\ HeadOk /\ DirOk(dir)
    BY DEF IInv, TypeInv
  <2> QED
    BY <1>1, <2>1, EffectOk DEF LeftOk, EffectIs
<1>3. disturbed \subseteq disturbed' /\ disturbed' \subseteq Page
  BY <1>1 DEF Disturbs, IInv, TypeInv
<1>4. TypeInv'
  BY <1>1, <1>2, <1>3 DEF IInv, TypeInv, HeadOk, DirOk, PageOk, LeftOk
<1>5. AloneInv'
  <2> SUFFICES ASSUME NEW q \in Page, q \notin disturbed' \cup misled
               PROVE  AloneOk(page[q], dir')
    BY <1>1 DEF AloneInv, AloneOk, Wanted
  <2>1. AloneOk(page[q], dir)
    BY <1>3 DEF IInv, AloneInv
  <2>2. CASE dir' # dir
    <3>1. page[q].pc \notin {"update", "read"}
      BY <1>1, <2>2, SourcesAssumption DEF Disturbs, SourcesAssumption
    <3> QED
      BY <3>1 DEF AloneOk
  <2> QED
    BY <2>1, <2>2
<1>6. RightWhenAlone'
  BY <1>1, <1>3 DEF IInv, RightWhenAlone, Wanted
<1> QED
  BY <1>4, <1>5, <1>6 DEF IInv

LEMMA CommitInv == ASSUME IInv, NEW o \in Origin, Commit(o) PROVE IInv'
<1>1. head' = [head EXCEPT ![o] = @ + 1]
      /\ UNCHANGED <<dir, stamp, page, left, crashes, disturbed, misled>>
  BY DEF Commit
<1>2. HeadOk' /\ \A b \in Origin : head[b] \in Nat /\ head'[b] \in Nat /\ head[b] <= head'[b]
  BY <1>1 DEF HeadOk, IInv, TypeInv
\* A later version: what was typed by the head stays typed.
<1>3. DirOk(dir)'
  <2>1. DirOk(dir)
    BY DEF IInv, TypeInv
  <2>2. dir.cloned => dir.branch \in Revision
    BY <2>1 DEF DirOk, Dir
  <2>3. dir.cloned => dir.branch.of \in Origin /\ dir.branch.at \in Nat
    BY <2>2 DEF Revision
  <2>4. dir.cloned => dir.branch.at <= head'[dir.branch.of]
    BY <1>2, <2>1, <2>3 DEF DirOk
  <2> QED
    BY <1>1, <2>1, <2>4 DEF DirOk
<1>4. ASSUME NEW p \in Page PROVE PageOk(page[p])'
  <2>1. PageOk(page[p])
    BY DEF IInv, TypeInv
  <2>2. page[p].pc # "new" => page[p].since <= head'[page[p].of]
    <3> SUFFICES ASSUME page[p].pc # "new" PROVE page[p].since <= head'[page[p].of]
      OBVIOUS
    <3>1. PICK o1, n : o1 = page[p].of /\ n = page[p].since
      OBVIOUS
    <3>2. o1 \in Origin /\ n \in Nat /\ n <= head[o1]
      BY <2>1, <3>1 DEF PageOk
    <3>3. n <= head'[o1]
      BY <1>2, <3>2
    <3> QED
      BY <3>1, <3>3
  <2> QED
    BY <1>1, <2>1, <2>2 DEF PageOk
<1>5. TypeInv'
  BY <1>1, <1>2, <1>3, <1>4 DEF IInv, TypeInv, LeftOk
<1> QED
  BY <1>1, <1>5 DEF IInv, AloneInv, AloneOk, RightWhenAlone, Wanted

LEMMA AgeInv == ASSUME IInv, Age PROVE IInv'
<1>1. stamp' = "old" /\ UNCHANGED <<head, dir, page, left, crashes, disturbed, misled>>
  BY DEF Age
<1> QED
  BY <1>1 DEF IInv, TypeInv, AloneInv, AloneOk, RightWhenAlone, Wanted, HeadOk, DirOk, PageOk, LeftOk

LEMMA RestartInv == ASSUME IInv, Restart PROVE IInv'
<1>1. /\ stamp' = "none" /\ left' = {} /\ disturbed' = Page /\ UNCHANGED <<head, dir, misled>>
      /\ page' = [p \in Page |-> IF page[p].pc \in {"new", "done"} THEN page[p]
                  ELSE Answered(page[p], Shown("none", None))]
  BY DEF Restart
<1>2. \A p \in Page : PageOk(page'[p])
  <2> SUFFICES ASSUME NEW p \in Page PROVE PageOk(page'[p])
    OBVIOUS
  <2>1. PageOk(page[p])
    BY DEF IInv, TypeInv
  <2>2. CASE page[p].pc \in {"new", "done"}
    BY <1>1, <2>1, <2>2
  <2>3. CASE page[p].pc \notin {"new", "done"}
    <3>1. page[p].pc \in {"begin"} \cup Active
      BY <2>1, <2>3 DEF PageOk
    <3>2. PageOk(Answered(page[p], Shown("none", None)))
      BY <2>1, <3>1, AnsweredOk, FallbackOk
    <3> QED
      BY <1>1, <2>3, <3>2
  <2> QED
    BY <2>2, <2>3
<1>3. TypeInv'
  BY <1>1, <1>2 DEF IInv, TypeInv, HeadOk, DirOk, PageOk, LeftOk
<1> QED
  BY <1>1, <1>3 DEF IInv, AloneInv, RightWhenAlone

-----------------------------------------------------------------------------
LEMMA InitInv == Init => IInv
<1> SUFFICES ASSUME Init PROVE IInv
  OBVIOUS
<1>1. HeadOk
  BY DEF Init, HeadOk
<1>2. DirOk(dir)
  BY DEF Init, DirOk, Dir, NoDir
<1>3. PageOk(NewPage) /\ NewPage.pc = "new"
  BY DEF PageOk, NewPage, Active
<1>4. DOMAIN page = Page /\ \A p \in Page : page[p] = NewPage
  BY DEF Init
<1>5. TypeInv
  BY <1>1, <1>2, <1>3, <1>4 DEF Init, TypeInv
<1>6. AloneInv /\ RightWhenAlone
  BY <1>3, <1>4 DEF AloneInv, AloneOk, RightWhenAlone
<1> QED
  BY <1>5, <1>6 DEF IInv

LEMMA NextInv == IInv /\ [Next]_vars => IInv'
<1> SUFFICES ASSUME IInv, [Next]_vars PROVE IInv'
  OBVIOUS
<1>1. CASE Next
  BY <1>1, AskInv, UseCloneInv, MakeCloneInv, SucceedInv, FailInv, TimesOutInv, ReadInv,
     StraggleInv, CommitInv, AgeInv, RestartInv DEF Next
<1>2. CASE UNCHANGED vars
  BY <1>2 DEF vars, IInv, TypeInv, AloneInv, AloneOk, RightWhenAlone, Wanted, HeadOk, DirOk, PageOk, LeftOk
<1> QED
  BY <1>1, <1>2

LEMMA Inductive == Spec => []IInv
BY InitInv, NextInv, PTL DEF Spec

\* The state is well formed: a clone has the versions its branch and its files are at.
THEOREM TypeCorrect == Spec => []TypeOK
<1>1. IInv => TypeOK
  BY DEF IInv, TypeInv, HeadOk, DirOk, Dir, PageOk, Answer, Source, TypeOK
<1> QED
  BY <1>1, Inductive, PTL

\* RightWhenAlone: only trouble of its own, the work of others or a clone of another repository
\* makes a page show another version than it was asked for.
THEOREM AloneIsRight == Spec => []RightWhenAlone
<1>1. IInv => RightWhenAlone
  BY DEF IInv
<1> QED
  BY <1>1, Inductive, PTL
===============================================================================
