--------------------------------- MODULE Ledger ---------------------------------
(***************************************************************************)
(* What the tracker promises somebody who watches the warnings of some     *)
(* platforms, without runs and baselines: for each platform a list of      *)
(* entries, each saying how a warning stands and who answers for it. An    *)
(* analysis touches the list of its platform only and calls a warning new  *)
(* only if it was not open there; one that stays open stays with whoever   *)
(* answers for it; only a full analysis says that one was fixed, and it    *)
(* forgets none; and nobody who is named is replaced while the entry stays. *)
(***************************************************************************)
CONSTANTS Platform, Warning, Person, Nobody

VARIABLES known,  \* the platforms that were analysed
          entries

ledger == <<known, entries>>

Entry == [warning : Warning, standing : {"new", "existing", "fixed", "ignored"},
          who : Person \cup {Nobody}]

Open(p) == {e \in entries[p] : e.standing \in {"new", "existing"}}
Listed(S) == {e.warning : e \in S}

Init ==
    /\ known = {}
    /\ entries = [p \in Platform |-> {}]

\* The entry of a warning that was open, and of one that was not when a brings it in.
Continues(p, e, full) ==
    \E o \in Open(p) : \/ e = [o EXCEPT !.standing = "existing"]
                       \/ full /\ e = [o EXCEPT !.standing = "fixed"]
Begins(p, e, a) ==
    /\ e.warning \notin Listed(Open(p))
    /\ e.standing = IF p \in known THEN "new" ELSE "existing"
    /\ e.who = a

\* The list of one platform changes; a warning has one entry in it at most.
Turns(p) ==
    /\ entries' = [entries EXCEPT ![p] = entries'[p]]
    /\ entries'[p] \subseteq Entry
    /\ \A e, f \in entries'[p] : e.warning = f.warning => e = f

Analysis(p, full, a) ==
    /\ known' = known \cup {p}
    /\ \A e \in entries'[p] : Continues(p, e, full) \/ Begins(p, e, a)
    /\ full => Listed(Open(p)) \subseteq Listed(entries'[p])
    /\ Turns(p)

Ignore(p, w) ==
    /\ known' = known
    /\ w \in Listed(entries[p])
    /\ entries' = [entries EXCEPT ![p] =
            {IF e.warning = w THEN [e EXCEPT !.standing = "ignored"] ELSE e : e \in @}]

\* A start names somebody where nobody was named, on any platform.
Names(e, f) == f = e \/ (e.who = Nobody /\ f = [e EXCEPT !.who = f.who])
Naming ==
    /\ known' = known
    /\ entries' \in [Platform -> SUBSET Entry]
    /\ \A p \in Platform :
         /\ \A e \in entries[p] : \E f \in entries'[p] : Names(e, f)
         /\ \A f \in entries'[p] : \E e \in entries[p] : Names(e, f)
         /\ \A e, f \in entries'[p] : e.warning = f.warning => e = f

Next ==
    \/ Naming
    \/ \E p \in Platform :
         \/ \E w \in Warning : Ignore(p, w)
         \/ \E full \in BOOLEAN, a \in Person \cup {Nobody} : Analysis(p, full, a)

Spec == Init /\ [][Next]_ledger
=================================================================================
