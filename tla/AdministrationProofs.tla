------------------------- MODULE AdministrationProofs -------------------------
(***************************************************************************)
(* Quality gates and memberships for every number of instances, users,     *)
(* gates, projects, restarts and crashes.                                  *)
(***************************************************************************)
EXTENDS Administration, FunctionTheorems, FiniteSetTheorems, TLAPS

-----------------------------------------------------------------------------
(* The inductive invariant, part by part.                                  *)

\* What a handler has left to do is well formed; an instance that does not run
\* has nothing to do, and on SQLite one runs. A gate that is about to be deleted
\* was no default when it was looked at.
ServerInv ==
  /\ op \in [Instance -> Handler] /\ boot \in [Instance -> Start]
  /\ instances \subseteq Instance /\ instances # {}
  /\ sqlite => \E i \in Instance : instances = {i}
  /\ \A j \in Instance : j \notin instances => op[j] = NoOp
  /\ \A j \in Instance : op[j].do = "delete" => ~op[j].seen.default

\* What is a gate, and what is in its rules.
TypedInv ==
  /\ gates \in [Gate -> GateRow \union {None, Gone}]
  /\ catalog \subseteq Code
  /\ mixed \in BOOLEAN /\ lapsed \in BOOLEAN

\* No name belongs to two gates.
NamesInv == \A g, h \in Gates : gates[g].name = gates[h].name => g = h

\* Unless moves of the flag met: one is under way at most, and the flag that it
\* is about to set is set nowhere else.
FlagInv ==
  ~mixed =>
    /\ \A g, h \in Defaults : g = h
    /\ \A i, j \in Instance : Moving(i) /\ Moving(j) => i = j
    /\ \A i, j \in Instance : Seeding(i) /\ Seeding(j) => i = j
    /\ \A i, j \in Instance : ~(Moving(i) /\ Seeding(j))
    /\ \A i \in Instance : Seeding(i) => Defaults = {}
    /\ \A i \in Instance : Moving(i) /\ op[i].do = "insert" => Defaults = {}
    /\ \A i \in Instance : Moving(i) /\ op[i].do = "default" => Defaults \subseteq {op[i].gate}

\* Where the default gate is, unless it lapsed: in the table, in the hands of the
\* handler that moves the flag, or not there yet because no start has seeded it.
Unseeded == \A i \in instances : boot[i].at \in {"migrated", "loaded", "insert"}
LapsedInv ==
  \/ lapsed
  \/ Defaults # {}
  \/ \E i \in Instance : Moving(i)
  \/ Unseeded

GatePart == TypedInv /\ NamesInv /\ FlagInv /\ LapsedInv

\* What is a project; on PostgreSQL an id is never used again, and a handler goes
\* on with the project that it began with.
ProjectInv ==
  /\ projects \in [Pid -> ProjectRow \union {None}]
  /\ born \in Nat
  /\ ~sqlite => Projects \subseteq 1..born
  /\ ~sqlite => \A j \in Instance : op[j].do \in {"member", "log"} => op[j].pid \in 1..born

\* Members are members of projects there are. Whoever is added where he has a row,
\* or twice at once, was noted.
Adds(j, p, u) == op[j].do = "member" /\ op[j].pid = p /\ op[j].user = u
MemberInv ==
  /\ members \subseteq MemberRow /\ IsFiniteSet(members)
  /\ doubled \subseteq Pid \X User
  /\ \A m \in members : m.pid \in Projects
  /\ OneMembership
  /\ \A j \in Instance : \A m \in members :
       Adds(j, m.pid, m.user) => <<m.pid, m.user>> \in doubled
  /\ \A j, k \in Instance : \A p \in Pid, u \in User :
       Adds(j, p, u) /\ Adds(k, p, u) => j = k \/ <<p, u>> \in doubled

BookInv ==
  /\ subs \subseteq [user : User, pid : Pid]
  /\ logs \subseteq [pid : Pid, of : 1..MaxBorn]
  /\ groups \subseteq GroupName

ProjectPart == ProjectInv /\ MemberInv /\ BookInv

IInv == ServerInv /\ GatePart /\ ProjectPart

-----------------------------------------------------------------------------
(* Handlers. *)

\* What a handler remembers.
LEMMA Fields ==
  ASSUME NEW o \in Handler
  PROVE  /\ o.do = "insert" =>
              o.name \in GateName /\ o.default \in BOOLEAN /\ o.rules \in SUBSET Code
         /\ o.do \in {"rules", "default"} => o.gate \in Gate /\ o.rules \in SUBSET Code
         /\ o.do = "delete" => o.gate \in Gate /\ o.seen \in GateRow
         /\ o.do = "member" =>
              o.pid \in Pid /\ o.user \in User /\ o.admin \in BOOLEAN /\ o.creator \in BOOLEAN
         /\ o.do = "log" => o.pid \in Pid
  BY DEF Handler, NoOp

LEMMA NothingToDo ==
  /\ NoOp \in Handler /\ NoOp.do = "nothing"
  /\ [do |-> "sync"] \in Handler
  BY DEF Handler, NoOp

\* One handler goes on.
LEMMA OpStep ==
  ASSUME ServerInv, NEW i \in instances, NEW o \in Handler,
         o.do = "delete" => ~o.seen.default,
         op' = [op EXCEPT ![i] = o], UNCHANGED deployment, boot' \in [Instance -> Start]
  PROVE  /\ ServerInv' /\ i \in Instance
         /\ op'[i] = o /\ \A j \in Instance : j # i => op'[j] = op[j]
<1>1. i \in Instance /\ op \in [Instance -> Handler]
  BY DEF ServerInv
<1>2. op'[i] = o /\ \A j \in Instance : j # i => op'[j] = op[j]
  BY <1>1
<1>3. op' \in [Instance -> Handler]
  BY <1>1
<1>4. instances' = instances /\ sqlite' = sqlite
  BY DEF deployment
<1>5. \A j \in Instance : j \notin instances' => op'[j] = NoOp
  BY <1>2, <1>4 DEF ServerInv
<1>6. \A j \in Instance : op'[j].do = "delete" => ~op'[j].seen.default
  BY <1>2 DEF ServerInv
<1> QED
  BY <1>1, <1>2, <1>3, <1>4, <1>5, <1>6 DEF ServerInv

\* A handler begins, with nothing under way in its instance.
LEMMA Began ==
  ASSUME ServerInv, NEW i \in Instance, NEW o \in Handler, Begin(i, o),
         o.do = "delete" => ~o.seen.default, UNCHANGED boot
  PROVE  /\ ServerInv' /\ i \in instances /\ op[i].do = "nothing"
         /\ op'[i] = o /\ \A j \in Instance : j # i => op'[j] = op[j]
         /\ instances' = instances /\ sqlite' = sqlite
<1>1. /\ i \in instances /\ op[i] = NoOp /\ op' = [op EXCEPT ![i] = o]
      /\ UNCHANGED deployment
  BY DEF Begin
<1>2. boot' \in [Instance -> Start]
  BY DEF ServerInv
<1> QED
  BY <1>1, <1>2, OpStep, NothingToDo DEF deployment

\* A handler that has something left to do goes on.
LEMMA WentOn ==
  ASSUME ServerInv, NEW i \in Instance, NEW o \in Handler, Then(i, o),
         op[i].do # "nothing", o.do = "delete" => ~o.seen.default, UNCHANGED boot
  PROVE  /\ ServerInv' /\ i \in instances
         /\ op'[i] = o /\ \A j \in Instance : j # i => op'[j] = op[j]
         /\ instances' = instances /\ sqlite' = sqlite
<1>1. i \in instances
  BY NothingToDo DEF ServerInv
<1>2. op' = [op EXCEPT ![i] = o] /\ UNCHANGED deployment
  BY DEF Then
<1>3. boot' \in [Instance -> Start]
  BY DEF ServerInv
<1> QED
  BY <1>1, <1>2, <1>3, OpStep DEF deployment

LEMMA InitInv == Init => IInv
<1> SUFFICES ASSUME Init PROVE IInv
  OBVIOUS
<1>1. Gates = {} /\ Defaults = {} /\ Projects = {}
  BY NoneAssumption DEF Init, Gates, Defaults, Projects
<1>2. \A j \in Instance : op[j] = NoOp /\ op[j].do = "nothing" /\ boot[j] = At("migrated")
  BY NothingToDo DEF Init
<1>3. At("migrated") \in Start /\ At("migrated").at = "migrated"
  BY DEF At, Start
<1>4. ServerInv
  <2>1. op \in [Instance -> Handler] /\ boot \in [Instance -> Start]
    BY <1>3, NothingToDo DEF Init
  <2>2. /\ instances \subseteq Instance /\ instances # {}
        /\ sqlite => \E i \in Instance : instances = {i}
    BY AdministrationAssumption DEF Init
  <2> QED
    BY <1>2, <2>1, <2>2 DEF ServerInv
<1>5. GatePart
  <2>1. TypedInv
    BY DEF Init, TypedInv
  <2>2. \A j \in Instance : ~Moving(j) /\ ~Seeding(j)
    BY <1>2, <1>3 DEF Moving, Seeding
  <2>3. Unseeded
    BY <1>2, <1>3, <1>4 DEF Unseeded, ServerInv
  <2> QED
    BY <1>1, <2>1, <2>2, <2>3 DEF GatePart, NamesInv, FlagInv, LapsedInv
<1>6. ProjectPart
  <2>1. IsFiniteSet(members)
    BY FS_EmptySet DEF Init
  <2> QED
    BY <1>1, <1>2, <2>1 DEF Init, ProjectPart, ProjectInv, MemberInv, BookInv, OneMembership, Adds
<1> QED
  BY <1>4, <1>5, <1>6 DEF IInv
-----------------------------------------------------------------------------
(* Gates: what a step makes of rows and flags. *)

\* One row is written.
LEMMA RowSet ==
  ASSUME gates \in [Gate -> GateRow \union {None, Gone}], NEW g \in Gate, NEW row \in GateRow,
         gates' = [gates EXCEPT ![g] = row]
  PROVE  /\ gates' \in [Gate -> GateRow \union {None, Gone}]
         /\ gates'[g] = row /\ \A h \in Gate : h # g => gates'[h] = gates[h]
         /\ Gates' = Gates \union {g}
         /\ row.default => Defaults' = Defaults \union {g}
         /\ ~row.default => Defaults' = Defaults \ {g}
<1>1. /\ gates' \in [Gate -> GateRow \union {None, Gone}]
      /\ gates'[g] = row /\ \A h \in Gate : h # g => gates'[h] = gates[h]
  OBVIOUS
<1>2. Gates' = Gates \union {g}
  BY <1>1 DEF Gates
<1>3. row.default => Defaults' = Defaults \union {g}
  BY <1>1, <1>2 DEF Defaults, Gates
<1>4. ~row.default => Defaults' = Defaults \ {g}
  BY <1>1, <1>2 DEF Defaults, Gates
<1> QED
  BY <1>1, <1>2, <1>3, <1>4

\* Its name is its own.
LEMMA RowNamed ==
  ASSUME gates \in [Gate -> GateRow \union {None, Gone}], NamesInv,
         NEW g \in Gate, NEW row \in GateRow,
         gates' = [gates EXCEPT ![g] = row], Named(row.name) \subseteq {g}
  PROVE  NamesInv'
<1>1. /\ gates'[g] = row /\ \A h \in Gate : h # g => gates'[h] = gates[h]
      /\ Gates' = Gates \union {g}
  BY RowSet
<1>2. \A h \in Gates : gates[h].name = row.name => h = g
  BY DEF Named
<1>3. \A h \in Gates : h \in Gate
  BY DEF Gates
<1> QED
  BY <1>1, <1>2, <1>3 DEF NamesInv

LEMMA OwnName ==
  ASSUME NamesInv, NEW g \in Gates
  PROVE  Named(gates[g].name) \subseteq {g}
  BY DEF NamesInv, Named

\* A row is changed in its rules, its conditions: no flag and no name.
LEMMA RowChanged ==
  ASSUME TypedInv, NamesInv, NEW g \in Gates, NEW row \in GateRow,
         gates' = [gates EXCEPT ![g] = row],
         row.name = gates[g].name, row.default = gates[g].default
  PROVE  /\ gates' \in [Gate -> GateRow \union {None, Gone}]
         /\ NamesInv' /\ Gates' = Gates /\ Defaults' = Defaults
<1>1. g \in Gate /\ gates \in [Gate -> GateRow \union {None, Gone}]
  BY DEF Gates, TypedInv
<1>2. NamesInv'
  BY <1>1, OwnName, RowNamed
<1>3. /\ gates' \in [Gate -> GateRow \union {None, Gone}]
      /\ Gates' = Gates \union {g}
      /\ row.default => Defaults' = Defaults \union {g}
      /\ ~row.default => Defaults' = Defaults \ {g}
  BY <1>1, RowSet
<1>4. Gates' = Gates
  BY <1>3
<1>5. CASE row.default
  <2>1. g \in Defaults
    BY <1>5 DEF Defaults
  <2> QED
    BY <1>2, <1>3, <1>4, <1>5, <2>1
<1>6. CASE ~row.default
  <2>1. g \notin Defaults
    BY <1>6 DEF Defaults
  <2> QED
    BY <1>2, <1>3, <1>4, <1>6, <2>1
<1> QED
  BY <1>5, <1>6

LEMMA RulesChanged ==
  ASSUME TypedInv, NamesInv, NEW g \in Gates, NEW R \in SUBSET Code,
         gates' = [gates EXCEPT ![g].rules = R]
  PROVE  /\ gates' \in [Gate -> GateRow \union {None, Gone}]
         /\ NamesInv' /\ Gates' = Gates /\ Defaults' = Defaults
<1> DEFINE row == [gates[g] EXCEPT !.rules = R]
<1>1. gates[g] \in GateRow
  BY DEF Gates
<1>2. row \in GateRow /\ row.name = gates[g].name /\ row.default = gates[g].default
  BY <1>1 DEF GateRow
<1>3. gates' = [gates EXCEPT ![g] = row]
  BY DEF TypedInv
<1> HIDE DEF row
<1> QED
  BY <1>2, <1>3, RowChanged

\* The catalogue becomes the rules of a gate, unless it is empty.
LEMMA PopulatedGate ==
  ASSUME TypedInv, NamesInv, NEW g \in Gates, gates' = Populated(g)
  PROVE  /\ gates' \in [Gate -> GateRow \union {None, Gone}]
         /\ NamesInv' /\ Gates' = Gates /\ Defaults' = Defaults
<1>1. CASE gates' = gates
  BY <1>1 DEF TypedInv, NamesInv, Gates, Defaults
<1>2. CASE gates' = [gates EXCEPT ![g].rules = catalog]
  <2>1. catalog \in SUBSET Code
    BY DEF TypedInv
  <2> QED
    BY <1>2, <2>1, RulesChanged
<1> QED
  BY <1>1, <1>2 DEF Populated

\* A new gate.
LEMMA NewRowTyped ==
  ASSUME NEW n \in GateName, NEW d \in BOOLEAN
  PROVE  /\ NewRow(n, d, {}) \in GateRow
         /\ NewRow(n, d, {}).default = d
         /\ NewRow(n, d, {}).name = n
  BY DEF NewRow, GateRow

LEMMA NewGateFresh ==
  ASSUME TypedInv, NEW g \in NewGate
  PROVE  g \in Gate /\ g \notin Gates /\ g \notin Defaults
<1>1. g \in Gate /\ \A h \in Gate : gates[h] # None => h < g
  BY DEF NewGate
<1>2. ~(g < g)
  BY <1>1, AdministrationAssumption DEF Gate, AdministrationAssumption
<1>3. gates[g] = None
  BY <1>1, <1>2
<1> QED
  BY <1>1, <1>3, NoneAssumption DEF Gates, Defaults

\* Taking the flag from the others leaves the gates there are and their names.
LEMMA ClearedTyped ==
  ASSUME TypedInv, NEW g
  PROVE  /\ Cleared(gates, g) \in [Gate -> GateRow \union {None, Gone}]
         /\ \A h \in Gate : Cleared(gates, g)[h] \in GateRow <=> h \in Gates
         /\ \A h \in Gates : h # g => ~Cleared(gates, g)[h].default
         /\ \A h \in Gates : Cleared(gates, g)[h].name = gates[h].name
         /\ g \in Gates => Cleared(gates, g)[g] = gates[g]
<1>1. \A h \in Gates : /\ h \in Gate
                       /\ [gates[h] EXCEPT !.default = FALSE] \in GateRow
                       /\ [gates[h] EXCEPT !.default = FALSE].name = gates[h].name
                       /\ ~[gates[h] EXCEPT !.default = FALSE].default
  BY DEF TypedInv, Gates, GateRow
<1>2. \A h \in Gate : Cleared(gates, g)[h] =
                        IF h \in Gates /\ h # g THEN [gates[h] EXCEPT !.default = FALSE] ELSE gates[h]
  BY DEF Cleared
<1>3. Cleared(gates, g) \in [Gate -> GateRow \union {None, Gone}]
  BY <1>1 DEF TypedInv, Cleared, Gates
<1>4. \A h \in Gate : Cleared(gates, g)[h] \in GateRow <=> h \in Gates
  BY <1>1, <1>2 DEF Gates
<1> QED
  BY <1>1, <1>2, <1>3, <1>4

\* The id that stands for no gate is not one.
LEMMA NoGateNone == NoGate \notin Gate
  BY AdministrationAssumption DEF NoGate, Gate, AdministrationAssumption

-----------------------------------------------------------------------------
(* Gates: what a step makes of moves. *)

\* No move begins or ends otherwise than by lapsing, and no flag is set.
NoMove ==
  /\ mixed' = mixed
  /\ \A j \in Instance : Moving(j)' => Moving(j) /\ op'[j] = op[j]
  /\ \A j \in Instance : Seeding(j)' => Seeding(j)
  /\ Defaults' \subseteq Defaults

LEMMA FlagKept ==
  ASSUME FlagInv, NoMove
  PROVE  FlagInv'
<1> SUFFICES ASSUME ~mixed' PROVE FlagInv'
  BY DEF FlagInv
<1>1. ~mixed
  BY DEF NoMove
<1>2. \A g, h \in Defaults' : g = h
  BY <1>1 DEF FlagInv, NoMove
<1>3. \A i, j \in Instance : Moving(i)' /\ Moving(j)' => i = j
  BY <1>1 DEF FlagInv, NoMove
<1>4. \A i, j \in Instance : Seeding(i)' /\ Seeding(j)' => i = j
  BY <1>1 DEF FlagInv, NoMove
<1>5. \A i, j \in Instance : ~(Moving(i)' /\ Seeding(j)')
  BY <1>1 DEF FlagInv, NoMove
<1>6. \A i \in Instance : Seeding(i)' => Defaults' = {}
  BY <1>1 DEF FlagInv, NoMove
<1>7. \A i \in Instance : Moving(i)' /\ op'[i].do = "insert" => Defaults' = {}
  BY <1>1 DEF FlagInv, NoMove
<1>8. \A i \in Instance : Moving(i)' /\ op'[i].do = "default" => Defaults' \subseteq {op'[i].gate}
  BY <1>1 DEF FlagInv, NoMove
<1> QED
  BY <1>2, <1>3, <1>4, <1>5, <1>6, <1>7, <1>8 DEF FlagInv

\* Where the default gate is stays known.
LEMMA LapsedKept ==
  ASSUME LapsedInv, lapsed => lapsed',
         Defaults # {} => Defaults' # {} \/ lapsed',
         \A j \in Instance : Moving(j) => Moving(j)' \/ lapsed' \/ Defaults' # {},
         Unseeded => Unseeded' \/ lapsed' \/ Defaults' # {}
  PROVE  LapsedInv'
  BY DEF LapsedInv

\* A step of one handler that has nothing to do with a flag.
LEMMA PlainStep ==
  ASSUME GatePart, NEW i \in Instance, ~Moving(i), ~Moving(i)',
         \A j \in Instance : j # i => op'[j] = op[j],
         UNCHANGED <<boot, mixed, instances>>, lapsed => lapsed',
         Defaults' \subseteq Defaults, Defaults # {} => Defaults' # {} \/ lapsed',
         TypedInv', NamesInv'
  PROVE  GatePart'
<1>1. \A j \in Instance : /\ Moving(j)' => Moving(j) /\ op'[j] = op[j]
                          /\ Moving(j) => Moving(j)'
  BY DEF Moving
<1>2. (\A j \in Instance : Seeding(j)' => Seeding(j)) /\ (Unseeded => Unseeded')
  BY DEF Seeding, Unseeded
<1>3. FlagInv'
  BY <1>1, <1>2, FlagKept DEF NoMove, GatePart
<1>4. LapsedInv'
  BY <1>1, <1>2, LapsedKept DEF GatePart
<1> QED
  BY <1>3, <1>4 DEF GatePart

\* A step that leaves the gates alone.
LEMMA GatesAlone ==
  ASSUME GatePart, NEW i \in Instance, ~Moving(i), ~Moving(i)',
         \A j \in Instance : j # i => op'[j] = op[j],
         UNCHANGED <<boot, mixed, instances, gates, lapsed>>, catalog' \subseteq Code
  PROVE  GatePart'
<1>1. TypedInv' /\ NamesInv' /\ Defaults' = Defaults
  BY DEF GatePart, TypedInv, NamesInv, Gates, Defaults
<1> QED
  BY <1>1, PlainStep

\* A step that changes a row in neither flag nor name.
LEMMA GateChanged ==
  ASSUME GatePart, NEW i \in Instance, ~Moving(i), ~Moving(i)',
         \A j \in Instance : j # i => op'[j] = op[j],
         UNCHANGED <<boot, mixed, instances, catalog, lapsed>>,
         gates' \in [Gate -> GateRow \union {None, Gone}], NamesInv', Defaults' = Defaults
  PROVE  GatePart'
<1>1. TypedInv'
  BY DEF GatePart, TypedInv
<1> QED
  BY <1>1, PlainStep

\* Without a move under way there is no mover.
LEMMA NoMoves ==
  ASSUME Moves = {}
  PROVE  \A j \in Instance : ~Moving(j) /\ ~Seeding(j)
<1>1. ASSUME NEW j \in Instance, Moving(j) PROVE FALSE
  <2>1. <<j, "request">> \in Moves
    BY <1>1 DEF Moves
  <2> QED
    BY <2>1
<1>2. ASSUME NEW j \in Instance, Seeding(j) PROVE FALSE
  <2>1. <<j, "start">> \in Moves
    BY <1>2 DEF Moves
  <2> QED
    BY <2>1
<1> QED
  BY <1>1, <1>2

-----------------------------------------------------------------------------
(* The actions on gates. *)

\* The flag is taken from the others, for a handler that is to set it.
LEMMA MoveBegun ==
  ASSUME GatePart, NEW i \in Instance, ~Moving(i), Moving(i)',
         \A j \in Instance : j # i => op'[j] = op[j],
         UNCHANGED boot, BeginMove, TypedInv', NamesInv',
         op'[i].do = "insert" => Defaults' = {},
         op'[i].do = "default" => Defaults' \subseteq {op'[i].gate}
  PROVE  GatePart'
<1>1. LapsedInv'
  BY DEF LapsedInv
<1>2. FlagInv'
  <2> SUFFICES ASSUME ~mixed' PROVE FlagInv'
    BY DEF FlagInv
  <2>1. Moves = {}
    BY DEF BeginMove
  <2>2. \A j \in Instance : ~Moving(j) /\ ~Seeding(j)
    BY <2>1, NoMoves
  <2>3. \A j \in Instance : ~Seeding(j)'
    BY <2>2 DEF Seeding
  <2>4. \A j \in Instance : j # i => ~Moving(j)'
    BY <2>2 DEF Moving
  <2>5. op'[i].do \in {"insert", "default"}
    BY DEF Moving
  <2>6. \A g, h \in Defaults' : g = h
    BY <2>5
  <2> QED
    BY <2>3, <2>4, <2>6 DEF FlagInv
<1> QED
  BY <1>1, <1>2 DEF GatePart

LEMMA CreateGateInv ==
  ASSUME ServerInv, GatePart, NEW i \in Instance, NEW n \in GateName, NEW d \in BOOLEAN,
         NEW R \in SUBSET Code, CreateGate(i, n, d, R)
  PROVE  ServerInv' /\ GatePart'
<1> DEFINE o == [do |-> "insert", name |-> n, default |-> d, rules |-> R]
<1>1. o \in Handler /\ o.do = "insert" /\ (o.default <=> d)
  BY DEF Handler
<1>2. Begin(i, o) /\ UNCHANGED <<boot, lapsed, catalog>>
  BY DEF CreateGate
<1> HIDE DEF o
<1>3. /\ ServerInv' /\ op[i].do = "nothing" /\ op'[i] = o
      /\ \A j \in Instance : j # i => op'[j] = op[j]
      /\ instances' = instances
  BY <1>1, <1>2, Began
<1>4. ~Moving(i) /\ (Moving(i)' <=> d)
  BY <1>1, <1>3 DEF Moving
<1>5. CASE d
  <2>1. gates' = Cleared(gates, NoGate) /\ BeginMove
    BY <1>5 DEF CreateGate
  <2>2. TypedInv /\ NamesInv
    BY DEF GatePart
  <2>3. gates' \in [Gate -> GateRow \union {None, Gone}] /\ Gates' = Gates
    BY <2>1, <2>2, ClearedTyped DEF Gates
  <2>4. \A h \in Gates : ~gates'[h].default /\ gates'[h].name = gates[h].name
    <3>1. \A h \in Gates : h # NoGate
      BY NoGateNone DEF Gates
    <3> QED
      BY <2>1, <2>2, <3>1, ClearedTyped
  <2>5. TypedInv'
    BY <1>2, <2>1, <2>2, <2>3 DEF TypedInv, BeginMove
  <2>6. NamesInv' /\ Defaults' = {}
    BY <2>2, <2>3, <2>4 DEF NamesInv, Defaults
  <2> QED
    BY <1>1, <1>2, <1>3, <1>4, <1>5, <2>1, <2>5, <2>6, MoveBegun
<1>6. CASE ~d
  <2>1. UNCHANGED <<gates, mixed>>
    BY <1>6 DEF CreateGate
  <2>2. catalog' \subseteq Code
    BY <1>2 DEF GatePart, TypedInv
  <2> QED
    BY <1>2, <1>3, <1>4, <1>6, <2>1, <2>2, GatesAlone
<1> QED
  BY <1>5, <1>6

LEMMA InsertGateInv ==
  ASSUME ServerInv, GatePart, NEW i \in Instance, InsertGate(i)
  PROVE  ServerInv' /\ GatePart'
<1>1. op[i].do = "insert" /\ op[i] \in Handler /\ Named(op[i].name) = {}
  BY DEF InsertGate, ServerInv
<1> DEFINE n == op[i].name
           d == op[i].default
<1>2. n \in GateName /\ d \in BOOLEAN /\ op[i].rules \in SUBSET Code
  BY <1>1, Fields
<1>3. PICK g \in NewGate :
        /\ gates' = [gates EXCEPT ![g] = NewRow(n, d, {})]
        /\ Then(i, IF op[i].rules = {} THEN NoOp
                   ELSE [do |-> "rules", gate |-> g, rules |-> op[i].rules])
  BY DEF InsertGate
<1>4. g \in Gate /\ g \notin Gates /\ g \notin Defaults
  BY NewGateFresh DEF GatePart
<1>5. PICK o : /\ o = IF op[i].rules = {} THEN NoOp
                      ELSE [do |-> "rules", gate |-> g, rules |-> op[i].rules]
  OBVIOUS
<1>6. o \in Handler /\ o.do \in {"nothing", "rules"} /\ Then(i, o)
  BY <1>2, <1>3, <1>4, <1>5, NothingToDo DEF Handler
<1>7. UNCHANGED <<boot, mixed, catalog>> /\ lapsed' = (lapsed /\ ~d)
  BY DEF InsertGate
<1>8. /\ ServerInv' /\ op'[i] = o /\ \A j \in Instance : j # i => op'[j] = op[j]
      /\ instances' = instances
  BY <1>1, <1>6, <1>7, WentOn
<1>9. NewRow(n, d, {}) \in GateRow /\ NewRow(n, d, {}).default = d /\ NewRow(n, d, {}).name = n
  BY <1>2, NewRowTyped
<1> DEFINE row == NewRow(n, d, {})
<1> HIDE DEF row
<1>10. row \in GateRow /\ row.default = d /\ row.name = n /\ gates' = [gates EXCEPT ![g] = row]
  BY <1>3, <1>9 DEF row
<1>11. TypedInv /\ NamesInv /\ gates \in [Gate -> GateRow \union {None, Gone}]
  BY DEF GatePart, TypedInv
<1>12. /\ gates' \in [Gate -> GateRow \union {None, Gone}]
       /\ d => Defaults' = Defaults \union {g}
       /\ ~d => Defaults' = Defaults \ {g}
  BY <1>4, <1>10, <1>11, RowSet
<1>13. NamesInv'
  <2>1. Named(row.name) \subseteq {g}
    BY <1>1, <1>10
  <2> QED
    BY <1>4, <1>10, <1>11, <2>1, RowNamed
<1>14. TypedInv'
  <2>1. lapsed' \in BOOLEAN
    BY <1>7
  <2> QED
    BY <1>7, <1>11, <1>12, <2>1 DEF TypedInv
<1>15. ~Moving(i)' /\ (Moving(i) <=> d)
  BY <1>1, <1>6, <1>8 DEF Moving
<1>16. CASE ~d
  <2>1. Defaults' = Defaults
    BY <1>4, <1>12, <1>16
  <2>2. lapsed => lapsed'
    BY <1>7, <1>16
  <2> QED
    BY <1>7, <1>8, <1>13, <1>14, <1>15, <1>16, <2>1, <2>2, PlainStep
<1>17. CASE d
  <2>1. Defaults' = Defaults \union {g}
    BY <1>12, <1>17
  <2>2. LapsedInv'
    BY <2>1 DEF LapsedInv
  <2>3. FlagInv'
    <3> SUFFICES ASSUME ~mixed' PROVE FlagInv'
      BY DEF FlagInv
    <3>1. ~mixed
      BY <1>7
    <3>2. Moving(i) /\ Defaults = {}
      BY <1>1, <1>15, <1>17, <3>1 DEF GatePart, FlagInv
    <3>3. Defaults' = {g}
      BY <2>1, <3>2
    <3>4. \A j \in Instance : ~Moving(j)'
      <4>1. \A j \in Instance : j # i => ~Moving(j)
        BY <3>1, <3>2 DEF GatePart, FlagInv
      <4> QED
        BY <1>8, <1>15, <4>1 DEF Moving
    <3>5. \A j \in Instance : ~Seeding(j)'
      <4>1. \A j \in Instance : ~Seeding(j)
        BY <3>1, <3>2 DEF GatePart, FlagInv
      <4> QED
        BY <1>7, <4>1 DEF Seeding
    <3> QED
      BY <3>3, <3>4, <3>5 DEF FlagInv
  <2> QED
    BY <1>8, <1>13, <1>14, <2>2, <2>3 DEF GatePart
<1>18. d \in BOOLEAN
  BY <1>2
<1> QED
  BY <1>16, <1>17

LEMMA SetRulesInv ==
  ASSUME ServerInv, GatePart, NEW i \in Instance, SetRules(i)
  PROVE  ServerInv' /\ GatePart'
<1>1. op[i].do = "rules" /\ op[i].gate \in Gates /\ op[i].rules \in SUBSET Code
  BY Fields DEF SetRules, ServerInv
<1>2. Then(i, NoOp) /\ UNCHANGED <<boot, mixed, lapsed, catalog>>
  BY DEF SetRules
<1>3. /\ ServerInv' /\ op'[i] = NoOp /\ \A j \in Instance : j # i => op'[j] = op[j]
      /\ instances' = instances
  BY <1>1, <1>2, WentOn, NothingToDo
<1>4. ~Moving(i) /\ ~Moving(i)'
  BY <1>1, <1>3, NothingToDo DEF Moving
<1>5. gates' \in [Gate -> GateRow \union {None, Gone}] /\ NamesInv' /\ Defaults' = Defaults
  BY <1>1, RulesChanged DEF SetRules, GatePart
<1> QED
  BY <1>2, <1>3, <1>4, <1>5, GateChanged

LEMMA MakeDefaultInv ==
  ASSUME ServerInv, GatePart, NEW i \in Instance, NEW g \in Gate, NEW n \in GateName,
         NEW R \in SUBSET Code, MakeDefault(i, g, n, R)
  PROVE  ServerInv' /\ GatePart'
<1> DEFINE o == [do |-> "default", gate |-> g, rules |-> R]
<1>1. o \in Handler /\ o.do = "default" /\ o.gate = g
  BY DEF Handler
<1>2. /\ Begin(i, o) /\ UNCHANGED <<boot, lapsed, catalog>> /\ BeginMove
      /\ g \in Gates /\ Named(n) \subseteq {g}
  BY DEF MakeDefault
<1> HIDE DEF o
<1>3. /\ ServerInv' /\ op[i].do = "nothing" /\ op'[i] = o
      /\ \A j \in Instance : j # i => op'[j] = op[j]
  BY <1>1, <1>2, Began
<1>4. ~Moving(i) /\ Moving(i)'
  BY <1>1, <1>3 DEF Moving
<1> DEFINE cleared == Cleared(gates, g)
<1>5. /\ cleared \in [Gate -> GateRow \union {None, Gone}]
      /\ \A h \in Gate : cleared[h] \in GateRow <=> h \in Gates
      /\ \A h \in Gates : h # g => ~cleared[h].default
      /\ \A h \in Gates : cleared[h].name = gates[h].name
  BY ClearedTyped DEF GatePart
<1>6. cleared[g] \in GateRow
  BY <1>2, <1>5
<1>7. [cleared[g] EXCEPT !.name = n] \in GateRow /\ [cleared[g] EXCEPT !.name = n].name = n
  BY <1>6 DEF GateRow
<1>8. gates' = [cleared EXCEPT ![g] = [cleared[g] EXCEPT !.name = n]]
  BY DEF MakeDefault
<1> HIDE DEF cleared
<1>9. /\ gates' \in [Gate -> GateRow \union {None, Gone}]
      /\ gates'[g] \in GateRow /\ gates'[g].name = n
      /\ \A h \in Gate : h # g => gates'[h] = cleared[h]
  BY <1>5, <1>7, <1>8
<1>10. Gates' = Gates
  BY <1>2, <1>5, <1>9 DEF Gates
<1>11. Defaults' \subseteq {g}
  BY <1>5, <1>9, <1>10 DEF Defaults, Gates
<1>12. TypedInv'
  BY <1>2, <1>9 DEF GatePart, TypedInv, BeginMove
<1>13. NamesInv'
  <2>1. \A h \in Gates : h \in Gate /\ (gates[h].name = n => h = g)
    BY <1>2 DEF Named, Gates
  <2>2. \A h \in Gates : h # g => gates'[h].name = gates[h].name
    BY <1>5, <1>9, <2>1
  <2> QED
    BY <1>9, <1>10, <2>1, <2>2 DEF GatePart, NamesInv
<1> QED
  BY <1>1, <1>2, <1>3, <1>4, <1>11, <1>12, <1>13, MoveBegun

LEMMA FinishDefaultInv ==
  ASSUME ServerInv, GatePart, NEW i \in Instance, FinishDefault(i)
  PROVE  ServerInv' /\ GatePart'
<1>1. op[i].do = "default" /\ op[i].gate \in Gates /\ op[i].rules \in SUBSET Code
  BY Fields DEF FinishDefault, ServerInv
<1>2. PICK g : g = op[i].gate
  OBVIOUS
<1>3. g \in Gate /\ gates[g] \in GateRow /\ g \in Gates
  BY <1>1, <1>2 DEF Gates
<1>4. Then(i, NoOp) /\ UNCHANGED <<boot, mixed, catalog>> /\ lapsed' = FALSE
  BY DEF FinishDefault
<1>5. ServerInv' /\ op'[i] = NoOp /\ \A j \in Instance : j # i => op'[j] = op[j]
  BY <1>1, <1>4, WentOn, NothingToDo
<1> DEFINE row == [gates[g] EXCEPT !.default = TRUE, !.rules = op[i].rules]
<1>6. row \in GateRow /\ row.default /\ row.name = gates[g].name
  BY <1>1, <1>3 DEF GateRow
<1>7. gates \in [Gate -> GateRow \union {None, Gone}] /\ NamesInv
  BY DEF GatePart, TypedInv
<1>8. gates' = [gates EXCEPT ![g] = row]
  BY <1>2, <1>3, <1>7 DEF FinishDefault
<1> HIDE DEF row
<1>9. gates' \in [Gate -> GateRow \union {None, Gone}] /\ Defaults' = Defaults \union {g}
  BY <1>3, <1>6, <1>7, <1>8, RowSet
<1>10. NamesInv'
  <2>1. Named(row.name) \subseteq {g}
    BY <1>3, <1>6, <1>7, OwnName
  <2> QED
    BY <1>3, <1>6, <1>7, <1>8, <2>1, RowNamed
<1>11. TypedInv'
  BY <1>4, <1>9 DEF GatePart, TypedInv
<1>12. LapsedInv'
  BY <1>9 DEF LapsedInv
<1>13. FlagInv'
  <2> SUFFICES ASSUME ~mixed' PROVE FlagInv'
    BY DEF FlagInv
  <2>1. ~mixed /\ Moving(i)
    BY <1>1, <1>4 DEF Moving
  <2>2. Defaults \subseteq {g}
    BY <1>1, <1>2, <2>1 DEF GatePart, FlagInv
  <2>3. Defaults' = {g}
    BY <1>9, <2>2
  <2>4. \A j \in Instance : ~Moving(j)'
    <3>1. \A j \in Instance : j # i => ~Moving(j)
      BY <2>1 DEF GatePart, FlagInv
    <3> QED
      BY <1>5, <3>1, NothingToDo DEF Moving
  <2>5. \A j \in Instance : ~Seeding(j)'
    <3>1. \A j \in Instance : ~Seeding(j)
      BY <2>1 DEF GatePart, FlagInv
    <3> QED
      BY <1>4, <3>1 DEF Seeding
  <2> QED
    BY <2>3, <2>4, <2>5 DEF FlagInv
<1> QED
  BY <1>5, <1>10, <1>11, <1>12, <1>13 DEF GatePart

LEMMA UpdateGateInv ==
  ASSUME ServerInv, GatePart, NEW i \in Instance, NEW g \in Gate, NEW n \in GateName,
         NEW unset \in BOOLEAN, NEW R \in SUBSET Code, UpdateGate(i, g, n, unset, R)
  PROVE  ServerInv' /\ GatePart'
<1>1. /\ Begin(i, NoOp) /\ UNCHANGED <<boot, mixed, catalog>>
      /\ g \in Gates /\ Named(n) \subseteq {g}
      /\ lapsed' = (lapsed \/ (unset /\ Defaults = {g}))
  BY DEF UpdateGate
<1>2. /\ ServerInv' /\ op[i].do = "nothing" /\ op'[i] = NoOp
      /\ \A j \in Instance : j # i => op'[j] = op[j]
      /\ instances' = instances
  BY <1>1, Began, NothingToDo
<1>3. ~Moving(i) /\ ~Moving(i)'
  BY <1>2, NothingToDo DEF Moving
<1>4. gates[g] \in GateRow
  BY <1>1 DEF Gates
<1> DEFINE row == [gates[g] EXCEPT !.name = n, !.rules = R, !.default = @ /\ ~unset]
<1>5. row \in GateRow /\ (row.default <=> gates[g].default /\ ~unset) /\ row.name = n
  BY <1>4 DEF GateRow
<1>6. gates \in [Gate -> GateRow \union {None, Gone}] /\ NamesInv
  BY DEF GatePart, TypedInv
<1>7. gates' = [gates EXCEPT ![g] = row]
  BY <1>6 DEF UpdateGate
<1> HIDE DEF row
<1>8. /\ gates' \in [Gate -> GateRow \union {None, Gone}]
      /\ row.default => Defaults' = Defaults \union {g}
      /\ ~row.default => Defaults' = Defaults \ {g}
  BY <1>5, <1>6, <1>7, RowSet
<1>9. NamesInv'
  BY <1>1, <1>5, <1>6, <1>7, RowNamed
<1>10. TypedInv'
  <2>1. lapsed' \in BOOLEAN
    BY <1>1
  <2> QED
    BY <1>1, <1>8, <2>1 DEF GatePart, TypedInv
<1>11. g \in Defaults <=> gates[g].default
  BY <1>1 DEF Defaults
<1>12. CASE row.default
  <2>1. Defaults' = Defaults
    BY <1>5, <1>8, <1>11, <1>12
  <2> QED
    BY <1>1, <1>2, <1>3, <1>9, <1>10, <2>1, PlainStep
<1>13. CASE ~row.default
  <2>1. Defaults' = Defaults \ {g}
    BY <1>8, <1>13
  <2>2. Defaults # {} => Defaults' # {} \/ lapsed'
    <3>1. SUFFICES ASSUME Defaults # {}, Defaults' = {} PROVE lapsed'
      OBVIOUS
    <3>2. Defaults = {g} /\ g \in Defaults
      BY <2>1, <3>1
    <3>3. unset
      BY <1>5, <1>11, <1>13, <3>2
    <3> QED
      BY <1>1, <3>2, <3>3
  <2> QED
    BY <1>1, <1>2, <1>3, <1>9, <1>10, <2>1, <2>2, PlainStep
<1> QED
  BY <1>12, <1>13

LEMMA DeleteGateInv ==
  ASSUME ServerInv, GatePart, NEW i \in Instance, NEW g \in Gate, DeleteGate(i, g)
  PROVE  ServerInv' /\ GatePart'
<1> DEFINE o == [do |-> "delete", gate |-> g, seen |-> gates[g]]
<1>1. gates[g] \in GateRow /\ ~gates[g].default
  BY DEF DeleteGate, Deletable, Gates
<1>2. o \in Handler /\ o.do = "delete" /\ ~o.seen.default
  BY <1>1 DEF Handler
<1>3. Begin(i, o) /\ UNCHANGED <<boot, gates, mixed, lapsed, catalog>>
  BY DEF DeleteGate, gateVars
<1> HIDE DEF o
<1>4. /\ ServerInv' /\ op[i].do = "nothing" /\ op'[i] = o
      /\ \A j \in Instance : j # i => op'[j] = op[j]
      /\ instances' = instances
  BY <1>2, <1>3, Began
<1>5. ~Moving(i) /\ ~Moving(i)'
  BY <1>2, <1>4 DEF Moving
<1> QED
  BY <1>3, <1>4, <1>5, GatesAlone DEF GatePart, TypedInv

LEMMA FinishDeleteInv ==
  ASSUME ServerInv, GatePart, NEW i \in Instance, FinishDelete(i)
  PROVE  ServerInv' /\ GatePart'
<1>1. op[i].do = "delete" /\ op[i].gate \in Gates /\ ~op[i].seen.default
  BY DEF FinishDelete, ServerInv
<1>2. PICK g : g = op[i].gate
  OBVIOUS
<1>3. /\ Then(i, NoOp) /\ UNCHANGED <<boot, mixed, catalog>>
      /\ gates' = [gates EXCEPT ![g] = IF sqlite THEN None ELSE Gone]
      /\ lapsed' = (lapsed \/ Defaults = {g})
  BY <1>1, <1>2 DEF FinishDelete
<1>4. /\ ServerInv' /\ op'[i] = NoOp /\ \A j \in Instance : j # i => op'[j] = op[j]
      /\ instances' = instances
  BY <1>1, <1>3, WentOn, NothingToDo
<1>5. ~Moving(i) /\ ~Moving(i)'
  BY <1>1, <1>4, NothingToDo DEF Moving
<1>6. g \in Gate /\ gates \in [Gate -> GateRow \union {None, Gone}]
  BY <1>1, <1>2 DEF Gates, GatePart, TypedInv
<1>7. /\ gates' \in [Gate -> GateRow \union {None, Gone}]
      /\ gates'[g] \notin GateRow /\ \A h \in Gate : h # g => gates'[h] = gates[h]
  BY <1>3, <1>6, NoneAssumption
<1>8. Gates' = Gates \ {g}
  BY <1>7 DEF Gates
<1>9. Defaults' = Defaults \ {g}
  BY <1>7, <1>8 DEF Defaults, Gates
<1>10. TypedInv'
  <2>1. lapsed' \in BOOLEAN
    BY <1>3
  <2> QED
    BY <1>3, <1>7, <2>1 DEF GatePart, TypedInv
<1>11. NamesInv'
  <2>1. \A h \in Gates' : h \in Gates /\ gates'[h] = gates[h]
    BY <1>7, <1>8 DEF Gates
  <2> QED
    BY <2>1 DEF GatePart, NamesInv
<1>12. Defaults # {} => Defaults' # {} \/ lapsed'
  <2> SUFFICES ASSUME Defaults # {}, Defaults' = {} PROVE lapsed'
    OBVIOUS
  <2>1. Defaults = {g}
    BY <1>9
  <2> QED
    BY <1>3, <2>1
<1> QED
  BY <1>3, <1>4, <1>5, <1>9, <1>10, <1>11, <1>12, PlainStep

LEMMA AddConditionInv ==
  ASSUME ServerInv, GatePart, NEW i \in Instance, NEW g \in Gate, AddCondition(i, g)
  PROVE  ServerInv' /\ GatePart'
<1>1. Begin(i, NoOp) /\ g \in Gates /\ UNCHANGED <<boot, mixed, lapsed, catalog>>
  BY DEF AddCondition
<1>2. /\ ServerInv' /\ op[i].do = "nothing" /\ op'[i] = NoOp
      /\ \A j \in Instance : j # i => op'[j] = op[j]
      /\ instances' = instances
  BY <1>1, Began, NothingToDo
<1>3. ~Moving(i) /\ ~Moving(i)'
  BY <1>2, NothingToDo DEF Moving
<1> DEFINE row == [gates[g] EXCEPT !.conditions = TRUE]
<1>4. gates[g] \in GateRow
  BY <1>1 DEF Gates
<1>5. row \in GateRow /\ row.name = gates[g].name /\ row.default = gates[g].default
  BY <1>4 DEF GateRow
<1>6. gates' = [gates EXCEPT ![g] = row]
  BY DEF AddCondition, GatePart, TypedInv
<1> HIDE DEF row
<1>7. gates' \in [Gate -> GateRow \union {None, Gone}] /\ NamesInv' /\ Defaults' = Defaults
  BY <1>1, <1>5, <1>6, RowChanged DEF GatePart
<1> QED
  BY <1>1, <1>2, <1>3, <1>7, GateChanged

LEMMA SyncWarningsInv ==
  ASSUME ServerInv, GatePart, NEW i \in Instance, NEW C \in SUBSET Code, SyncWarnings(i, C)
  PROVE  ServerInv' /\ GatePart'
<1> DEFINE o == [do |-> "sync"]
<1>1. o \in Handler /\ o.do = "sync"
  BY NothingToDo
<1>2. Begin(i, o) /\ UNCHANGED <<boot, gates, mixed, lapsed>>
  BY DEF SyncWarnings, gateVars
<1> HIDE DEF o
<1>3. /\ ServerInv' /\ op[i].do = "nothing" /\ op'[i] = o
      /\ \A j \in Instance : j # i => op'[j] = op[j]
      /\ instances' = instances
  BY <1>1, <1>2, Began
<1>4. ~Moving(i) /\ ~Moving(i)'
  BY <1>1, <1>3 DEF Moving
<1>5. catalog' \subseteq Code
  BY DEF SyncWarnings, Imported, GatePart, TypedInv
<1> QED
  BY <1>2, <1>3, <1>4, <1>5, GatesAlone

LEMMA SyncRulesInv ==
  ASSUME ServerInv, GatePart, NEW i \in Instance, SyncRules(i)
  PROVE  ServerInv' /\ GatePart'
<1>1. op[i].do = "sync" /\ Then(i, NoOp) /\ UNCHANGED <<boot, mixed, lapsed, catalog>>
  BY DEF SyncRules
<1>2. /\ ServerInv' /\ op'[i] = NoOp /\ \A j \in Instance : j # i => op'[j] = op[j]
      /\ instances' = instances
  BY <1>1, WentOn, NothingToDo
<1>3. ~Moving(i) /\ ~Moving(i)'
  BY <1>1, <1>2, NothingToDo DEF Moving
<1>4. TypedInv /\ NamesInv /\ catalog' \subseteq Code
  BY <1>1 DEF GatePart, TypedInv
<1>5. CASE UNCHANGED gates
  BY <1>1, <1>2, <1>3, <1>4, <1>5, GatesAlone
<1>6. CASE \E g \in Defaults : gates' = Populated(g)
  <2>1. PICK g \in Gates : gates' = Populated(g)
    BY <1>6 DEF Defaults
  <2>2. gates' \in [Gate -> GateRow \union {None, Gone}] /\ NamesInv' /\ Defaults' = Defaults
    BY <1>4, <2>1, PopulatedGate
  <2> QED
    BY <1>1, <1>2, <1>3, <2>2, GateChanged
<1> QED
  BY <1>5, <1>6 DEF SyncRules

\* A handler is cut short: whoever was to set a flag leaves it, noted if there is none.
LEMMA Dropped ==
  ASSUME GatePart, NEW i \in Instance, ~Moving(i)',
         \A j \in Instance : j # i => op'[j] = op[j],
         UNCHANGED <<mixed, instances, gates, catalog>>,
         \A j \in Instance : Seeding(j)' => Seeding(j), Unseeded => Unseeded',
         lapsed' = (lapsed \/ (Moving(i) /\ Defaults = {}))
  PROVE  GatePart'
<1>1. TypedInv' /\ NamesInv' /\ Defaults' = Defaults
  <2>1. lapsed' \in BOOLEAN
    OBVIOUS
  <2> QED
    BY <2>1 DEF GatePart, TypedInv, NamesInv, Gates, Defaults
<1>2. \A j \in Instance : /\ Moving(j)' => Moving(j) /\ op'[j] = op[j]
                          /\ j # i /\ Moving(j) => Moving(j)'
  BY DEF Moving
<1>3. FlagInv'
  BY <1>1, <1>2, FlagKept DEF NoMove, GatePart
<1>4. \A j \in Instance : Moving(j) => Moving(j)' \/ lapsed' \/ Defaults' # {}
  BY <1>1, <1>2
<1>5. LapsedInv'
  BY <1>1, <1>4, LapsedKept DEF GatePart
<1> QED
  BY <1>1, <1>3, <1>5 DEF GatePart

LEMMA RefusedInv ==
  ASSUME ServerInv, GatePart, NEW i \in Instance, Refused(i)
  PROVE  ServerInv' /\ GatePart'
<1>1. /\ op[i].do # "nothing" /\ Then(i, NoOp)
      /\ UNCHANGED <<boot, gates, mixed, catalog>>
      /\ lapsed' = (lapsed \/ (Moving(i) /\ Defaults = {}))
  BY DEF Refused, Lost
<1>2. /\ ServerInv' /\ op'[i] = NoOp /\ \A j \in Instance : j # i => op'[j] = op[j]
      /\ instances' = instances
  BY <1>1, WentOn, NothingToDo
<1>3. ~Moving(i)'
  BY <1>2, NothingToDo DEF Moving
<1>4. (\A j \in Instance : Seeding(j)' => Seeding(j)) /\ (Unseeded => Unseeded')
  BY <1>1, <1>2 DEF Seeding, Unseeded
<1> QED
  BY <1>1, <1>2, <1>3, <1>4, Dropped

-----------------------------------------------------------------------------
(* The start of a server. *)

LEMMA CrashInv ==
  ASSUME ServerInv, GatePart, NEW i \in Instance, Crash(i)
  PROVE  ServerInv' /\ GatePart'
<1>1. /\ i \in instances /\ op' = [op EXCEPT ![i] = NoOp]
      /\ boot' = [boot EXCEPT ![i] = At("migrated")]
      /\ UNCHANGED <<deployment, gates, mixed, catalog>>
      /\ lapsed' = (lapsed \/ (Moving(i) /\ Defaults = {}))
  BY DEF Crash
<1>2. At("migrated") \in Start /\ At("migrated").at = "migrated"
  BY DEF At, Start
<1>3. boot' \in [Instance -> Start]
  BY <1>1, <1>2 DEF ServerInv
<1>4. ServerInv' /\ op'[i] = NoOp /\ \A j \in Instance : j # i => op'[j] = op[j]
  BY <1>1, <1>3, OpStep, NothingToDo
<1>5. boot'[i].at = "migrated" /\ \A j \in Instance : j # i => boot'[j] = boot[j]
  BY <1>1, <1>2 DEF ServerInv
<1>6. ~Moving(i)'
  BY <1>4, NothingToDo DEF Moving
<1>7. \A j \in Instance : Seeding(j)' => Seeding(j)
  BY <1>5 DEF Seeding
<1>8. Unseeded => Unseeded'
  BY <1>1, <1>5 DEF Unseeded, ServerInv, deployment
<1> QED
  BY <1>1, <1>4, <1>6, <1>7, <1>8, Dropped DEF deployment

\* The start of one instance goes on.
LEMMA Booted ==
  ASSUME ServerInv, NEW i \in Instance, NEW from, NEW to \in Start, Boot(i, from, to),
         UNCHANGED Outside
  PROVE  /\ ServerInv' /\ i \in instances /\ boot[i].at = from
         /\ boot'[i] = to /\ \A j \in Instance : j # i => boot'[j] = boot[j]
         /\ UNCHANGED <<op, instances>>
         /\ \A j \in Instance : Moving(j)' <=> Moving(j)
<1>1. /\ i \in instances /\ boot[i].at = from /\ boot' = [boot EXCEPT ![i] = to]
      /\ UNCHANGED <<op, deployment>>
  BY DEF Boot, Outside
<1>2. boot' \in [Instance -> Start]
  BY <1>1 DEF ServerInv
<1>3. boot'[i] = to /\ \A j \in Instance : j # i => boot'[j] = boot[j]
  BY <1>1 DEF ServerInv
<1>4. ServerInv'
  BY <1>1, <1>2 DEF ServerInv, deployment
<1> QED
  BY <1>1, <1>3, <1>4 DEF Moving, deployment

\* A start goes on where no flag is concerned.
LEMMA PlainBoot ==
  ASSUME ServerInv, GatePart, NEW i \in Instance, boot[i].at # "insert", boot'[i].at # "insert",
         \A j \in Instance : j # i => boot'[j] = boot[j],
         UNCHANGED <<op, instances, mixed>>, lapsed => lapsed',
         \A j \in Instance : Moving(j)' <=> Moving(j),
         Defaults' = Defaults, TypedInv', NamesInv',
         boot'[i].at = "loaded" \/ boot[i].at \notin {"migrated", "loaded"}
           \/ Defaults # {} \/ lapsed', i \in instances
  PROVE  GatePart'
<1>1. \A j \in Instance : Seeding(j)' => Seeding(j)
  BY DEF Seeding
<1>2. FlagInv'
  BY <1>1, FlagKept DEF NoMove, GatePart
<1>3. CASE boot'[i].at = "loaded"
  <2>1. Unseeded => Unseeded'
    <3> SUFFICES ASSUME Unseeded, NEW j \in instances
                 PROVE  boot'[j].at \in {"migrated", "loaded", "insert"}
      BY DEF Unseeded
    <3>1. j \in Instance
      BY DEF ServerInv
    <3> QED
      BY <1>3, <3>1 DEF Unseeded
  <2> QED
    BY <1>2, <2>1, LapsedKept DEF GatePart
<1>4. CASE boot[i].at \notin {"migrated", "loaded"}
  <2>1. ~Unseeded
    BY <1>4 DEF Unseeded
  <2> QED
    BY <1>2, <2>1, LapsedKept DEF GatePart
<1>5. CASE Defaults # {} \/ lapsed'
  BY <1>2, <1>5, LapsedKept DEF GatePart
<1> QED
  BY <1>3, <1>4, <1>5

LEMMA AtStart ==
  ASSUME NEW stage \in {"migrated", "loaded", "insert", "seeded", "ready"}
  PROVE  At(stage) \in Start /\ At(stage).at = stage
  BY DEF At, Start

LEMMA LoadCatalogInv ==
  ASSUME ServerInv, GatePart, NEW i \in Instance, NEW C \in SUBSET Code, LoadCatalog(i, C)
  PROVE  ServerInv' /\ GatePart'
<1>1. /\ Boot(i, "migrated", At("loaded")) /\ UNCHANGED Outside
      /\ UNCHANGED <<gates, mixed, lapsed>> /\ catalog' \subseteq Code
  BY DEF LoadCatalog, gateVars, GatePart, TypedInv
<1>2. /\ ServerInv' /\ i \in instances /\ boot[i].at = "migrated" /\ boot'[i].at = "loaded"
      /\ \A j \in Instance : j # i => boot'[j] = boot[j]
      /\ UNCHANGED <<op, instances>> /\ \A j \in Instance : Moving(j)' <=> Moving(j)
  BY <1>1, AtStart, Booted
<1>3. TypedInv' /\ NamesInv' /\ Defaults' = Defaults
  BY <1>1 DEF GatePart, TypedInv, NamesInv, Gates, Defaults
<1> QED
  BY <1>1, <1>2, <1>3, PlainBoot

LEMMA SyncGroupsInv ==
  ASSUME ServerInv, GatePart, NEW i \in Instance, SyncGroups(i)
  PROVE  ServerInv' /\ GatePart'
<1>1. /\ Boot(i, "seeded", At("ready")) /\ UNCHANGED Outside
      /\ UNCHANGED <<gates, mixed, lapsed, catalog>>
  BY DEF SyncGroups, gateVars
<1>2. /\ ServerInv' /\ i \in instances /\ boot[i].at = "seeded" /\ boot'[i].at = "ready"
      /\ \A j \in Instance : j # i => boot'[j] = boot[j]
      /\ UNCHANGED <<op, instances>> /\ \A j \in Instance : Moving(j)' <=> Moving(j)
  BY <1>1, AtStart, Booted
<1>3. TypedInv' /\ NamesInv' /\ Defaults' = Defaults
  BY <1>1 DEF GatePart, TypedInv, NamesInv, Gates, Defaults
<1> QED
  BY <1>1, <1>2, <1>3, PlainBoot

\* A gate that is found is filled or left; if it is no default, that is noted.
LEMMA SeedPresentInv ==
  ASSUME ServerInv, GatePart, NEW i \in Instance, SeedPresent(i)
  PROVE  ServerInv' /\ GatePart'
<1>1. /\ Boot(i, "loaded", At("seeded")) /\ UNCHANGED Outside
      /\ UNCHANGED <<mixed, catalog>> /\ lapsed' = (lapsed \/ Defaults = {})
  BY DEF SeedPresent
<1>2. /\ ServerInv' /\ i \in instances /\ boot[i].at = "loaded" /\ boot'[i].at = "seeded"
      /\ \A j \in Instance : j # i => boot'[j] = boot[j]
      /\ UNCHANGED <<op, instances>> /\ \A j \in Instance : Moving(j)' <=> Moving(j)
  BY <1>1, AtStart, Booted
<1>3. PICK g \in SeedFound : gates' = IF gates[g].rules = {} THEN Populated(g) ELSE gates
  BY DEF SeedPresent
<1>4. g \in Gates
  BY DEF SeedFound, Defaults, Named
<1>5. gates' \in [Gate -> GateRow \union {None, Gone}] /\ NamesInv' /\ Defaults' = Defaults
  <2>1. TypedInv /\ NamesInv
    BY DEF GatePart
  <2>2. CASE gates' = gates
    BY <2>1, <2>2 DEF TypedInv, NamesInv, Gates, Defaults
  <2>3. CASE gates' = Populated(g)
    BY <1>4, <2>1, <2>3, PopulatedGate
  <2> QED
    BY <1>3, <2>2, <2>3
<1>6. TypedInv'
  <2>1. lapsed' \in BOOLEAN
    BY <1>1
  <2> QED
    BY <1>1, <1>5, <2>1 DEF GatePart, TypedInv
<1>7. Defaults # {} \/ lapsed'
  BY <1>1
<1>8. lapsed => lapsed'
  BY <1>1
<1> QED
  BY <1>1, <1>2, <1>5, <1>6, <1>7, <1>8, PlainBoot

LEMMA SeedPopulateInv ==
  ASSUME ServerInv, GatePart, NEW i \in Instance, SeedPopulate(i)
  PROVE  ServerInv' /\ GatePart'
<1>1. /\ Boot(i, "populate", At("seeded")) /\ UNCHANGED Outside
      /\ UNCHANGED <<mixed, lapsed, catalog>>
      /\ boot[i].gate \in Gates /\ gates' = Populated(boot[i].gate)
  BY DEF SeedPopulate
<1>2. /\ ServerInv' /\ i \in instances /\ boot[i].at = "populate" /\ boot'[i].at = "seeded"
      /\ \A j \in Instance : j # i => boot'[j] = boot[j]
      /\ UNCHANGED <<op, instances>> /\ \A j \in Instance : Moving(j)' <=> Moving(j)
  BY <1>1, AtStart, Booted
<1>3. gates' \in [Gate -> GateRow \union {None, Gone}] /\ NamesInv' /\ Defaults' = Defaults
  BY <1>1, PopulatedGate DEF GatePart
<1>4. TypedInv'
  BY <1>1, <1>3 DEF GatePart, TypedInv
<1> QED
  BY <1>1, <1>2, <1>3, <1>4, PlainBoot

LEMMA SeedLookInv ==
  ASSUME ServerInv, GatePart, NEW i \in Instance, SeedLook(i)
  PROVE  ServerInv' /\ GatePart'
<1>1. /\ Boot(i, "loaded", At("insert")) /\ UNCHANGED Outside
      /\ UNCHANGED <<gates, lapsed, catalog>> /\ SeedFound = {} /\ BeginMove
  BY DEF SeedLook
<1>2. /\ ServerInv' /\ i \in instances /\ boot[i].at = "loaded" /\ boot'[i].at = "insert"
      /\ \A j \in Instance : j # i => boot'[j] = boot[j]
      /\ UNCHANGED <<op, instances>> /\ \A j \in Instance : Moving(j)' <=> Moving(j)
  BY <1>1, AtStart, Booted
<1>3. TypedInv' /\ NamesInv' /\ Defaults' = Defaults
  BY <1>1 DEF GatePart, TypedInv, NamesInv, Gates, Defaults, BeginMove
<1>4. Defaults = {}
  BY <1>1 DEF SeedFound
<1>5. FlagInv'
  <2> SUFFICES ASSUME ~mixed' PROVE FlagInv'
    BY DEF FlagInv
  <2>1. \A j \in Instance : ~Moving(j) /\ ~Seeding(j)
    BY <1>1, NoMoves DEF BeginMove
  <2>2. \A j \in Instance : ~Moving(j)' /\ (j # i => ~Seeding(j)')
    BY <1>2, <2>1 DEF Seeding
  <2> QED
    BY <1>3, <1>4, <2>2 DEF FlagInv
<1>6. Unseeded => Unseeded'
  <2> SUFFICES ASSUME Unseeded, NEW j \in instances
               PROVE  boot'[j].at \in {"migrated", "loaded", "insert"}
    BY <1>2 DEF Unseeded
  <2>1. j \in Instance
    BY DEF ServerInv
  <2> QED
    BY <1>2, <2>1 DEF Unseeded
<1>7. LapsedInv'
  BY <1>1, <1>2, <1>3, <1>6, LapsedKept DEF GatePart
<1> QED
  BY <1>2, <1>3, <1>5, <1>7 DEF GatePart

LEMMA SeedInsertInv ==
  ASSUME ServerInv, GatePart, NEW i \in Instance, SeedInsert(i)
  PROVE  ServerInv' /\ GatePart'
<1>1. /\ Named(DefaultName) = {} /\ ~lapsed' /\ lapsed' \in BOOLEAN
      /\ UNCHANGED <<mixed, catalog>> /\ UNCHANGED Outside
  BY DEF SeedInsert
<1>2. PICK g \in NewGate :
        /\ Boot(i, "insert", [at |-> "populate", gate |-> g])
        /\ gates' = [gates EXCEPT ![g] = NewRow(DefaultName, TRUE, {})]
  BY DEF SeedInsert
<1>3. g \in Gate /\ g \notin Gates
  BY NewGateFresh DEF GatePart
<1>4. [at |-> "populate", gate |-> g] \in Start
  BY <1>3 DEF Start
<1>5. /\ ServerInv' /\ i \in instances /\ boot[i].at = "insert" /\ boot'[i].at = "populate"
      /\ \A j \in Instance : j # i => boot'[j] = boot[j]
      /\ \A j \in Instance : Moving(j)' <=> Moving(j)
  BY <1>1, <1>2, <1>4, Booted
<1> DEFINE row == NewRow(DefaultName, TRUE, {})
<1>6. row \in GateRow /\ row.default /\ row.name = DefaultName
  BY NewRowTyped, AdministrationAssumption DEF AdministrationAssumption
<1>7. gates \in [Gate -> GateRow \union {None, Gone}] /\ NamesInv /\ gates' = [gates EXCEPT ![g] = row]
  BY <1>2 DEF GatePart, TypedInv
<1> HIDE DEF row
<1>8. gates' \in [Gate -> GateRow \union {None, Gone}] /\ Defaults' = Defaults \union {g}
  BY <1>3, <1>6, <1>7, RowSet
<1>9. NamesInv'
  <2>1. Named(row.name) \subseteq {g}
    BY <1>1, <1>6
  <2> QED
    BY <1>3, <1>6, <1>7, <2>1, RowNamed
<1>10. TypedInv'
  BY <1>1, <1>8 DEF GatePart, TypedInv
<1>11. LapsedInv'
  BY <1>8 DEF LapsedInv
<1>12. FlagInv'
  <2> SUFFICES ASSUME ~mixed' PROVE FlagInv'
    BY DEF FlagInv
  <2>1. ~mixed /\ Seeding(i)
    BY <1>1, <1>5 DEF Seeding
  <2>2. Defaults' = {g}
    BY <1>8, <2>1 DEF GatePart, FlagInv
  <2>3. \A j \in Instance : ~Moving(j)'
    BY <1>5, <2>1 DEF GatePart, FlagInv
  <2>4. \A j \in Instance : ~Seeding(j)'
    <3>1. \A j \in Instance : j # i => ~Seeding(j)
      BY <2>1 DEF GatePart, FlagInv
    <3> QED
      BY <1>5, <3>1 DEF Seeding
  <2> QED
    BY <2>2, <2>3, <2>4 DEF FlagInv
<1> QED
  BY <1>5, <1>9, <1>10, <1>11, <1>12 DEF GatePart

LEMMA SeedTakenInv ==
  ASSUME ServerInv, GatePart, NEW i \in Instance, SeedTaken(i)
  PROVE  ServerInv' /\ GatePart'
<1>1. /\ Boot(i, "insert", At("seeded")) /\ UNCHANGED Outside
      /\ UNCHANGED <<gates, mixed, catalog>> /\ lapsed' = (lapsed \/ Defaults = {})
  BY DEF SeedTaken
<1>2. /\ ServerInv' /\ boot[i].at = "insert" /\ boot'[i].at = "seeded"
      /\ \A j \in Instance : j # i => boot'[j] = boot[j]
      /\ UNCHANGED op /\ \A j \in Instance : Moving(j)' <=> Moving(j)
  BY <1>1, AtStart, Booted
<1>3. TypedInv' /\ NamesInv' /\ Defaults' = Defaults
  <2>1. lapsed' \in BOOLEAN
    BY <1>1
  <2> QED
    BY <1>1, <2>1 DEF GatePart, TypedInv, NamesInv, Gates, Defaults
<1>4. FlagInv'
  <2>1. \A j \in Instance : Seeding(j)' => Seeding(j)
    BY <1>2 DEF Seeding
  <2> QED
    BY <1>1, <1>2, <1>3, <2>1, FlagKept DEF NoMove, GatePart
<1>5. LapsedInv'
  BY <1>1, <1>3 DEF LapsedInv
<1> QED
  BY <1>2, <1>3, <1>4, <1>5 DEF GatePart

-----------------------------------------------------------------------------
(* Projects and their members. *)

\* What a step leaves of the handlers' work on projects.
Onward(i) ==
  \A j \in Instance : j # i /\ op'[j].do \in {"member", "log"} => op'[j] = op[j]

\* A step of one handler after which it has nothing left to do on a project, and
\* that is not about projects at all.
LEMMA ProjectsAlone ==
  ASSUME ProjectPart, NEW i \in Instance, op'[i].do \notin {"member", "log"}, Onward(i),
         UNCHANGED <<projectVars, sqlite>>, groups' \subseteq GroupName
  PROVE  ProjectPart'
<1>1. ProjectInv'
  BY DEF ProjectPart, ProjectInv, projectVars, Projects, Onward
<1>2. UNCHANGED <<members, doubled, projects>> /\ Projects' = Projects
  BY DEF projectVars, Projects
<1>3. \A j \in Instance : \A p, u : Adds(j, p, u)' => Adds(j, p, u)
  BY DEF Adds, Onward
<1>4. OneMembership'
  BY <1>2 DEF ProjectPart, MemberInv, OneMembership
<1>5. MemberInv'
  BY <1>2, <1>3, <1>4 DEF ProjectPart, MemberInv
<1>6. BookInv'
  BY DEF ProjectPart, BookInv, projectVars
<1> QED
  BY <1>1, <1>5, <1>6 DEF ProjectPart

\* A step of the members of projects there are, that writes no row of a member.
LEMMA MembersKept ==
  ASSUME MemberInv, NEW i \in Instance, op'[i].do # "member", Onward(i),
         members' \subseteq members, doubled' = doubled,
         \A m \in members' : m.pid \in Projects'
  PROVE  MemberInv'
<1>1. \A j \in Instance : \A p, u : Adds(j, p, u)' => Adds(j, p, u)
  BY DEF Adds, Onward
<1>2. IsFiniteSet(members') /\ members' \subseteq MemberRow
  BY FS_Subset DEF MemberInv
<1>3. OneMembership'
  BY DEF MemberInv, OneMembership
<1> QED
  BY <1>1, <1>2, <1>3 DEF MemberInv

\* The row of a project is written.
LEMMA ProjectRowSet ==
  ASSUME ProjectInv, NEW p \in Pid, NEW row \in ProjectRow,
         projects' = [projects EXCEPT ![p] = row]
  PROVE  /\ projects' \in [Pid -> ProjectRow \union {None}]
         /\ Projects' = Projects \union {p}
<1>1. projects' \in [Pid -> ProjectRow \union {None}]
  BY DEF ProjectInv
<1> QED
  BY <1>1, NoneAssumption DEF ProjectInv, Projects

\* The id of a new project is in no row and in no handler.
LEMMA NewPidFresh ==
  ASSUME ServerInv, ProjectPart, NEW i \in instances, op[i].do = "nothing", NEW p \in NewPid
  PROVE  /\ p \in Pid /\ p \notin Projects
         /\ \A m \in members : m.pid # p
         /\ \A j \in Instance : op[j].do \in {"member", "log"} => op[j].pid # p
<1>1. p \in Pid /\ p \notin Projects
  BY DEF NewPid, ProjectPart, ProjectInv
<1>2. \A m \in members : m.pid # p
  BY <1>1 DEF ProjectPart, MemberInv
<1>3. CASE sqlite
  BY <1>1, <1>2, <1>3, NothingToDo DEF ServerInv
<1>4. CASE ~sqlite
  BY <1>1, <1>2, <1>4 DEF NewPid, ProjectPart, ProjectInv
<1> QED
  BY <1>3, <1>4

LEMMA NewPidNext ==
  ASSUME ProjectInv, ~sqlite, NEW p \in NewPid
  PROVE  p \in 1..(born + 1)
<1>1. p \in Pid /\ p \notin 1..born /\ \A q \in Pid : q < p => q \in 1..born
  BY DEF NewPid
<1>2. p \in Nat /\ p >= 1 /\ p <= MaxProjects /\ MaxProjects \in Nat /\ born \in Nat
  BY <1>1, AdministrationAssumption DEF Pid, AdministrationAssumption, ProjectInv
<1>3. CASE p > born + 1
  <2>1. born + 1 \in Pid /\ born + 1 < p
    BY <1>2, <1>3 DEF Pid
  <2>2. born + 1 \in 1..born
    BY <1>1, <2>1
  <2> QED
    BY <1>2, <2>2
<1> QED
  BY <1>2, <1>3

LEMMA CreateProjectInv ==
  ASSUME ServerInv, ProjectPart, NEW i \in instances, i \in Instance, op[i].do = "nothing",
         NEW p \in NewPid, NEW g \in Gate \union {NoGate}, NEW group \in GroupName,
         CreateProject(p, g, group), sqlite' = sqlite,
         \A j \in Instance : j # i => op'[j] = op[j],
         op'[i].do # "log", op'[i].do = "member" => op'[i].pid = p
  PROVE  ProjectPart'
<1>1. /\ p \in Pid /\ p \notin Projects /\ \A m \in members : m.pid # p
      /\ \A j \in Instance : op[j].do \in {"member", "log"} => op[j].pid # p
  BY NewPidFresh
<1> DEFINE row == [born |-> born + 1, gate |-> g, group |-> group]
<1>2. /\ born < MaxBorn /\ projects' = [projects EXCEPT ![p] = row] /\ born' = born + 1
      /\ UNCHANGED <<members, doubled, subs, logs, groups>>
  BY DEF CreateProject
<1>3. row \in ProjectRow
  BY <1>2, AdministrationAssumption
     DEF ProjectRow, AdministrationAssumption, ProjectPart, ProjectInv
<1> HIDE DEF row
<1>4. projects' \in [Pid -> ProjectRow \union {None}] /\ Projects' = Projects \union {p}
  BY <1>1, <1>2, <1>3, ProjectRowSet DEF ProjectPart
<1>5. ProjectInv'
  <2>1. born' \in Nat
    BY <1>2 DEF ProjectPart, ProjectInv
  <2>2. ASSUME ~sqlite PROVE 1..born \subseteq 1..born' /\ p \in 1..born'
    BY <1>2, <2>2, NewPidNext DEF ProjectPart, ProjectInv
  <2>3. ~sqlite' => Projects' \subseteq 1..born'
    BY <1>4, <2>2 DEF ProjectPart, ProjectInv
  <2>4. ASSUME ~sqlite', NEW j \in Instance, op'[j].do \in {"member", "log"}
        PROVE  op'[j].pid \in 1..born'
    <3>1. CASE j = i
      BY <2>2, <2>4, <3>1
    <3>2. CASE j # i
      BY <2>2, <2>4, <3>2 DEF ProjectPart, ProjectInv
    <3> QED
      BY <3>1, <3>2
  <2> QED
    BY <1>4, <2>1, <2>3, <2>4 DEF ProjectInv
<1>6. MemberInv'
  <2>1. \A j \in Instance : \A q, u : j # i => (Adds(j, q, u)' <=> Adds(j, q, u))
    BY DEF Adds
  <2>2. \A q, u : Adds(i, q, u)' => q = p
    BY DEF Adds
  <2>3. \A j \in Instance : \A u : ~Adds(j, p, u)
    BY <1>1 DEF Adds
  <2>4. /\ \A m \in members' : m.pid \in Projects'
        /\ OneMembership'
    BY <1>2, <1>4 DEF ProjectPart, MemberInv, OneMembership
  <2>5. \A j \in Instance : \A m \in members' :
          Adds(j, m.pid, m.user)' => <<m.pid, m.user>> \in doubled'
    BY <1>1, <1>2, <2>1, <2>2 DEF ProjectPart, MemberInv
  <2>6. ASSUME NEW j \in Instance, NEW k \in Instance, NEW q \in Pid, NEW u \in User,
               Adds(j, q, u)', Adds(k, q, u)', j # k
        PROVE  <<q, u>> \in doubled'
    BY <1>2, <2>1, <2>2, <2>3, <2>6 DEF ProjectPart, MemberInv
  <2> QED
    BY <1>2, <2>4, <2>5, <2>6 DEF ProjectPart, MemberInv
<1>7. BookInv'
  BY <1>2 DEF ProjectPart, BookInv
<1> QED
  BY <1>5, <1>6, <1>7 DEF ProjectPart

\* With fewer rows than numbers a number is free.
LEMMA FreeRowIn ==
  ASSUME IsFiniteSet(members), Cardinality(members) < MaxRows
  PROVE  FreeRow \in 1..MaxRows
<1> DEFINE f == [m \in members |-> m.n]
           Taken == {f[m] : m \in members}
<1>1. IsFiniteSet(members) /\ MaxRows \in Nat
  BY AdministrationAssumption DEF AdministrationAssumption
<1>2. IsFiniteSet(Taken) /\ Cardinality(Taken) <= Cardinality(members)
  <2>1. f \in Surjection(members, Taken)
    BY Fun_IsSurj
  <2> HIDE DEF f, Taken
  <2> QED
    BY <1>1, <2>1, FS_Surjection
<1>3. \E n \in 1..MaxRows : n \notin Taken
  <2> SUFFICES ASSUME 1..MaxRows \subseteq Taken PROVE FALSE
    OBVIOUS
  <2>1. Cardinality(1..MaxRows) = MaxRows
    BY <1>1, FS_Interval
  <2>2. Cardinality(1..MaxRows) <= Cardinality(Taken)
    BY <1>2, FS_Subset
  <2>3. Cardinality(Taken) \in Nat /\ Cardinality(members) \in Nat
    BY <1>1, <1>2, FS_CardinalityType
  <2> HIDE DEF Taken
  <2> QED
    BY <1>1, <1>2, <2>1, <2>2, <2>3
<1>4. PICK n \in 1..MaxRows : n \notin Taken
  BY <1>3
<1>5. \A m \in members : m.n # n
  BY <1>4
<1> QED
  BY <1>5 DEF FreeRow

\* Whoever has looked at the rows adds his own; if there is one by now, two
\* requests were under way at once.
LEMMA InsertMemberInv ==
  ASSUME ServerInv, GatePart, ProjectPart, NEW i \in Instance, InsertMember(i)
  PROVE  ServerInv' /\ GatePart' /\ ProjectPart'
<1>1. /\ op[i].do = "member" /\ op[i].pid \in Projects /\ Cardinality(members) < MaxRows
      /\ op[i].pid \in Pid /\ op[i].user \in User /\ op[i].admin \in BOOLEAN
  BY Fields DEF InsertMember, ServerInv
<1>2. PICK o : o = IF op[i].creator THEN [do |-> "log", pid |-> op[i].pid] ELSE NoOp
  OBVIOUS
<1>3. /\ o \in Handler /\ o.do \in {"nothing", "log"}
      /\ o.do = "log" => o.pid = op[i].pid
  BY <1>1, <1>2, NothingToDo DEF Handler
<1>4. /\ Then(i, o) /\ UNCHANGED <<boot, gates, mixed, lapsed, catalog>>
      /\ UNCHANGED <<projects, doubled, subs, logs, born, groups>>
  BY <1>2 DEF InsertMember, gateVars
<1>5. /\ ServerInv' /\ op'[i] = o /\ \A j \in Instance : j # i => op'[j] = op[j]
      /\ instances' = instances /\ sqlite' = sqlite
  BY <1>1, <1>3, <1>4, WentOn
<1>6. GatePart'
  <2>1. ~Moving(i) /\ ~Moving(i)' /\ catalog' \subseteq Code
    BY <1>1, <1>3, <1>4, <1>5 DEF Moving, GatePart, TypedInv
  <2> QED
    BY <1>4, <1>5, <2>1, GatesAlone
<1> DEFINE m == [n |-> FreeRow, pid |-> op[i].pid, user |-> op[i].user, admin |-> op[i].admin]
<1>7. members' = members \union {m} /\ m.pid = op[i].pid /\ m.user = op[i].user
  BY DEF InsertMember
<1>8. m \in MemberRow
  BY <1>1, FreeRowIn DEF MemberRow, ProjectPart, MemberInv
<1> HIDE DEF m
<1>9. Projects' = Projects
  BY <1>4 DEF Projects
<1>10. ProjectInv'
  BY <1>1, <1>3, <1>4, <1>5, <1>9 DEF ProjectPart, ProjectInv
<1>11. MemberInv'
  <2>1. IsFiniteSet(members') /\ members' \subseteq MemberRow
    BY <1>7, <1>8, FS_AddElement DEF ProjectPart, MemberInv
  <2>2. Adds(i, m.pid, m.user)
    BY <1>1, <1>7 DEF Adds
  <2>3. \A k \in members : k.pid = m.pid /\ k.user = m.user => <<m.pid, m.user>> \in doubled
    BY <2>2 DEF ProjectPart, MemberInv
  <2>4. OneMembership'
    BY <1>4, <1>7, <2>3 DEF ProjectPart, MemberInv, OneMembership
  <2>5. \A j \in Instance : \A p, u : Adds(j, p, u)' => Adds(j, p, u) /\ j # i
    BY <1>3, <1>5 DEF Adds
  <2>6. \A j \in Instance : \A k \in members' :
          Adds(j, k.pid, k.user)' => <<k.pid, k.user>> \in doubled'
    <3> SUFFICES ASSUME NEW j \in Instance, NEW k \in members', Adds(j, k.pid, k.user)'
                 PROVE  <<k.pid, k.user>> \in doubled
      BY <1>4
    <3>1. Adds(j, k.pid, k.user) /\ j # i
      BY <2>5
    <3>2. CASE k \in members
      BY <3>1, <3>2 DEF ProjectPart, MemberInv
    <3>3. CASE k = m
      BY <1>1, <1>7, <2>2, <3>1, <3>3 DEF ProjectPart, MemberInv
    <3> QED
      BY <1>7, <3>2, <3>3
  <2>7. \A k \in members' : k.pid \in Projects'
    BY <1>1, <1>7, <1>9 DEF ProjectPart, MemberInv
  <2>8. \A j, k \in Instance : \A p \in Pid, u \in User :
          Adds(j, p, u)' /\ Adds(k, p, u)' => j = k \/ <<p, u>> \in doubled'
    BY <1>4, <2>5 DEF ProjectPart, MemberInv
  <2> QED
    BY <1>4, <2>1, <2>4, <2>6, <2>7, <2>8 DEF ProjectPart, MemberInv
<1>12. BookInv'
  BY <1>4 DEF ProjectPart, BookInv
<1> QED
  BY <1>5, <1>6, <1>10, <1>11, <1>12 DEF ProjectPart

\* Somebody looks at the rows of a project before he adds one.
LEMMA AddMemberInv ==
  ASSUME ServerInv, GatePart, ProjectPart, NEW i \in Instance, NEW by \in User,
         NEW p \in Pid, NEW u \in User, NEW a \in BOOLEAN, AddMember(i, by, p, u, a)
  PROVE  ServerInv' /\ GatePart' /\ ProjectPart'
<1> DEFINE o == Addition(p, u, a, FALSE)
<1>1. o \in Handler /\ o.do = "member" /\ o.pid = p /\ o.user = u
  BY DEF Addition, Handler
<1>2. /\ Begin(i, o) /\ UNCHANGED <<boot, gates, mixed, lapsed, catalog>>
      /\ UNCHANGED <<projects, members, subs, logs, born, groups>>
      /\ p \in Projects /\ \A m \in members : m.pid = p => m.user # u
      /\ doubled' = IF Adding(u, p) THEN doubled \union {<<p, u>>} ELSE doubled
  BY DEF AddMember, gateVars, NewMember, Rows
<1> HIDE DEF o
<1>3. /\ ServerInv' /\ op[i].do = "nothing" /\ op'[i] = o
      /\ \A j \in Instance : j # i => op'[j] = op[j]
      /\ instances' = instances /\ sqlite' = sqlite
  BY <1>1, <1>2, Began
<1>4. GatePart'
  <2>1. ~Moving(i) /\ ~Moving(i)' /\ catalog' \subseteq Code
    BY <1>1, <1>2, <1>3 DEF Moving, GatePart, TypedInv
  <2> QED
    BY <1>2, <1>3, <2>1, GatesAlone
<1>5. Projects' = Projects
  BY <1>2 DEF Projects
<1>6. ProjectInv'
  BY <1>1, <1>2, <1>3, <1>5 DEF ProjectPart, ProjectInv
<1>7. MemberInv'
  <2>1. doubled \subseteq doubled' /\ doubled' \subseteq Pid \X User
    BY <1>2 DEF ProjectPart, MemberInv
  <2>2. \A j \in Instance : \A q, v : j # i => (Adds(j, q, v)' <=> Adds(j, q, v))
    BY <1>3 DEF Adds
  <2>3. \A q, v : Adds(i, q, v)' => q = p /\ v = u
    BY <1>1, <1>3 DEF Adds
  <2>4. OneMembership' /\ \A m \in members' : m.pid \in Projects'
    BY <1>2, <1>5, <2>1 DEF ProjectPart, MemberInv, OneMembership
  <2>5. \A j \in Instance : \A m \in members' :
          Adds(j, m.pid, m.user)' => <<m.pid, m.user>> \in doubled'
    BY <1>2, <2>1, <2>2, <2>3 DEF ProjectPart, MemberInv
  <2>6. \A j \in Instance : Adds(j, p, u) => <<p, u>> \in doubled'
    <3>1. \A j \in Instance : Adds(j, p, u) => Adding(u, p)
      BY DEF Adds, Adding
    <3> QED
      BY <1>2, <3>1
  <2>7. \A j, k \in Instance : \A q \in Pid, v \in User :
          Adds(j, q, v)' /\ Adds(k, q, v)' => j = k \/ <<q, v>> \in doubled'
    BY <2>1, <2>2, <2>3, <2>6 DEF ProjectPart, MemberInv
  <2> QED
    BY <1>2, <2>1, <2>4, <2>5, <2>7 DEF ProjectPart, MemberInv
<1>8. BookInv'
  BY <1>2 DEF ProjectPart, BookInv
<1> QED
  BY <1>3, <1>4, <1>6, <1>7, <1>8 DEF ProjectPart

\* A request about projects leaves the gates alone.
LEMMA BeganElsewhere ==
  ASSUME ServerInv, GatePart, NEW i \in Instance, NEW o \in Handler, Begin(i, o),
         o.do \in {"nothing", "member", "log"}, UNCHANGED <<gateVars, catalog, boot>>
  PROVE  /\ ServerInv' /\ GatePart' /\ i \in instances /\ op[i].do = "nothing"
         /\ op'[i] = o /\ \A j \in Instance : j # i => op'[j] = op[j]
         /\ Onward(i) /\ sqlite' = sqlite
<1>1. /\ ServerInv' /\ i \in instances /\ op[i].do = "nothing"
      /\ op'[i] = o /\ \A j \in Instance : j # i => op'[j] = op[j]
      /\ instances' = instances /\ sqlite' = sqlite
  BY Began
<1>2. ~Moving(i) /\ ~Moving(i)' /\ catalog' \subseteq Code
  BY <1>1 DEF Moving, GatePart, TypedInv
<1>3. GatePart'
  BY <1>1, <1>2, GatesAlone DEF gateVars
<1> QED
  BY <1>1, <1>3 DEF Onward

LEMMA CreatesInv ==
  ASSUME ServerInv, GatePart, ProjectPart, NEW i \in Instance, NEW p \in NewPid
  PROVE  /\ \A n \in GroupName : CreateCi(i, p, n) => ServerInv' /\ GatePart' /\ ProjectPart'
         /\ CreateUi(i, p) => ServerInv' /\ GatePart' /\ ProjectPart'
         /\ \A n \in GroupName, u \in User, g \in Gate \union {NoGate} :
              CreateApi(i, u, p, g, n) => ServerInv' /\ GatePart' /\ ProjectPart'
<1>1. ASSUME NEW o \in Handler, NEW g \in Gate \union {NoGate}, NEW n \in GroupName,
             Begin(i, o), CreateProject(p, g, n),
             o.do \in {"nothing", "member"}, o.do = "member" => o.pid = p
      PROVE  ServerInv' /\ GatePart' /\ ProjectPart'
  <2>1. UNCHANGED <<gateVars, catalog, boot>>
    BY <1>1 DEF CreateProject
  <2>2. /\ ServerInv' /\ GatePart' /\ i \in instances /\ op[i].do = "nothing"
        /\ op'[i] = o /\ \A j \in Instance : j # i => op'[j] = op[j]
        /\ sqlite' = sqlite
    BY <1>1, <2>1, BeganElsewhere
  <2>3. ProjectPart'
    BY <1>1, <2>2, CreateProjectInv
  <2> QED
    BY <2>2, <2>3
<1>2. NoGate \in Gate \union {NoGate} /\ Ungrouped \in GroupName
  BY AdministrationAssumption DEF AdministrationAssumption
<1>3. ASSUME NEW n \in GroupName, CreateCi(i, p, n) PROVE ServerInv' /\ GatePart' /\ ProjectPart'
  BY <1>1, <1>2, <1>3, NothingToDo DEF CreateCi
<1>4. ASSUME CreateUi(i, p) PROVE ServerInv' /\ GatePart' /\ ProjectPart'
  BY <1>1, <1>2, <1>4, NothingToDo DEF CreateUi
<1>5. ASSUME NEW n \in GroupName, NEW u \in User, NEW g \in Gate \union {NoGate},
             CreateApi(i, u, p, g, n)
      PROVE  ServerInv' /\ GatePart' /\ ProjectPart'
  <2>1. p \in Pid
    BY DEF NewPid
  <2>2. /\ Addition(p, u, TRUE, TRUE) \in Handler
        /\ Addition(p, u, TRUE, TRUE).do = "member" /\ Addition(p, u, TRUE, TRUE).pid = p
    BY <2>1 DEF Addition, Handler
  <2> QED
    BY <1>1, <1>5, <2>2 DEF CreateApi
<1> QED
  BY <1>3, <1>4, <1>5

\* A line is that of a creation of a project.
LEMMA LogTyped ==
  ASSUME ProjectInv, NEW p \in Projects
  PROVE  LogOf(p) \in [pid : Pid, of : 1..MaxBorn]
<1>1. p \in Pid /\ projects[p] \in ProjectRow
  BY DEF ProjectInv, Projects
<1> QED
  BY <1>1 DEF LogOf, ProjectRow

LEMMA WriteLogInv ==
  ASSUME ServerInv, GatePart, ProjectPart, NEW i \in Instance, WriteLog(i)
  PROVE  ServerInv' /\ GatePart' /\ ProjectPart'
<1>1. /\ op[i].do = "log" /\ op[i].pid \in Projects /\ Then(i, NoOp)
      /\ logs' = logs \union {LogOf(op[i].pid)}
      /\ UNCHANGED <<boot, gates, mixed, lapsed, catalog>>
      /\ UNCHANGED <<projects, members, doubled, subs, born, groups>>
  BY DEF WriteLog, gateVars
<1>2. /\ ServerInv' /\ op'[i] = NoOp /\ \A j \in Instance : j # i => op'[j] = op[j]
      /\ instances' = instances /\ sqlite' = sqlite
  BY <1>1, WentOn, NothingToDo
<1>3. GatePart'
  <2>1. ~Moving(i) /\ ~Moving(i)' /\ catalog' \subseteq Code
    BY <1>1, <1>2, NothingToDo DEF Moving, GatePart, TypedInv
  <2> QED
    BY <1>1, <1>2, <2>1, GatesAlone
<1>4. Onward(i) /\ op'[i].do = "nothing"
  BY <1>2, NothingToDo DEF Onward
<1>5. Projects' = Projects
  BY <1>1 DEF Projects
<1>6. ProjectInv'
  BY <1>1, <1>2, <1>4, <1>5 DEF ProjectPart, ProjectInv
<1>7. MemberInv'
  BY <1>1, <1>4, <1>5, MembersKept DEF ProjectPart, MemberInv
<1>8. BookInv'
  BY <1>1, LogTyped DEF ProjectPart, BookInv
<1> QED
  BY <1>2, <1>3, <1>6, <1>7, <1>8 DEF ProjectPart

\* Another gate or another group for a project.
LEMMA RowRewritten ==
  ASSUME ServerInv, GatePart, ProjectPart, NEW i \in Instance, NEW o \in Handler, Begin(i, o),
         o.do \in {"nothing", "log"}, NEW p \in Projects, o.do = "log" => o.pid = p,
         NEW row \in ProjectRow, projects' = [projects EXCEPT ![p] = row],
         UNCHANGED <<gateVars, catalog, members, doubled, subs, logs, born, groups, boot>>
  PROVE  ServerInv' /\ GatePart' /\ ProjectPart'
<1>1. /\ ServerInv' /\ GatePart' /\ op'[i] = o /\ \A j \in Instance : j # i => op'[j] = op[j]
      /\ Onward(i) /\ sqlite' = sqlite
  BY BeganElsewhere
<1>2. p \in Pid
  BY DEF Projects
<1>3. projects' \in [Pid -> ProjectRow \union {None}] /\ Projects' = Projects
  <2>1. ProjectInv
    BY DEF ProjectPart
  <2>2. projects' \in [Pid -> ProjectRow \union {None}] /\ Projects' = Projects \union {p}
    BY <1>2, <2>1, ProjectRowSet
  <2> QED
    BY <2>2
<1>4. ProjectInv'
  BY <1>1, <1>3 DEF ProjectPart, ProjectInv
<1>5. MemberInv'
  BY <1>1, <1>3, MembersKept DEF ProjectPart, MemberInv
<1>6. BookInv'
  BY DEF ProjectPart, BookInv
<1> QED
  BY <1>1, <1>4, <1>5, <1>6 DEF ProjectPart

LEMMA AssignGateInv ==
  ASSUME ServerInv, GatePart, ProjectPart, NEW i \in Instance, NEW u \in User, NEW p \in Pid,
         NEW g \in Gate \union {NoGate}, AssignGate(i, u, p, g)
  PROVE  ServerInv' /\ GatePart' /\ ProjectPart'
<1> DEFINE o == [do |-> "log", pid |-> p]
           row == [projects[p] EXCEPT !.gate = g]
<1>1. o \in Handler /\ o.do = "log" /\ o.pid = p
  BY DEF Handler
<1>2. /\ Begin(i, o) /\ p \in Projects
      /\ UNCHANGED <<gateVars, catalog, members, doubled, subs, logs, born, groups, boot>>
  BY DEF AssignGate
<1>3. projects[p] \in ProjectRow
  BY <1>2 DEF ProjectPart, ProjectInv, Projects
<1>4. row \in ProjectRow /\ projects' = [projects EXCEPT ![p] = row]
  BY <1>3 DEF ProjectRow, AssignGate
<1> HIDE DEF o, row
<1> QED
  BY <1>1, <1>2, <1>4, RowRewritten

LEMMA ChooseGroupInv ==
  ASSUME ServerInv, GatePart, ProjectPart, NEW i \in Instance, NEW p \in Pid,
         NEW n \in GroupName, ChooseGroup(i, p, n)
  PROVE  ServerInv' /\ GatePart' /\ ProjectPart'
<1> DEFINE row == [projects[p] EXCEPT !.group = n]
<1>1. /\ Begin(i, NoOp) /\ p \in Projects
      /\ UNCHANGED <<gateVars, catalog, members, doubled, subs, logs, born, groups, boot>>
  BY DEF ChooseGroup
<1>2. projects[p] \in ProjectRow
  BY <1>1 DEF ProjectPart, ProjectInv, Projects
<1>3. row \in ProjectRow /\ projects' = [projects EXCEPT ![p] = row]
  BY <1>2 DEF ProjectRow, ChooseGroup
<1> HIDE DEF row
<1> QED
  BY <1>1, <1>3, NothingToDo, RowRewritten

\* Requests that change subscribers, lines and groups.
LEMMA BooksInv ==
  ASSUME ServerInv, GatePart, ProjectPart, NEW i \in Instance, Begin(i, NoOp),
         UNCHANGED <<gateVars, catalog, projects, members, doubled, born, boot>>, BookInv'
  PROVE  ServerInv' /\ GatePart' /\ ProjectPart'
<1>1. ServerInv' /\ GatePart' /\ op'[i] = NoOp /\ Onward(i) /\ sqlite' = sqlite
  BY NothingToDo, BeganElsewhere
<1>2. Projects' = Projects /\ op'[i].do = "nothing"
  BY <1>1, NothingToDo DEF Projects
<1>3. ProjectInv'
  BY <1>1, <1>2 DEF ProjectPart, ProjectInv, Onward
<1>4. MemberInv'
  BY <1>1, <1>2, MembersKept DEF ProjectPart, MemberInv
<1> QED
  BY <1>1, <1>3, <1>4 DEF ProjectPart

LEMMA UploadInv ==
  ASSUME ServerInv, GatePart, ProjectPart, NEW i \in Instance, NEW p \in Pid,
         NEW u \in User \union {None}, Upload(i, p, u)
  PROVE  ServerInv' /\ GatePart' /\ ProjectPart'
<1>1. /\ Begin(i, NoOp) /\ p \in Projects /\ groups' = groups
      /\ UNCHANGED <<gateVars, catalog, projects, members, doubled, born, boot>>
  BY DEF Upload
<1>2. logs' \subseteq [pid : Pid, of : 1..MaxBorn]
  BY <1>1, LogTyped DEF Upload, ProjectPart, BookInv
<1>3. subs' \subseteq [user : User, pid : Pid]
  BY DEF Upload, ProjectPart, BookInv
<1>4. BookInv'
  BY <1>1, <1>2, <1>3 DEF ProjectPart, BookInv
<1> QED
  BY <1>1, <1>4, BooksInv

LEMMA SubscribeInv ==
  ASSUME ServerInv, GatePart, ProjectPart, NEW i \in Instance, NEW u \in User,
         NEW P \in SUBSET Pid, Subscribe(i, u, P)
  PROVE  ServerInv' /\ GatePart' /\ ProjectPart'
<1>1. /\ Begin(i, NoOp) /\ UNCHANGED <<logs, groups>>
      /\ UNCHANGED <<gateVars, catalog, projects, members, doubled, born, boot>>
  BY DEF Subscribe
<1>2. subs' \subseteq [user : User, pid : Pid]
  BY DEF Subscribe, ProjectPart, BookInv
<1>3. BookInv'
  BY <1>1, <1>2 DEF ProjectPart, BookInv
<1> QED
  BY <1>1, <1>3, BooksInv

LEMMA GroupNextInv ==
  ASSUME ServerInv, GatePart, ProjectPart, NEW i \in Instance, GroupNext(i)
  PROVE  ServerInv' /\ GatePart' /\ ProjectPart'
<1>1. Begin(i, NoOp) /\ UNCHANGED <<gateVars, catalog, projectVars, boot>>
  BY DEF GroupNext, CreateGroup, RenameGroup, DeleteGroup
<1>2. groups' \subseteq GroupName
  BY DEF GroupNext, CreateGroup, RenameGroup, DeleteGroup, ProjectPart, BookInv
<1>3. UNCHANGED <<projects, members, doubled, subs, logs, born>>
  BY <1>1 DEF projectVars
<1>4. BookInv'
  BY <1>2, <1>3 DEF ProjectPart, BookInv
<1> QED
  BY <1>1, <1>3, <1>4, BooksInv

\* The members of a project go with it.
LEMMA DeleteProjectInv ==
  ASSUME ServerInv, GatePart, ProjectPart, NEW i \in Instance, NEW p \in Pid,
         NEW rest \in SUBSET logs, DeleteProject(i, p, rest)
  PROVE  ServerInv' /\ GatePart' /\ ProjectPart'
<1>1. /\ Begin(i, NoOp) /\ p \in Projects /\ projects' = [projects EXCEPT ![p] = None]
      /\ members' = members \ Rows(p) /\ logs' = rest
      /\ UNCHANGED <<gateVars, catalog, doubled, subs, born, groups, boot>>
  BY DEF DeleteProject
<1>2. ServerInv' /\ GatePart' /\ op'[i] = NoOp /\ Onward(i) /\ sqlite' = sqlite
  BY <1>1, NothingToDo, BeganElsewhere
<1>3. op'[i].do = "nothing"
  BY <1>2, NothingToDo
<1>4. projects' \in [Pid -> ProjectRow \union {None}] /\ Projects' = Projects \ {p}
  BY <1>1 DEF ProjectPart, ProjectInv, Projects
<1>5. ProjectInv'
  BY <1>1, <1>2, <1>3, <1>4 DEF ProjectPart, ProjectInv, Onward
<1>6. MemberInv'
  <2>1. \A m \in members' : m.pid \in Projects'
    BY <1>1, <1>4 DEF Rows, ProjectPart, MemberInv
  <2> QED
    BY <1>1, <1>2, <1>3, <2>1, MembersKept DEF ProjectPart
<1>7. BookInv'
  BY <1>1 DEF ProjectPart, BookInv
<1> QED
  BY <1>2, <1>5, <1>6, <1>7 DEF ProjectPart

\* Projects that were assigned a gate lose it with the gate.
LEMMA FinishDeleteProjects ==
  ASSUME ServerInv, ProjectPart, NEW i \in Instance, FinishDelete(i)
  PROVE  ProjectPart'
<1>1. /\ op[i].do = "delete" /\ Then(i, NoOp)
      /\ projects' = [p \in Pid |-> IF p \in Assigned(op[i].gate)
                                    THEN [projects[p] EXCEPT !.gate = NoGate] ELSE projects[p]]
      /\ UNCHANGED <<members, doubled, subs, logs, born, groups, boot>>
  BY DEF FinishDelete
<1>2. /\ op'[i] = NoOp /\ \A j \in Instance : j # i => op'[j] = op[j]
      /\ sqlite' = sqlite
  BY <1>1, WentOn, NothingToDo
<1>3. op'[i].do = "nothing" /\ Onward(i)
  BY <1>2, NothingToDo DEF Onward
<1>4. \A p \in Assigned(op[i].gate) : p \in Projects
  BY DEF Assigned
<1>5. \A p \in Projects : p \in Pid /\ [projects[p] EXCEPT !.gate = NoGate] \in ProjectRow
  BY DEF ProjectPart, ProjectInv, Projects, ProjectRow
<1>6. projects' \in [Pid -> ProjectRow \union {None}]
  BY <1>1, <1>4, <1>5 DEF ProjectPart, ProjectInv
<1>7. Projects' = Projects
  BY <1>1, <1>4, <1>5, NoneAssumption DEF Projects
<1>8. ProjectInv'
  BY <1>1, <1>2, <1>3, <1>6, <1>7 DEF ProjectPart, ProjectInv
<1>9. MemberInv'
  BY <1>1, <1>3, <1>7, MembersKept DEF ProjectPart, MemberInv
<1>10. BookInv'
  BY <1>1 DEF ProjectPart, BookInv
<1> QED
  BY <1>8, <1>9, <1>10 DEF ProjectPart

-----------------------------------------------------------------------------
(* All steps. *)

\* What a step on gates leaves of projects.
LEMMA GateStepProjects ==
  ASSUME ProjectPart, NEW i \in Instance, NEW o, op' = [op EXCEPT ![i] = o], ServerInv,
         o.do \notin {"member", "log"}, UNCHANGED <<projectVars, groups, deployment>>
  PROVE  ProjectPart'
<1>1. op'[i] = o /\ Onward(i)
  BY DEF ServerInv, Onward
<1>2. groups' \subseteq GroupName /\ sqlite' = sqlite
  BY DEF ProjectPart, BookInv, deployment
<1> QED
  BY <1>1, <1>2, ProjectsAlone

LEMMA GateNextInv ==
  ASSUME IInv, NEW i \in Instance, GateNext(i)
  PROVE  IInv'
<1>1. ServerInv /\ GatePart /\ ProjectPart
  BY DEF IInv
<1>2. ASSUME NEW n \in GateName, NEW d \in BOOLEAN, NEW R \in SUBSET Code,
             CreateGate(i, n, d, R)
      PROVE  IInv'
  <2>1. ProjectPart'
    BY <1>1, <1>2, GateStepProjects DEF CreateGate, Begin
  <2> QED
    BY <1>1, <1>2, <2>1, CreateGateInv DEF IInv
<1>3. ASSUME InsertGate(i) PROVE IInv'
  <2>1. PICK g \in NewGate :
          Then(i, IF op[i].rules = {} THEN NoOp
                  ELSE [do |-> "rules", gate |-> g, rules |-> op[i].rules])
    BY <1>3 DEF InsertGate
  <2>2. ProjectPart'
    BY <1>1, <1>3, <2>1, GateStepProjects, NothingToDo DEF InsertGate, Then
  <2> QED
    BY <1>1, <1>3, <2>2, InsertGateInv DEF IInv
<1>4. ASSUME SetRules(i) PROVE IInv'
  <2>1. ProjectPart'
    BY <1>1, <1>4, GateStepProjects, NothingToDo DEF SetRules, Then
  <2> QED
    BY <1>1, <1>4, <2>1, SetRulesInv DEF IInv
<1>5. ASSUME NEW g \in Gate, NEW n \in GateName, NEW R \in SUBSET Code, MakeDefault(i, g, n, R)
      PROVE  IInv'
  <2>1. ProjectPart'
    BY <1>1, <1>5, GateStepProjects DEF MakeDefault, Begin
  <2> QED
    BY <1>1, <1>5, <2>1, MakeDefaultInv DEF IInv
<1>6. ASSUME NEW g \in Gate, NEW n \in GateName, NEW R \in SUBSET Code, NEW unset \in BOOLEAN,
             UpdateGate(i, g, n, unset, R)
      PROVE  IInv'
  <2>1. ProjectPart'
    BY <1>1, <1>6, GateStepProjects, NothingToDo DEF UpdateGate, Begin
  <2> QED
    BY <1>1, <1>6, <2>1, UpdateGateInv DEF IInv
<1>7. ASSUME FinishDefault(i) PROVE IInv'
  <2>1. ProjectPart'
    BY <1>1, <1>7, GateStepProjects, NothingToDo DEF FinishDefault, Then
  <2> QED
    BY <1>1, <1>7, <2>1, FinishDefaultInv DEF IInv
<1>8. ASSUME NEW g \in Gate, DeleteGate(i, g) PROVE IInv'
  <2>1. ProjectPart'
    BY <1>1, <1>8, GateStepProjects DEF DeleteGate, Begin
  <2> QED
    BY <1>1, <1>8, <2>1, DeleteGateInv DEF IInv
<1>9. ASSUME NEW g \in Gate, AddCondition(i, g) PROVE IInv'
  <2>1. ProjectPart'
    BY <1>1, <1>9, GateStepProjects, NothingToDo DEF AddCondition, Begin
  <2> QED
    BY <1>1, <1>9, <2>1, AddConditionInv DEF IInv
<1>10. ASSUME FinishDelete(i) PROVE IInv'
  BY <1>1, <1>10, FinishDeleteInv, FinishDeleteProjects DEF IInv
<1>11. ASSUME NEW C \in SUBSET Code, SyncWarnings(i, C) PROVE IInv'
  <2>1. ProjectPart'
    BY <1>1, <1>11, GateStepProjects DEF SyncWarnings, Begin
  <2> QED
    BY <1>1, <1>11, <2>1, SyncWarningsInv DEF IInv
<1>12. ASSUME SyncRules(i) PROVE IInv'
  <2>1. ProjectPart'
    BY <1>1, <1>12, GateStepProjects, NothingToDo DEF SyncRules, Then
  <2> QED
    BY <1>1, <1>12, <2>1, SyncRulesInv DEF IInv
<1>13. ASSUME Refused(i) PROVE IInv'
  <2>1. ProjectPart'
    BY <1>1, <1>13, GateStepProjects, NothingToDo DEF Refused, Then
  <2> QED
    BY <1>1, <1>13, <2>1, RefusedInv DEF IInv
<1> QED
  BY <1>2, <1>3, <1>4, <1>5, <1>6, <1>7, <1>8, <1>9, <1>10, <1>11, <1>12, <1>13 DEF GateNext

LEMMA ProjectNextInv ==
  ASSUME IInv, NEW i \in Instance, ProjectNext(i)
  PROVE  IInv'
<1>1. ServerInv /\ GatePart /\ ProjectPart
  BY DEF IInv
<1>2. ASSUME NEW p \in NewPid, NEW n \in GroupName, CreateCi(i, p, n) PROVE IInv'
  BY <1>1, <1>2, CreatesInv DEF IInv
<1>3. ASSUME NEW p \in NewPid, NEW n \in GroupName, NEW u \in User,
             NEW g \in Gate \union {NoGate}, CreateApi(i, u, p, g, n)
      PROVE  IInv'
  BY <1>1, <1>3, CreatesInv DEF IInv
<1>4. ASSUME NEW p \in NewPid, CreateUi(i, p) PROVE IInv'
  BY <1>1, <1>4, CreatesInv DEF IInv
<1>5. ASSUME InsertMember(i) PROVE IInv'
  BY <1>1, <1>5, InsertMemberInv DEF IInv
<1>6. ASSUME WriteLog(i) PROVE IInv'
  BY <1>1, <1>6, WriteLogInv DEF IInv
<1>7. ASSUME NEW p \in Pid, NEW u \in User, NEW g \in Gate \union {NoGate}, AssignGate(i, u, p, g)
      PROVE  IInv'
  BY <1>1, <1>7, AssignGateInv DEF IInv
<1>8. ASSUME NEW p \in Pid, NEW n \in GroupName, ChooseGroup(i, p, n) PROVE IInv'
  BY <1>1, <1>8, ChooseGroupInv DEF IInv
<1>9. ASSUME NEW p \in Pid, NEW by \in User, NEW u \in User, NEW a \in BOOLEAN,
             AddMember(i, by, p, u, a)
      PROVE  IInv'
  BY <1>1, <1>9, AddMemberInv DEF IInv
<1>10. ASSUME NEW p \in Pid, NEW u \in User \union {None}, Upload(i, p, u) PROVE IInv'
  BY <1>1, <1>10, UploadInv DEF IInv
<1>11. ASSUME NEW p \in Pid, DeleteUi(i, p) \/ DeleteApi(i, p) PROVE IInv'
  <2>1. UiLeaves(p) \in SUBSET logs /\ logs \in SUBSET logs
    BY DEF UiLeaves
  <2> QED
    BY <1>1, <1>11, <2>1, DeleteProjectInv DEF DeleteUi, DeleteApi, IInv
<1>12. ASSUME NEW u \in User, NEW P \in SUBSET Pid, Subscribe(i, u, P) PROVE IInv'
  BY <1>1, <1>12, SubscribeInv DEF IInv
<1> QED
  BY <1>2, <1>3, <1>4, <1>5, <1>6, <1>7, <1>8, <1>9, <1>10, <1>11, <1>12 DEF ProjectNext

LEMMA BootNextInv ==
  ASSUME IInv, NEW i \in Instance, BootNext(i)
  PROVE  IInv'
<1>1. ServerInv /\ GatePart /\ ProjectPart
  BY DEF IInv
<1>2. CASE Crash(i)
  <2>1. ProjectPart'
    BY <1>1, <1>2, GateStepProjects, NothingToDo DEF Crash
  <2> QED
    BY <1>1, <1>2, <2>1, CrashInv DEF IInv
<1>3. ASSUME ~Crash(i) PROVE IInv'
  <2>1. ServerInv' /\ GatePart'
    BY <1>1, <1>3, LoadCatalogInv, SeedPresentInv, SeedLookInv, SeedInsertInv, SeedTakenInv,
       SeedPopulateInv, SyncGroupsInv DEF BootNext
  <2>2. UNCHANGED Outside
    BY <1>3 DEF BootNext, LoadCatalog, SeedPresent, SeedLook, SeedInsert, SeedTaken,
                SeedPopulate, SyncGroups
  <2>3. GroupsWanted \subseteq GroupName
    <3>1. \A p \in Projects : projects[p].group \in GroupName
      BY <1>1 DEF ProjectPart, ProjectInv, Projects, ProjectRow
    <3> QED
      BY <3>1, AdministrationAssumption DEF GroupsWanted, AdministrationAssumption
  <2>4. groups' = groups \/ groups' = groups \union GroupsWanted
    BY <1>3 DEF BootNext, LoadCatalog, SeedPresent, SeedLook, SeedInsert, SeedTaken,
                SeedPopulate, SyncGroups
  <2>5. /\ UNCHANGED <<projects, members, doubled, subs, logs, born, op, sqlite>>
        /\ groups' \subseteq GroupName
    BY <1>1, <2>2, <2>3, <2>4 DEF Outside, projectVars, deployment, ProjectPart, BookInv
  <2>6. Projects' = Projects /\ \A j, p, u : Adds(j, p, u)' <=> Adds(j, p, u)
    BY <2>5 DEF Projects, Adds
  <2>7. ProjectPart'
    BY <1>1, <2>5, <2>6 DEF ProjectPart, ProjectInv, MemberInv, BookInv, OneMembership
  <2> QED
    BY <2>1, <2>7 DEF IInv
<1> QED
  BY <1>2, <1>3

LEMMA StutterInv ==
  ASSUME IInv, UNCHANGED vars
  PROVE  IInv'
<1> USE DEF vars, deployment, gateVars, projectVars
<1>1. Gates' = Gates /\ Defaults' = Defaults /\ Projects' = Projects
  BY DEF Gates, Defaults, Projects
<1>2. \A j : /\ Moving(j)' <=> Moving(j)
             /\ Seeding(j)' <=> Seeding(j)
             /\ \A p, u : Adds(j, p, u)' <=> Adds(j, p, u)
  BY DEF Moving, Seeding, Adds
<1>3. ServerInv'
  BY DEF IInv, ServerInv
<1>4. GatePart'
  BY <1>1, <1>2 DEF IInv, GatePart, TypedInv, NamesInv, FlagInv, LapsedInv, Unseeded
<1>5. ProjectPart'
  BY <1>1, <1>2 DEF IInv, ProjectPart, ProjectInv, MemberInv, BookInv, OneMembership
<1> QED
  BY <1>3, <1>4, <1>5 DEF IInv

LEMMA NextInv ==
  ASSUME IInv, [Next]_vars
  PROVE  IInv'
<1>1. ASSUME NEW i \in Instance, GroupNext(i) PROVE IInv'
  BY <1>1, GroupNextInv DEF IInv
<1> QED
  BY <1>1, GateNextInv, ProjectNextInv, BootNextInv, StutterInv DEF Next

LEMMA Invariant == Spec => []IInv
  BY InitInv, NextInv, PTL DEF Spec

-----------------------------------------------------------------------------
\* TypeOK: whatever is renamed, inserted and seeded by whatever instances, no two gates share a
\* name, members have rows of their own, and the log is about projects there were.
THEOREM TypeCorrect == Spec => []TypeOK
<1>1. IInv => TypeOK
  BY DEF IInv, ServerInv, GatePart, TypedInv, NamesInv, ProjectPart, ProjectInv, MemberInv,
         BookInv, TypeOK
<1> QED
  BY Invariant, <1>1, PTL

\* However gates are created, renamed, made default, deleted and seeded, and wherever a commit
\* is refused or a crash cuts a handler, there are two default gates only after two moves of
\* the flag were under way at once, and until the next one that is alone.
THEOREM OneDefault == Spec => []OneDefaultGate
<1>1. IInv => OneDefaultGate
  BY DEF IInv, GatePart, FlagInv, OneDefaultGate
<1> QED
  BY Invariant, <1>1, PTL

\* A user has two rows in a project only after two requests for them were under way at once.
THEOREM OneRole == Spec => []OneMembership
<1>1. IInv => OneMembership
  BY DEF IInv, ProjectPart, MemberInv
<1> QED
  BY Invariant, <1>1, PTL

\* No project is without a gate while nothing is under way, unless the default one lapsed.
THEOREM GateForEach == Spec => []NoFreePass
<1>1. IInv => NoFreePass
  <2> SUFFICES ASSUME IInv, Quiet, NEW p \in Projects, ~lapsed
               PROVE  Verdict(p, Code) = "failed" \/ \E g \in Resolved(p) : gates[g].rules = {}
    BY DEF NoFreePass
  <2>1. Defaults # {}
    <3>1. \A i \in Instance : ~Moving(i)
      <4>1. \A i \in Instance : op[i] = NoOp
        BY DEF Quiet, IInv, ServerInv
      <4> QED
        BY <4>1, NothingToDo DEF Moving
    <3>2. ~Unseeded
      <4>1. PICK i \in Instance : i \in instances
        BY DEF IInv, ServerInv
      <4> QED
        BY <4>1 DEF Quiet, Unseeded
    <3> QED
      BY <3>1, <3>2 DEF IInv, GatePart, LapsedInv
  <2>2. PICK g \in Resolved(p) : g \in Gates
    BY <2>1 DEF Resolved, Defaults
  <2>3. gates[g].rules \subseteq Code
    BY <2>2 DEF Gates, GateRow
  <2> QED
    BY <2>2, <2>3 DEF Verdict
<1> QED
  BY Invariant, <1>1, PTL
==============================================================================
