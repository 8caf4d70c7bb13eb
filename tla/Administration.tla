---------------------------- MODULE Administration ----------------------------
(***************************************************************************)
(* What administrators and users change beside the reports: quality gates, *)
(* the catalogue of warnings, projects with their group, gate, members,    *)
(* subscribers and audit log, and the data a start of the server seeds.    *)
(*                                                                         *)
(* Several instances serve one PostgreSQL database. The handlers of an     *)
(* instance are coroutines that do not await between their commits: it     *)
(* runs one at a time, but between two of its commits the other instances  *)
(* go on, and a crash may cut it. Requests are served while the instance   *)
(* still starts: the seeding runs in a thread beside them.                 *)
(*                                                                         *)
(* Two databases differ: PostgreSQL enforces foreign keys and never uses   *)
(* an id again; SQLite, as db.py opens it, serves one instance, checks no  *)
(* foreign key and gives the id of the deleted last row to the next one.   *)
(* Rows therefore remember which creation of a project (born) they were    *)
(* written for.                                                            *)
(***************************************************************************)
EXTENDS Integers, FiniteSets

CONSTANTS
  Instance,           \* instances of the application
  User, Admin,        \* all users; the admins, the others being viewers
  GateName,           \* names of quality gates
  DefaultName,        \* "Default Quality Gate"
  Code,               \* codes of warnings
  GroupName,          \* names of project groups
  DefaultGroups,      \* those every start of the server creates
  Ungrouped,          \* the one for projects without a group
  MaxGates, MaxProjects,  \* bounds: ids of gates and of projects
  MaxBorn,            \* bound: projects ever created
  MaxRows,            \* bound: membership rows at a time
  MaxEvents,          \* bound: requests that change something, and crashes
  None, Gone          \* no row; a row deleted whose id stays used

Gate == 1..MaxGates
Pid  == 1..MaxProjects
NoGate == 0

ASSUME AdministrationAssumption ==
  /\ Instance # {}
  /\ Admin \subseteq User /\ DefaultName \in GateName
  /\ DefaultGroups \subseteq GroupName /\ Ungrouped \in DefaultGroups
  /\ MaxGates \in Nat /\ MaxProjects \in Nat /\ MaxBorn \in Nat
  /\ MaxRows \in Nat /\ MaxEvents \in Nat
  /\ None \notin GateName \union GroupName \union User

\* A QualityGate with the codes of its rules; has it conditions.
GateRow ==
  [name : GateName, default : BOOLEAN, rules : SUBSET Code, conditions : BOOLEAN]

\* A Project: its creation, the gate assigned to it and its group.
ProjectRow ==
  [born : 1..MaxBorn, gate : Gate \union {NoGate}, group : GroupName]

ASSUME NoneAssumption ==
  None \notin GateRow \union ProjectRow /\ Gone \notin GateRow /\ Gone # None

VARIABLES
  sqlite,     \* the database is SQLite
  instances,  \* the instances that run
  gates,      \* gates[g]: QualityGate with its rules and conditions, None or Gone
  catalog,    \* ErrorClassifier.rule_code
  projects,   \* projects[p]: creation, gate and group of a Project, or None
  groups,     \* ProjectGroup.name
  members,    \* the ProjectMember rows
  subs,       \* the UserProjectNotification rows
  logs,       \* the ActivityLog rows: project id, and whose creation
  op,         \* op[i]: the handler of an instance between two of its commits
  boot,       \* boot[i]: where its start is, and the gate that it seeds
  born,       \* projects ever created
  mixed,      \* the default was last moved while another move was under way
  lapsed,     \* no default gate because somebody unset it, or was cut short
  doubled,    \* <<project, user>> added by two requests at once
  events      \* counter for MaxEvents

gateVars    == <<gates, mixed, lapsed>>
projectVars == <<projects, members, doubled, subs, logs, born>>
deployment  == <<sqlite, instances>>
vars == <<deployment, gateVars, catalog, projectVars, groups, op, boot, events>>

NoOp == [do |-> "nothing"]
At(stage) == [at |-> stage, gate |-> NoGate]

Init ==
  /\ sqlite \in BOOLEAN
  /\ IF sqlite THEN \E i \in Instance : instances = {i} ELSE instances = Instance
  /\ gates = [g \in Gate |-> None]
  /\ catalog = {}
  /\ projects = [p \in Pid |-> None]
  /\ groups = {}
  /\ members = {}
  /\ subs = {}
  /\ logs = {}
  /\ op = [i \in Instance |-> NoOp]
  /\ boot = [i \in Instance |-> At("migrated")]
  /\ born = 0
  /\ mixed = FALSE
  /\ lapsed = FALSE
  /\ doubled = {}
  /\ events = 0

-----------------------------------------------------------------------------
Gates    == {g \in Gate : gates[g] \in GateRow}
Defaults == {g \in Gates : gates[g].default}
Projects == {p \in Pid : projects[p] # None}

\* Gates of a name: what the look for another gate of the name finds, and what
\* the unique name refuses. Seed: neither.
NamedNone(n) == {}
Named(n) == {g \in Gates : gates[g].name = n}

\* The next id: PostgreSQL counts on, SQLite takes the last one plus one.
NewGate == {g \in Gate : /\ g = 1 \/ gates[g - 1] # None
                         /\ \A h \in Gate : gates[h] # None => h < g}
NewPid ==
  LET Used == IF sqlite THEN Projects ELSE 1..born
  IN {p \in Pid : p \notin Used /\ \A q \in Pid : q < p => q \in Used}

\* A handler begins, with a commit after which it still has o to do.
Begin(i, o) ==
  /\ i \in instances /\ op[i] = NoOp
  /\ events < MaxEvents
  /\ events' = events + 1
  /\ op' = [op EXCEPT ![i] = o]
  /\ UNCHANGED deployment

\* A handler goes on, with its next commit.
Then(i, o) ==
  /\ op' = [op EXCEPT ![i] = o]
  /\ UNCHANGED <<deployment, events>>

NewRow(name, default, rules) ==
  [name |-> name, default |-> default, rules |-> rules, conditions |-> FALSE]

\* populate_default_gate_rules: an empty catalogue leaves the rules.
Populated(g) ==
  IF catalog = {} THEN gates ELSE [gates EXCEPT ![g].rules = catalog]

\* Who is about to set the flag of a gate: a handler, or the start that found
\* neither a default gate nor one of its name.
Moving(i)  == op[i].do = "default" \/ (op[i].do = "insert" /\ op[i].default)
Seeding(i) == boot[i].at = "insert"
Moves ==
  {<<i, "request">> : i \in {j \in Instance : Moving(j)}}
    \union {<<i, "start">> : i \in {j \in Instance : Seeding(j)}}

\* A move begins: alone, or beside another one.
BeginMove == mixed' = (Moves # {})

\* _clear_default_flag; seed: the flag of the gate itself stays out of it.
ClearedNone(gs, g) == gs
Cleared(gs, g) ==
  [h \in Gate |-> IF h \in Gates /\ h # g THEN [gs[h] EXCEPT !.default = FALSE]
                                         ELSE gs[h]]

-----------------------------------------------------------------------------
(* Quality gates *)

\* create_quality_gate_api: clears the old default in a commit of its own, then
\* inserts the gate, then its rules.
CreateGate(i, name, default, rules) ==
  /\ Begin(i, [do |-> "insert", name |-> name, default |-> default, rules |-> rules])
  /\ Named(name) = {} /\ NewGate # {}
  /\ IF default THEN gates' = Cleared(gates, NoGate) /\ BeginMove
                ELSE UNCHANGED <<gates, mixed>>
  /\ UNCHANGED <<lapsed, catalog, projectVars, groups, boot>>

InsertGate(i) ==
  /\ op[i].do = "insert" /\ Named(op[i].name) = {}
  /\ \E g \in NewGate :
       /\ gates' = [gates EXCEPT ![g] = NewRow(op[i].name, op[i].default, {})]
       /\ Then(i, IF op[i].rules = {} THEN NoOp
                  ELSE [do |-> "rules", gate |-> g, rules |-> op[i].rules])
  /\ lapsed' = (lapsed /\ ~op[i].default)
  /\ UNCHANGED <<mixed, catalog, projectVars, groups, boot>>

\* set_gate_rules: deletes the old rows and inserts the new ones in one commit.
SetRules(i) ==
  /\ op[i].do = "rules" /\ op[i].gate \in Gates
  /\ gates' = [gates EXCEPT ![op[i].gate].rules = op[i].rules]
  /\ Then(i, NoOp)
  /\ UNCHANGED <<mixed, lapsed, catalog, projectVars, groups, boot>>

\* update_quality_gate_api. Making a gate the default commits its new name with
\* the flags of the others; everything else is committed at once afterwards.
MakeDefault(i, g, name, rules) ==
  /\ Begin(i, [do |-> "default", gate |-> g, rules |-> rules])
  /\ g \in Gates /\ Named(name) \subseteq {g}
  /\ gates' = [Cleared(gates, g) EXCEPT ![g].name = name]
  /\ BeginMove
  /\ UNCHANGED <<lapsed, catalog, projectVars, groups, boot>>

FinishDefault(i) ==
  /\ op[i].do = "default" /\ op[i].gate \in Gates
  /\ gates' = [gates EXCEPT ![op[i].gate].default = TRUE,
                            ![op[i].gate].rules = op[i].rules]
  /\ lapsed' = FALSE
  /\ Then(i, NoOp)
  /\ UNCHANGED <<mixed, catalog, projectVars, groups, boot>>

\* "Cannot unset the only default gate": refused only if there is no other gate.
MayUnset(g) == gates[g].default => Gates # {g}
UpdateGate(i, g, name, unset, rules) ==
  /\ Begin(i, NoOp)
  /\ g \in Gates /\ Named(name) \subseteq {g}
  /\ unset => MayUnset(g)
  /\ gates' = [gates EXCEPT ![g].name = name, ![g].rules = rules,
                            ![g].default = @ /\ ~unset]
  /\ lapsed' = (lapsed \/ (unset /\ Defaults = {g}))
  /\ UNCHANGED <<mixed, catalog, projectVars, groups, boot>>

Assigned(g) == {p \in Projects : projects[p].gate = g}

\* delete_quality_gate_api: what it looks at. Seed: not at the flag.
DeletableAny(g) == Assigned(g) = {}
Deletable(g) == Assigned(g) = {} /\ ~gates[g].default
DeleteGate(i, g) ==
  /\ g \in Gates /\ Deletable(g)
  /\ Begin(i, [do |-> "delete", gate |-> g, seen |-> gates[g]])
  /\ UNCHANGED <<gateVars, catalog, projectVars, groups, boot>>

\* Its commit deletes the rules that were seen. Conditions and later rules would
\* keep a gate id that may not be NULL; projects assigned meanwhile lose theirs.
\* The flag goes with the gate if it came meanwhile.
MayGo(g, seen) == ~gates[g].conditions /\ gates[g].rules \subseteq seen.rules
FinishDelete(i) ==
  /\ op[i].do = "delete" /\ op[i].gate \in Gates /\ MayGo(op[i].gate, op[i].seen)
  /\ gates' = [gates EXCEPT ![op[i].gate] = IF sqlite THEN None ELSE Gone]
  /\ projects' = [p \in Pid |-> IF p \in Assigned(op[i].gate)
                                  THEN [projects[p] EXCEPT !.gate = NoGate]
                                  ELSE projects[p]]
  /\ lapsed' = (lapsed \/ (Defaults = {op[i].gate} /\ ~op[i].seen.default))
  /\ Then(i, NoOp)
  /\ UNCHANGED <<mixed, catalog, members, doubled, subs, logs, born, groups, boot>>

\* add_quality_gate_condition_api
AddCondition(i, g) ==
  /\ Begin(i, NoOp)
  /\ g \in Gates
  /\ gates' = [gates EXCEPT ![g].conditions = TRUE]
  /\ UNCHANGED <<mixed, lapsed, catalog, projectVars, groups, boot>>

\* sync_warnings_catalog: new codes are added, those that are gone stay.
Imported(codes) == catalog \union codes

\* fetch_warning_entries: a catalogue in which nothing can be read is an error.
Fetched == (SUBSET Code) \ {{}}

\* sync_warnings_api: the catalogue, then all of it becomes the default's rules.
SyncWarnings(i, codes) ==
  /\ Begin(i, [do |-> "sync"])
  /\ codes \in Fetched
  /\ catalog' = Imported(codes)
  /\ UNCHANGED <<gateVars, projectVars, groups, boot>>

SyncRules(i) ==
  /\ op[i].do = "sync"
  /\ IF Defaults = {} THEN UNCHANGED gates
                      ELSE \E g \in Defaults : gates' = Populated(g)
  /\ Then(i, NoOp)
  /\ UNCHANGED <<mixed, lapsed, catalog, projectVars, groups, boot>>

\* A later commit is refused: the name was taken meanwhile, the gate or the
\* project is gone, or the rows of the gate do not let it go.
Lost(o) ==
  \/ o.do = "insert" /\ Named(o.name) # {}
  \/ o.do \in {"rules", "default", "delete"} /\ o.gate \notin Gates
  \/ o.do = "delete" /\ o.gate \in Gates /\ ~MayGo(o.gate, o.seen)
  \/ o.do \in {"member", "log"} /\ o.pid \notin Projects

Refused(i) ==
  /\ Lost(op[i])
  /\ Then(i, NoOp)
  /\ lapsed' = (lapsed \/ (Moving(i) /\ Defaults = {}))
  /\ UNCHANGED <<gates, mixed, catalog, projectVars, groups, boot>>

\* resolve_project_quality_gate: the gate assigned, or a default one.
Resolved(p) ==
  IF projects[p].gate \in Gates THEN {projects[p].gate} ELSE Defaults

\* evaluate_quality_gate, of a run with new warnings of these codes.
Verdict(p, codes) ==
  IF \E g \in Resolved(p) : codes \intersect gates[g].rules # {}
    THEN "failed" ELSE "passed"

-----------------------------------------------------------------------------
(* Projects, members, subscribers *)

\* Everybody may look at a project unless it has members.
Rows(p) == {m \in members : m.pid = p}
MayRead(u, p) == Rows(p) = {} \/ \E m \in Rows(p) : m.user = u
MayManage(u, p) ==
  IF \E m \in Rows(p) : m.user = u
    THEN \E m \in Rows(p) : m.user = u /\ m.admin
    ELSE u \in Admin
MayModify(u, p) == MayManage(u, p) \/ u \in Admin

LogOf(p) == [pid |-> p, of |-> projects[p].born]
FreeRow == CHOOSE n \in 1..MaxRows : \A m \in members : m.n # n

\* The row of a new project; its gate is stored as it comes, and then checked by
\* the foreign key, if at all.
GateAccepted(g) == g \in Gates \/ g = NoGate \/ sqlite
CreateProject(p, gate, group) ==
  /\ born < MaxBorn /\ GateAccepted(gate)
  /\ projects' = [projects EXCEPT ![p] =
                    [born |-> born + 1, gate |-> gate, group |-> group]]
  /\ born' = born + 1
  /\ UNCHANGED <<gateVars, catalog, members, doubled, subs, logs, groups, boot>>

\* What is left of an addition to the members once the rows were looked at.
Addition(p, u, admin, creator) ==
  [do |-> "member", pid |-> p, user |-> u, admin |-> admin, creator |-> creator]

\* create_project_api: takes gate and group as they come; the creator becomes a
\* member and a line goes to the log, in commits of their own.
CreateApi(i, u, p, gate, group) ==
  /\ Begin(i, Addition(p, u, TRUE, TRUE))
  /\ CreateProject(p, gate, group)

\* create_project_ui: no gate, no group, no member, no line; a report that comes
\* with it is an upload as any other.
CreateUi(i, p) == Begin(i, NoOp) /\ CreateProject(p, NoGate, Ungrouped)

\* get_group_name_by_id: the name of the group, or of one of the built-in list.
Choosable == groups \union DefaultGroups

\* project_create_submit, create_ci_project
CreateCi(i, p, group) ==
  /\ Begin(i, NoOp)
  /\ group \in Choosable
  /\ CreateProject(p, NoGate, group)

\* add_project_member_api: looks for a row of the user; no constraint backs it.
\* Seed: without the look.
NewMemberAny(u, p) == TRUE
NewMember(u, p) == \A m \in Rows(p) : m.user # u
Adding(u, p) ==
  \E j \in Instance : op[j].do = "member" /\ op[j].pid = p /\ op[j].user = u
AddMember(i, by, p, u, admin) ==
  /\ Begin(i, Addition(p, u, admin, FALSE))
  /\ p \in Projects /\ MayManage(by, p) /\ NewMember(u, p)
  /\ doubled' = IF Adding(u, p) THEN doubled \union {<<p, u>>} ELSE doubled
  /\ UNCHANGED <<gateVars, catalog, projects, members, subs, logs, born, groups, boot>>

\* The row of a member; that of the creator of a project is followed by the log.
InsertMember(i) ==
  /\ op[i].do = "member" /\ op[i].pid \in Projects
  /\ Cardinality(members) < MaxRows
  /\ members' = members \union
       {[n |-> FreeRow, pid |-> op[i].pid, user |-> op[i].user, admin |-> op[i].admin]}
  /\ Then(i, IF op[i].creator THEN [do |-> "log", pid |-> op[i].pid] ELSE NoOp)
  /\ UNCHANGED <<gateVars, catalog, projects, doubled, subs, logs, born, groups, boot>>

WriteLog(i) ==
  /\ op[i].do = "log" /\ op[i].pid \in Projects
  /\ logs' = logs \union {LogOf(op[i].pid)}
  /\ Then(i, NoOp)
  /\ UNCHANGED <<gateVars, catalog, projects, members, doubled, subs, born, groups, boot>>

\* update_project_api
AssignGate(i, u, p, g) ==
  /\ Begin(i, [do |-> "log", pid |-> p])
  /\ p \in Projects /\ MayModify(u, p) /\ GateAccepted(g)
  /\ projects' = [projects EXCEPT ![p].gate = g]
  /\ UNCHANGED <<gateVars, catalog, members, doubled, subs, logs, born, groups, boot>>

\* project_ci_update: the group is chosen by its id.
ChooseGroup(i, p, group) ==
  /\ Begin(i, NoOp)
  /\ p \in Projects /\ group \in Choosable
  /\ projects' = [projects EXCEPT ![p].group = group]
  /\ UNCHANGED <<gateVars, catalog, members, doubled, subs, logs, born, groups, boot>>

\* update_my_notifications: replaces the whole list, or nothing.
Subscribe(i, u, P) ==
  /\ Begin(i, NoOp)
  /\ \A p \in P : p \in Projects /\ MayRead(u, p)
  /\ subs' = {s \in subs : s.user # u} \union {[user |-> u, pid |-> p] : p \in P}
  /\ UNCHANGED <<gateVars, catalog, projects, members, doubled, logs, born, groups, boot>>

\* The end of upload_report_api: the author of the commit subscribes, if it is a
\* user who may, and a line is logged. The run is that of module RunTracking.
Upload(i, p, u) ==
  /\ Begin(i, NoOp)
  /\ p \in Projects
  /\ logs' = logs \union {LogOf(p)}
  /\ subs' = IF u # None /\ MayRead(u, p)
               THEN subs \union {[user |-> u, pid |-> p]} ELSE subs
  /\ UNCHANGED <<gateVars, catalog, projects, members, doubled, born, groups, boot>>

\* The log that is left: delete_project_ui clears it, delete_project_api does not.
UiLeaves(p) == {l \in logs : l.pid # p}

\* The relationship to the subscribers sets their project to NULL, which the
\* table forbids: a project with subscribers is not deleted.
NoSubscriber(p) == \A s \in subs : s.pid # p

DeleteProject(i, p, rest) ==
  /\ Begin(i, NoOp)
  /\ p \in Projects /\ NoSubscriber(p)
  /\ sqlite \/ \A l \in rest : l.pid # p
  /\ projects' = [projects EXCEPT ![p] = None]
  /\ members' = members \ Rows(p)
  /\ logs' = rest
  /\ UNCHANGED <<gateVars, catalog, doubled, subs, born, groups, boot>>

DeleteUi(i, p)  == DeleteProject(i, p, UiLeaves(p))
DeleteApi(i, p) == DeleteProject(i, p, logs)

-----------------------------------------------------------------------------
(* Groups: create_group, update_group, delete_group *)

CreateGroup(i, n) ==
  /\ Begin(i, NoOp)
  /\ n \notin groups
  /\ groups' = groups \union {n}
  /\ UNCHANGED <<gateVars, catalog, projectVars, boot>>

\* The projects keep the old name.
RenameGroup(i, n, m) ==
  /\ Begin(i, NoOp)
  /\ n \in groups /\ m \notin groups
  /\ groups' = (groups \ {n}) \union {m}
  /\ UNCHANGED <<gateVars, catalog, projectVars, boot>>

DeleteGroup(i, n) ==
  /\ Begin(i, NoOp)
  /\ n \in groups /\ \A p \in Projects : projects[p].group # n
  /\ groups' = groups \ {n}
  /\ UNCHANGED <<gateVars, catalog, projectVars, boot>>

-----------------------------------------------------------------------------
(* Start of the server: _run_startup_init, create_default_quality_gate *)

Boot(i, from, to) ==
  /\ i \in instances /\ boot[i].at = from
  /\ boot' = [boot EXCEPT ![i] = to]
Outside == <<deployment, projectVars, op, events>>

LoadCatalog(i, codes) ==
  /\ Boot(i, "migrated", At("loaded"))
  /\ catalog' = IF catalog = {} THEN codes ELSE catalog
  /\ UNCHANGED <<gateVars, groups, Outside>>

\* A default gate, or else the one of that name, which does not become default.
SeedFound == IF Defaults # {} THEN Defaults ELSE Named(DefaultName)

SeedPresent(i) ==
  /\ Boot(i, "loaded", At("seeded"))
  /\ \E g \in SeedFound : gates' = IF gates[g].rules = {} THEN Populated(g) ELSE gates
  /\ lapsed' = (lapsed \/ Defaults = {})
  /\ UNCHANGED <<mixed, catalog, groups, Outside>>

SeedLook(i) ==
  /\ Boot(i, "loaded", At("insert"))
  /\ SeedFound = {}
  /\ BeginMove
  /\ UNCHANGED <<gates, lapsed, catalog, groups, Outside>>

SeedInsert(i) ==
  /\ Named(DefaultName) = {}
  /\ \E g \in NewGate :
       /\ Boot(i, "insert", [at |-> "populate", gate |-> g])
       /\ gates' = [gates EXCEPT ![g] = NewRow(DefaultName, TRUE, {})]
  /\ lapsed' = FALSE
  /\ UNCHANGED <<mixed, catalog, groups, Outside>>

\* IntegrityError: the name was taken meanwhile, and that gate will do.
SeedTaken(i) ==
  /\ Boot(i, "insert", At("seeded"))
  /\ Named(DefaultName) # {}
  /\ lapsed' = (lapsed \/ Defaults = {})
  /\ UNCHANGED <<gates, mixed, catalog, groups, Outside>>

\* Without its gate the start fails, and the instance is never ready.
SeedPopulate(i) ==
  /\ Boot(i, "populate", At("seeded"))
  /\ boot[i].gate \in Gates
  /\ gates' = Populated(boot[i].gate)
  /\ UNCHANGED <<mixed, lapsed, catalog, groups, Outside>>

\* _sync_project_groups
GroupsWanted == DefaultGroups \union {projects[p].group : p \in Projects}
SyncGroups(i) ==
  /\ Boot(i, "seeded", At("ready"))
  /\ groups' = groups \union GroupsWanted
  /\ UNCHANGED <<gateVars, catalog, Outside>>

\* A process dies and a new one starts; a handler loses its later commits.
Crash(i) ==
  /\ i \in instances /\ events < MaxEvents
  /\ events' = events + 1
  /\ boot' = [boot EXCEPT ![i] = At("migrated")]
  /\ op' = [op EXCEPT ![i] = NoOp]
  /\ lapsed' = (lapsed \/ (Moving(i) /\ Defaults = {}))
  /\ UNCHANGED <<deployment, gates, mixed, catalog, projectVars, groups>>

-----------------------------------------------------------------------------
GateNext(i) ==
  \/ \E n \in GateName, d \in BOOLEAN, R \in SUBSET Code : CreateGate(i, n, d, R)
  \/ InsertGate(i)
  \/ SetRules(i)
  \/ \E g \in Gate, n \in GateName, R \in SUBSET Code :
       MakeDefault(i, g, n, R) \/ (\E unset \in BOOLEAN : UpdateGate(i, g, n, unset, R))
  \/ FinishDefault(i)
  \/ \E g \in Gate : DeleteGate(i, g) \/ AddCondition(i, g)
  \/ FinishDelete(i)
  \/ \E C \in SUBSET Code : SyncWarnings(i, C)
  \/ SyncRules(i)
  \/ Refused(i)

ProjectNext(i) ==
  \/ \E p \in NewPid :
       \/ \E n \in GroupName :
            \/ CreateCi(i, p, n)
            \/ \E u \in User, g \in Gate \union {NoGate} : CreateApi(i, u, p, g, n)
       \/ CreateUi(i, p)
  \/ InsertMember(i)
  \/ WriteLog(i)
  \/ \E p \in Pid :
       \/ \E u \in User, g \in Gate \union {NoGate} : AssignGate(i, u, p, g)
       \/ \E n \in GroupName : ChooseGroup(i, p, n)
       \/ \E by, u \in User, a \in BOOLEAN : AddMember(i, by, p, u, a)
       \/ \E u \in User \union {None} : Upload(i, p, u)
       \/ DeleteUi(i, p)
       \/ DeleteApi(i, p)
  \/ \E u \in User, P \in SUBSET Pid : Subscribe(i, u, P)

GroupNext(i) ==
  \E n \in GroupName :
    CreateGroup(i, n) \/ DeleteGroup(i, n) \/ \E m \in GroupName : RenameGroup(i, n, m)

BootNext(i) ==
  \/ \E C \in SUBSET Code : LoadCatalog(i, C)
  \/ SeedPresent(i)
  \/ SeedLook(i)
  \/ SeedInsert(i)
  \/ SeedTaken(i)
  \/ SeedPopulate(i)
  \/ SyncGroups(i)
  \/ Crash(i)

Next ==
  \E i \in Instance : GateNext(i) \/ ProjectNext(i) \/ GroupNext(i) \/ BootNext(i)

Spec == Init /\ [][Next]_vars

-----------------------------------------------------------------------------
(* Properties *)

MemberRow == [n : 1..MaxRows, pid : Pid, user : User, admin : BOOLEAN]

\* What a handler may have left to do.
Handler ==
  {NoOp, [do |-> "sync"]}
    \union [do : {"insert"}, name : GateName, default : BOOLEAN, rules : SUBSET Code]
    \union [do : {"rules", "default"}, gate : Gate, rules : SUBSET Code]
    \union [do : {"delete"}, gate : Gate, seen : GateRow]
    \union [do : {"member"}, pid : Pid, user : User, admin : BOOLEAN, creator : BOOLEAN]
    \union [do : {"log"}, pid : Pid]

Start ==
  [at : {"migrated", "loaded", "insert", "populate", "seeded", "ready"},
   gate : Gate \union {NoGate}]

\* The type invariant; two gates never share a name, for all the renaming.
TypeOK ==
  /\ gates \in [Gate -> GateRow \union {None, Gone}]
  /\ projects \in [Pid -> ProjectRow \union {None}]
  /\ members \subseteq MemberRow
  /\ subs \subseteq [user : User, pid : Pid]
  /\ logs \subseteq [pid : Pid, of : 1..MaxBorn]
  /\ catalog \subseteq Code /\ groups \subseteq GroupName
  /\ op \in [Instance -> Handler] /\ boot \in [Instance -> Start]
  /\ mixed \in BOOLEAN /\ lapsed \in BOOLEAN
  /\ doubled \subseteq Pid \X User
  /\ \A g, h \in Gates : gates[g].name = gates[h].name => g = h

\* Two gates are default only after two moves of the flag were under way at once,
\* on two instances or beside a start, and only until the next one that is alone:
\* no rename, deletion, refused commit, crash or restart makes a second one, so
\* otherwise the gate an upload is judged by is not left to the database.
OneDefaultGate == mixed \/ \A g, h \in Defaults : g = h

\* No handler is between two commits, and every start is over.
Quiet == \A i \in instances : op[i] = NoOp /\ boot[i].at = "ready"

\* A project whose uploads pass whatever they add has a gate without rules, or
\* somebody unset the default gate, or its move was cut short or refused, or it
\* became the default while it was being deleted, or a start found a gate of its
\* name that is no default: deleting and renaming gates otherwise, and restarts,
\* never take the gate away.
NoFreePass ==
  Quiet => \A p \in Projects :
             \/ Verdict(p, Code) = "failed"
             \/ \E g \in Resolved(p) : gates[g].rules = {}
             \/ lapsed

\* A user has two rows in a project only after two requests that added them were
\* under way at once. No constraint of the table says so: otherwise the creator's
\* row and the invitations never meet, and get_user_project_role does not depend
\* on the order in which the database returns rows.
OneMembership ==
  \A m, k \in members :
    m.pid = k.pid /\ m.user = k.user => m = k \/ <<m.pid, m.user>> \in doubled
=============================================================================
