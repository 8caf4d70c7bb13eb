\* Both databases: two instances, two users, two gates, two groups, one project id.
SPECIFICATION Spec
CONSTANTS
  a = a
  b = b
  root = root
  guest = guest
  standard = standard
  own = own
  v1 = v1
  ungrouped = ungrouped
  team = team
  None = None
  Gone = Gone
  Instance = {a, b}
  User = {root, guest}
  Admin = {root}
  GateName = {standard, own}
  DefaultName = standard
  Code = {v1}
  GroupName = {ungrouped, team}
  DefaultGroups = {ungrouped}
  Ungrouped = ungrouped
  MaxGates = 2
  MaxProjects = 1
  MaxBorn = 2
  MaxRows = 2
  MaxEvents = 3
SYMMETRY Symmetry
INVARIANTS
  TypeOK
  OneDefaultGate
  NoFreePass
  OneMembership
CHECK_DEADLOCK FALSE
