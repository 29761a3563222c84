SPECIFICATION Spec
CONSTANTS
  m1 = m1
  m2 = m2
  Clients = {p1, p2}
  Dirs = {d1, d2}
  ConfKeys = {k1}
  MaxTasks = 2
  MaxKills = 1
  MaxNesting = 2
  MaxChoices = 4
  Aliases <- MCAliases
  RoleNames = {r1, r2}
  MaxRoles = 3
  Machines <- MCMachines
  Retries = 2
  MaxCalls = 2
  MaxReboots = 1
SYMMETRY Symmetry
INVARIANTS
  TypesOK
  
  LinkKept
  
  RolesApart
  SuccessMeansEverywhere
  MarkersComeBack
  SyncedTogether
CHECK_DEADLOCK FALSE
