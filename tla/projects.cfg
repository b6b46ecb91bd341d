SPECIFICATION Spec
CONSTANTS
  Modules = {"network", "app"}
  Configs <- MCConfigs
  ProjRequests = {r1, r2}
  MaxProjServed = 3
  ProjFaults = {"terraform", "abort"}
  ProjectIds = {p1, p2}
  ProjectNames = {"n1", "n2"}
  ProjectUsers = {"u1", "u2"}
  Providers = {"aws"}
  Orgs <- MCOrgs
  CatalogueRequests = {c1, c2}
INVARIANTS
  TypeOK
  DependenciesFirst
  ExecutionAdvances
  StatusMatchesLastRun
  ModulesFollowConfig
SYMMETRY Symmetry
CHECK_DEADLOCK FALSE
