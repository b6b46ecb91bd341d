SPECIFICATION FairSpec
CONSTANTS
  Deliveries = {d1, d2}
  Workspaces = {w1}
  Branches = {"main", "dev"}
  Commits = {c1}
  Receivers = {r1, r2}
  MaxRuns = 1
  MaxCopies = 2
  MaxComments = 2
  VCSFaults = {"restart", "github", "database"}
  Policies = {p1}
  PolicySets = {s1}
  PolicyWorkspaces = {w1}
  PolicyJobs = {j1}
  PolicyRequests = {q1, q2}
  Starters = {p1}
  StarterSet = s1
  Enforcements = {"advisory", "hard-mandatory"}
  MaxResults = 1
  OPAFaults = {"opa", "opa_restart", "server_restart"}
INVARIANTS
  TypeOK
  PendingIsOwned
  OPAFollowsDatabase
  
PROPERTIES
  LivesOnce
  EventsReported
