SPECIFICATION Spec
CONSTANTS
  Emails = {u1, u2}
  OrgNames = {acme, beta}
  Keys = {k1}
  Secured = {"w1"}
  Levels = {"read", "admin"}
  Registrations = {g1, g2}
  Workspaces = {"w1"}
  Files = {"main.tf", "net/vpc.tf"}
  Directories = {"net"}
  InDirectory <- MCInDirectory
  TopFiles <- MCTopFiles
  Edits = {x1, x2}
  Sessions = {s1, s2}
  Fixers = {ai}
  ManagerRequests = {m1}
  LLMs = {"anthropic", "openai"}
  DefaultLLM = "anthropic"
  Models = {"gpt-5"}
  DefaultModel <- MCDefaultModel
  Secrets = {"k0", "k1"}
  Clouds = {"aws"}
  CloudKeys = {"id"}
  Containers <- MCContainers
  Learners = {"ann"}
  Chapters = {"basics"}
  Scores = {0, 70}
  PassingScore = 70
  KBRequests = {q1, q2}
  BoardRequests = {b1, b2}
  MaxAttempts = 2
  Steps = 2
  Addresses = {"a", "b"}
  Types <- MCTypes
  DataLossTypes = {"aws_db_instance"}
  SecurityTypes = {"aws_security_group"}
  DowntimeTypes = {"aws_instance"}
  Signal <- MCSignal
  Price <- MCPrice
INVARIANTS
  TypeOK
  OneOrganisation
  
  
  RecordsSayWhatHappened
  BadgesFollowCounts
SYMMETRY Symmetry
CHECK_DEADLOCK FALSE
