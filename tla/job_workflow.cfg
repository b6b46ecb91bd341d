\* Three jobs, which is a plan and two applies of it; two handlers at a time.
SPECIFICATION Spec
CONSTANTS
  Jobs = {1, 2, 3}
  Handlers = {h1, h2}
  NoJob = NoJob
  Submitted = {"plan", "destroy"}
  Faults = {"restart", "workspace_error", "db_error"}
SYMMETRY Symmetry
INVARIANTS
  TypeOK
  
  
  ApprovalComesWithPlan
  HiddenIsOver
  RunningHasTask
PROPERTIES
  SettledIsFinal
