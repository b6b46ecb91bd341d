\* Two clients, two pushes or rollbacks at a time, restarts of the server.
SPECIFICATION StateSpec
CONSTANTS
  Clients = {c1, c2}
  Requests = {r1}
  LockIds = {1, 2, 3, 4}
  NoLock = NoLock
  NoClient = NoClient
  NoRequest = NoRequest
  RetryMax = 1
  Faults = {"client_dies", "server_crash"}
  Writes = {w1, w2}
  RowIds = {1, 2}
  MaxVersions = 2
  MaxSerial = 3
  Uses = {"unlocked_push", "rollback", "delete_state", "prune_failure"}
SYMMETRY Symmetry
INVARIANTS
  StateTypeOK
  RetentionBound
  LockedPushExtendsNewest
PROPERTIES
  NewestNeverGoesBack
  
