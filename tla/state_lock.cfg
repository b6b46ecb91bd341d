\* Two clients, two handlers at a time, every fault.
SPECIFICATION FairSpec
CONSTANTS
  Clients = {c1, c2}
  Requests = {r1, r2}
  LockIds = {1, 2, 3, 4, 5}
  RetryMax = 1
  NoLock = NoLock
  NoClient = NoClient
  NoRequest = NoRequest
  Faults = {"lease", "force_unlock", "lock_retry", "unlock_retry", "client_dies", "server_crash"}
INVARIANTS
  TypeOK
  MutualExclusion
  HolderIsRecorded
PROPERTIES
  SerialAcquireTakesOnlyExpired
  SafeReleaseTakesOnlyItsOwn
  OrphanGivesWay
