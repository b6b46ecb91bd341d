\* An unlock request is sent twice; nothing else goes wrong.
SPECIFICATION Spec
CONSTANTS
  Clients = {c1, c2}
  Requests = {r1, r2}
  LockIds = {1, 2, 3, 4, 5}
  RetryMax = 1
  NoLock = NoLock
  NoClient = NoClient
  NoRequest = NoRequest
  Faults = {"unlock_retry"}
PROPERTIES
  ReleaseTakesOnlyItsOwn
