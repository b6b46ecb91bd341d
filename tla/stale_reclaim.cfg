\* A lease runs out; nothing else goes wrong.
SPECIFICATION Spec
CONSTANTS
  Clients = {c1, c2}
  Requests = {r1, r2}
  LockIds = {1, 2, 3, 4, 5}
  RetryMax = 1
  NoLock = NoLock
  NoClient = NoClient
  NoRequest = NoRequest
  Faults = {"lease"}
PROPERTIES
  AcquireTakesOnlyExpired
